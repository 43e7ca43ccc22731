----------------------------- MODULE Interpreter -----------------------------
(***************************************************************************)
(* Interpretation of a plan (interpreter.cpp): the visits build a query of *)
(* the database, start() executes it.  There are two callers:              *)
(*                                                                         *)
(*  - run_parallel, with the arguments that the client passes to the       *)
(*    compiled code; the client may call the one and the other in any      *)
(*    order.  It interprets no plan with a join.                           *)
(*  - run after a generate that did not wait, with arguments of its own    *)
(*    that nobody has filled; it goes on to the compiled code, with the    *)
(*    same result set.  A second such run is the crash of QueryEngine.     *)
(*                                                                         *)
(* The database's query operators are external: one per operator of a      *)
(* plan, with the meaning the module Pipeline gives that operator, except  *)
(* that a property predicate is applied to the last node of a tuple.       *)
(***************************************************************************)
EXTENDS Pipeline

VARIABLES
  op_id_,      \* global: the next argument slot
  iv,          \* the visitor: its caller, next position, queries_, and of its
               \* filter visitor val_type_ and dict_value_
  interpreted  \* the result set of the last interpretation, Null before it

ivars == <<op_id_, iv, interpreted>>
interprete_visitor(caller) ==
  [caller |-> caller, at |-> 1, queries |-> <<>>, val_type |-> Null, dict_value |-> Null]

InterpreterInit ==
  /\ Init
  /\ op_id_ = 1 /\ iv = interprete_visitor(Null) /\ interpreted = Null

\* string_args and int_args: a slot that nobody has filled holds a default.
Given(slot) ==
  IF iv.caller = "run_parallel" /\ slot \in DOMAIN GivenArgs THEN GivenArgs[slot] ELSE ""

compiledCode == <<static, graph, pc, fr, env, args, rhs_input_, fev, descs, out, base, clean>>

Interpret ==
  /\ phase = "idle" /\ status = "ok" /\ calls < MaxCall
  /\ Len(plan) = 1
  /\ phase' = "interpret" /\ calls' = calls + 1
  /\ iv' = interprete_visitor("run_parallel")
  /\ UNCHANGED <<compiledCode, status, op_id_, interpreted>>

RunInterpreted ==
  /\ phase = "idle" /\ status = "ok" /\ calls = 0
  /\ phase' = "interpret" /\ calls' = 1
  /\ iv' = interprete_visitor("run")
  /\ UNCHANGED <<compiledCode, status, op_id_, interpreted>>

-----------------------------------------------------------------------------
Iop == OpAt(<<1, iv.at>>)
Interpreting(types) ==
  /\ phase = "interpret" /\ status = "ok"
  /\ iv.at \in DOMAIN plan[1] /\ Iop.type \in types
Extending(types) == Interpreting(types) /\ iv.queries # <<>>
Quiet == UNCHANGED <<compiledCode, phase, calls>>

\* The query on top of the stack, with one more operator.
Extended(op) == Append(Front(iv.queries), Append(Last(iv.queries), op))

\* Without a scan there is no query to take from the stack.
InterpretWithoutQuery ==
  /\ Interpreting({"foreach_rship", "expand", "filter", "project", "collect"})
  /\ iv.queries = <<>>
  /\ status' = "crashed"
  /\ UNCHANGED ivars /\ Quiet

\* codegen visits a join before its right-hand side, while there is one query:
\* taking a second one from the stack is undefined behaviour.
InterpretJoin ==
  /\ Interpreting({"cross_join", "left_join"})
  /\ status' = "crashed"
  /\ UNCHANGED ivars /\ Quiet

\* Creates nothing and takes no arguments.
InterpretCreate ==
  /\ Interpreting({"create"})
  /\ iv' = [iv EXCEPT !.at = @ + 1]
  /\ UNCHANGED <<op_id_, status, interpreted>> /\ Quiet

\* An index scan is interpreted as a scan, with the label of its index.
InterpretScan ==
  /\ Interpreting({"scan"})
  /\ iv' = [iv EXCEPT !.at = @ + 1, !.queries = Append(@, <<Scan(Given(op_id_))>>)]
  /\ op_id_' = op_id_ + 1
  /\ UNCHANGED <<status, interpreted>> /\ Quiet

\* A traversal of variable length is followed in its direction.
InterpretTraversal ==
  /\ Extending({"foreach_rship", "expand"})
  /\ iv' = [iv EXCEPT !.at = @ + 1,
                      !.queries = Extended([Iop EXCEPT !.label = Given(op_id_)])]
  /\ op_id_' = op_id_ + 1
  /\ UNCHANGED <<status, interpreted>> /\ Quiet

\* The filter visitor keeps the type and the value of the operand visited last;
\* and, or and functions leave both alone.  A predicate whose operand's type was
\* never set is one that no branch of get_pred returns.
InterpretFilter ==
  /\ Extending({"filter"})
  /\ LET e == Iop.fexpr
         last == IF e.kind \in {"and", "or"} THEN e.right ELSE e
         type == IF last.kind = "eq" THEN last.operand ELSE iv.val_type
     IN IF type = Null
        THEN status' = "crashed" /\ UNCHANGED iv
        ELSE /\ iv' = [iv EXCEPT !.at = @ + 1,
                                 !.queries = Extended([Iop EXCEPT !.label = type]),
                                 !.val_type = type,
                                 !.dict_value = IF last.kind = "eq" /\ type = "str"
                                                THEN last.value ELSE @]
             /\ UNCHANGED status
  /\ op_id_' = op_id_ + 1
  /\ UNCHANGED interpreted /\ Quiet

\* There is no case for BOOLEAN: an expression with the key Keep is pushed as it was
\* constructed, without a function to call.
InterpretProject ==
  /\ Extending({"project"})
  /\ iv' = [iv EXCEPT !.at = @ + 1, !.queries = Extended(Iop)]
  /\ UNCHANGED <<op_id_, status, interpreted>> /\ Quiet

\* Both change query_, which start() does not execute.
InterpretSortOrLimit ==
  /\ Interpreting({"sort", "limit"})
  /\ iv' = [iv EXCEPT !.at = @ + 1]
  /\ UNCHANGED <<op_id_, status, interpreted>> /\ Quiet

InterpretCollect ==
  /\ Extending({"collect"})
  /\ iv' = [iv EXCEPT !.at = @ + 1, !.queries = Extended(Collect)]
  /\ UNCHANGED <<op_id_, status, interpreted>> /\ Quiet

\* A predicate reads the visitor when it is evaluated: a number is the argument
\* in slot 2, a string the one visited last.
Operand(op) == IF op.label = "int" THEN Given(2) ELSE iv.dict_value
Process(op, rows) ==
  IF op.type = "filter"
  THEN Kept(rows, {i \in DOMAIN rows : PropertyOf(Last(rows[i])) = Operand(op)})
  ELSE Apply(op, rows, <<>>)

QueryRows(q, k) ==
  LET rows[j \in 0..Len(q)] == IF j = 0 THEN <<>> ELSE Process(q[j], rows[j - 1])
  IN rows[k]

\* A projection of a tuple throws, by an expression without a function or by one of a
\* register that the tuple does not have, for a create operator has left it out.
Fails(q) ==
  \E k \in DOMAIN q : \E i \in DOMAIN q[k].prexpr :
    \E j \in DOMAIN QueryRows(q, k - 1) :
      LET e == q[k].prexpr[i]
      IN e.key = Keep \/ e.id + 1 \notin DOMAIN QueryRows(q, k - 1)[j]

Delivered == FlattenSeq([i \in DOMAIN iv.queries |->
                        QueryRows(iv.queries[i], Len(iv.queries[i]))])

\* start() executes the queries; run then calls the compiled code.
StartThen(next) ==
  /\ phase = "interpret" /\ status = "ok" /\ iv.at > Len(plan[1])
  /\ IF \E i \in DOMAIN iv.queries : Fails(iv.queries[i])
     THEN status' = "crashed" /\ UNCHANGED <<compiledCode, interpreted, op_id_, phase>>
     ELSE /\ op_id_' = next
          /\ IF iv.caller = "run" THEN CallStart(Delivered) /\ UNCHANGED interpreted
             ELSE interpreted' = Delivered /\ phase' = "idle" /\ UNCHANGED compiledCode
          /\ UNCHANGED status
  /\ UNCHANGED <<calls, iv>>

\* (Mutant: the slot counter is not set back.)
InterpretStartNoReset == StartThen(op_id_)

InterpretStart == StartThen(1)

InterpretStep ==
  \/ InterpretWithoutQuery \/ InterpretJoin \/ InterpretCreate
  \/ InterpretScan \/ InterpretTraversal \/ InterpretFilter \/ InterpretProject
  \/ InterpretSortOrLimit \/ InterpretCollect \/ InterpretStart

InterpreterNext ==
  \/ CompileOrCall /\ UNCHANGED ivars
  \/ SetProperty /\ interpreted' = Null /\ UNCHANGED <<op_id_, iv>>
  \/ Interpret \/ RunInterpreted
  \/ InterpretStep

allVars == <<vars, ivars>>

\* As in Pipeline.
InterpreterSpec ==
  /\ InterpreterInit /\ [][InterpreterNext]_allVars
  /\ WF_allVars(Compile /\ UNCHANGED <<runtime, ivars>>)
  /\ WF_allVars(Execute /\ UNCHANGED ivars)
-----------------------------------------------------------------------------
Strings == {k \in DOMAIN plan[1] :
  LET op == plan[1][k]
  IN op.type = "filter" /\ op.fexpr.kind = "eq" /\ op.fexpr.operand = "str"}

\* What the interpreter supports: no limit and no sort, which it ignores, no
\* index scan, nothing created, properties only in a projection, comparisons only,
\* of the last node, one with a string, and with a number only in slot 2.
Interpretable ==
  /\ Len(plan) = 1
  /\ \A k \in DOMAIN plan[1] :
       LET op == plan[1][k]
       IN /\ op.type \notin {"sort", "limit", "create"} /\ ~op.indexed
          /\ \A i \in DOMAIN op.prexpr : op.prexpr[i].key # Keep
          /\ op.type = "filter" =>
               /\ op.fexpr.kind = "eq"
               /\ op.fexpr.qr_id + 1 = Len(FoundTypes(<<1, k>>))
               /\ op.fexpr.operand = "int" => k = 2
  /\ \A j, k \in Strings : j = k

\* The interpreter delivers the tuples the plan describes, as the compiled code
\* does by DeliversResult, whichever of them was called before: execution can
\* switch from one to the other.
InterpretsPlan ==
  phase = "idle" /\ interpreted # Null /\ Interpretable => interpreted = Result(1)
=============================================================================
