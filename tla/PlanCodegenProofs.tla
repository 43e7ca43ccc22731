-------------------------- MODULE PlanCodegenProofs --------------------------
(***************************************************************************)
(* The invariant of PlanCodegen is kept by every step of the compilation,  *)
(* for any set of plans, of any number and length of pipelines.            *)
(***************************************************************************)
EXTENDS PlanCodegen, SequenceTheorems, WellFoundedInduction, TLAPS

(***************************************************************************)
(* Positions of a plan.                                                    *)
(***************************************************************************)
LEMMA PositionFacts ==
  /\ \A x \in Positions : /\ x = <<x[1], x[2]>> /\ x[1] \in DOMAIN plan
                          /\ x[2] \in DOMAIN plan[x[1]]
  /\ \A p \in DOMAIN plan : \A k : k \in DOMAIN plan[p] => <<p, k>> \in Positions
  BY DEF Positions

\* A plan, one pipeline and one operator at a time.
LEMMA PlanFacts ==
  ASSUME plan \in Plans
  PROVE  /\ 1 \in DOMAIN plan
         /\ \A p \in DOMAIN plan :
              /\ p \in Nat /\ p >= 1 /\ Len(plan[p]) \in Nat /\ Len(plan[p]) >= 1
              /\ DOMAIN plan[p] = 1..Len(plan[p])
              /\ plan[p][1].type \in {"scan", "create"}
              /\ plan[p][Len(plan[p])].type = IF p = 1 THEN "collect" ELSE "none"
              /\ p # 1 => \E x \in JoinPositions : RhsOf(x) = p /\ x[1] < p
         /\ \A x \in Positions :
              /\ x[1] \in Nat /\ x[1] >= 1 /\ x[2] \in 1..Len(plan[x[1]])
              /\ IsLeaf(OpAt(x)) => x[2] = Len(plan[x[1]])
              /\ OpAt(x).type = "scan" => x[2] = 1
              /\ ~IsLeaf(OpAt(x)) => x[2] < Len(plan[x[1]]) /\ Succ(x) \in Positions
         /\ \A x \in JoinPositions : RhsOf(x) \in DOMAIN plan /\ x[1] < RhsOf(x) /\ RhsOf(x) > 1
  <1>1. IsPlan(plan)
    BY PlansAssumption
  <1>2. \A p \in DOMAIN plan :
          /\ p \in Nat /\ p >= 1 /\ Len(plan[p]) \in Nat /\ Len(plan[p]) >= 1
          /\ DOMAIN plan[p] = 1..Len(plan[p])
          /\ plan[p][1].type \in {"scan", "create"}
          /\ plan[p][Len(plan[p])].type = IF p = 1 THEN "collect" ELSE "none"
    <2>1. \A p \in DOMAIN plan : IsSequence(plan[p]) /\ plan[p] # <<>>
      BY <1>1 DEF IsPlan
    <2>2. \A p \in DOMAIN plan : Len(plan[p]) \in Nat /\ DOMAIN plan[p] = 1..Len(plan[p])
      BY <2>1 DEF IsSequence
    <2>3. \A p \in DOMAIN plan : Len(plan[p]) # 0
      BY <2>1 DEF IsSequence
    <2> QED
      BY <1>1, <2>2, <2>3 DEF IsPlan
  <1>3. ASSUME NEW p \in DOMAIN plan, p # 1
        PROVE  \E x \in JoinPositions : RhsOf(x) = p /\ x[1] < p
    <2>1. PICK q \in DOMAIN plan : q < p /\ \E k \in DOMAIN plan[q] :
                                     IsJoin(plan[q][k]) /\ plan[q][k].rhs = p
      BY <1>1, <1>3 DEF IsPlan
    <2>2. PICK k \in DOMAIN plan[q] : IsJoin(plan[q][k]) /\ plan[q][k].rhs = p
      BY <2>1
    <2>3. <<q, k>> \in JoinPositions /\ RhsOf(<<q, k>>) = p /\ <<q, k>>[1] < p
      BY <2>1, <2>2, PositionFacts DEF JoinPositions, OpAt, RhsOf
    <2> QED
      BY <2>3
  <1>4. ASSUME NEW x \in Positions
        PROVE  /\ x[1] \in Nat /\ x[1] >= 1 /\ x[2] \in 1..Len(plan[x[1]])
               /\ IsLeaf(OpAt(x)) => x[2] = Len(plan[x[1]])
               /\ OpAt(x).type = "scan" => x[2] = 1
               /\ ~IsLeaf(OpAt(x)) => x[2] < Len(plan[x[1]]) /\ Succ(x) \in Positions
    <2>1. x[1] \in DOMAIN plan /\ x[2] \in DOMAIN plan[x[1]]
      BY PositionFacts
    <2>2. /\ IsLeaf(OpAt(x)) => x[2] = Len(plan[x[1]])
          /\ OpAt(x).type = "scan" => x[2] = 1
      BY <1>1, <2>1 DEF IsPlan, OpAt
    <2>3. x[1] \in Nat /\ x[1] >= 1 /\ x[2] \in 1..Len(plan[x[1]]) /\ Len(plan[x[1]]) \in Nat
      BY <1>2, <2>1
    <2>4. ASSUME ~IsLeaf(OpAt(x)) PROVE x[2] < Len(plan[x[1]]) /\ Succ(x) \in Positions
      <3>1. x[2] # Len(plan[x[1]])
        BY <1>2, <2>1, <2>4 DEF IsLeaf, OpAt
      <3>2. x[2] + 1 \in DOMAIN plan[x[1]]
        BY <1>2, <2>1, <2>3, <3>1
      <3> QED
        BY <2>1, <2>3, <3>1, <3>2, PositionFacts DEF Succ
    <2> QED
      BY <2>2, <2>3, <2>4
  <1>5. ASSUME NEW x \in JoinPositions
        PROVE  RhsOf(x) \in DOMAIN plan /\ x[1] < RhsOf(x) /\ RhsOf(x) > 1
    <2>1. x[1] \in DOMAIN plan /\ x[2] \in DOMAIN plan[x[1]] /\ IsJoin(plan[x[1]][x[2]])
      BY PositionFacts DEF JoinPositions, OpAt
    <2>2. RhsOf(x) \in DOMAIN plan /\ x[1] < RhsOf(x)
      BY <1>1, <2>1 DEF IsPlan, OpAt, RhsOf
    <2> QED
      BY <1>2, <2>1, <2>2
  <1> QED
    BY <1>1, <1>2, <1>3, <1>4, <1>5 DEF IsPlan

-----------------------------------------------------------------------------
(***************************************************************************)
(* Types, as far as the invariant needs them.                              *)
(***************************************************************************)
LabelsOf == {OpAt(x).label : x \in Positions} \cup {""}

CodegenType ==
  /\ op_id \in Nat
  /\ todo \in Seq(Nat)
  /\ cv = [main_return |-> cv.main_return, prev_bb |-> cv.prev_bb,
           scan_nodes_end |-> cv.scan_nodes_end, regs |-> cv.regs,
           project_string |-> cv.project_string, jids |-> cv.jids,
           query_id_inline |-> cv.query_id_inline, entry |-> cv.entry,
           expr_register |-> cv.expr_register]
  /\ cv.jids \in Seq(Nat) /\ cv.query_id_inline \in Nat
  /\ cv.entry \in Seq(Nat)
  /\ \A x \in DOMAIN code :
       /\ code[x] = [op_id |-> code[x].op_id, ret |-> code[x].ret, regs |-> code[x].regs,
                     keys |-> code[x].keys, end |-> code[x].end, jid |-> code[x].jid,
                     cmp |-> code[x].cmp, next |-> code[x].next]
       /\ code[x].op_id \in Nat
  /\ walk = [cur |-> walk.cur, recur |-> walk.recur, args |-> walk.args, finish |-> walk.finish]
  /\ walk.recur \in Seq(Nat) /\ walk.args \in Seq(LabelsOf)

\* The visited operator's blocks are added; of the others, none changes its
\* slot or its identifier.
Emitted(jid) ==
  /\ DOMAIN code' = DOMAIN code \cup {at}
  /\ code'[at].op_id = op_id /\ code'[at].jid = jid
  /\ \A x \in DOMAIN code : x # at => code'[x].op_id = code[x].op_id /\ code'[x].jid = code[x].jid
  /\ \A x \in DOMAIN code' :
       code'[x] = [op_id |-> code'[x].op_id, ret |-> code'[x].ret, regs |-> code'[x].regs,
                   keys |-> code'[x].keys, end |-> code'[x].end, jid |-> code'[x].jid,
                   cmp |-> code'[x].cmp, next |-> code'[x].next]

LEMMA EmitFacts ==
  ASSUME CodegenType, NEW prev, NEW jid, NEW cmp, EmitTest(prev, jid, cmp)
  PROVE  Emitted(jid)
  <1>1. DOMAIN code' = DOMAIN code \cup {at}
    BY DEF EmitTest
  <1>2. code'[at] = [op_id |-> op_id, ret |-> cv.main_return, regs |-> cv.regs,
                     keys |-> cv.project_string, end |-> cv.scan_nodes_end,
                     jid |-> jid, cmp |-> cmp, next |-> Null]
    BY DEF EmitTest
  <1>3. ASSUME NEW x \in DOMAIN code, x # at
        PROVE  code'[x] = [op_id |-> code[x].op_id, ret |-> code[x].ret, regs |-> code[x].regs,
                           keys |-> code[x].keys, end |-> code[x].end, jid |-> code[x].jid,
                           cmp |-> code[x].cmp, next |-> code'[x].next]
    <2>1. code'[x] = IF x = prev THEN [code[x] EXCEPT !.next = at] ELSE code[x]
      BY <1>3 DEF EmitTest
    <2>2. code[x] = [op_id |-> code[x].op_id, ret |-> code[x].ret, regs |-> code[x].regs,
                     keys |-> code[x].keys, end |-> code[x].end, jid |-> code[x].jid,
                     cmp |-> code[x].cmp, next |-> code[x].next]
      BY DEF CodegenType
    <2> QED
      BY <2>1, <2>2
  <1> QED
    BY <1>1, <1>2, <1>3 DEF Emitted

-----------------------------------------------------------------------------
(***************************************************************************)
(* The visits are of four kinds.                                           *)
(***************************************************************************)
TakesSlots(op) == op.type \in {"filter", "sort", "limit", "create"} \/ op.indexed

\* On to the next operator; the first one enters the pipeline.
Advances ==
  /\ phase = "codegen" /\ ~IsLeaf(OpAt(at)) /\ ~IsJoin(OpAt(at))
  /\ at' = Succ(at)
  /\ op_id' \in Nat
  /\ ~TakesSlots(OpAt(at)) => op_id' = op_id + IF Labelled(OpAt(at)) THEN 1 ELSE 0
  /\ OpAt(at).type = "filter" => op_id' = op_id + 1
  /\ UNCHANGED <<plan, phase, todo, walk>>
  /\ cv'.jids = cv.jids
  /\ cv'.entry = <<at[1]>> \o cv.entry \/ (cv'.entry = cv.entry /\ at[2] # 1)
  /\ Emitted(Null) \/ (OpAt(at).type = "sort" /\ code' = code)

Joins ==
  /\ phase = "codegen" /\ IsJoin(OpAt(at))
  /\ at' = Succ(at) /\ op_id' = op_id
  /\ UNCHANGED <<plan, phase, walk>>
  /\ todo' = Append(todo, RhsOf(at))
  /\ cv'.jids = Append(cv.jids, cv.query_id_inline)
  /\ cv'.entry = cv.entry
  /\ Emitted(cv.query_id_inline)

Leaves ==
  /\ phase = "codegen" /\ IsLeaf(OpAt(at))
  /\ Ascend
  /\ cv'.entry = cv.entry
  /\ cv'.jids = IF OpAt(at).type = "none" THEN Tail(cv.jids) ELSE cv.jids
  /\ \E jid : Emitted(jid) /\ (OpAt(at).type = "none" => jid = Head(cv.jids))

Aborts ==
  /\ phase = "codegen" /\ phase' = "aborted"
  /\ UNCHANGED <<plan, at, todo, op_id, cv, code, walk>>

CvRecord == cv' = [main_return |-> cv'.main_return, prev_bb |-> cv'.prev_bb,
                   scan_nodes_end |-> cv'.scan_nodes_end, regs |-> cv'.regs,
                   project_string |-> cv'.project_string, jids |-> cv'.jids,
                   query_id_inline |-> cv'.query_id_inline, entry |-> cv'.entry,
                   expr_register |-> cv'.expr_register]

LEMMA VisitKinds ==
  ASSUME CodegenType, plan \in Plans, at \in Positions, Visit
  PROVE  /\ Advances \/ Joins \/ Leaves \/ Aborts
         /\ CvRecord /\ cv'.query_id_inline \in Nat
  <1>t. /\ cv = [main_return |-> cv.main_return, prev_bb |-> cv.prev_bb,
                 scan_nodes_end |-> cv.scan_nodes_end, regs |-> cv.regs,
                 project_string |-> cv.project_string, jids |-> cv.jids,
                 query_id_inline |-> cv.query_id_inline, entry |-> cv.entry,
                 expr_register |-> cv.expr_register]
        /\ cv.query_id_inline \in Nat /\ op_id \in Nat
    BY DEF CodegenType
  <1>p. /\ at = <<at[1], at[2]>> /\ at[1] \in DOMAIN plan
        /\ plan[at[1]][1].type \in {"scan", "create"}
        /\ OpAt(at).type = "scan" => at[2] = 1
        /\ at[2] = 1 => OpAt(at).type \in {"scan", "create"}
    BY PositionFacts, PlanFacts DEF OpAt
  <1>1. CASE VisitScan
    <2>1. /\ phase = "codegen" /\ OpAt(at).type = "scan"
          /\ EmitTest(Null, Null, Null) /\ Descend(IF OpAt(at).indexed THEN 3 ELSE 1)
          /\ UNCHANGED todo
      BY <1>1 DEF VisitScan, VisitScanEntry, Visiting, Emit
    <2>2. PICK keys, regs, ret, end, prev :
            cv' = [cv EXCEPT !.regs = regs, !.main_return = ret, !.scan_nodes_end = end,
                             !.prev_bb = prev, !.project_string = keys,
                             !.entry = <<at[1]>> \o cv.entry]
      BY <1>1, Zenon DEF VisitScan, VisitScanEntry
    <2>3. cv'.jids = cv.jids /\ cv'.entry = <<at[1]>> \o cv.entry /\ CvRecord
          /\ cv'.query_id_inline = cv.query_id_inline
      BY <1>t, <2>2 DEF CvRecord
    <2>4. Emitted(Null)
      BY <2>1, EmitFacts
    <2>5. Advances
      BY <1>t, <2>1, <2>3, <2>4 DEF Advances, Descend, IsLeaf, IsJoin, TakesSlots, Labelled
    <2> QED
      BY <1>t, <2>3, <2>5
  <1>2. CASE VisitForeach
    <2>1. /\ phase = "codegen" /\ OpAt(at).type = "foreach_rship"
          /\ EmitTest(cv.prev_bb, Null, Null) /\ Descend(1) /\ UNCHANGED todo
      BY <1>2 DEF VisitForeach, Visiting, Emit
    <2>2. PICK regs, ret :
            cv' = [cv EXCEPT !.regs = regs, !.prev_bb = at, !.main_return = ret]
      BY <1>2, Zenon DEF VisitForeach
    <2>3. cv'.jids = cv.jids /\ cv'.entry = cv.entry /\ CvRecord
          /\ cv'.query_id_inline = cv.query_id_inline
      BY <1>t, <2>2 DEF CvRecord
    <2>4. Emitted(Null)
      BY <2>1, EmitFacts
    <2>5. Advances
      BY <1>t, <1>p, <2>1, <2>3, <2>4 DEF Advances, Descend, IsLeaf, IsJoin, TakesSlots, Labelled
    <2> QED
      BY <1>t, <2>3, <2>5
  <1>3. CASE VisitExpand
    <2>1. /\ phase = "codegen" /\ OpAt(at).type = "expand"
          /\ EmitTest(cv.prev_bb, Null, Null) /\ Descend(1) /\ UNCHANGED todo
      BY <1>3 DEF VisitExpand, Visiting, Emit
    <2>2. PICK regs : cv' = [cv EXCEPT !.regs = regs, !.prev_bb = at]
      BY <1>3, Zenon DEF VisitExpand
    <2>3. cv'.jids = cv.jids /\ cv'.entry = cv.entry /\ CvRecord
          /\ cv'.query_id_inline = cv.query_id_inline
      BY <1>t, <2>2 DEF CvRecord
    <2>4. Emitted(Null)
      BY <2>1, EmitFacts
    <2>5. Advances
      BY <1>t, <1>p, <2>1, <2>3, <2>4 DEF Advances, Descend, IsLeaf, IsJoin, TakesSlots, Labelled
    <2> QED
      BY <1>t, <2>3, <2>5
  <1>4. CASE VisitFilter
    <2> DEFINE e == OpAt(at).fexpr
               tested == Tested(e)
               register == IF e.kind = "eq" THEN tested ELSE cv.expr_register
    <2>a. /\ phase = "codegen" /\ OpAt(at).type = "filter" /\ UNCHANGED todo
          /\ \/ /\ cv' = [cv EXCEPT !.prev_bb = at,
                                    !.expr_register = IF e.kind = "eq" THEN tested ELSE @]
                /\ EmitTest(cv.prev_bb, Null, tested) /\ Descend(1)
             \/ Abort
      BY <1>4 DEF VisitFilter, Visiting
    <2>1. /\ phase = "codegen" /\ OpAt(at).type = "filter" /\ UNCHANGED todo
          /\ \/ \E cmp, reg : /\ cv' = [cv EXCEPT !.prev_bb = at, !.expr_register = reg]
                             /\ EmitTest(cv.prev_bb, Null, cmp) /\ Descend(1)
             \/ Abort
      <3>1. [cv EXCEPT !.prev_bb = at, !.expr_register = IF e.kind = "eq" THEN tested ELSE @]
              = [cv EXCEPT !.prev_bb = at, !.expr_register = register]
        <4> HIDE DEF tested
        <4> QED
          BY <1>t
      <3> HIDE DEF e, tested, register
      <3> QED
        BY <2>a, <3>1
    <2>2. CASE Abort
      BY <1>t, <2>1, <2>2 DEF Abort, Aborts, CvRecord
    <2>3. CASE ~Abort
      <3>1. PICK cmp, reg : /\ cv' = [cv EXCEPT !.prev_bb = at, !.expr_register = reg]
                            /\ EmitTest(cv.prev_bb, Null, cmp) /\ Descend(1)
        BY <2>1, <2>3
      <3>2. cv'.jids = cv.jids /\ cv'.entry = cv.entry /\ CvRecord
            /\ cv'.query_id_inline = cv.query_id_inline
        BY <1>t, <3>1 DEF CvRecord
      <3>3. Emitted(Null)
        BY <3>1, EmitFacts
      <3>a. phase = "codegen" /\ OpAt(at).type = "filter" /\ UNCHANGED todo
        BY <2>1
      <3>b. op_id' = op_id + 1 /\ at' = Succ(at) /\ UNCHANGED <<plan, phase, walk>>
        BY <3>1 DEF Descend
      <3>4. Advances
        BY <1>t, <1>p, <3>a, <3>b, <3>2, <3>3 DEF Advances, IsLeaf, IsJoin, TakesSlots, Labelled
      <3> QED
        BY <1>t, <3>2, <3>4
    <2> QED
      BY <2>2, <2>3
  <1>5. CASE VisitProject
    <2>1. /\ phase = "codegen" /\ OpAt(at).type = "project" /\ UNCHANGED todo
          /\ \/ \E regs : /\ cv' = [cv EXCEPT !.regs = regs, !.prev_bb = at]
                         /\ EmitTest(cv.prev_bb, Null, Null) /\ Descend(0)
             \/ Abort
      BY <1>5, Zenon DEF VisitProject, Visiting, Emit
    <2>2. CASE Abort
      BY <1>t, <2>1, <2>2 DEF Abort, Aborts, CvRecord
    <2>3. CASE ~Abort
      <3>1. PICK regs : /\ cv' = [cv EXCEPT !.regs = regs, !.prev_bb = at]
                        /\ EmitTest(cv.prev_bb, Null, Null) /\ Descend(0)
        BY <2>1, <2>3
      <3>2. cv'.jids = cv.jids /\ cv'.entry = cv.entry /\ CvRecord
            /\ cv'.query_id_inline = cv.query_id_inline
        BY <1>t, <3>1 DEF CvRecord
      <3>3. Emitted(Null)
        BY <3>1, EmitFacts
      <3>a. phase = "codegen" /\ OpAt(at).type = "project" /\ UNCHANGED todo
        BY <2>1
      <3>b. op_id' = op_id + 0 /\ at' = Succ(at) /\ UNCHANGED <<plan, phase, walk>>
        BY <3>1 DEF Descend
      <3>4. Advances
        BY <1>t, <1>p, <3>a, <3>b, <3>2, <3>3 DEF Advances, IsLeaf, IsJoin, TakesSlots, Labelled
      <3> QED
        BY <1>t, <3>2, <3>4
    <2> QED
      BY <2>2, <2>3
  <1>6. CASE VisitJoin
    <2>1. /\ phase = "codegen" /\ IsJoin(OpAt(at))
          /\ todo' = Append(todo, OpAt(at).rhs)
          /\ EmitTest(cv.prev_bb, cv.query_id_inline, Null) /\ Descend(0)
      BY <1>6 DEF VisitJoin, VisitJoinQueueing, Emit
    <2>2. PICK regs, ret :
            cv' = [cv EXCEPT !.regs = regs, !.main_return = ret, !.prev_bb = at,
                             !.jids = Append(cv.jids, cv.query_id_inline),
                             !.query_id_inline = cv.query_id_inline + 1]
      <3>1. \E regs, ret :
              cv' = [cv EXCEPT !.regs = regs, !.main_return = ret, !.prev_bb = at,
                               !.jids = Append(@, cv.query_id_inline),
                               !.query_id_inline = @ + 1]
        BY <1>6, Zenon DEF VisitJoin, VisitJoinQueueing
      <3> QED
        BY <3>1
    <2>3. /\ cv'.jids = Append(cv.jids, cv.query_id_inline) /\ cv'.entry = cv.entry /\ CvRecord
          /\ cv'.query_id_inline = cv.query_id_inline + 1
      BY <1>t, <2>2 DEF CvRecord
    <2>4. Emitted(cv.query_id_inline)
      BY <2>1, EmitFacts
    <2>5. Joins
      BY <1>t, <2>1, <2>3, <2>4 DEF Joins, Descend, RhsOf
    <2> QED
      BY <1>t, <2>3, <2>5
  <1>7. CASE VisitSort
    <2>1. /\ phase = "codegen" /\ OpAt(at).type = "sort" /\ Descend(1)
          /\ UNCHANGED <<cv, code, todo>>
      BY <1>7 DEF VisitSort, Visiting
    <2>2. Advances
      BY <1>t, <1>p, <2>1 DEF Advances, Descend, IsLeaf, IsJoin, TakesSlots, Labelled
    <2> QED
      BY <1>t, <2>1, <2>2 DEF CvRecord
  <1>8. CASE VisitLimit
    <2>1. /\ phase = "codegen" /\ OpAt(at).type = "limit" /\ UNCHANGED todo
          /\ \/ /\ cv' = [cv EXCEPT !.prev_bb = at]
                /\ EmitTest(cv.prev_bb, Null, Null) /\ Descend(1)
             \/ Abort
      BY <1>8 DEF VisitLimit, Visiting, Emit
    <2>2. CASE Abort
      BY <1>t, <2>1, <2>2 DEF Abort, Aborts, CvRecord
    <2>3. CASE ~Abort
      <3>1. /\ cv' = [cv EXCEPT !.prev_bb = at]
            /\ EmitTest(cv.prev_bb, Null, Null) /\ Descend(1)
        BY <2>1, <2>3
      <3>2. cv'.jids = cv.jids /\ cv'.entry = cv.entry /\ CvRecord
            /\ cv'.query_id_inline = cv.query_id_inline
        BY <1>t, <3>1 DEF CvRecord
      <3>3. Emitted(Null)
        BY <3>1, EmitFacts
      <3>a. phase = "codegen" /\ OpAt(at).type = "limit" /\ UNCHANGED todo
        BY <2>1
      <3>b. op_id' = op_id + 1 /\ at' = Succ(at) /\ UNCHANGED <<plan, phase, walk>>
        BY <3>1 DEF Descend
      <3>4. Advances
        BY <1>t, <1>p, <3>a, <3>b, <3>2, <3>3 DEF Advances, IsLeaf, IsJoin, TakesSlots, Labelled
      <3> QED
        BY <1>t, <3>2, <3>4
    <2> QED
      BY <2>2, <2>3
  <1>9. CASE VisitCreate
    <2> DEFINE access == cv.entry = <<>>
    <2>a. /\ phase = "codegen" /\ OpAt(at).type = "create" /\ UNCHANGED todo
          /\ \/ /\ access \/ at[2] > 1
                /\ \E regs :
                     cv' = [cv EXCEPT !.regs = regs,
                                      !.main_return = IF access THEN Block(at, "end") ELSE @,
                                      !.entry = IF access THEN <<at[1]>> ELSE @, !.prev_bb = at]
                /\ \E prev : EmitTest(prev, Null, Null)
                /\ Descend(2)
             \/ Abort
      BY <1>9, Zenon DEF VisitCreate, Visiting, Emit
    <2>b. ASSUME NEW regs,
                 cv' = [cv EXCEPT !.regs = regs,
                                  !.main_return = IF access THEN Block(at, "end") ELSE @,
                                  !.entry = IF access THEN <<at[1]>> ELSE @, !.prev_bb = at]
          PROVE  \E ret : cv' = [cv EXCEPT !.regs = regs, !.main_return = ret,
                                          !.entry = IF access THEN <<at[1]>> ELSE cv.entry,
                                          !.prev_bb = at]
      <3> DEFINE ret == IF access THEN Block(at, "end") ELSE cv.main_return
      <3>1. cv' = [cv EXCEPT !.regs = regs, !.main_return = ret,
                             !.entry = IF access THEN <<at[1]>> ELSE cv.entry, !.prev_bb = at]
        BY <1>t, <2>b
      <3> HIDE DEF ret
      <3> QED
        BY <3>1
    <2>1. /\ phase = "codegen" /\ OpAt(at).type = "create" /\ UNCHANGED todo
          /\ \/ /\ access \/ at[2] > 1
                /\ \E regs, ret :
                     cv' = [cv EXCEPT !.regs = regs, !.main_return = ret,
                                      !.entry = IF access THEN <<at[1]>> ELSE cv.entry,
                                      !.prev_bb = at]
                /\ \E prev : EmitTest(prev, Null, Null)
                /\ Descend(2)
             \/ Abort
      <3> HIDE DEF access
      <3> QED
        BY <2>a, <2>b, Zenon
    <2>2. CASE Abort
      BY <1>t, <2>1, <2>2 DEF Abort, Aborts, CvRecord
    <2>3. CASE ~Abort
      <3>1. /\ access \/ at[2] > 1
            /\ \E prev : EmitTest(prev, Null, Null)
            /\ Descend(2)
        BY <2>1, <2>3
      <3>2. PICK regs, ret :
              cv' = [cv EXCEPT !.regs = regs, !.main_return = ret,
                               !.entry = IF access THEN <<at[1]>> ELSE cv.entry,
                               !.prev_bb = at]
        BY <2>1, <2>3
      <3>3. cv'.jids = cv.jids /\ CvRecord /\ cv'.query_id_inline = cv.query_id_inline
            /\ cv'.entry = IF access THEN <<at[1]>> ELSE cv.entry
        BY <1>t, <3>2 DEF CvRecord
      <3>4. Emitted(Null)
        BY <3>1, EmitFacts
      <3>n. at[2] \in Nat
        BY PlanFacts
      <3>5. access => <<at[1]>> = <<at[1]>> \o cv.entry
        <4>1. at[1] \in Nat
          BY PlanFacts
        <4>2. <<at[1]>> \in Seq(Nat)
          BY <4>1
        <4> QED
          BY <4>2, ConcatEmptySeq
      <3>6. cv'.entry = <<at[1]>> \o cv.entry \/ (cv'.entry = cv.entry /\ at[2] # 1)
        <4>1. CASE access
          BY <3>3, <3>5, <4>1
        <4>2. CASE ~access
          <5>1. at[2] > 1
            BY <3>1, <4>2
          <5>2. at[2] # 1
            BY <5>1, <3>n
          <5>3. cv'.entry = cv.entry
            BY <3>3, <4>2
          <5> QED
            BY <5>2, <5>3
        <4> QED
          BY <4>1, <4>2
      <3>a. phase = "codegen" /\ OpAt(at).type = "create" /\ UNCHANGED todo
        BY <2>1
      <3>b. op_id' = op_id + 2 /\ at' = Succ(at) /\ UNCHANGED <<plan, phase, walk>>
        BY <3>1 DEF Descend
      <3>7. Advances
        BY <1>t, <1>p, <3>a, <3>b, <3>3, <3>4, <3>6 DEF Advances, IsLeaf, IsJoin, TakesSlots, Labelled
      <3> QED
        BY <1>t, <3>3, <3>7
    <2> QED
      BY <2>2, <2>3
  <1>10. CASE VisitCollect
    <2>1. /\ phase = "codegen" /\ OpAt(at).type = "collect"
          /\ EmitTest(cv.prev_bb, Null, Null) /\ Ascend /\ UNCHANGED cv
      BY <1>10 DEF VisitCollect, Visiting, Emit
    <2>2. Emitted(Null)
      BY <2>1, EmitFacts
    <2>3. Leaves
      BY <2>1, <2>2 DEF Leaves, IsLeaf
    <2> QED
      BY <1>t, <2>1, <2>3 DEF CvRecord
  <1>11. CASE VisitEnd
    <2>1. /\ phase = "codegen" /\ OpAt(at).type = "none"
          /\ EmitTest(cv.prev_bb, Head(cv.jids), Null) /\ Ascend
          /\ cv' = [cv EXCEPT !.jids = Tail(cv.jids)]
      BY <1>11 DEF VisitEnd, Visiting, Emit
    <2>2. Emitted(Head(cv.jids))
      BY <2>1, EmitFacts
    <2>3. cv'.jids = Tail(cv.jids) /\ cv'.entry = cv.entry /\ CvRecord
          /\ cv'.query_id_inline = cv.query_id_inline
      BY <1>t, <2>1 DEF CvRecord
    <2>4. Leaves
      BY <2>1, <2>2, <2>3 DEF Leaves, IsLeaf
    <2> QED
      BY <1>t, <2>3, <2>4
  <1>12. CASE VisitUnusable
    <2>1. phase = "codegen" /\ Abort /\ todo' = todo
      BY <1>12 DEF VisitUnusable
    <2> QED
      BY <1>t, <2>1 DEF Abort, Aborts, CvRecord
  <1> QED
    BY <1>1, <1>2, <1>3, <1>4, <1>5, <1>6, <1>7, <1>8, <1>9, <1>10, <1>11, <1>12 DEF Visit

-----------------------------------------------------------------------------
(***************************************************************************)
(* Sequences of pipelines and of identifiers.                              *)
(***************************************************************************)
LEMMA FrontFacts ==
  ASSUME NEW s \in Seq(Nat), s # <<>>
  PROVE  /\ Len(s) \in Nat /\ Len(s) >= 1 /\ DOMAIN s = 1..Len(s)
         /\ Last(s) = s[Len(s)] /\ Last(s) \in Nat
         /\ Front(s) \in Seq(Nat) /\ Len(Front(s)) = Len(s) - 1
         /\ \A i \in 1..(Len(s) - 1) : Front(s)[i] = s[i]
         /\ Head(s) = s[1] /\ Tail(s) \in Seq(Nat) /\ Len(Tail(s)) = Len(s) - 1
         /\ \A i \in 1..(Len(s) - 1) : Tail(s)[i] = s[i + 1]
  <1>1. Len(s) \in Nat /\ Len(s) >= 1 /\ DOMAIN s = 1..Len(s)
    BY EmptySeq
  <1>2. Front(s) = [i \in 1..(Len(s) - 1) |-> s[i]]
    BY DEF Front
  <1>3. Front(s) \in Seq(Nat) /\ Len(Front(s)) = Len(s) - 1
    BY <1>1, <1>2
  <1> QED
    BY <1>1, <1>2, <1>3 DEF Last

LEMMA AppendFacts ==
  ASSUME NEW s \in Seq(Nat), NEW e \in Nat
  PROVE  /\ Append(s, e) \in Seq(Nat) /\ Len(Append(s, e)) = Len(s) + 1
         /\ Append(s, e) # <<>> /\ Last(Append(s, e)) = e
         /\ \A i \in 1..Len(s) : Append(s, e)[i] = s[i]
         /\ Append(s, e)[Len(s) + 1] = e
         /\ DOMAIN Append(s, e) = 1..(Len(s) + 1) /\ Len(s) \in Nat
         /\ Range(Append(s, e)) = Range(s) \cup {e}
  <1> DEFINE t == Append(s, e)
  <1>1. /\ t \in Seq(Nat) /\ Len(t) = Len(s) + 1 /\ t # <<>> /\ Last(t) = e
        /\ DOMAIN t = 1..(Len(s) + 1) /\ Len(s) \in Nat /\ t[Len(s) + 1] = e
        /\ \A i \in 1..Len(s) : t[i] = s[i]
    BY DEF Last
  <1>2. DOMAIN s = 1..Len(s)
    OBVIOUS
  <1> HIDE DEF t
  <1>3. \A i \in DOMAIN t : t[i] \in Range(s) \cup {e}
    BY <1>1, <1>2 DEF Range
  <1>4. \A i \in DOMAIN s : i \in DOMAIN t /\ t[i] = s[i]
    BY <1>1, <1>2
  <1>5. Len(s) + 1 \in DOMAIN t
    BY <1>1
  <1>6. Range(t) = Range(s) \cup {e}
    BY <1>1, <1>3, <1>4, <1>5 DEF Range
  <1> QED
    BY <1>1, <1>6 DEF t

\* A pipeline's entry block is put before the others.
LEMMA EntryFacts ==
  ASSUME CodegenType, NEW p \in Nat, cv'.entry = <<p>> \o cv.entry
  PROVE  /\ cv'.entry \in Seq(Nat)
         /\ Entered' = Entered \cup {p}
         /\ \A q, r : Precedes(q, r) => Precedes(q, r)'
         /\ \A q \in Entered : Precedes(p, q)'
  <1> DEFINE old == cv.entry
             new == cv'.entry
  <1>1. old \in Seq(Nat) /\ <<p>> \in Seq(Nat)
    BY DEF CodegenType
  <1>2. /\ new \in Seq(Nat) /\ Len(new) = Len(old) + 1 /\ new[1] = p
        /\ DOMAIN new = 1..(Len(old) + 1) /\ DOMAIN old = 1..Len(old) /\ Len(old) \in Nat
        /\ \A i \in 1..Len(old) : new[i + 1] = old[i]
    BY <1>1
  <1> HIDE DEF old, new
  <1>3. \A i \in DOMAIN new : i = 1 \/ (i - 1 \in DOMAIN old /\ new[i] = old[i - 1])
    <2> TAKE i \in DOMAIN new
    <2>1. CASE i # 1
      <3>1. i - 1 \in 1..Len(old) /\ (i - 1) + 1 = i
        BY <1>2, <2>1
      <3> QED
        BY <1>2, <3>1
    <2> QED
      BY <2>1
  <1>4. \A i \in DOMAIN old : i + 1 \in DOMAIN new /\ new[i + 1] = old[i] /\ i + 1 > 1
    BY <1>2
  <1>5. {new[i] : i \in DOMAIN new} = {old[i] : i \in DOMAIN old} \cup {p}
    <2>1. \A v \in {new[i] : i \in DOMAIN new} : v \in {old[i] : i \in DOMAIN old} \cup {p}
      BY <1>2, <1>3
    <2>2. \A v \in {old[i] : i \in DOMAIN old} \cup {p} : v \in {new[i] : i \in DOMAIN new}
      <3>1. 1 \in DOMAIN new
        BY <1>2
      <3> QED
        BY <1>2, <1>4, <3>1
    <2> QED
      BY <2>1, <2>2
  <1>6. Entered' = Entered \cup {p}
    BY <1>5 DEF Entered, Range, old, new
  <1>7. ASSUME NEW q, NEW r, Precedes(q, r) PROVE Precedes(q, r)'
    <2>1. PICK i \in DOMAIN old, j \in DOMAIN old : i < j /\ old[i] = q /\ old[j] = r
      BY <1>7 DEF Precedes, old
    <2>2. i + 1 \in DOMAIN new /\ j + 1 \in DOMAIN new /\ new[i + 1] = q /\ new[j + 1] = r
      BY <1>4, <2>1
    <2>3. i + 1 < j + 1
      BY <1>2, <2>1
    <2> QED
      BY <2>2, <2>3 DEF Precedes, new
  <1>8. ASSUME NEW q \in Entered PROVE Precedes(p, q)'
    <2>1. PICK i \in DOMAIN old : old[i] = q
      BY DEF Entered, Range, old
    <2>2. i + 1 \in DOMAIN new /\ new[i + 1] = q /\ 1 < i + 1 /\ 1 \in DOMAIN new /\ new[1] = p
      BY <1>2, <1>4, <2>1
    <2> QED
      BY <2>2 DEF Precedes, new
  <1> QED
    BY <1>2, <1>6, <1>7, <1>8 DEF new

-----------------------------------------------------------------------------
(***************************************************************************)
(* The walk's step, its position known.                                    *)
(***************************************************************************)
Walked(cur) ==
  /\ cur \in Positions /\ ~IsLeaf(OpAt(cur))
  /\ IF IsLeaf(OpAt(walk.cur)) THEN cur[1] > 1 /\ cur[2] = 1 ELSE cur = walk.cur
  /\ walk'.cur = Succ(cur)
  /\ walk'.args = ExtractArg(walk.args, OpAt(walk.cur))
  /\ walk'.recur \in Seq(Nat)
  /\ \A i \in DOMAIN walk'.recur : walk'.recur[i] \in DOMAIN plan /\ walk'.recur[i] > 1
  /\ walk' = [cur |-> walk'.cur, recur |-> walk'.recur, args |-> walk'.args,
              finish |-> walk'.finish]

LEMMA WalkFacts ==
  ASSUME CodegenType, plan \in Plans, SlotInv, WalkStep
  PROVE  /\ \E cur : Walked(cur)
         /\ walk.cur \in Positions
  <1> DEFINE leaf == IsLeaf(OpAt(walk.cur))
             cur == IF leaf THEN <<Last(walk.recur), 1>> ELSE walk.cur
             recur == IF leaf THEN Front(walk.recur) ELSE walk.recur
  <1>1. /\ walk.cur \in Positions
        /\ \A i \in DOMAIN walk.recur : walk.recur[i] \in DOMAIN plan /\ walk.recur[i] > 1
    BY DEF SlotInv, WalkStep
  <1>2. leaf => walk.recur # <<>>
    BY DEF WalkStep
  <1>3. /\ walk'.cur = Succ(cur)
        /\ walk'.recur = IF IsJoin(OpAt(cur)) THEN Append(recur, OpAt(cur).rhs) ELSE recur
        /\ walk'.args = ExtractArg(walk.args, OpAt(walk.cur))
        /\ walk' = [cur |-> walk'.cur, recur |-> walk'.recur, args |-> walk'.args,
                    finish |-> walk'.finish]
    BY DEF WalkStep
  <1>4. walk.recur \in Seq(Nat)
    BY DEF CodegenType
  <1>5. ASSUME leaf
        PROVE  /\ cur = <<Last(walk.recur), 1>> /\ Last(walk.recur) \in DOMAIN plan
               /\ Last(walk.recur) > 1 /\ cur \in Positions /\ ~IsLeaf(OpAt(cur))
    <2>1. Last(walk.recur) \in DOMAIN plan /\ Last(walk.recur) > 1
      <3>1. walk.recur # <<>>
        BY <1>2, <1>5
      <3>2. /\ Last(walk.recur) = walk.recur[Len(walk.recur)]
            /\ Len(walk.recur) \in Nat /\ Len(walk.recur) >= 1
            /\ DOMAIN walk.recur = 1..Len(walk.recur)
        BY <1>4, <3>1, FrontFacts
      <3>3. Len(walk.recur) \in DOMAIN walk.recur
        BY <3>2
      <3> QED
        BY <1>1, <3>2, <3>3
    <2>2. /\ 1 \in DOMAIN plan[Last(walk.recur)]
          /\ plan[Last(walk.recur)][1].type \in {"scan", "create"}
      BY <2>1, PlanFacts
    <2> QED
      BY <1>5, <2>1, <2>2, PositionFacts DEF OpAt, IsLeaf
  <1>6. cur \in Positions /\ ~IsLeaf(OpAt(cur))
    BY <1>1, <1>5
  <1>7. /\ recur \in Seq(Nat)
        /\ \A i \in DOMAIN recur : recur[i] \in DOMAIN plan /\ recur[i] > 1
    <2>1. CASE leaf
      <3> HIDE DEF leaf
      <3>1. walk.recur # <<>> /\ recur = Front(walk.recur)
        BY <1>2, <2>1
      <3> HIDE DEF recur
      <3>2. /\ Front(walk.recur) \in Seq(Nat)
            /\ Len(Front(walk.recur)) = Len(walk.recur) - 1
            /\ \A i \in 1..(Len(walk.recur) - 1) : Front(walk.recur)[i] = walk.recur[i]
            /\ DOMAIN walk.recur = 1..Len(walk.recur) /\ Len(walk.recur) \in Nat
        BY <1>4, <3>1, FrontFacts
      <3>3. /\ recur \in Seq(Nat) /\ DOMAIN recur = 1..(Len(walk.recur) - 1)
            /\ \A i \in DOMAIN recur : recur[i] = walk.recur[i] /\ i \in DOMAIN walk.recur
        BY <3>1, <3>2
      <3> QED
        BY <1>1, <3>3
    <2>2. CASE ~leaf
      BY <1>1, <1>4, <2>2
    <2> QED
      BY <2>1, <2>2
  <1> HIDE DEF cur, recur
  <1>8. /\ walk'.recur \in Seq(Nat)
        /\ \A i \in DOMAIN walk'.recur : walk'.recur[i] \in DOMAIN plan /\ walk'.recur[i] > 1
    <2>1. CASE IsJoin(OpAt(cur))
      <3>1. RhsOf(cur) \in DOMAIN plan /\ RhsOf(cur) > 1 /\ RhsOf(cur) \in Nat
        BY <1>6, <2>1, PlanFacts DEF JoinPositions
      <3>2. walk'.recur = Append(recur, RhsOf(cur))
        BY <1>3, <2>1 DEF RhsOf
      <3> QED
        BY <1>7, <3>1, <3>2
    <2>2. CASE ~IsJoin(OpAt(cur))
      BY <1>3, <1>7, <2>2
    <2> QED
      BY <2>1, <2>2
  <1>9. IF leaf THEN cur[1] > 1 /\ cur[2] = 1 ELSE cur = walk.cur
    BY <1>5 DEF cur
  <1>10. Walked(cur)
    BY <1>3, <1>6, <1>8, <1>9 DEF Walked
  <1> QED
    BY <1>1, <1>10

-----------------------------------------------------------------------------
(***************************************************************************)
(* The types.                                                              *)
(***************************************************************************)
LEMMA TypeNext ==
  ASSUME CodegenType, OrderInv, SlotInv, Compile
  PROVE  CodegenType'
  <1>t. /\ plan \in Plans /\ at \in Positions /\ op_id \in Nat /\ todo \in Seq(Nat)
        /\ cv.jids \in Seq(Nat) /\ cv.entry \in Seq(Nat) /\ cv.query_id_inline \in Nat
        /\ phase = "codegen" => Len(cv.jids) = Len(todo) + IF at[1] = 1 THEN 0 ELSE 1
    BY DEF CodegenType, OrderInv
  <1>c. ASSUME NEW jid, Emitted(jid)
        PROVE  \A x \in DOMAIN code' :
                 /\ code'[x] = [op_id |-> code'[x].op_id, ret |-> code'[x].ret,
                                regs |-> code'[x].regs, keys |-> code'[x].keys,
                                end |-> code'[x].end, jid |-> code'[x].jid,
                                cmp |-> code'[x].cmp, next |-> code'[x].next]
                 /\ code'[x].op_id \in Nat
    <2>1. ASSUME NEW x \in DOMAIN code' PROVE code'[x].op_id \in Nat
      <3>1. CASE x = at
        BY <1>c, <1>t, <3>1 DEF Emitted
      <3>2. CASE x # at
        BY <1>c, <2>1, <3>2 DEF Emitted, CodegenType
      <3> QED
        BY <3>1, <3>2
    <2> QED
      BY <1>c, <2>1 DEF Emitted
  <1>w. walk' = walk /\ plan' = plan =>
          /\ walk' = [cur |-> walk'.cur, recur |-> walk'.recur, args |-> walk'.args,
                      finish |-> walk'.finish]
          /\ walk'.recur \in Seq(Nat) /\ walk'.args \in Seq(LabelsOf')
    <2> SUFFICES ASSUME walk' = walk, plan' = plan
                 PROVE  /\ walk' = [cur |-> walk'.cur, recur |-> walk'.recur,
                                    args |-> walk'.args, finish |-> walk'.finish]
                        /\ walk'.recur \in Seq(Nat) /\ walk'.args \in Seq(LabelsOf')
      OBVIOUS
    <2>1. LabelsOf' = LabelsOf
      BY DEF LabelsOf, Positions, OpAt
    <2> QED
      BY <2>1 DEF CodegenType
  <1>1. CASE Visit
    <2>1. /\ Advances \/ Joins \/ Leaves \/ Aborts
          /\ CvRecord /\ cv'.query_id_inline \in Nat
      BY <1>1, <1>t, VisitKinds
    <2>2. CASE Advances
      <3>1. /\ op_id' \in Nat /\ todo' = todo /\ cv'.jids = cv.jids
            /\ walk' = walk /\ plan' = plan
        BY <2>2 DEF Advances
      <3>2. cv'.entry \in Seq(Nat)
        <4>1. at[1] \in Nat
          BY <1>t, PlanFacts
        <4>2. cv'.entry = <<at[1]>> \o cv.entry \/ cv'.entry = cv.entry
          BY <2>2 DEF Advances
        <4> QED
          BY <1>t, <4>1, <4>2, EntryFacts
      <3>3. CASE Emitted(Null)
        BY <1>c, <1>t, <1>w, <2>1, <3>1, <3>2, <3>3 DEF CodegenType, CvRecord
      <3>4. CASE code' = code
        BY <1>t, <1>w, <2>1, <3>1, <3>2, <3>4 DEF CodegenType, CvRecord
      <3> QED
        BY <2>2, <3>3, <3>4 DEF Advances
    <2>3. CASE Joins
      <3>1. /\ op_id' = op_id /\ cv'.entry = cv.entry /\ walk' = walk /\ plan' = plan
            /\ todo' = Append(todo, RhsOf(at)) /\ Emitted(cv.query_id_inline)
            /\ cv'.jids = Append(cv.jids, cv.query_id_inline)
        BY <2>3 DEF Joins
      <3>2. RhsOf(at) \in Nat
        BY <1>t, <2>3, PlanFacts DEF Joins, JoinPositions
      <3>3. todo' \in Seq(Nat) /\ cv'.jids \in Seq(Nat)
        BY <1>t, <3>1, <3>2
      <3> QED
        BY <1>c, <1>t, <1>w, <2>1, <3>1, <3>3 DEF CodegenType, CvRecord
    <2>4. CASE Leaves
      <3>1. /\ cv'.entry = cv.entry /\ op_id' = op_id /\ walk' = walk /\ plan' = plan
            /\ phase = "codegen"
            /\ todo' = todo \/ (todo # <<>> /\ todo' = Front(todo))
        BY <2>4 DEF Leaves, Ascend
      <3>2. todo' \in Seq(Nat)
        BY <1>t, <3>1, FrontFacts
      <3>3. cv'.jids \in Seq(Nat)
        <4>1. CASE OpAt(at).type = "none"
          <5>1. at[1] \in DOMAIN plan /\ at[2] = Len(plan[at[1]])
            BY <1>t, <4>1, PositionFacts, PlanFacts DEF IsLeaf
          <5>2. at[1] # 1
            BY <1>t, <4>1, <5>1, PlanFacts DEF OpAt
          <5>3. Len(todo) \in Nat /\ Len(cv.jids) = Len(todo) + 1
            BY <1>t, <3>1, <5>2
          <5>4. cv.jids # <<>>
            BY <1>t, <5>3
          <5>5. cv'.jids = Tail(cv.jids)
            BY <2>4, <4>1 DEF Leaves
          <5> QED
            BY <1>t, <5>4, <5>5, FrontFacts
        <4>2. CASE OpAt(at).type # "none"
          BY <1>t, <2>4, <4>2 DEF Leaves
        <4> QED
          BY <4>1, <4>2
      <3>4. PICK jid : Emitted(jid)
        BY <2>4 DEF Leaves
      <3> QED
        BY <1>c, <1>t, <1>w, <2>1, <3>1, <3>2, <3>3, <3>4 DEF CodegenType, CvRecord
    <2>5. CASE Aborts
      BY <1>w, <2>5 DEF Aborts, CodegenType
    <2> QED
      BY <2>1, <2>2, <2>3, <2>4, <2>5
  <1>2. CASE WalkStep
    <2>1. PICK cur : Walked(cur)
      BY <1>2, <1>t, WalkFacts
    <2>2. walk.cur \in Positions
      BY <1>2, <1>t, WalkFacts
    <2>3. walk'.args \in Seq(LabelsOf)
      <3>1. walk.args \in Seq(LabelsOf)
        BY DEF CodegenType
      <3>2. OpAt(walk.cur).label \in LabelsOf /\ "" \in LabelsOf
        BY <2>2 DEF LabelsOf
      <3>3. walk'.args = walk.args \/ \E l \in LabelsOf : walk'.args = Append(walk.args, l)
        BY <2>1, <3>2 DEF Walked, ExtractArg
      <3> QED
        BY <3>1, <3>3
    <2>4. UNCHANGED <<plan, phase, at, todo, op_id, cv, code>>
      BY <1>2 DEF WalkStep
    <2>5. LabelsOf' = LabelsOf
      BY <2>4 DEF LabelsOf, Positions, OpAt
    <2>6. /\ walk'.recur \in Seq(Nat)
          /\ walk' = [cur |-> walk'.cur, recur |-> walk'.recur, args |-> walk'.args,
                      finish |-> walk'.finish]
      BY <2>1 DEF Walked
    <2> QED
      BY <2>3, <2>4, <2>5, <2>6 DEF CodegenType
  <1>3. CASE WalkEnd
    BY <1>w, <1>3 DEF WalkEnd, CodegenType
  <1> QED
    BY <1>1, <1>2, <1>3 DEF Compile

-----------------------------------------------------------------------------
(***************************************************************************)
(* The order of the pipelines.                                             *)
(***************************************************************************)
LEMMA PlanUnchanged ==
  ASSUME plan' = plan
  PROVE  /\ Positions' = Positions /\ JoinPositions' = JoinPositions
         /\ \A x : OpAt(x)' = OpAt(x) /\ RhsOf(x)' = RhsOf(x) /\ LeafOf(x)' = LeafOf(x)
         /\ \A p : JoinsOf(p)' = JoinsOf(p)
         /\ OneJoinEach' = OneJoinEach
  BY DEF Positions, JoinPositions, OpAt, RhsOf, LeafOf, JoinsOf, OneJoinEach

\* A visit enters the pipeline it is in, and no other.
LEMMA EnteredNext ==
  ASSUME CodegenType, OrderInv, Advances \/ Joins \/ Leaves
  PROVE  /\ plan' = plan
         /\ Advances => /\ Entered' = Entered \cup {at[1]}
                        /\ at[2] # 1 \/ \A p : p = at[1] => \A q \in Entered : Precedes(p, q)'
         /\ Joins \/ Leaves => Entered' = Entered /\ at[2] # 1 /\ at[1] \in Entered
         /\ \A q, r : Precedes(q, r) => Precedes(q, r)'
  <1>1. /\ plan \in Plans /\ at \in Positions /\ at[1] \in DOMAIN plan /\ at[1] \in Nat
        /\ at[1] \in Entered \/ at[2] = 1
    BY PositionFacts, PlanFacts DEF OrderInv
  <1>2. plan' = plan
    BY DEF Advances, Joins, Leaves, Ascend
  <1>3. ASSUME cv'.entry = cv.entry
        PROVE  Entered' = Entered /\ \A q, r : Precedes(q, r) => Precedes(q, r)'
    BY <1>3 DEF Entered, Precedes, Range
  <1>4. ASSUME Advances
        PROVE  /\ Entered' = Entered \cup {at[1]}
               /\ at[2] # 1 \/ \A p : p = at[1] => \A q \in Entered : Precedes(p, q)'
               /\ \A q, r : Precedes(q, r) => Precedes(q, r)'
    <2>1. CASE cv'.entry = <<at[1]>> \o cv.entry
      BY <1>1, <2>1, EntryFacts
    <2>2. CASE cv'.entry = cv.entry /\ at[2] # 1
      BY <1>1, <1>3, <2>2
    <2> QED
      BY <1>4, <2>1, <2>2 DEF Advances
  <1>5. ASSUME Joins \/ Leaves
        PROVE  /\ Entered' = Entered /\ at[2] # 1 /\ at[1] \in Entered
               /\ \A q, r : Precedes(q, r) => Precedes(q, r)'
    <2>1. IsJoin(OpAt(at)) \/ IsLeaf(OpAt(at))
      BY <1>5 DEF Joins, Leaves
    <2>2. OpAt(at) = plan[at[1]][at[2]] /\ plan[at[1]][1].type \in {"scan", "create"}
      BY <1>1, PlanFacts DEF OpAt
    <2>3. at[2] # 1
      BY <2>1, <2>2 DEF IsJoin, IsLeaf
    <2>4. cv'.entry = cv.entry
      BY <1>5 DEF Joins, Leaves
    <2> QED
      BY <1>1, <1>3, <2>3, <2>4
  <1> QED
    BY <1>2, <1>4, <1>5

\* A visit reaches the join it visits, and no other.
LEMMA ReachedNext ==
  ASSUME CodegenType, OrderInv, Advances \/ Joins \/ Leaves,
         NEW x \in JoinPositions, Reached(x)'
  PROVE  /\ Reached(x) \/ (Joins /\ x = at)
         /\ x[1] # at[1] => x[1] \in Entered
  <1>1. /\ plan \in Plans /\ at \in Positions /\ at = <<at[1], at[2]>>
        /\ at[1] \in DOMAIN plan /\ at[2] \in Nat
        /\ \A i \in DOMAIN todo : todo[i] \in DOMAIN plan
    BY PositionFacts, PlanFacts DEF OrderInv
  <1>2. x \in Positions /\ x = <<x[1], x[2]>> /\ x[2] \in Nat /\ x[2] >= 1 /\ IsJoin(OpAt(x))
    BY <1>1, PositionFacts, PlanFacts DEF JoinPositions
  <1>3. IF x[1] = at'[1] THEN x[2] < at'[2] ELSE x[1] \in Entered'
    BY DEF Reached
  <1>4. CASE Advances \/ Joins
    <2>1. at'[1] = at[1] /\ at'[2] = at[2] + 1
      BY <1>4 DEF Advances, Joins, Succ
    <2>2. CASE x[1] = at[1]
      <3>1. x[2] <= at[2]
        BY <1>1, <1>2, <1>3, <2>1, <2>2
      <3>2. x[2] < at[2] \/ x = at
        BY <1>1, <1>2, <2>2, <3>1
      <3>3. Advances => x # at
        BY <1>2 DEF Advances
      <3> QED
        BY <1>4, <2>2, <3>2, <3>3 DEF Reached
    <2>3. CASE x[1] # at[1]
      BY <1>3, <1>4, <2>1, <2>3, EnteredNext DEF Reached
    <2> QED
      BY <2>2, <2>3
  <1>5. CASE Leaves
    <2>1. Entered' = Entered
      BY <1>5, EnteredNext
    <2>2. x[1] \in Entered \/ x[1] = at[1]
      <3>1. at' = at \/ at' = <<Last(todo), 1>>
        BY <1>5 DEF Leaves, Ascend
      <3>2. CASE at' = at
        BY <1>3, <2>1, <3>2
      <3>3. CASE at' = <<Last(todo), 1>>
        <4>1. ~(x[2] < at'[2])
          BY <1>2, <3>3
        <4> QED
          BY <1>3, <2>1, <4>1
      <3> QED
        BY <3>1, <3>2, <3>3
    <2>3. ASSUME x[1] = at[1] PROVE x[2] < at[2]
      <3>1. IsLeaf(OpAt(at)) /\ at[2] = Len(plan[at[1]])
        BY <1>1, <1>5, PlanFacts DEF Leaves
      <3>2. ~IsLeaf(OpAt(x))
        BY <1>2 DEF IsLeaf, IsJoin
      <3> QED
        BY <1>1, <1>2, <2>3, <3>1, <3>2, PlanFacts
    <2> QED
      BY <2>2, <2>3 DEF Reached
  <1> QED
    BY <1>4, <1>5

LEMMA OrderNext ==
  ASSUME CodegenType, OrderInv, Compile
  PROVE  OrderInv'
  <1>1. /\ plan \in Plans /\ at \in Positions /\ at = <<at[1], at[2]>>
        /\ at[1] \in DOMAIN plan /\ at[1] \in Nat /\ at[2] \in Nat /\ at[2] >= 1
        /\ todo \in Seq(Nat) /\ \A i \in DOMAIN todo : todo[i] \in DOMAIN plan /\ todo[i] > 1
        /\ 1 \in Entered \/ at = <<1, 1>>
        /\ at[1] \in Entered \/ at[2] = 1
        /\ cv.jids \in Seq(Nat) /\ cv.query_id_inline \in Nat
    BY PositionFacts, PlanFacts DEF OrderInv, CodegenType
  <1>j. phase = "codegen" => Len(cv.jids) = Len(todo) + IF at[1] = 1 THEN 0 ELSE 1
    BY DEF OrderInv
  <1>2. \A x \in JoinPositions : Reached(x) =>
          \/ RhsOf(x) \in Range(todo)
          \/ at = <<RhsOf(x), 1>>
          \/ Precedes(RhsOf(x), x[1])
    BY DEF OrderInv
  <1>3. CASE Advances
    <2>1. /\ Entered' = Entered \cup {at[1]} /\ plan' = plan
          /\ at[2] # 1 \/ \A p : p = at[1] => \A q \in Entered : Precedes(p, q)'
          /\ \A q, r : Precedes(q, r) => Precedes(q, r)'
      BY <1>3, EnteredNext
    <2>2. /\ at' = <<at[1], at[2] + 1>> /\ todo' = todo /\ phase' = "codegen"
          /\ cv'.jids = cv.jids /\ phase = "codegen"
      BY <1>3 DEF Advances, Succ
    <2>3. plan' \in Plans /\ at' \in Positions'
      BY <1>1, <1>3, <2>1, PlanFacts, PlanUnchanged DEF Advances
    <2>4. ASSUME NEW x \in JoinPositions', Reached(x)'
          PROVE  \/ RhsOf(x)' \in Range(todo)'
                 \/ at' = <<RhsOf(x)', 1>>
                 \/ Precedes(RhsOf(x), x[1])'
      <3>1. x \in JoinPositions /\ Reached(x) /\ (x[1] # at[1] => x[1] \in Entered)
        BY <1>3, <2>1, <2>4, PlanUnchanged, ReachedNext DEF Joins, Advances
      <3>2. PICK r : r = RhsOf(x) /\ r = RhsOf(x)' /\ x[1] < r
        BY <1>1, <2>1, <3>1, PlanUnchanged, PlanFacts
      <3>3. r \in Range(todo) \/ at = <<r, 1>> \/ Precedes(r, x[1])
        BY <1>2, <3>1, <3>2
      <3>4. ASSUME at = <<r, 1>> PROVE Precedes(r, x[1])'
        <4>1. at[1] = r /\ at[2] = 1 /\ x[1] # r
          BY <1>1, <3>1, <3>2, <3>4, PlanFacts
        <4> QED
          BY <2>1, <3>1, <4>1
      <3>5. Precedes(r, x[1])' => Precedes(RhsOf(x), x[1])'
        BY <3>2 DEF Precedes
      <3> QED
        BY <2>1, <2>2, <3>2, <3>3, <3>4, <3>5 DEF Range
    <2> QED
      BY <1>1, <1>j, <2>1, <2>2, <2>3, <2>4 DEF OrderInv
  <1>4. CASE Joins
    <2>1. /\ Entered' = Entered /\ plan' = plan /\ at[2] # 1 /\ at[1] \in Entered
          /\ \A q, r : Precedes(q, r) => Precedes(q, r)'
      BY <1>4, EnteredNext
    <2>2. /\ at' = <<at[1], at[2] + 1>> /\ phase' = "codegen" /\ phase = "codegen"
          /\ todo' = Append(todo, RhsOf(at)) /\ cv'.jids = Append(cv.jids, cv.query_id_inline)
      BY <1>4 DEF Joins, Succ
    <2>3. /\ plan' \in Plans /\ at' \in Positions' /\ at \in JoinPositions
          /\ RhsOf(at) \in DOMAIN plan /\ RhsOf(at) > 1 /\ RhsOf(at) \in Nat
      <3>1. at \in JoinPositions /\ ~IsLeaf(OpAt(at))
        BY <1>1, <1>4 DEF Joins, JoinPositions, IsLeaf, IsJoin
      <3> QED
        BY <1>1, <1>4, <2>1, <3>1, PlanFacts, PlanUnchanged DEF Joins
    <2>4. /\ Len(todo') = Len(todo) + 1 /\ Len(cv'.jids) = Len(cv.jids) + 1
          /\ Len(todo) \in Nat /\ Len(cv.jids) \in Nat
          /\ \A i \in DOMAIN todo' : todo'[i] \in DOMAIN plan /\ todo'[i] > 1
          /\ Range(todo)' = Range(todo) \cup {RhsOf(at)}
      <3> DEFINE t == Append(todo, RhsOf(at))
                 q == Append(cv.jids, cv.query_id_inline)
      <3>1. /\ Len(t) = Len(todo) + 1 /\ DOMAIN t = 1..(Len(todo) + 1) /\ Len(todo) \in Nat
            /\ Range(t) = Range(todo) \cup {RhsOf(at)} /\ t[Len(todo) + 1] = RhsOf(at)
            /\ \A i \in 1..Len(todo) : t[i] = todo[i]
        BY <1>1, <2>3, AppendFacts
      <3>2. Len(q) = Len(cv.jids) + 1 /\ Len(cv.jids) \in Nat
        BY <1>1, AppendFacts
      <3>3. todo' = t /\ cv'.jids = q /\ DOMAIN todo = 1..Len(todo)
        BY <1>1, <2>2
      <3> HIDE DEF t, q
      <3>4. ASSUME NEW i \in DOMAIN t PROVE t[i] \in DOMAIN plan /\ t[i] > 1
        <4>1. i \in DOMAIN todo \/ i = Len(todo) + 1
          BY <3>1, <3>3, <3>4
        <4> QED
          BY <1>1, <2>3, <3>1, <3>3, <4>1
      <3>5. Range(todo)' = Range(t)
        BY <3>3 DEF Range
      <3> QED
        BY <3>1, <3>2, <3>3, <3>4, <3>5
    <2>5. ASSUME NEW x \in JoinPositions', Reached(x)'
          PROVE  \/ RhsOf(x)' \in Range(todo)'
                 \/ at' = <<RhsOf(x)', 1>>
                 \/ Precedes(RhsOf(x), x[1])'
      <3>1. x \in JoinPositions /\ (Reached(x) \/ x = at)
        BY <1>4, <2>1, <2>5, PlanUnchanged, ReachedNext
      <3>2. PICK r : r = RhsOf(x) /\ r = RhsOf(x)'
        BY <2>1, PlanUnchanged
      <3>3. x = at \/ r \in Range(todo) \/ at = <<r, 1>> \/ Precedes(r, x[1])
        BY <1>2, <3>1, <3>2
      <3>4. at # <<r, 1>>
        BY <2>1
      <3>5. Precedes(r, x[1])' => Precedes(RhsOf(x), x[1])'
        BY <3>2 DEF Precedes
      <3> QED
        BY <2>1, <2>4, <3>2, <3>3, <3>4, <3>5
    <2>6. Len(cv'.jids) = Len(todo') + IF at'[1] = 1 THEN 0 ELSE 1
      BY <1>j, <2>2, <2>4
    <2> QED
      BY <1>1, <2>1, <2>2, <2>3, <2>4, <2>5, <2>6 DEF OrderInv
  <1>5. CASE Leaves
    <2>1. /\ Entered' = Entered /\ plan' = plan /\ at[2] # 1 /\ at[1] \in Entered
          /\ \A q, r : Precedes(q, r) => Precedes(q, r)'
      BY <1>5, EnteredNext
    <2>2. /\ phase = "codegen"
          /\ IF todo = <<>> THEN phase' = "walk" /\ at' = at /\ todo' = todo
             ELSE phase' = phase /\ at' = <<Last(todo), 1>> /\ todo' = Front(todo)
      BY <1>5 DEF Leaves, Ascend
    <2>3. at[2] = Len(plan[at[1]]) /\ (OpAt(at).type = "none" <=> at[1] # 1)
      <3>1. IsLeaf(OpAt(at))
        BY <1>5 DEF Leaves
      <3>2. at[2] = Len(plan[at[1]])
        BY <1>1, <3>1, PlanFacts
      <3>3. OpAt(at).type = IF at[1] = 1 THEN "collect" ELSE "none"
        BY <1>1, <3>2, PlanFacts DEF OpAt
      <3> QED
        BY <3>2, <3>3
    <2>4. ASSUME NEW x \in JoinPositions', Reached(x)'
          PROVE  \/ RhsOf(x)' \in Range(todo)'
                 \/ at' = <<RhsOf(x)', 1>>
                 \/ Precedes(RhsOf(x), x[1])'
      <3>1. x \in JoinPositions /\ Reached(x)
        BY <1>5, <2>1, <2>4, PlanUnchanged, ReachedNext DEF Joins, Leaves, IsJoin, IsLeaf
      <3>2. PICK r : r = RhsOf(x) /\ r = RhsOf(x)'
        BY <2>1, PlanUnchanged
      <3>a. at # <<r, 1>>
        BY <2>1
      <3>3. r \in Range(todo) \/ Precedes(r, x[1])
        BY <1>2, <3>1, <3>2, <3>a
      <3>4. Precedes(r, x[1]) => Precedes(RhsOf(x), x[1])'
        BY <2>1, <3>2 DEF Precedes
      <3>5. ASSUME r \in Range(todo) PROVE r \in Range(todo)' \/ at' = <<r, 1>>
        <4>1. PICK i \in DOMAIN todo : todo[i] = r
          BY <3>5 DEF Range
        <4>2. todo # <<>>
          BY <4>1
        <4>3. /\ Len(todo) \in Nat /\ DOMAIN todo = 1..Len(todo) /\ Last(todo) = todo[Len(todo)]
              /\ Front(todo) \in Seq(Nat) /\ Len(Front(todo)) = Len(todo) - 1
              /\ \A k \in 1..(Len(todo) - 1) : Front(todo)[k] = todo[k]
          BY <1>1, <4>2, FrontFacts
        <4>4. CASE i = Len(todo)
          BY <2>2, <4>1, <4>2, <4>3, <4>4
        <4>5. CASE i # Len(todo)
          <5>1. i \in 1..(Len(todo) - 1) /\ i \in DOMAIN Front(todo)
            BY <4>1, <4>3, <4>5
          <5>2. Front(todo)[i] = r
            BY <4>1, <4>3, <5>1
          <5> QED
            BY <2>2, <4>2, <5>1, <5>2 DEF Range
        <4> QED
          BY <4>4, <4>5
      <3> QED
        BY <3>2, <3>3, <3>4, <3>5
    <2>5. CASE todo = <<>>
      <3>1. phase' = "walk" /\ at' = at /\ todo' = <<>>
        BY <2>2, <2>5
      <3> QED
        BY <1>1, <2>1, <2>3, <2>4, <3>1, PlanUnchanged DEF OrderInv
    <2>6. CASE todo # <<>>
      <3>1. /\ Len(todo) \in Nat /\ Len(todo) >= 1 /\ DOMAIN todo = 1..Len(todo)
            /\ Last(todo) = todo[Len(todo)] /\ Len(todo) \in DOMAIN todo
            /\ Front(todo) \in Seq(Nat) /\ Len(Front(todo)) = Len(todo) - 1
            /\ \A k \in 1..(Len(todo) - 1) : Front(todo)[k] = todo[k]
        BY <1>1, <2>6, FrontFacts
      <3>2. phase' = "codegen" /\ at' = <<Last(todo), 1>> /\ todo' = Front(todo)
        BY <2>2, <2>6
      <3>3. Last(todo) \in DOMAIN plan /\ Last(todo) > 1 /\ Last(todo) # 1
        BY <1>1, <3>1
      <3>4. at' \in Positions'
        <4>1. 1 \in DOMAIN plan[Last(todo)]
          BY <1>1, <3>3, PlanFacts
        <4> QED
          BY <2>1, <3>2, <3>3, <4>1, PositionFacts, PlanUnchanged
      <3>5. \A i \in DOMAIN todo' : todo'[i] \in DOMAIN plan /\ todo'[i] > 1
        <4>1. DOMAIN todo' = 1..(Len(todo) - 1)
          BY <3>1, <3>2
        <4> QED
          BY <1>1, <3>1, <3>2, <4>1
      <3>6. Len(cv'.jids) = Len(todo') + 1
        <4>1. CASE at[1] = 1
          BY <1>5, <1>j, <2>2, <2>3, <3>1, <3>2, <4>1 DEF Leaves
        <4>2. CASE at[1] # 1
          <5>1. Len(cv.jids) = Len(todo) + 1 /\ cv.jids # <<>>
            BY <1>1, <1>j, <2>2, <3>1, <4>2
          <5>2. cv'.jids = Tail(cv.jids)
            BY <1>5, <2>3, <4>2 DEF Leaves
          <5> QED
            BY <1>1, <3>1, <3>2, <5>1, <5>2, FrontFacts
        <4> QED
          BY <4>1, <4>2
      <3>7. at'[1] # 1 /\ at'[2] = 1
        BY <3>2, <3>3
      <3>8. 1 \in Entered'
        BY <1>1, <2>1
      <3> QED
        BY <1>1, <2>1, <2>4, <3>2, <3>4, <3>5, <3>6, <3>7, <3>8 DEF OrderInv
    <2> QED
      BY <2>5, <2>6
  <1>6. CASE (Aborts \/ WalkStep \/ WalkEnd) /\ phase' # "codegen"
    <2>1. UNCHANGED <<plan, at, todo, cv>>
      BY <1>6 DEF Aborts, WalkStep, WalkEnd
    <2>2. phase' = "aborted" \/ phase = "walk"
      BY <1>6 DEF Aborts, WalkStep, WalkEnd
    <2> QED
      BY <1>6, <2>1, <2>2 DEF OrderInv, Positions, JoinPositions, OpAt, RhsOf, Reached, Entered,
                              Precedes, Range
  <1>7. Visit => Advances \/ Joins \/ Leaves \/ Aborts
    BY <1>1, VisitKinds
  <1>8. Aborts \/ WalkStep \/ WalkEnd => phase' # "codegen"
    BY DEF Aborts, WalkStep, WalkEnd
  <1> QED
    BY <1>3, <1>4, <1>5, <1>6, <1>7, <1>8 DEF Compile

-----------------------------------------------------------------------------
(***************************************************************************)
(* The joins' identifiers.                                                 *)
(***************************************************************************)
LEMMA EmittedJids ==
  ASSUME NEW jid, Emitted(jid)
  PROVE  /\ at \in DOMAIN code' /\ code'[at].jid = jid
         /\ \A x \in DOMAIN code : x # at => x \in DOMAIN code' /\ code'[x].jid = code[x].jid
  BY DEF Emitted

\* Among pipelines with one join each, a join is known by its pipeline.
LEMMA JoinOfPipeline ==
  ASSUME plan \in Plans, at \in Positions
  PROVE  /\ OneJoinEach => \A x, y \in JoinPositions : x[1] = y[1] => x = y
         /\ Joined <=> \E x \in JoinPositions : x[1] = at[1] /\ Reached(x)
         /\ \A p \in DOMAIN plan : LeafOf(p)[1] = p
  <1>1. \A x \in JoinPositions : /\ x = <<x[1], x[2]>> /\ x[1] \in DOMAIN plan
                                 /\ x[2] \in JoinsOf(x[1])
    BY PositionFacts DEF JoinPositions, JoinsOf
  <1>2. \A j \in JoinsOf(at[1]) : <<at[1], j>> \in JoinPositions
    BY PositionFacts DEF JoinPositions, JoinsOf
  <1>3. OneJoinEach => \A x, y \in JoinPositions : x[1] = y[1] => x = y
    BY <1>1 DEF OneJoinEach
  <1>4. Joined <=> \E x \in JoinPositions : x[1] = at[1] /\ Reached(x)
    <2>1. ASSUME NEW j \in JoinsOf(at[1]), j < at[2]
          PROVE  \E x \in JoinPositions : x[1] = at[1] /\ Reached(x)
      <3>1. <<at[1], j>>[1] = at[1] /\ Reached(<<at[1], j>>)
        BY <2>1 DEF Reached
      <3> QED
        BY <1>2, <3>1
    <2>2. ASSUME NEW x \in JoinPositions, x[1] = at[1], Reached(x)
          PROVE  \E j \in JoinsOf(at[1]) : j < at[2]
      <3>1. x[2] \in JoinsOf(at[1]) /\ x[2] < at[2]
        BY <1>1, <2>2 DEF Reached
      <3> QED
        BY <3>1
    <2> QED
      BY <2>1, <2>2 DEF Joined
  <1> QED
    BY <1>3, <1>4 DEF LeafOf

LEMMA JidNext ==
  ASSUME CodegenType, OrderInv, OrderInv', JidInv, Compile
  PROVE  JidInv'
  <1>1. /\ plan \in Plans /\ at \in Positions /\ at = <<at[1], at[2]>>
        /\ at[1] \in DOMAIN plan /\ at[1] \in Nat /\ at[2] \in Nat /\ at[2] >= 1
        /\ todo \in Seq(Nat) /\ \A i \in DOMAIN todo : todo[i] \in DOMAIN plan /\ todo[i] > 1
        /\ cv.jids \in Seq(Nat) /\ cv.query_id_inline \in Nat
        /\ Len(todo) \in Nat /\ Len(cv.jids) \in Nat
        /\ cv.entry \in Seq(Nat)
    BY PositionFacts, PlanFacts DEF OrderInv, CodegenType
  <1>e. \A q \in Entered : q \in Nat
    BY <1>1 DEF Entered, Range
  <1>j. phase = "codegen" => Len(cv.jids) = Len(todo) + IF at[1] = 1 THEN 0 ELSE 1
    BY DEF OrderInv
  <1>p. plan' = plan
    BY <1>1, VisitKinds DEF Compile, Advances, Joins, Leaves, Ascend, Aborts, WalkStep, WalkEnd
  <1> SUFFICES ASSUME OneJoinEach
               PROVE  JidInv'
    BY <1>p, PlanUnchanged DEF JidInv
  <1>u. \A x, y \in JoinPositions : x[1] = y[1] => x = y
    BY <1>1, JoinOfPipeline
  <1>r. \A x \in JoinPositions : /\ RhsOf(x) \in DOMAIN plan /\ RhsOf(x) \in Nat /\ x \in Positions
                                 /\ x[1] \in Nat /\ x[1] < RhsOf(x) /\ RhsOf(x) > 1
    BY <1>1, PlanFacts DEF JoinPositions
  <1>2. /\ \A q \in Entered : q <= at[1] /\ (q = at[1] => at[2] > 1)
        /\ phase = "codegen" => Len(todo) = IF Joined THEN 1 ELSE 0
        /\ phase # "aborted" =>
             \A x \in JoinPositions : Reached(x) => x \in DOMAIN code /\ Handed(x)
    BY DEF JidInv
  <1>l. \A p \in DOMAIN plan : LeafOf(p)[1] = p /\ LeafOf(p)' = LeafOf(p)
    BY <1>1, <1>p, JoinOfPipeline, PlanUnchanged
  <1>3. CASE Advances
    <2>1. /\ Entered' = Entered \cup {at[1]}
          /\ at' = <<at[1], at[2] + 1>> /\ at'[1] = at[1] /\ at'[2] = at[2] + 1
          /\ todo' = todo /\ phase' = "codegen" /\ phase = "codegen" /\ cv'.jids = cv.jids
          /\ ~IsJoin(OpAt(at))
      BY <1>3, EnteredNext DEF Advances, Succ
    <2>2. \A q \in Entered' : q <= at'[1] /\ (q = at'[1] => at'[2] > 1)
      BY <1>1, <1>2, <1>e, <2>1
    <2>3. Joined' <=> Joined
      <3>1. \A j \in JoinsOf(at[1]) : j \in Nat /\ j # at[2]
        <4>1. \A j \in JoinsOf(at[1]) : j \in DOMAIN plan[at[1]] /\ IsJoin(OpAt(<<at[1], j>>))
          BY DEF JoinsOf
        <4>2. \A j \in DOMAIN plan[at[1]] : j \in Nat
          BY <1>1, PlanFacts
        <4> QED
          BY <1>1, <2>1, <4>1, <4>2
      <3>2. \A j \in JoinsOf(at[1]) : j < at[2] <=> j < at[2] + 1
        BY <1>1, <3>1
      <3>3. Joined' <=> \E j \in JoinsOf(at[1]) : j < at[2] + 1
        BY <1>p, <2>1 DEF Joined, JoinsOf, OpAt
      <3> QED
        BY <3>2, <3>3 DEF Joined
    <2>4. \A x \in DOMAIN code : x # at => x \in DOMAIN code' /\ code'[x].jid = code[x].jid
      <3>1. Emitted(Null) \/ code' = code
        BY <1>3 DEF Advances
      <3> QED
        BY <3>1, EmittedJids
    <2>5. ASSUME NEW x \in JoinPositions', Reached(x)'
          PROVE  x \in DOMAIN code' /\ Handed(x)'
      <3>1. x \in JoinPositions /\ Reached(x) /\ x # at /\ RhsOf(x)' = RhsOf(x)
        BY <1>3, <1>p, <2>1, <2>5, PlanUnchanged, ReachedNext DEF Joins, JoinPositions
      <3>2. x \in DOMAIN code /\ Handed(x)
        BY <1>2, <2>1, <3>1
      <3>3. x \in DOMAIN code' /\ code'[x].jid = code[x].jid
        BY <2>4, <3>1, <3>2
      <3>4. RhsOf(x) # at[1] => LeafOf(RhsOf(x)) # at
        BY <1>l, <1>r, <3>1
      <3>5. LeafOf(RhsOf(x))' = LeafOf(RhsOf(x))
        BY <1>p DEF LeafOf, RhsOf, OpAt
      <3>6. Handed(x)'
        <4>1. CASE x[1] = at[1]
          BY <2>1, <3>1, <3>2, <3>3, <4>1 DEF Handed
        <4>2. CASE x[1] # at[1] /\ RhsOf(x) = at[1]
          BY <2>1, <3>1, <3>2, <3>3, <4>2 DEF Handed
        <4>3. CASE x[1] # at[1] /\ RhsOf(x) # at[1]
          BY <2>1, <2>4, <3>1, <3>2, <3>3, <3>4, <3>5, <4>3 DEF Handed
        <4> QED
          BY <4>1, <4>2, <4>3
      <3> QED
        BY <3>3, <3>6
    <2> QED
      BY <1>2, <2>1, <2>2, <2>3, <2>5 DEF JidInv
  <1>4. CASE Joins
    <2>1. /\ Entered' = Entered /\ at[2] # 1 /\ at[1] \in Entered
          /\ at' = <<at[1], at[2] + 1>> /\ at'[1] = at[1] /\ at'[2] = at[2] + 1
          /\ phase' = "codegen" /\ phase = "codegen"
          /\ todo' = Append(todo, RhsOf(at))
          /\ cv'.jids = Append(cv.jids, cv.query_id_inline)
          /\ Emitted(cv.query_id_inline)
      BY <1>4, EnteredNext DEF Joins, Succ
    <2>2. at \in JoinPositions
      BY <1>1, <1>4 DEF Joins, JoinPositions
    <2>3. \A q \in Entered' : q <= at'[1] /\ (q = at'[1] => at'[2] > 1)
      BY <1>1, <1>2, <1>e, <2>1
    <2>4. ~\E x \in JoinPositions : x[1] = at[1] /\ Reached(x)
      <3>1. ~Reached(at)
        BY <1>1 DEF Reached
      <3> QED
        BY <1>u, <2>2, <3>1
    <2>5. ~Joined /\ Joined'
      <3>1. ~Joined
        BY <1>1, <2>4, JoinOfPipeline
      <3>2. at[2] \in JoinsOf(at[1])
        BY <1>1, <1>4, PositionFacts DEF Joins, JoinsOf
      <3>3. Joined' <=> \E j \in JoinsOf(at[1]) : j < at[2] + 1
        BY <1>p, <2>1 DEF Joined, JoinsOf, OpAt
      <3>4. at[2] < at[2] + 1
        BY <1>1
      <3> QED
        BY <3>1, <3>2, <3>3, <3>4
    <2>6. /\ Len(todo') = 1 /\ Last(todo)' = RhsOf(at)
          /\ Last(cv.jids)' = cv.query_id_inline
          /\ Len(cv.jids) >= 1 => cv'.jids[1] = cv.jids[1]
      <3>1. Len(todo) = 0
        BY <1>2, <2>1, <2>5
      <3>2. /\ Len(Append(todo, RhsOf(at))) = Len(todo) + 1
            /\ Last(Append(todo, RhsOf(at))) = RhsOf(at)
        BY <1>1, <1>r, <2>2, AppendFacts
      <3>3. /\ Last(Append(cv.jids, cv.query_id_inline)) = cv.query_id_inline
            /\ \A i \in 1..Len(cv.jids) : Append(cv.jids, cv.query_id_inline)[i] = cv.jids[i]
        BY <1>1, AppendFacts
      <3>4. Len(todo') = 1 /\ Last(todo') = RhsOf(at)
        BY <2>1, <3>1, <3>2
      <3>5. Last(cv'.jids) = cv.query_id_inline
        BY <2>1, <3>3
      <3>6. Len(cv.jids) >= 1 => cv'.jids[1] = cv.jids[1]
        BY <1>1, <2>1, <3>3
      <3> QED
        BY <3>4, <3>5, <3>6 DEF Last
    <2>7. ASSUME NEW x \in JoinPositions', Reached(x)'
          PROVE  x \in DOMAIN code' /\ Handed(x)'
      <3>1. x \in JoinPositions /\ (Reached(x) \/ x = at) /\ RhsOf(x)' = RhsOf(x)
        BY <1>4, <1>p, <2>7, PlanUnchanged, ReachedNext
      <3>2. CASE x = at
        <4>1. x \in DOMAIN code' /\ code'[x].jid = cv.query_id_inline
          BY <2>1, <3>2, EmittedJids
        <4> QED
          BY <2>1, <2>6, <3>1, <3>2, <4>1 DEF Handed
      <3>3. CASE x # at
        <4>1. Reached(x) /\ x \in DOMAIN code /\ Handed(x) /\ x[1] # at[1]
          BY <1>2, <2>1, <2>4, <3>1, <3>3
        <4>2. x \in DOMAIN code' /\ code'[x].jid = code[x].jid
          BY <2>1, <3>3, <4>1, EmittedJids
        <4>3. CASE RhsOf(x) = at[1]
          <5>1. Len(cv.jids) >= 1
            BY <1>1, <1>j, <1>r, <2>1, <3>1, <4>3
          <5> QED
            BY <2>1, <2>6, <3>1, <4>1, <4>2, <4>3, <5>1 DEF Handed
        <4>4. CASE RhsOf(x) # at[1]
          <5>1. RhsOf(x) \in Entered /\ LeafOf(RhsOf(x)) \in DOMAIN code
                /\ code[x].jid = code[LeafOf(RhsOf(x))].jid
            BY <4>1, <4>4 DEF Handed
          <5>2. LeafOf(RhsOf(x)) # at
            BY <1>l, <1>r, <3>1, <4>4
          <5>3. LeafOf(RhsOf(x))' = LeafOf(RhsOf(x))
            BY <1>p DEF LeafOf, RhsOf, OpAt
          <5>4. /\ LeafOf(RhsOf(x)) \in DOMAIN code'
                /\ code'[LeafOf(RhsOf(x))].jid = code[LeafOf(RhsOf(x))].jid
            BY <2>1, <5>1, <5>2, EmittedJids
          <5> QED
            BY <2>1, <3>1, <4>1, <4>2, <4>4, <5>1, <5>3, <5>4 DEF Handed
        <4> QED
          BY <4>2, <4>3, <4>4
      <3> QED
        BY <3>2, <3>3
    <2> QED
      BY <2>1, <2>3, <2>5, <2>6, <2>7 DEF JidInv
  <1>5. CASE Leaves
    <2>1. /\ Entered' = Entered /\ at[2] # 1 /\ at[1] \in Entered /\ phase = "codegen"
          /\ IF todo = <<>> THEN phase' = "walk" /\ at' = at /\ todo' = todo
             ELSE phase' = phase /\ at' = <<Last(todo), 1>> /\ todo' = Front(todo)
      BY <1>5, EnteredNext DEF Leaves, Ascend
    <2>2. /\ at = LeafOf(at[1]) /\ OpAt(at).type = IF at[1] = 1 THEN "collect" ELSE "none"
          /\ ~IsJoin(OpAt(at))
      <3>1. at[2] = Len(plan[at[1]]) /\ IsLeaf(OpAt(at))
        BY <1>1, <1>5, PlanFacts DEF Leaves
      <3>2. OpAt(at) = plan[at[1]][Len(plan[at[1]])]
        BY <3>1 DEF OpAt
      <3> QED
        BY <1>1, <3>1, <3>2, PlanFacts DEF LeafOf, IsLeaf, IsJoin
    <2>3. PICK jid : Emitted(jid) /\ (OpAt(at).type = "none" => jid = Head(cv.jids))
      BY <1>5 DEF Leaves
    <2>4. cv'.jids = IF at[1] = 1 THEN cv.jids ELSE Tail(cv.jids)
      BY <1>5, <2>2 DEF Leaves
    <2>5. at[1] # 1 => cv.jids # <<>> /\ Len(cv.jids) >= 1 /\ jid = cv.jids[1]
      <3>1. at[1] # 1 => cv.jids # <<>>
        BY <1>1, <1>j, <2>1
      <3> QED
        BY <1>1, <2>2, <2>3, <3>1, FrontFacts
    <2>6. \A x \in JoinPositions' : Reached(x)' =>
            /\ x \in JoinPositions /\ Reached(x) /\ RhsOf(x)' = RhsOf(x)
            /\ LeafOf(RhsOf(x))' = LeafOf(RhsOf(x))
            /\ x \in DOMAIN code /\ Handed(x) /\ x # at
            /\ x \in DOMAIN code' /\ code'[x].jid = code[x].jid
      <3> TAKE x \in JoinPositions'
      <3> HAVE Reached(x)'
      <3>1. x \in JoinPositions /\ Reached(x) /\ x # at /\ RhsOf(x)' = RhsOf(x)
        BY <1>5, <1>p, <2>2, PlanUnchanged, ReachedNext DEF Joins, Leaves, JoinPositions, IsJoin, IsLeaf
      <3>2. LeafOf(RhsOf(x))' = LeafOf(RhsOf(x))
        BY <1>p DEF LeafOf, RhsOf, OpAt
      <3> QED
        BY <1>2, <2>1, <2>3, <3>1, <3>2, EmittedJids
    \* The list of the pipeline just left, and those of earlier ones.
    <2>7. ASSUME NEW x \in JoinPositions, x \in DOMAIN code, Handed(x), x[1] # at[1],
                 code'[x].jid = code[x].jid
          PROVE  /\ RhsOf(x) \in Entered /\ RhsOf(x) <= at[1]
                 /\ LeafOf(RhsOf(x)) \in DOMAIN code'
                 /\ code'[x].jid = code'[LeafOf(RhsOf(x))].jid
      <3>1. CASE RhsOf(x) = at[1]
        <4>1. cv.jids[1] = code[x].jid /\ at[1] # 1
          BY <1>r, <2>1, <2>7, <3>1 DEF Handed
        <4>2. LeafOf(RhsOf(x)) = at
          BY <2>2, <3>1
        <4>3. at \in DOMAIN code' /\ code'[at].jid = jid
          BY <2>3, EmittedJids
        <4> QED
          BY <1>1, <2>1, <2>5, <2>7, <3>1, <4>1, <4>2, <4>3
      <3>2. CASE RhsOf(x) # at[1]
        <4>1. /\ RhsOf(x) \in Entered /\ LeafOf(RhsOf(x)) \in DOMAIN code
              /\ code[x].jid = code[LeafOf(RhsOf(x))].jid
          BY <2>7, <3>2 DEF Handed
        <4>2. LeafOf(RhsOf(x)) # at
          BY <1>l, <1>r, <3>2
        <4> QED
          BY <1>2, <2>3, <2>7, <4>1, <4>2, EmittedJids
      <3> QED
        BY <3>1, <3>2
    <2>8. CASE todo = <<>>
      <3>1. phase' = "walk" /\ at' = at
        BY <2>1, <2>8
      <3>2. ~\E x \in JoinPositions : x[1] = at[1] /\ Reached(x)
        <4>1. Len(todo) = 0
          BY <2>8
        <4> QED
          BY <1>1, <1>2, <2>1, <4>1, JoinOfPipeline
      <3>3. ASSUME NEW x \in JoinPositions', Reached(x)'
            PROVE  x \in DOMAIN code' /\ Handed(x)'
        <4>1. /\ x \in JoinPositions /\ x[1] # at[1] /\ Handed(x) /\ RhsOf(x)' = RhsOf(x)
              /\ LeafOf(RhsOf(x))' = LeafOf(RhsOf(x))
              /\ x \in DOMAIN code /\ x \in DOMAIN code' /\ code'[x].jid = code[x].jid
          BY <2>6, <3>2, <3>3
        <4>2. /\ RhsOf(x) \in Entered /\ LeafOf(RhsOf(x)) \in DOMAIN code'
              /\ code'[x].jid = code'[LeafOf(RhsOf(x))].jid
          BY <2>7, <4>1
        <4> QED
          BY <2>1, <3>1, <4>1, <4>2 DEF Handed
      <3>4. \A q \in Entered' : q <= at'[1] /\ (q = at'[1] => at'[2] > 1)
        BY <1>2, <2>1, <3>1
      <3> QED
        BY <3>1, <3>3, <3>4 DEF JidInv
    <2>9. CASE todo # <<>>
      <3>1. phase' = "codegen" /\ at' = <<Last(todo), 1>> /\ todo' = Front(todo)
        BY <2>1, <2>9
      <3>2. Len(todo) # 0 /\ Len(todo) >= 1
        BY <1>1, <2>9
      <3>3. Joined /\ Len(todo) = 1
        BY <1>2, <2>1, <3>2
      <3>4. PICK y \in JoinPositions : y[1] = at[1] /\ Reached(y)
        BY <1>1, <3>3, JoinOfPipeline
      <3>5. /\ Last(todo) = RhsOf(y) /\ Last(cv.jids) = code[y].jid
            /\ RhsOf(y) \in Nat /\ at[1] < RhsOf(y)
        BY <1>2, <1>r, <2>1, <3>4 DEF Handed
      <3>6. Len(todo') = 0 /\ at'[1] = RhsOf(y) /\ at'[2] = 1
        <4>1. Len(Front(todo)) = Len(todo) - 1
          BY <1>1, <2>9, FrontFacts
        <4> QED
          BY <3>1, <3>3, <3>5, <4>1
      <3>7. ~Joined'
        <4>1. Joined' <=> \E j \in JoinsOf(RhsOf(y)) : j < 1
          <5>1. \A p, k : at' = <<p, k>> => (Joined' <=> \E j \in JoinsOf(p) : j < k)
            BY <1>p DEF Joined, JoinsOf, OpAt
          <5> QED
            BY <3>1, <3>5, <5>1
        <4>2. \A j \in JoinsOf(RhsOf(y)) : j \in DOMAIN plan[RhsOf(y)]
          BY DEF JoinsOf
        <4>3. \A j \in DOMAIN plan[RhsOf(y)] : j \in Nat /\ j >= 1
          BY <1>1, <1>r, PlanFacts
        <4> QED
          BY <4>1, <4>2, <4>3
      <3>8. \A q \in Entered' : q <= at'[1] /\ (q = at'[1] => at'[2] > 1)
        <4>1. \A q \in Entered : q \in Nat /\ q <= at[1]
          BY <1>2, <1>e
        <4> QED
          BY <1>1, <2>1, <3>5, <3>6, <4>1
      <3>9. cv'.jids[1] = Last(cv.jids)
        <4>1. CASE at[1] = 1
          <5>1. Len(cv.jids) = 1 /\ cv.jids # <<>>
            BY <1>j, <2>1, <3>3, <4>1
          <5> QED
            BY <1>1, <2>4, <4>1, <5>1, FrontFacts
        <4>2. CASE at[1] # 1
          <5>1. Len(cv.jids) = 2 /\ cv.jids # <<>>
            BY <1>j, <2>1, <2>5, <3>3, <4>2
          <5>2. /\ Last(cv.jids) = cv.jids[2]
                /\ \A i \in 1..(Len(cv.jids) - 1) : Tail(cv.jids)[i] = cv.jids[i + 1]
            BY <1>1, <5>1, FrontFacts
          <5>3. Tail(cv.jids)[1] = cv.jids[2]
            BY <5>1, <5>2
          <5> QED
            BY <2>4, <4>2, <5>2, <5>3
        <4> QED
          BY <4>1, <4>2
      <3>10. ASSUME NEW x \in JoinPositions', Reached(x)'
             PROVE  x \in DOMAIN code' /\ Handed(x)'
        <4>1. /\ x \in JoinPositions /\ Handed(x) /\ RhsOf(x)' = RhsOf(x)
              /\ LeafOf(RhsOf(x))' = LeafOf(RhsOf(x)) /\ Reached(x)
              /\ x \in DOMAIN code /\ x \in DOMAIN code' /\ code'[x].jid = code[x].jid
          BY <2>6, <3>10
        <4>2. x[1] # at'[1]
          <5>1. x[2] \in Nat /\ x[2] >= 1
            BY <1>1, <4>1, PlanFacts DEF JoinPositions
          <5>2. ~(x[2] < at'[2])
            BY <3>6, <5>1
          <5> QED
            BY <3>10, <5>2 DEF Reached
        <4>3. CASE x[1] = at[1]
          <5>1. x = y
            BY <1>u, <3>4, <4>1, <4>3
          <5> QED
            BY <3>1, <3>5, <3>6, <3>9, <4>1, <4>2, <5>1 DEF Handed
        <4>4. CASE x[1] # at[1]
          <5>1. /\ RhsOf(x) \in Entered /\ RhsOf(x) <= at[1]
                /\ LeafOf(RhsOf(x)) \in DOMAIN code'
                /\ code'[x].jid = code'[LeafOf(RhsOf(x))].jid
            BY <2>7, <4>1, <4>4
          <5>2. RhsOf(x) # at'[1]
            BY <1>1, <1>r, <3>5, <3>6, <4>1, <5>1
          <5> QED
            BY <2>1, <4>1, <4>2, <5>1, <5>2 DEF Handed
        <4> QED
          BY <4>3, <4>4
      <3> QED
        BY <3>1, <3>6, <3>7, <3>8, <3>10 DEF JidInv
    <2> QED
      BY <2>8, <2>9
  <1>6. CASE (WalkStep \/ WalkEnd) /\ phase = "walk"
    <2>1. UNCHANGED <<plan, at, todo, cv, code>> /\ phase' # "codegen"
      BY <1>6 DEF WalkStep, WalkEnd
    <2> QED
      BY <1>2, <1>6, <2>1 DEF JidInv, Handed, JoinPositions, Positions, OpAt, RhsOf, Reached,
                              Entered, LeafOf, Range, Joined, JoinsOf
  <1>7. CASE Aborts
    BY <1>2, <1>7 DEF Aborts, JidInv, Entered, Range
  <1>8. Visit => Advances \/ Joins \/ Leaves \/ Aborts
    BY <1>1, VisitKinds
  <1>9. WalkStep \/ WalkEnd => phase = "walk"
    BY DEF WalkStep, WalkEnd
  <1> QED
    BY <1>3, <1>4, <1>5, <1>6, <1>7, <1>8, <1>9 DEF Compile

-----------------------------------------------------------------------------
(***************************************************************************)
(* The argument slots.                                                     *)
(***************************************************************************)
LEMMA PlainFacts ==
  ASSUME plan \in Plans
  PROVE  /\ 1 \in DOMAIN plan /\ DOMAIN plan[1] = 1..Len(plan[1]) /\ Len(plan[1]) \in Nat
         /\ \A k \in Nat : Plain(k + 1) => Plain(k)
         /\ \A k \in DOMAIN plan[1] : Plain(k + 1) => ~TakesSlots(plan[1][k])
  <1>1. /\ 1 \in DOMAIN plan /\ DOMAIN plan[1] = 1..Len(plan[1]) /\ Len(plan[1]) \in Nat
    BY PlanFacts
  <1>2. ASSUME NEW k \in Nat, Plain(k + 1) PROVE Plain(k)
    <2>1. \A j \in 1..(k - 1) : j \in 1..((k + 1) - 1)
      BY <1>2
    <2> QED
      BY <1>2, <2>1 DEF Plain
  <1>3. ASSUME NEW k \in DOMAIN plan[1], Plain(k + 1) PROVE ~TakesSlots(plan[1][k])
    <2>1. k \in 1..((k + 1) - 1)
      BY <1>1
    <2> QED
      BY <1>3, <2>1 DEF Plain, TakesSlots
  <1> QED
    BY <1>1, <1>2, <1>3

\* Emitting another position's blocks leaves them as they are.
LEMMA SlotsKept ==
  ASSUME plan \in Plans, plan' = plan, NEW n \in Nat, SlotsUpTo(n),
         \A k \in 1..n : <<1, k>> \in DOMAIN code =>
           <<1, k>> \in DOMAIN code' /\ code'[<<1, k>>].op_id = code[<<1, k>>].op_id
  PROVE  /\ SlotsUpTo(n)'
         /\ \A k \in 0..n : k = 0 \/ <<1, k>> \in DOMAIN code => SlotAfter(k)' = SlotAfter(k)
         /\ \A k \in DOMAIN plan[1] : Plain(k) /\ k <= n + 1 => SlotAfter(k - 1)' = SlotAfter(k - 1)
  <1>1. /\ DOMAIN plan[1] = 1..Len(plan[1]) /\ Len(plan[1]) \in Nat
        /\ \A k \in Nat : Plain(k + 1) => Plain(k)
        /\ \A k \in DOMAIN plan[1] : Plain(k + 1) => ~TakesSlots(plan[1][k])
    BY PlainFacts
  <1>2. \A k \in 0..n : k = 0 \/ <<1, k>> \in DOMAIN code => SlotAfter(k)' = SlotAfter(k)
    <2> TAKE k \in 0..n
    <2> HAVE k = 0 \/ <<1, k>> \in DOMAIN code
    <2>1. CASE k = 0
      BY <2>1 DEF SlotAfter
    <2>2. CASE k # 0
      <3>1. k \in 1..n
        BY <2>2
      <3>2. code'[<<1, k>>].op_id = code[<<1, k>>].op_id
        BY <2>2, <3>1
      <3> QED
        BY <2>2, <3>2 DEF SlotAfter, Width
    <2> QED
      BY <2>1, <2>2
  <1>3. ASSUME NEW k \in DOMAIN plan[1], Plain(k), k <= n + 1
        PROVE  SlotAfter(k - 1)' = SlotAfter(k - 1)
    <2>1. CASE k = 1
      <3>1. k - 1 = 0 /\ 0 \in 0..n
        BY <2>1
      <3> QED
        BY <1>2, <3>1
    <2>2. CASE k # 1
      <3>1. /\ k - 1 \in DOMAIN plan[1] /\ k - 1 \in 0..n /\ (k - 1) + 1 = k /\ k - 1 <= n
            /\ k - 1 \in Nat
        BY <1>1, <1>3, <2>2
      <3>2. Plain(k - 1) /\ ~TakesSlots(plan[1][k - 1])
        <4>1. Plain((k - 1) + 1)
          BY <1>3, <3>1
        <4> QED
          BY <1>1, <3>1, <4>1
      <3>3. <<1, k - 1>> \in DOMAIN code
        BY <3>1, <3>2 DEF SlotsUpTo, TakesSlots
      <3> QED
        BY <1>2, <3>1, <3>3
    <2> QED
      BY <2>1, <2>2
  <1>4. ASSUME NEW k \in DOMAIN plan'[1], Plain(k)', plan'[1][k].type # "sort", k <= n
        PROVE  <<1, k>> \in DOMAIN code' /\ code'[<<1, k>>].op_id = SlotAfter(k - 1)'
    <2>1. k \in DOMAIN plan[1] /\ Plain(k) /\ plan[1][k].type # "sort"
      BY <1>4 DEF Plain
    <2>2. <<1, k>> \in DOMAIN code /\ code[<<1, k>>].op_id = SlotAfter(k - 1)
      BY <1>4, <2>1 DEF SlotsUpTo
    <2>3. k \in 1..n /\ k <= n + 1
      BY <1>1, <1>4, <2>1
    <2> QED
      BY <1>3, <2>1, <2>2, <2>3
  <1>5. SlotsUpTo(n)'
    BY <1>4 DEF SlotsUpTo
  <1> QED
    BY <1>2, <1>3, <1>5

\* A step that visits position <<1, n>>.
LEMMA SlotsExtended ==
  ASSUME CodegenType, plan \in Plans, plan' = plan, NEW n \in DOMAIN plan[1], at = <<1, n>>,
         SlotsUpTo(n - 1), Plain(n) => op_id = SlotAfter(n - 1),
         NEW jid, Emitted(jid) \/ (plan[1][n].type = "sort" /\ code' = code)
  PROVE  /\ SlotsUpTo(n)'
         /\ Plain(n + 1) => SlotAfter(n)' = op_id + Width(n)
  <1>1. /\ DOMAIN plan[1] = 1..Len(plan[1]) /\ Len(plan[1]) \in Nat
        /\ \A k \in Nat : Plain(k + 1) => Plain(k)
        /\ \A k \in DOMAIN plan[1] : Plain(k + 1) => ~TakesSlots(plan[1][k])
    BY PlainFacts
  <1>2. n \in Nat /\ n >= 1 /\ n - 1 \in Nat /\ n <= (n - 1) + 1
    BY <1>1
  <1>3. \A k \in 1..(n - 1) : <<1, k>> \in DOMAIN code =>
          <<1, k>> \in DOMAIN code' /\ code'[<<1, k>>].op_id = code[<<1, k>>].op_id
    <2> TAKE k \in 1..(n - 1)
    <2> HAVE <<1, k>> \in DOMAIN code
    <2>1. <<1, k>> # at
      BY <1>2
    <2> QED
      BY <2>1 DEF Emitted
  <1>4. /\ SlotsUpTo(n - 1)'
        /\ \A k \in DOMAIN plan[1] : Plain(k) /\ k <= (n - 1) + 1 => SlotAfter(k - 1)' = SlotAfter(k - 1)
    <2> DEFINE m == n - 1
    <2>1. m \in Nat /\ SlotsUpTo(m)
      BY <1>2
    <2>2. \A k \in 1..m : <<1, k>> \in DOMAIN code =>
            <<1, k>> \in DOMAIN code' /\ code'[<<1, k>>].op_id = code[<<1, k>>].op_id
      BY <1>3
    <2> HIDE DEF m
    <2>3. /\ SlotsUpTo(m)'
          /\ \A k \in DOMAIN plan[1] : Plain(k) /\ k <= m + 1 => SlotAfter(k - 1)' = SlotAfter(k - 1)
      BY <2>1, <2>2, SlotsKept
    <2> QED
      BY <2>3 DEF m
  <1>5. ASSUME Plain(n), plan[1][n].type # "sort"
        PROVE  <<1, n>> \in DOMAIN code' /\ code'[<<1, n>>].op_id = SlotAfter(n - 1)'
    <2>1. at \in DOMAIN code' /\ code'[at].op_id = op_id
      BY <1>5 DEF Emitted
    <2>2. SlotAfter(n - 1)' = SlotAfter(n - 1)
      BY <1>2, <1>4, <1>5
    <2> QED
      BY <1>5, <2>1, <2>2
  <1>6. SlotsUpTo(n)'
    <2>1. ASSUME NEW k \in DOMAIN plan'[1], Plain(k)', plan'[1][k].type # "sort", k <= n
          PROVE  <<1, k>> \in DOMAIN code' /\ code'[<<1, k>>].op_id = SlotAfter(k - 1)'
      <3>1. CASE k = n
        <4>1. Plain(n) /\ plan[1][n].type # "sort"
          BY <2>1, <3>1 DEF Plain
        <4> QED
          BY <1>5, <3>1, <4>1
      <3>2. CASE k # n
        <4>1. k <= n - 1
          BY <1>1, <1>2, <2>1, <3>2
        <4> QED
          BY <1>4, <2>1, <4>1 DEF SlotsUpTo
      <3> QED
        BY <3>1, <3>2
    <2> QED
      BY <2>1 DEF SlotsUpTo
  <1>7. ASSUME Plain(n + 1) PROVE SlotAfter(n)' = op_id + Width(n)
    <2>1. Plain(n) /\ plan[1][n].type # "sort"
      BY <1>1, <1>2, <1>7 DEF TakesSlots
    <2>2. code'[<<1, n>>].op_id = op_id
      BY <2>1 DEF Emitted
    <2>3. n # 0
      BY <1>2
    <2> QED
      BY <2>2, <2>3 DEF SlotAfter, Width
  <1> QED
    BY <1>6, <1>7

LEMMA SlotNext ==
  ASSUME CodegenType, OrderInv, OrderInv', SlotInv, Compile
  PROVE  SlotInv'
  <1>1. /\ plan \in Plans /\ at \in Positions /\ at = <<at[1], at[2]>>
        /\ at[1] \in DOMAIN plan /\ at[1] \in Nat /\ at[2] \in DOMAIN plan[at[1]]
        /\ at[2] \in Nat /\ at[2] >= 1
        /\ todo \in Seq(Nat) /\ \A i \in DOMAIN todo : todo[i] > 1
        /\ 1 \in DOMAIN plan /\ DOMAIN plan[1] = 1..Len(plan[1]) /\ Len(plan[1]) \in Nat
        /\ Len(plan[1]) >= 1 /\ op_id \in Nat
    BY PositionFacts, PlanFacts DEF OrderInv, CodegenType
  <1>2. /\ at[1] = 1 /\ phase = "codegen" => SlotsUpTo(at[2] - 1)
        /\ ~(at[1] = 1 /\ phase \in {"codegen", "aborted"}) => SlotsUpTo(Len(plan[1]))
        /\ at[1] = 1 /\ phase = "codegen" /\ Plain(at[2]) => op_id = SlotAfter(at[2] - 1)
        /\ phase = "codegen" => walk.cur = <<1, 1>> /\ walk.recur = <<>> /\ walk.args = <<>>
    BY DEF SlotInv
  <1>p. /\ \A k \in Nat : Plain(k + 1) => Plain(k)
        /\ \A k \in DOMAIN plan[1] : Plain(k + 1) => ~TakesSlots(plan[1][k])
    BY <1>1, PlainFacts
  \* The primed operators of the goal, applied to a value.
  <1>s. ASSUME NEW n, SlotsUpTo(n)',
               n = IF at'[1] = 1 /\ phase' \in {"codegen", "aborted"} THEN at'[2] - 1
                   ELSE Len(plan'[1])
        PROVE  SlotsUpTo(IF at[1] = 1 /\ phase \in {"codegen", "aborted"} THEN at[2] - 1
                         ELSE Len(plan[1]))'
    BY <1>s DEF SlotsUpTo
  <1>o. ASSUME NEW n, n = at'[2], Plain(n)' => op_id' = SlotAfter(n - 1)'
        PROVE  Plain(at[2])' => op_id' = SlotAfter(at[2] - 1)'
    BY <1>o DEF Plain, SlotAfter, Width
  <1>a. ASSUME NEW n, n = walk'.cur[2], Plain(n)' => Len(walk'.args) + 1 = SlotAfter(n - 1)'
        PROVE  Plain(walk.cur[2])' => Len(walk.args)' + 1 = SlotAfter(walk.cur[2] - 1)'
    BY <1>a DEF Plain, SlotAfter, Width
  \* Of the visits, in the first pipeline and in another one.
  <1>v. ASSUME NEW jid, Emitted(jid) \/ (OpAt(at).type = "sort" /\ code' = code),
               plan' = plan, phase = "codegen", NEW n
        PROVE  /\ at[1] = 1 /\ n = at[2] => /\ SlotsUpTo(n)'
                                            /\ Plain(n + 1) => SlotAfter(n)' = op_id + Width(n)
               /\ at[1] # 1 /\ n = Len(plan[1]) => SlotsUpTo(n)'
    <2>2. CASE at[1] = 1 /\ n = at[2]
      <3>1. /\ n \in DOMAIN plan[1] /\ at = <<1, n>> /\ SlotsUpTo(n - 1)
            /\ Plain(n) => op_id = SlotAfter(n - 1)
            /\ Emitted(jid) \/ (plan[1][n].type = "sort" /\ code' = code)
        BY <1>1, <1>2, <1>v, <2>2 DEF OpAt
      <3>2. /\ SlotsUpTo(n)'
            /\ Plain(n + 1) => SlotAfter(n)' = op_id + Width(n)
        BY <1>1, <1>v, <3>1, SlotsExtended
      <3> QED
        BY <2>2, <3>2
    <2>3. CASE at[1] # 1 /\ n = Len(plan[1])
      <3>1. n \in Nat /\ SlotsUpTo(n)
        BY <1>1, <1>2, <2>3
      <3>2. \A k \in 1..n : <<1, k>> \in DOMAIN code =>
              <<1, k>> \in DOMAIN code' /\ code'[<<1, k>>].op_id = code[<<1, k>>].op_id
        <4>1. \A k : <<1, k>> # at
          BY <1>1, <2>3
        <4> QED
          BY <1>v, <4>1 DEF Emitted
      <3>3. SlotsUpTo(n)'
        BY <1>1, <1>v, <3>1, <3>2, SlotsKept
      <3> QED
        BY <2>3, <3>3
    <2> QED
      BY <2>2, <2>3
  <1>3. CASE Advances \/ Joins
    <2>1. /\ plan' = plan /\ phase = "codegen" /\ phase' = "codegen" /\ walk' = walk
          /\ at' = <<at[1], at[2] + 1>>
      BY <1>3 DEF Advances, Joins, Succ
    <2>2. ~TakesSlots(OpAt(at)) => op_id' = op_id + IF Labelled(OpAt(at)) THEN 1 ELSE 0
      BY <1>1, <1>3 DEF Advances, Joins, IsJoin, Labelled
    <2>3. PICK jid : Emitted(jid) \/ (OpAt(at).type = "sort" /\ code' = code)
      BY <1>3 DEF Advances, Joins
    <2>4. PICK n : n = at[2]
      OBVIOUS
    <2>5. /\ at[1] = 1 => /\ SlotsUpTo(n)'
                          /\ Plain(n + 1) => SlotAfter(n)' = op_id + Width(n)
          /\ \A m : at[1] # 1 /\ m = Len(plan[1]) => SlotsUpTo(m)'
      BY <1>v, <2>1, <2>3, <2>4
    <2>6. at[1] = 1 => (Plain(n + 1) => op_id' = SlotAfter(n)')
      <3> SUFFICES ASSUME at[1] = 1, Plain(n + 1) PROVE op_id' = SlotAfter(n)'
        OBVIOUS
      <3>1. OpAt(at) = plan[1][n] /\ ~TakesSlots(plan[1][n])
        BY <1>1, <1>p, <2>4 DEF OpAt
      <3> QED
        BY <2>2, <2>5, <3>1 DEF Width
    <2>7. (n + 1) - 1 = n /\ at'[2] = n + 1 /\ at'[1] = at[1] /\ at'[2] - 1 = n
      BY <1>1, <2>1, <2>4
    <2>8. Plain(n + 1)' <=> Plain(n + 1)
      BY <2>1 DEF Plain
    <2>9. SlotsUpTo(IF at[1] = 1 /\ phase \in {"codegen", "aborted"} THEN at[2] - 1
                    ELSE Len(plan[1]))'
      <3>1. CASE at[1] = 1
        BY <1>s, <2>1, <2>5, <2>7, <3>1
      <3>2. CASE at[1] # 1
        BY <1>s, <2>1, <2>5, <2>7, <3>2
      <3> QED
        BY <3>1, <3>2
    <2>10. at[1] = 1 => (Plain(at[2])' => op_id' = SlotAfter(at[2] - 1)')
      <3>1. \A m : m = n + 1 => m - 1 = n
        BY <2>7
      <3>2. at[1] = 1 => (Plain(n + 1)' => op_id' = SlotAfter((n + 1) - 1)')
        BY <2>6, <2>7, <2>8
      <3> QED
        BY <1>o, <2>7, <3>2
    <2> QED
      BY <1>2, <2>1, <2>7, <2>9, <2>10 DEF SlotInv, Compiled
  <1>4. CASE Leaves
    <2>1. /\ plan' = plan /\ phase = "codegen" /\ walk' = walk
          /\ IF todo = <<>> THEN phase' = "walk" /\ at' = at /\ todo' = todo
             ELSE phase' = phase /\ at' = <<Last(todo), 1>> /\ todo' = Front(todo)
      BY <1>4 DEF Leaves, Ascend
    <2>2. at[1] = 1 => at[2] = Len(plan[1])
      BY <1>1, <1>4, PlanFacts DEF Leaves
    <2>3. PICK jid : Emitted(jid)
      BY <1>4 DEF Leaves
    <2>a. ~(at'[1] = 1 /\ phase' \in {"codegen", "aborted"})
      <3>1. CASE todo = <<>>
        BY <2>1, <3>1
      <3>2. CASE todo # <<>>
        <4>1. Last(todo) = todo[Len(todo)] /\ Len(todo) \in DOMAIN todo
          <5>1. Len(todo) \in Nat /\ Len(todo) >= 1 /\ DOMAIN todo = 1..Len(todo)
                /\ Last(todo) = todo[Len(todo)]
            BY <1>1, <3>2, FrontFacts
          <5> QED
            BY <5>1
        <4> QED
          BY <1>1, <2>1, <3>2, <4>1
      <3> QED
        BY <3>1, <3>2
    <2>4. SlotsUpTo(IF at[1] = 1 /\ phase \in {"codegen", "aborted"} THEN at[2] - 1
                    ELSE Len(plan[1]))'
      <3>1. PICK n : n = Len(plan[1])
        OBVIOUS
      <3>2. SlotsUpTo(n)'
        BY <1>v, <2>1, <2>2, <2>3, <3>1
      <3> QED
        BY <1>s, <2>1, <2>a, <3>1, <3>2
    <2>5. CASE todo = <<>>
      <3>1. phase' = "walk" /\ walk'.cur = <<1, 1>> /\ walk'.recur = <<>> /\ walk'.args = <<>>
        BY <1>2, <2>1, <2>5
      <3>2. walk'.cur \in Positions'
        BY <1>1, <2>1, <3>1, PositionFacts, PlanUnchanged
      <3>3. Len(walk.args)' + 1 = SlotAfter(walk.cur[2] - 1)'
        BY <3>1 DEF SlotAfter
      <3>4. \A k \in DOMAIN plan[1] : ~(walk'.cur[1] # 1 \/ k < walk'.cur[2])
        BY <1>1, <3>1
      <3> QED
        BY <2>1, <2>4, <2>a, <3>1, <3>2, <3>3, <3>4 DEF SlotInv, Compiled
    <2>6. CASE todo # <<>>
      <3>1. phase' = "codegen" /\ at'[1] # 1
        BY <2>1, <2>6, <2>a
      <3> QED
        BY <1>2, <2>1, <2>4, <3>1 DEF SlotInv, Compiled
    <2> QED
      BY <2>5, <2>6
  <1>5. CASE Aborts
    <2>1. /\ phase = "codegen" /\ phase' = "aborted"
          /\ UNCHANGED <<plan, at, op_id, code, walk>>
      BY <1>5 DEF Aborts
    <2> QED
      BY <1>2, <2>1 DEF SlotInv, Compiled, SlotsUpTo, Plain, SlotAfter, Width
  <1>6. CASE WalkStep
    <2>1. /\ UNCHANGED <<plan, phase, at, todo, op_id, cv, code>> /\ phase = "walk"
      BY <1>6 DEF WalkStep
    <2>2. /\ walk.cur \in Positions /\ walk.args \in Seq(LabelsOf)
          /\ walk.cur[1] = 1 /\ Plain(walk.cur[2]) =>
               Len(walk.args) + 1 = SlotAfter(walk.cur[2] - 1)
          /\ \A k \in DOMAIN plan[1] :
               Plain(k) /\ (walk.cur[1] # 1 \/ k < walk.cur[2]) => InSlot(k)
          /\ SlotsUpTo(Len(plan[1]))
      BY <1>2, <2>1 DEF SlotInv, CodegenType
    <2>3. PICK cur : Walked(cur)
      BY <1>1, <1>6, WalkFacts
    <2>4. /\ cur \in Positions /\ ~IsLeaf(OpAt(cur))
          /\ IF IsLeaf(OpAt(walk.cur)) THEN cur[1] > 1 /\ cur[2] = 1 ELSE cur = walk.cur
          /\ walk'.cur = <<cur[1], cur[2] + 1>>
          /\ walk'.args = ExtractArg(walk.args, OpAt(walk.cur))
          /\ \A i \in DOMAIN walk'.recur : walk'.recur[i] \in DOMAIN plan /\ walk'.recur[i] > 1
      BY <2>3 DEF Walked, Succ
    <2>5. walk'.cur \in Positions'
      <3>1. Succ(cur) \in Positions
        BY <1>1, <2>4, PlanFacts
      <3> QED
        BY <2>1, <2>3, <3>1, PlanUnchanged DEF Walked
    <2>6. PICK c : c = walk.cur[2]
      OBVIOUS
    <2>7. /\ c \in DOMAIN plan[walk.cur[1]] /\ c \in Nat /\ c >= 1 /\ walk.cur = <<walk.cur[1], c>>
          /\ walk.cur[1] \in Nat /\ cur[1] \in Nat /\ cur[2] \in Nat
      <3>1. \A x \in Positions :
              /\ x = <<x[1], x[2]>> /\ x[2] \in DOMAIN plan[x[1]] /\ x[1] \in Nat
              /\ x[2] \in Nat /\ x[2] >= 1
        BY <1>1, PositionFacts, PlanFacts
      <3> QED
        BY <2>2, <2>4, <2>6, <3>1
    <2>8. walk.cur[1] = 1 => OpAt(walk.cur) = plan[1][c] /\ c \in DOMAIN plan[1]
      BY <2>6, <2>7 DEF OpAt
    \* The arguments, after the label of the operator at hand.
    <2>9. /\ walk.cur[1] = 1 /\ Plain(c + 1) => Len(walk'.args) = Len(walk.args) + Width(c)
          /\ \A i \in DOMAIN walk.args : i \in DOMAIN walk'.args /\ walk'.args[i] = walk.args[i]
          /\ Labelled(OpAt(walk.cur)) /\ ~OpAt(walk.cur).indexed =>
               /\ Len(walk.args) + 1 \in DOMAIN walk'.args
               /\ walk'.args[Len(walk.args) + 1] = OpAt(walk.cur).label
          /\ Len(walk.args) \in Nat
      <3>1. OpAt(walk.cur).label \in LabelsOf /\ "" \in LabelsOf
        BY <2>2 DEF LabelsOf
      <3>2. CASE Labelled(OpAt(walk.cur))
        <4>1. PICK l \in LabelsOf : /\ walk'.args = Append(walk.args, l)
                                    /\ ~OpAt(walk.cur).indexed => l = OpAt(walk.cur).label
          BY <2>4, <3>1, <3>2 DEF ExtractArg
        <4>2. /\ Len(walk'.args) = Len(walk.args) + 1 /\ Len(walk.args) \in Nat
              /\ DOMAIN walk'.args = 1..(Len(walk.args) + 1)
              /\ DOMAIN walk.args = 1..Len(walk.args)
              /\ walk'.args[Len(walk.args) + 1] = l
              /\ \A i \in 1..Len(walk.args) : walk'.args[i] = walk.args[i]
          <5>1. PICK a, b : a \in Seq(LabelsOf) /\ a = walk.args /\ b = walk'.args
            BY <2>2
          <5>2. b = Append(a, l)
            BY <4>1, <5>1
          <5>3. /\ Len(b) = Len(a) + 1 /\ Len(a) \in Nat
                /\ DOMAIN b = 1..(Len(a) + 1) /\ DOMAIN a = 1..Len(a)
                /\ b[Len(a) + 1] = l /\ \A i \in 1..Len(a) : b[i] = a[i]
            BY <5>2
          <5> QED
            BY <5>1, <5>3
        <4>3. walk.cur[1] = 1 => Width(c) = 1
          BY <2>8, <3>2 DEF Width
        <4>4. \A i \in DOMAIN walk.args : i \in DOMAIN walk'.args
          BY <4>2
        <4>5. Len(walk.args) + 1 \in DOMAIN walk'.args
          BY <4>2
        <4>6. ~OpAt(walk.cur).indexed => l = OpAt(walk.cur).label
          BY <4>1
        <4>7. \A i \in DOMAIN walk.args : walk'.args[i] = walk.args[i]
          BY <4>2
        <4> QED
          BY <4>2, <4>3, <4>4, <4>5, <4>6, <4>7
      <3>3. CASE ~Labelled(OpAt(walk.cur))
        <4>1. walk'.args = walk.args
          BY <2>4, <3>3 DEF ExtractArg
        <4>2. walk.cur[1] = 1 => Width(c) = 0
          BY <2>8, <3>3 DEF Width
        <4> QED
          BY <2>2, <3>3, <4>1, <4>2
      <3> QED
        BY <3>2, <3>3
    <2>10. walk'.cur[1] = 1 => (Plain(walk.cur[2])' => Len(walk.args)' + 1 = SlotAfter(walk.cur[2] - 1)')
      <3> SUFFICES ASSUME walk'.cur[1] = 1
                   PROVE  Plain(walk.cur[2])' => Len(walk.args)' + 1 = SlotAfter(walk.cur[2] - 1)'
        OBVIOUS
      <3>1. ~IsLeaf(OpAt(walk.cur)) /\ cur = walk.cur /\ walk.cur[1] = 1
        BY <2>4, <2>7
      <3>2. walk'.cur[2] = c + 1
        BY <2>4, <2>6, <3>1
      <3>3. ASSUME Plain(c + 1) PROVE Len(walk'.args) + 1 = SlotAfter(c)
        <4>1. Plain(c) /\ ~TakesSlots(plan[1][c])
          BY <1>p, <2>7, <2>8, <3>1, <3>3
        <4>2. code[<<1, c>>].op_id = SlotAfter(c - 1) /\ c # 0
          BY <1>1, <2>2, <2>7, <2>8, <3>1, <4>1 DEF SlotsUpTo, TakesSlots
        <4>3. Len(walk.args) + 1 = SlotAfter(c - 1)
          BY <2>2, <2>6, <3>1, <4>1
        <4>4. SlotAfter(c) = code[<<1, c>>].op_id + Width(c) /\ Width(c) \in Nat
          BY <4>2 DEF SlotAfter, Width
        <4> QED
          BY <2>9, <3>1, <3>3, <4>2, <4>3, <4>4
      <3>4. (c + 1) - 1 = c
        BY <2>7
      <3>5. (Plain(c + 1)' <=> Plain(c + 1)) /\ SlotAfter(c)' = SlotAfter(c)
        BY <2>1 DEF Plain, SlotAfter, Width
      <3>6. Plain(c + 1)' => Len(walk'.args) + 1 = SlotAfter((c + 1) - 1)'
        BY <3>3, <3>4, <3>5
      <3> QED
        BY <1>a, <3>2, <3>6
    <2>11. ASSUME NEW k \in DOMAIN plan[1], Plain(k), walk'.cur[1] # 1 \/ k < walk'.cur[2]
           PROVE  InSlot(k)'
      <3> SUFFICES ASSUME Labelled(plan[1][k]), ~plan[1][k].indexed
                   PROVE  /\ code[<<1, k>>].op_id \in DOMAIN walk'.args
                          /\ walk'.args[code[<<1, k>>].op_id] = plan[1][k].label
        BY <2>1 DEF InSlot
      <3>1. CASE walk.cur[1] # 1 \/ k < walk.cur[2]
        BY <2>2, <2>9, <2>11, <3>1 DEF InSlot
      <3>2. CASE walk.cur[1] = 1 /\ ~(k < c)
        <4>1. k \in Nat /\ k <= Len(plan[1])
          BY <1>1
        <4>2. ~IsLeaf(OpAt(walk.cur))
          <5>1. IsLeaf(OpAt(walk.cur)) => c = Len(plan[1])
            BY <1>1, <2>2, <2>6, <3>2, PlanFacts
          <5>2. IsLeaf(OpAt(walk.cur)) => k = c
            BY <1>1, <2>7, <3>2, <4>1, <5>1
          <5> QED
            BY <2>8, <3>2, <5>2 DEF IsLeaf, Labelled
        <4>3. k = c
          <5>1. walk'.cur[1] = 1 /\ walk'.cur[2] = c + 1
            BY <2>4, <2>6, <3>2, <4>2
          <5> QED
            BY <2>7, <2>11, <3>2, <4>1, <5>1
        <4>4. code[<<1, k>>].op_id = SlotAfter(k - 1)
          BY <2>2, <2>11, <4>1 DEF SlotsUpTo, Labelled
        <4>5. code[<<1, k>>].op_id = Len(walk.args) + 1
          BY <2>2, <2>6, <2>11, <3>2, <4>3, <4>4
        <4> QED
          BY <2>8, <2>9, <3>2, <4>3, <4>5
      <3> QED
        BY <2>6, <3>1, <3>2
    <2>12. SlotsUpTo(IF at[1] = 1 /\ phase \in {"codegen", "aborted"} THEN at[2] - 1
                     ELSE Len(plan[1]))'
      BY <2>1, <2>2 DEF SlotsUpTo, Plain, SlotAfter, Width
    <2>13. \A k \in DOMAIN plan[1] : Plain(k)' <=> Plain(k)
      BY <2>1 DEF Plain
    <2> QED
      BY <2>1, <2>4, <2>5, <2>10, <2>11, <2>12, <2>13 DEF SlotInv, Compiled
  <1>7. CASE WalkEnd
    <2>1. /\ UNCHANGED <<plan, at, todo, op_id, cv, code, walk>> /\ phase = "walk"
          /\ phase' \in {"idle", "aborted"} /\ IsLeaf(OpAt(walk.cur))
      BY <1>7 DEF WalkEnd
    <2>2. /\ walk.cur \in Positions
          /\ \A k \in DOMAIN plan[1] :
               Plain(k) /\ (walk.cur[1] # 1 \/ k < walk.cur[2]) => InSlot(k)
          /\ SlotsUpTo(Len(plan[1]))
      BY <1>2, <2>1 DEF SlotInv
    <2>3. ASSUME NEW k \in DOMAIN plan[1], Plain(k) PROVE InSlot(k)
      <3>1. CASE walk.cur[1] # 1 \/ k < walk.cur[2]
        BY <2>2, <2>3, <3>1
      <3>2. CASE walk.cur[1] = 1 /\ ~(k < walk.cur[2])
        <4>1. walk.cur[2] = Len(plan[1])
          BY <1>1, <2>1, <2>2, <3>2, PlanFacts
        <4>2. k = Len(plan[1])
          BY <1>1, <3>2, <4>1
        <4>3. plan[1][k] = OpAt(walk.cur)
          BY <3>2, <4>1, <4>2 DEF OpAt
        <4> QED
          BY <2>1, <4>3 DEF InSlot, Labelled, IsLeaf
      <3> QED
        BY <3>1, <3>2
    <2>4. \A k : (Plain(k)' <=> Plain(k)) /\ (InSlot(k)' <=> InSlot(k))
      BY <2>1 DEF Plain, InSlot
    <2>5. SlotsUpTo(IF at[1] = 1 /\ phase \in {"codegen", "aborted"} THEN at[2] - 1
                    ELSE Len(plan[1]))'
      <3>1. \A k : SlotAfter(k)' = SlotAfter(k)
        BY <2>1 DEF SlotAfter, Width
      <3>2. ASSUME NEW n, n = Len(plan[1]) \/ (at[1] = 1 /\ n = at[2] - 1)
            PROVE  SlotsUpTo(n)'
        <4>1. \A k \in DOMAIN plan[1] : k <= n => k <= Len(plan[1])
          BY <1>1
        <4> QED
          BY <2>1, <2>2, <2>4, <3>1, <4>1 DEF SlotsUpTo
      <3> QED
        BY <1>s, <2>1, <3>2
    <2> QED
      BY <2>1, <2>3, <2>4, <2>5 DEF SlotInv, Compiled
  <1>8. Visit => Advances \/ Joins \/ Leaves \/ Aborts
    BY <1>1, VisitKinds
  <1> QED
    BY <1>3, <1>4, <1>5, <1>6, <1>7, <1>8 DEF Compile

-----------------------------------------------------------------------------
(***************************************************************************)
(* The links between the operators' blocks.                                *)
(***************************************************************************)
\* The blocks of the visited operator return where the visitor says, and follow
\* those of prev.
LinkedTo(prev) ==
  /\ DOMAIN code' = DOMAIN code \cup {at}
  /\ code'[at].ret = cv.main_return /\ code'[at].end = cv.scan_nodes_end
  /\ \A x \in DOMAIN code : x # at =>
       /\ code'[x].ret = code[x].ret /\ code'[x].end = code[x].end
       /\ code'[x].next = IF x = prev THEN at ELSE code[x].next

LEMMA LinkFacts ==
  ASSUME CodegenType, NEW prev, NEW jid, NEW cmp, EmitTest(prev, jid, cmp)
  PROVE  LinkedTo(prev)
  <1>1. DOMAIN code' = DOMAIN code \cup {at}
    BY DEF EmitTest
  <1>2. code'[at] = [op_id |-> op_id, ret |-> cv.main_return, regs |-> cv.regs,
                     keys |-> cv.project_string, end |-> cv.scan_nodes_end,
                     jid |-> jid, cmp |-> cmp, next |-> Null]
    BY DEF EmitTest
  <1>3. ASSUME NEW x \in DOMAIN code, x # at
        PROVE  /\ code'[x].ret = code[x].ret /\ code'[x].end = code[x].end
               /\ code'[x].next = IF x = prev THEN at ELSE code[x].next
    <2>1. code'[x] = IF x = prev THEN [code[x] EXCEPT !.next = at] ELSE code[x]
      BY <1>3 DEF EmitTest
    <2>2. code[x] = [op_id |-> code[x].op_id, ret |-> code[x].ret, regs |-> code[x].regs,
                     keys |-> code[x].keys, end |-> code[x].end, jid |-> code[x].jid,
                     cmp |-> code[x].cmp, next |-> code[x].next]
      BY DEF CodegenType
    <2> QED
      BY <2>1, <2>2
  <1> QED
    BY <1>1, <1>2, <1>3 DEF LinkedTo

\* What a visit does to the links.
Links ==
  /\ phase = "codegen" /\ phase' = phase /\ plan' = plan /\ at' = Succ(at)
  /\ OpAt(at).type # "sort" /\ ~IsLeaf(OpAt(at))
  /\ LinkedTo(IF at[2] = 1 THEN Null ELSE cv.prev_bb)
  /\ cv'.prev_bb = at
  /\ cv'.main_return = IF IsLoop(at) THEN Block(at, LoopBlock(OpAt(at))) ELSE cv.main_return
  /\ IF at[2] = 1 THEN cv'.scan_nodes_end \in {Null, Block(at, "end")}
     ELSE cv'.scan_nodes_end = cv.scan_nodes_end
  /\ OpAt(at).type = "limit" => cv.scan_nodes_end # Null

Skips ==
  /\ phase = "codegen" /\ phase' = phase /\ plan' = plan /\ at' = Succ(at)
  /\ OpAt(at).type = "sort"
  /\ UNCHANGED <<cv, code>>

LEMMA FlowKinds ==
  ASSUME CodegenType, OrderInv, FlowInv, Visit
  PROVE  Links \/ Skips \/ (Leaves /\ LinkedTo(cv.prev_bb)) \/ Aborts
  <1>t. cv = [main_return |-> cv.main_return, prev_bb |-> cv.prev_bb,
              scan_nodes_end |-> cv.scan_nodes_end, regs |-> cv.regs,
              project_string |-> cv.project_string, jids |-> cv.jids,
              query_id_inline |-> cv.query_id_inline, entry |-> cv.entry,
              expr_register |-> cv.expr_register]
    BY DEF CodegenType
  <1>p. /\ plan \in Plans /\ at \in Positions /\ at = <<at[1], at[2]>> /\ at[2] \in Nat
        /\ at[2] >= 1
        /\ OpAt(at).type = "scan" => at[2] = 1
        /\ at[2] = 1 => OpAt(at).type \in {"scan", "create"}
    BY PositionFacts, PlanFacts DEF OpAt, OrderInv
  <1>1. CASE VisitScan
    <2>1. /\ phase = "codegen" /\ OpAt(at).type = "scan"
          /\ EmitTest(Null, Null, Null) /\ Descend(IF OpAt(at).indexed THEN 3 ELSE 1)
      BY <1>1 DEF VisitScan, VisitScanEntry, Visiting, Emit
    <2>2. PICK keys, regs :
            cv' = [cv EXCEPT !.regs = regs,
                             !.main_return = Block(at, IF OpAt(at).indexed THEN "end" ELSE "next"),
                             !.scan_nodes_end = Block(at, "end"),
                             !.prev_bb = at, !.project_string = keys,
                             !.entry = <<at[1]>> \o cv.entry]
      BY <1>1, Zenon DEF VisitScan, VisitScanEntry
    <2>3. /\ cv'.prev_bb = at /\ cv'.scan_nodes_end = Block(at, "end")
          /\ cv'.main_return = Block(at, IF OpAt(at).indexed THEN "end" ELSE "next")
      BY <1>t, <2>2
    <2>4. LinkedTo(Null)
      BY <2>1, LinkFacts
    <2>5. LoopBlock(OpAt(at)) = IF OpAt(at).indexed THEN "end" ELSE "next"
      BY <2>1 DEF LoopBlock
    <2> QED
      BY <1>p, <2>1, <2>3, <2>4, <2>5 DEF Links, Descend, IsLeaf, IsLoop
  <1>2. CASE VisitForeach
    <2>1. /\ phase = "codegen" /\ OpAt(at).type = "foreach_rship"
          /\ EmitTest(cv.prev_bb, Null, Null) /\ Descend(1)
      BY <1>2 DEF VisitForeach, Visiting, Emit
    <2>2. PICK regs :
            cv' = [cv EXCEPT !.regs = regs, !.prev_bb = at,
                     !.main_return = Block(at, IF OpAt(at).variable THEN "head" ELSE "next")]
      BY <1>2, Zenon DEF VisitForeach
    <2>3. /\ cv'.prev_bb = at /\ cv'.scan_nodes_end = cv.scan_nodes_end
          /\ cv'.main_return = Block(at, IF OpAt(at).variable THEN "head" ELSE "next")
      BY <1>t, <2>2
    <2>4. LinkedTo(cv.prev_bb)
      BY <2>1, LinkFacts
    <2>5. LoopBlock(OpAt(at)) = IF OpAt(at).variable THEN "head" ELSE "next"
      BY <2>1 DEF LoopBlock
    <2> QED
      BY <1>p, <2>1, <2>3, <2>4, <2>5 DEF Links, Descend, IsLeaf, IsLoop
  <1>c. ASSUME phase = "codegen", OpAt(at).type \in {"expand", "filter", "project", "limit", "create"},
               at[2] > 1, NEW cmp, EmitTest(cv.prev_bb, Null, cmp), NEW w, Descend(w),
               cv'.prev_bb = at, cv'.scan_nodes_end = cv.scan_nodes_end,
               cv'.main_return = cv.main_return,
               OpAt(at).type = "limit" => cv.scan_nodes_end # Null
        PROVE  Links
    <2>1. LinkedTo(cv.prev_bb)
      BY <1>c, LinkFacts
    <2>2. ~IsLoop(at) /\ ~IsLeaf(OpAt(at))
      BY <1>c, <1>p DEF IsLoop, IsJoin, IsLeaf
    <2>3. at[2] # 1
      BY <1>c, <1>p
    <2> QED
      BY <1>c, <2>1, <2>2, <2>3 DEF Links, Descend
  <1>3. CASE VisitExpand
    <2>1. /\ phase = "codegen" /\ OpAt(at).type = "expand"
          /\ EmitTest(cv.prev_bb, Null, Null) /\ Descend(1)
      BY <1>3 DEF VisitExpand, Visiting, Emit
    <2>2. PICK regs : cv' = [cv EXCEPT !.regs = regs, !.prev_bb = at]
      BY <1>3, Zenon DEF VisitExpand
    <2>3. /\ cv'.prev_bb = at /\ cv'.scan_nodes_end = cv.scan_nodes_end
          /\ cv'.main_return = cv.main_return
      BY <1>t, <2>2
    <2> QED
      BY <1>c, <1>p, <2>1, <2>3
  <1>4. CASE VisitFilter
    <2> DEFINE e == OpAt(at).fexpr
               tested == Tested(e)
    <2>1. /\ phase = "codegen" /\ OpAt(at).type = "filter"
          /\ UNCHANGED todo
          /\ \/ /\ cv' = [cv EXCEPT !.prev_bb = at,
                                    !.expr_register = IF e.kind = "eq" THEN tested ELSE @]
                /\ EmitTest(cv.prev_bb, Null, tested) /\ Descend(1)
             \/ Abort
      BY <1>4 DEF VisitFilter, Visiting
    <2>2. CASE Abort
      BY <2>1, <2>2 DEF Abort, Aborts
    <2>3. CASE ~Abort
      <3> HIDE DEF tested
      <3>1. /\ cv'.prev_bb = at /\ cv'.scan_nodes_end = cv.scan_nodes_end
            /\ cv'.main_return = cv.main_return
        BY <1>t, <2>1, <2>3
      <3> QED
        BY <1>c, <1>p, <2>1, <2>3, <3>1
    <2> QED
      BY <2>2, <2>3
  <1>5. CASE VisitProject
    <2>1. /\ phase = "codegen" /\ OpAt(at).type = "project" /\ UNCHANGED todo
          /\ \/ \E regs : /\ cv' = [cv EXCEPT !.regs = regs, !.prev_bb = at]
                         /\ EmitTest(cv.prev_bb, Null, Null) /\ Descend(0)
             \/ Abort
      BY <1>5, Zenon DEF VisitProject, Visiting, Emit
    <2>2. CASE Abort
      BY <2>1, <2>2 DEF Abort, Aborts
    <2>3. CASE ~Abort
      <3>1. PICK regs : /\ cv' = [cv EXCEPT !.regs = regs, !.prev_bb = at]
                        /\ EmitTest(cv.prev_bb, Null, Null) /\ Descend(0)
        BY <2>1, <2>3
      <3>2. /\ cv'.prev_bb = at /\ cv'.scan_nodes_end = cv.scan_nodes_end
            /\ cv'.main_return = cv.main_return
        BY <1>t, <3>1
      <3>3. phase = "codegen" /\ OpAt(at).type = "project"
        BY <2>1
      <3>4. EmitTest(cv.prev_bb, Null, Null) /\ Descend(0)
        BY <3>1
      <3> QED
        BY <1>c, <1>p, <3>2, <3>3, <3>4
    <2> QED
      BY <2>2, <2>3
  <1>6. CASE VisitJoin
    <2>1. /\ phase = "codegen" /\ IsJoin(OpAt(at))
          /\ EmitTest(cv.prev_bb, cv.query_id_inline, Null) /\ Descend(0)
      BY <1>6 DEF VisitJoin, VisitJoinQueueing, Emit
    <2>2. PICK regs :
            cv' = [cv EXCEPT !.regs = regs, !.prev_bb = at,
                     !.main_return = Block(at, IF OpAt(at).type = "left_join" THEN "ret" ELSE "cond"),
                     !.jids = Append(@, cv.query_id_inline),
                     !.query_id_inline = @ + 1]
      BY <1>6, Zenon DEF VisitJoin, VisitJoinQueueing
    <2>3. /\ cv'.prev_bb = at /\ cv'.scan_nodes_end = cv.scan_nodes_end
          /\ cv'.main_return = Block(at, IF OpAt(at).type = "left_join" THEN "ret" ELSE "cond")
      BY <1>t, <2>2
    <2>4. LinkedTo(cv.prev_bb)
      BY <2>1, LinkFacts
    <2>5. LoopBlock(OpAt(at)) = IF OpAt(at).type = "left_join" THEN "ret" ELSE "cond"
      BY <2>1 DEF LoopBlock, IsJoin
    <2> QED
      BY <1>p, <2>1, <2>3, <2>4, <2>5 DEF Links, Descend, IsLeaf, IsLoop, IsJoin
  <1>7. CASE VisitSort
    BY <1>7 DEF VisitSort, Visiting, Skips, Descend
  <1>8. CASE VisitLimit
    <2>1. /\ phase = "codegen" /\ OpAt(at).type = "limit" /\ UNCHANGED todo
          /\ \/ /\ cv' = [cv EXCEPT !.prev_bb = at] /\ cv.scan_nodes_end # Null
                /\ EmitTest(cv.prev_bb, Null, Null) /\ Descend(1)
             \/ Abort
      BY <1>8 DEF VisitLimit, Visiting, Emit
    <2>2. CASE Abort
      BY <2>1, <2>2 DEF Abort, Aborts
    <2>3. CASE ~Abort
      <3>1. /\ cv'.prev_bb = at /\ cv'.scan_nodes_end = cv.scan_nodes_end
            /\ cv'.main_return = cv.main_return
        BY <1>t, <2>1, <2>3
      <3> QED
        BY <1>c, <1>p, <2>1, <2>3, <3>1
    <2> QED
      BY <2>2, <2>3
  <1>9. CASE VisitCreate
    <2> DEFINE access == cv.entry = <<>>
    <2>1. /\ phase = "codegen" /\ OpAt(at).type = "create" /\ UNCHANGED todo
          /\ \/ /\ access \/ at[2] > 1
                /\ \E regs :
                     cv' = [cv EXCEPT !.regs = regs,
                                      !.main_return = IF access THEN Block(at, "end") ELSE @,
                                      !.entry = IF access THEN <<at[1]>> ELSE @, !.prev_bb = at]
                /\ EmitTest(IF access THEN Null ELSE cv.prev_bb, Null, Null)
                /\ Descend(2)
             \/ Abort
      BY <1>9, Zenon DEF VisitCreate, Visiting, Emit
    <2>2. CASE Abort
      BY <2>1, <2>2 DEF Abort, Aborts
    <2>3. CASE ~Abort
      <3>1. /\ access \/ at[2] > 1
            /\ EmitTest(IF access THEN Null ELSE cv.prev_bb, Null, Null)
            /\ Descend(2)
        BY <2>1, <2>3
      <3>2. PICK regs :
              cv' = [cv EXCEPT !.regs = regs,
                               !.main_return = IF access THEN Block(at, "end") ELSE @,
                               !.entry = IF access THEN <<at[1]>> ELSE @, !.prev_bb = at]
        BY <2>1, <2>3
      <3>3. access <=> at[2] = 1
        <4>1. at[1] \in Entered \/ at[2] = 1
          BY DEF OrderInv
        <4>2. at[1] \in Entered => cv.entry # <<>>
          BY DEF Entered, Range
        <4> QED
          BY <1>p, <3>1, <4>1, <4>2
      <3>4. CASE access
        <4>1. /\ cv'.prev_bb = at /\ cv'.scan_nodes_end = cv.scan_nodes_end
              /\ cv'.main_return = Block(at, "end")
          BY <1>t, <3>2, <3>4
        <4>2. cv.scan_nodes_end = Null
          BY <2>1, <3>4 DEF FlowInv
        <4>3. LinkedTo(Null)
          BY <3>1, <3>4, LinkFacts
        <4>4. LoopBlock(OpAt(at)) = "end"
          BY <2>1 DEF LoopBlock
        <4>5. at[2] = 1
          BY <3>3, <3>4
        <4> QED
          BY <2>1, <3>1, <4>1, <4>2, <4>3, <4>4, <4>5 DEF Links, Descend, IsLeaf, IsLoop
      <3>5. CASE ~access
        <4>1. /\ cv'.prev_bb = at /\ cv'.scan_nodes_end = cv.scan_nodes_end
              /\ cv'.main_return = cv.main_return
          BY <1>t, <3>2, <3>5
        <4>2. EmitTest(cv.prev_bb, Null, Null) /\ at[2] > 1
          BY <3>1, <3>5
        <4> QED
          BY <1>c, <2>1, <3>1, <4>1, <4>2
      <3> QED
        BY <3>4, <3>5
    <2> QED
      BY <2>2, <2>3
  <1>10. CASE VisitCollect \/ VisitEnd
    <2>1. \E jid : EmitTest(cv.prev_bb, jid, Null)
      BY <1>10 DEF VisitCollect, VisitEnd, Emit
    <2>2. LinkedTo(cv.prev_bb)
      BY <2>1, LinkFacts
    <2>3. phase = "codegen" /\ IsLeaf(OpAt(at))
      BY <1>10 DEF VisitCollect, VisitEnd, Visiting, IsLeaf
    <2>4. Advances \/ Joins \/ Leaves \/ Aborts
      BY <1>p, VisitKinds
    <2>5. ~Advances /\ ~Joins
      BY <2>3 DEF Advances, Joins, IsLeaf, IsJoin
    <2> QED
      BY <2>2, <2>4, <2>5
  <1>11. CASE VisitUnusable
    BY <1>11 DEF VisitUnusable, Abort, Aborts
  <1> QED
    BY <1>1, <1>2, <1>3, <1>4, <1>5, <1>6, <1>7, <1>8, <1>9, <1>10, <1>11 DEF Visit

\* What holds of the blocks there are holds when there are more.
LEMMA FlowKept ==
  ASSUME plan' = plan, DOMAIN code \subseteq DOMAIN code'
  PROVE  /\ \A x : OpAt(x)' = OpAt(x) /\ IsLoop(x)' = IsLoop(x)
         /\ \A x, y : Follows(x, y)' = Follows(x, y)
         /\ \A b, x : Innermost(b, x) => Innermost(b, x)'
  <1>1. \A x : OpAt(x)' = OpAt(x) /\ IsLoop(x)' = IsLoop(x)
    BY DEF OpAt, IsLoop
  <1>2. \A x, y : Follows(x, y)' = Follows(x, y)
    BY <1>1 DEF Follows
  <1>3. ASSUME NEW b, NEW x, Innermost(b, x) PROVE Innermost(b, x)'
    BY <1>1, <1>3 DEF Innermost
  <1> QED
    BY <1>1, <1>2, <1>3

\* The innermost loop around the next operator is the operator, if it is one, or
\* that around it.
LEMMA InnermostNext ==
  ASSUME plan' = plan, DOMAIN code \subseteq DOMAIN code',
         NEW p, NEW n \in Nat, n >= 1, NEW b,
         IF IsLoop(<<p, n>>)
         THEN <<p, n>> \in DOMAIN code' /\ b = Block(<<p, n>>, LoopBlock(OpAt(<<p, n>>)))
         ELSE Innermost(b, <<p, n>>)
  PROVE  Innermost(b, <<p, n + 1>>)'
  <1>1. /\ \A j : OpAt(<<p, j>>)' = OpAt(<<p, j>>) /\ IsLoop(<<p, j>>)' = IsLoop(<<p, j>>)
        /\ \A x : OpAt(x)' = OpAt(x)
    BY FlowKept
  <1>2. CASE IsLoop(<<p, n>>)
    <2>1. n \in 1..(n + 1 - 1) /\ (n + 1)..(n + 1 - 1) = {}
      OBVIOUS
    <2>2. /\ <<p, n>> \in DOMAIN code' /\ IsLoop(<<p, n>>)'
          /\ b = Block(<<p, n>>, LoopBlock(OpAt(<<p, n>>)'))
      BY <1>1, <1>2
    <2> QED
      BY <2>1, <2>2 DEF Innermost
  <1>3. CASE ~IsLoop(<<p, n>>)
    <2>1. PICK j \in 1..(n - 1) :
            /\ <<p, j>> \in DOMAIN code
            /\ IsLoop(<<p, j>>) /\ \A k \in (j + 1)..(n - 1) : ~IsLoop(<<p, k>>)
            /\ b = Block(<<p, j>>, LoopBlock(OpAt(<<p, j>>)))
      BY <1>3 DEF Innermost
    <2>2. j \in 1..(n + 1 - 1)
      OBVIOUS
    <2>3. ASSUME NEW k \in (j + 1)..(n + 1 - 1) PROVE ~IsLoop(<<p, k>>)'
      <3>1. k \in (j + 1)..(n - 1) \/ k = n
        OBVIOUS
      <3>2. ~IsLoop(<<p, k>>)
        BY <1>3, <2>1, <3>1
      <3> QED
        BY <1>1, <3>2
    <2>4. /\ <<p, j>> \in DOMAIN code' /\ IsLoop(<<p, j>>)'
          /\ b = Block(<<p, j>>, LoopBlock(OpAt(<<p, j>>)'))
      BY <1>1, <2>1
    <2> QED
      BY <2>2, <2>3, <2>4 DEF Innermost
  <1> QED
    BY <1>2, <1>3

\* The invariant holds of code that no longer changes.
LEMMA FlowUnchanged ==
  ASSUME FlowInv, UNCHANGED <<plan, at, cv, code>>,
         phase' = phase \/ {phase, phase'} \cap {"codegen", "aborted"} = {}
  PROVE  FlowInv'
  <1>1. /\ \A x : OpAt(x)' = OpAt(x)
        /\ \A x, y : Follows(x, y)' = Follows(x, y)
        /\ \A b, x : Innermost(b, x) => Innermost(b, x)'
    BY FlowKept
  <1>2. Positions' = Positions /\ Entered' = Entered
    BY DEF Positions, Entered, Range
  <1>3. phase' = phase \/ (phase # "codegen" /\ phase' # "codegen" /\ phase # "aborted" /\ phase' # "aborted")
    OBVIOUS
  <1>4. ASSUME NEW x \in DOMAIN code
        PROVE  /\ x \in Positions' /\ OpAt(x)'.type # "sort"
               /\ x[2] > 1 => Innermost(code[x].ret, x)'
               /\ OpAt(x)'.type = "limit" => code'[x].end = <<x[1], 1, "end">>
               /\ ~IsLeaf(OpAt(x)') /\ phase' # "aborted" =>
                    \/ code'[x].next \in DOMAIN code' /\ Follows(x, code[x].next)'
                    \/ phase' = "codegen" /\ at'[2] > 1 /\ x = cv'.prev_bb
    <2>1. PICK b, y : b = code[x].ret /\ y = code[x].next
      OBVIOUS
    <2>2. /\ x \in Positions /\ OpAt(x).type # "sort"
          /\ x[2] > 1 => Innermost(b, x)
          /\ OpAt(x).type = "limit" => code[x].end = <<x[1], 1, "end">>
          /\ ~IsLeaf(OpAt(x)) /\ phase # "aborted" =>
               \/ y \in DOMAIN code /\ Follows(x, y)
               \/ phase = "codegen" /\ at[2] > 1 /\ x = cv.prev_bb
      BY <2>1 DEF FlowInv
    <2>3. /\ x[2] > 1 => Innermost(b, x)'
          /\ Follows(x, y) => Follows(x, y)'
      BY <1>1, <2>2
    <2>4. b = code'[x].ret /\ y = code'[x].next
      BY <2>1
    <2>5. x[2] > 1 => Innermost(code[x].ret, x)'
      BY <2>3, <2>4 DEF Innermost
    <2> QED
      BY <1>1, <1>2, <1>3, <2>2, <2>3, <2>4, <2>5 DEF Follows
  <1>5. phase' = "codegen" /\ at'[2] > 1 =>
          /\ Innermost(cv.main_return, at)'
          /\ cv'.scan_nodes_end \in {Null, <<at'[1], 1, "end">>}
          /\ cv'.prev_bb \in DOMAIN code' /\ Follows(cv.prev_bb, at)'
    <2>1. PICK b, x, y : b = cv.main_return /\ x = cv.prev_bb /\ y = at
      OBVIOUS
    <2>2. phase' = "codegen" /\ at'[2] > 1 =>
            /\ Innermost(b, y) /\ Follows(x, y) /\ cv.prev_bb \in DOMAIN code
            /\ cv.scan_nodes_end \in {Null, <<at[1], 1, "end">>}
      BY <1>3, <2>1 DEF FlowInv
    <2>3. /\ Innermost(b, y) => Innermost(b, y)'
          /\ Follows(x, y) => Follows(x, y)'
      BY <1>1
    <2>4. b = cv'.main_return /\ x = cv'.prev_bb /\ y = at'
      BY <2>1
    <2> QED
      BY <2>2, <2>3, <2>4 DEF Innermost, Follows
  <1>6. /\ \A p \in Entered' : <<p, 1>> \in DOMAIN code'
        /\ phase' = "codegen" /\ cv'.entry = <<>> => cv'.scan_nodes_end = Null
    BY <1>2, <1>3 DEF FlowInv
  <1> QED
    BY <1>4, <1>5, <1>6 DEF FlowInv

LEMMA FlowNext ==
  ASSUME CodegenType, OrderInv, FlowInv, Compile
  PROVE  FlowInv'
  <1>1. /\ plan \in Plans /\ at \in Positions /\ at = <<at[1], at[2]>>
        /\ at[1] \in DOMAIN plan /\ at[2] \in Nat /\ at[2] >= 1
        /\ at[1] \in Entered \/ at[2] = 1
        /\ at[2] = 1 => OpAt(at).type \in {"scan", "create"}
        /\ IsLeaf(OpAt(at)) => at[2] # 1
        /\ OpAt(at).type = "sort" => at[2] # 1
    BY PositionFacts, PlanFacts DEF OrderInv, OpAt, IsLeaf
  <1>2. \A x \in Positions : x = <<x[1], x[2]>> /\ x[2] \in Nat /\ x[2] >= 1 /\ x # Null
    <2>1. ASSUME NEW x \in Positions
          PROVE  x = <<x[1], x[2]>> /\ x[1] \in Nat /\ x[2] \in Nat /\ x[2] >= 1
      BY <1>1, PositionFacts, PlanFacts
    <2> QED
      BY <2>1, NullAssumption
  <1>3. /\ \A x \in DOMAIN code :
             /\ x \in Positions /\ OpAt(x).type # "sort"
             /\ x[2] > 1 => Innermost(code[x].ret, x)
             /\ OpAt(x).type = "limit" => code[x].end = <<x[1], 1, "end">>
             /\ ~IsLeaf(OpAt(x)) /\ phase # "aborted" =>
                  \/ code[x].next \in DOMAIN code /\ Follows(x, code[x].next)
                  \/ phase = "codegen" /\ at[2] > 1 /\ x = cv.prev_bb
        /\ phase = "codegen" /\ at[2] > 1 =>
             /\ Innermost(cv.main_return, at)
             /\ cv.scan_nodes_end \in {Null, <<at[1], 1, "end">>}
             /\ cv.prev_bb \in DOMAIN code /\ Follows(cv.prev_bb, at)
        /\ \A p \in Entered : <<p, 1>> \in DOMAIN code
    BY DEF FlowInv
  \* The visited operator returns to the innermost loop, and the others as before.
  <1>r. ASSUME NEW prev, LinkedTo(prev), plan' = plan, phase = "codegen",
               OpAt(at).type # "sort", OpAt(at).type = "limit" => cv.scan_nodes_end # Null,
               NEW x \in DOMAIN code'
        PROVE  /\ x \in Positions' /\ OpAt(x)'.type # "sort"
               /\ x[2] > 1 => Innermost(code[x].ret, x)'
               /\ OpAt(x)'.type = "limit" => code'[x].end = <<x[1], 1, "end">>
    <2>1. x \in DOMAIN code \/ x = at
      BY <1>r DEF LinkedTo
    <2>2. x \in Positions' /\ OpAt(x)' = OpAt(x) /\ OpAt(x).type # "sort" /\ x[2] \in Nat
      BY <1>1, <1>2, <1>3, <1>r, <2>1, PlanUnchanged
    <2>3. x[2] > 1 => Innermost(IF x = at THEN cv.main_return ELSE code[x].ret, x)
      BY <1>3, <1>r, <2>1
    <2>4. code'[x].ret = IF x = at THEN cv.main_return ELSE code[x].ret
      BY <1>r, <2>1 DEF LinkedTo
    <2>5. x[2] > 1 => Innermost(code[x].ret, x)'
      <3>1. PICK b : b = IF x = at THEN cv.main_return ELSE code[x].ret
        OBVIOUS
      <3>2. x[2] > 1 => Innermost(b, x)'
        BY <1>r, <2>3, <3>1, FlowKept DEF LinkedTo
      <3>3. b = code'[x].ret
        BY <2>4, <3>1
      <3> QED
        BY <3>2, <3>3 DEF Innermost
    <2>6. OpAt(x).type = "limit" => code'[x].end = <<x[1], 1, "end">>
      <3>1. CASE x = at
        <4>1. code'[x].end = cv.scan_nodes_end
          BY <1>r, <3>1 DEF LinkedTo
        <4> QED
          BY <1>1, <1>3, <1>r, <3>1, <4>1
      <3>2. CASE x # at
        BY <1>3, <1>r, <2>1, <3>2 DEF LinkedTo
      <3> QED
        BY <3>1, <3>2
    <2> QED
      BY <2>2, <2>5, <2>6
  <1>4. CASE Visit /\ Links
    <2>1. /\ phase = "codegen" /\ phase' = "codegen" /\ plan' = plan
          /\ at' = <<at[1], at[2] + 1>> /\ at'[1] = at[1] /\ at'[2] = at[2] + 1
          /\ OpAt(at).type # "sort" /\ ~IsLeaf(OpAt(at))
          /\ LinkedTo(IF at[2] = 1 THEN Null ELSE cv.prev_bb)
          /\ cv'.prev_bb = at
          /\ OpAt(at).type = "limit" => cv.scan_nodes_end # Null
          /\ DOMAIN code' = DOMAIN code \cup {at}
      BY <1>4 DEF Links, LinkedTo, Succ
    <2>2. Innermost(cv.main_return, at)'
      <3>1. PICK p, n, b : p = at[1] /\ n = at[2] /\ b = cv'.main_return
        OBVIOUS
      <3>2. at = <<p, n>> /\ at' = <<p, n + 1>> /\ n \in Nat /\ n >= 1
        BY <1>1, <2>1, <3>1
      <3>3. CASE IsLoop(at)
        <4>1. b = Block(at, LoopBlock(OpAt(at)))
          BY <1>4, <3>1, <3>3 DEF Links
        <4>2. IsLoop(<<p, n>>) /\ <<p, n>> \in DOMAIN code'
              /\ b = Block(<<p, n>>, LoopBlock(OpAt(<<p, n>>)))
          BY <2>1, <3>2, <3>3, <4>1
        <4>3. Innermost(b, <<p, n + 1>>)'
          BY <2>1, <3>2, <4>2, InnermostNext
        <4> QED
          BY <3>1, <3>2, <4>3
      <3>4. CASE ~IsLoop(at)
        <4>1. b = cv.main_return /\ at[2] > 1
          BY <1>1, <1>4, <3>1, <3>4 DEF Links, IsLoop
        <4>2. ~IsLoop(<<p, n>>) /\ Innermost(b, <<p, n>>)
          BY <1>3, <2>1, <3>2, <3>4, <4>1
        <4>3. Innermost(b, <<p, n + 1>>)'
          BY <2>1, <3>2, <4>2, InnermostNext
        <4> QED
          BY <3>1, <3>2, <4>3
      <3> QED
        BY <3>3, <3>4
    <2>3. ASSUME NEW x \in DOMAIN code', ~IsLeaf(OpAt(x)')
          PROVE  \/ code'[x].next \in DOMAIN code' /\ Follows(x, code[x].next)'
                 \/ x = cv'.prev_bb
      <3>1. CASE x = at
        BY <2>1, <3>1
      <3>2. CASE x # at
        <4>1. x \in DOMAIN code /\ OpAt(x)' = OpAt(x)
          BY <2>1, <3>2, FlowKept
        <4>2. x # Null
          BY <1>2, <1>3, <4>1
        <4>3. code'[x].next = IF at[2] # 1 /\ x = cv.prev_bb THEN at ELSE code[x].next
          BY <2>1, <3>2, <4>1, <4>2 DEF LinkedTo
        <4>4. PICK y : y = code'[x].next
          OBVIOUS
        <4>5. y \in DOMAIN code' /\ Follows(x, y)
          <5>1. CASE at[2] # 1 /\ x = cv.prev_bb
            BY <1>1, <1>3, <2>1, <4>3, <4>4, <5>1
          <5>2. CASE ~(at[2] # 1 /\ x = cv.prev_bb)
            BY <1>1, <1>3, <2>1, <2>3, <4>1, <4>3, <4>4, <5>2
          <5> QED
            BY <5>1, <5>2
        <4>6. Follows(x, y)'
          BY <2>1, <4>5, FlowKept
        <4> QED
          BY <4>4, <4>5, <4>6
      <3> QED
        BY <3>1, <3>2
    <2>4. Follows(at, <<at[1], at[2] + 1>>)
      BY <1>1 DEF Follows
    <2>5. Follows(cv.prev_bb, at)'
      <3>1. PICK x, y : x = at /\ y = <<at[1], at[2] + 1>>
        OBVIOUS
      <3>2. Follows(x, y)'
        BY <2>1, <2>4, <3>1, FlowKept
      <3> QED
        BY <2>1, <3>1, <3>2
    <2>6. cv'.scan_nodes_end \in {Null, <<at'[1], 1, "end">>}
      <3>1. CASE at[2] = 1
        BY <1>4, <2>1, <3>1 DEF Links, Block
      <3>2. CASE at[2] # 1
        BY <1>1, <1>3, <1>4, <2>1, <3>2 DEF Links
      <3> QED
        BY <3>1, <3>2
    <2>7. (\A p \in Entered : <<p, 1>> \in DOMAIN code)' /\ cv'.entry # <<>>
      <3>1. Advances \/ Joins
        <4>1. Advances \/ Joins \/ Leaves \/ Aborts
          BY <1>1, <1>4, VisitKinds
        <4> QED
          BY <2>1, <4>1 DEF Leaves, Aborts
      <3>2. Entered' = Entered \cup {at[1]}
        BY <3>1, EnteredNext
      <3>3. <<at[1], 1>> \in DOMAIN code'
        BY <1>1, <1>3, <2>1
      <3>4. \A p \in Entered' : <<p, 1>> \in DOMAIN code'
        BY <1>3, <2>1, <3>2, <3>3
      <3>5. cv'.entry # <<>>
        BY <3>2 DEF Entered, Range
      <3> QED
        BY <3>4, <3>5
    <2> QED
      BY <1>1, <1>r, <2>1, <2>2, <2>3, <2>5, <2>6, <2>7 DEF FlowInv
  \* The others' blocks stay.
  <1>s. ASSUME plan' = plan, code' = code, NEW x \in DOMAIN code'
        PROVE  /\ x \in Positions' /\ OpAt(x)'.type # "sort"
               /\ x[2] > 1 => Innermost(code[x].ret, x)'
               /\ OpAt(x)'.type = "limit" => code'[x].end = <<x[1], 1, "end">>
    <2>1. x \in DOMAIN code /\ x \in Positions' /\ OpAt(x)' = OpAt(x)
      BY <1>3, <1>s, PlanUnchanged
    <2>2. PICK b : b = code[x].ret
      OBVIOUS
    <2>3. x[2] > 1 => Innermost(b, x)'
      BY <1>3, <1>s, <2>1, <2>2, FlowKept
    <2>4. x[2] > 1 => Innermost(code[x].ret, x)'
      BY <1>s, <2>2, <2>3 DEF Innermost
    <2> QED
      BY <1>3, <1>s, <2>1, <2>4
  <1>5. CASE Skips
    <2>1. /\ phase = "codegen" /\ phase' = "codegen" /\ plan' = plan /\ cv' = cv /\ code' = code
          /\ at' = <<at[1], at[2] + 1>> /\ at'[1] = at[1] /\ at'[2] = at[2] + 1
          /\ OpAt(at).type = "sort" /\ at[2] > 1
      BY <1>1, <1>5 DEF Skips, Succ
    <2>2. Innermost(cv.main_return, at)'
      <3>1. PICK p, n, b : p = at[1] /\ n = at[2] /\ b = cv'.main_return
        OBVIOUS
      <3>2. at = <<p, n>> /\ at' = <<p, n + 1>> /\ n \in Nat /\ n >= 1
        BY <1>1, <2>1, <3>1
      <3>3. ~IsLoop(<<p, n>>) /\ Innermost(b, <<p, n>>)
        BY <1>1, <1>3, <2>1, <3>1, <3>2 DEF IsLoop, IsJoin
      <3>4. Innermost(b, <<p, n + 1>>)'
        BY <2>1, <3>2, <3>3, InnermostNext
      <3> QED
        BY <3>1, <3>2, <3>4
    <2>3. ASSUME NEW x \in DOMAIN code', ~IsLeaf(OpAt(x)')
          PROVE  \/ code'[x].next \in DOMAIN code' /\ Follows(x, code[x].next)'
                 \/ x = cv'.prev_bb
      <3>1. PICK y : y = code[x].next
        OBVIOUS
      <3>2. x \in DOMAIN code /\ ~IsLeaf(OpAt(x)) /\ (x = cv.prev_bb \/ (y \in DOMAIN code /\ Follows(x, y)))
        BY <1>3, <2>1, <2>3, <3>1, FlowKept
      <3>3. x = cv.prev_bb \/ Follows(x, y)'
        BY <2>1, <3>2, FlowKept
      <3> QED
        BY <2>1, <3>1, <3>2, <3>3 DEF Follows
    <2>4. Follows(cv.prev_bb, at)'
      <3>1. PICK x, y : x = cv.prev_bb /\ y = <<at[1], at[2] + 1>>
        OBVIOUS
      <3>2. Follows(x, at) /\ x \in Positions
        BY <1>3, <2>1, <3>1
      <3>3. Follows(x, y)
        <4>1. x[2] \in Nat /\ x[1] = at[1] /\ x[2] < at[2]
          BY <1>2, <3>2 DEF Follows
        <4>2. ASSUME NEW k \in (x[2] + 1)..(at[2] + 1 - 1) PROVE OpAt(<<x[1], k>>).type = "sort"
          <5>1. k \in (x[2] + 1)..(at[2] - 1) \/ k = at[2]
            BY <1>1, <4>1
          <5>2. CASE k = at[2]
            BY <1>1, <2>1, <4>1, <5>2
          <5> QED
            BY <3>2, <5>1, <5>2 DEF Follows
        <4> QED
          BY <1>1, <3>1, <4>1, <4>2 DEF Follows
      <3>4. Follows(x, y)'
        BY <2>1, <3>3, FlowKept
      <3> QED
        BY <2>1, <3>1, <3>4
    <2>5. cv'.scan_nodes_end \in {Null, <<at'[1], 1, "end">>} /\ cv'.prev_bb \in DOMAIN code'
      BY <1>3, <2>1
    <2>6. (\A p \in Entered : <<p, 1>> \in DOMAIN code)'
      BY <1>3, <2>1 DEF Entered
    <2>7. cv'.entry = <<>> => cv'.scan_nodes_end = Null
      BY <2>1 DEF FlowInv
    <2>8. \A x \in DOMAIN code' :
            /\ x \in Positions' /\ OpAt(x)'.type # "sort"
            /\ x[2] > 1 => Innermost(code[x].ret, x)'
            /\ OpAt(x)'.type = "limit" => code'[x].end = <<x[1], 1, "end">>
      BY <1>s, <2>1
    <2>9. \A x \in DOMAIN code' : ~IsLeaf(OpAt(x)') =>
            \/ code'[x].next \in DOMAIN code' /\ Follows(x, code[x].next)'
            \/ phase' = "codegen" /\ at'[2] > 1 /\ x = cv'.prev_bb
      BY <1>1, <2>1, <2>3
    <2> QED
      BY <2>2, <2>4, <2>5, <2>6, <2>7, <2>8, <2>9 DEF FlowInv
  <1>6. CASE Leaves /\ LinkedTo(cv.prev_bb)
    <2>1. /\ phase = "codegen" /\ plan' = plan /\ cv'.entry = cv.entry
          /\ IsLeaf(OpAt(at)) /\ at[2] > 1 /\ at[1] \in Entered
          /\ OpAt(at).type # "sort" /\ OpAt(at).type # "limit"
          /\ DOMAIN code' = DOMAIN code \cup {at}
      BY <1>1, <1>6 DEF Leaves, Ascend, IsLeaf, LinkedTo
    <2>2. phase' # "codegen" \/ at'[2] = 1
      BY <1>6, <2>1 DEF Leaves, Ascend
    <2>3. ASSUME NEW x \in DOMAIN code', ~IsLeaf(OpAt(x)')
          PROVE  code'[x].next \in DOMAIN code' /\ Follows(x, code[x].next)'
      <3>1. x \in DOMAIN code /\ x # at /\ ~IsLeaf(OpAt(x))
        BY <2>1, <2>3, FlowKept
      <3>2. code'[x].next = IF x = cv.prev_bb THEN at ELSE code[x].next
        BY <1>6, <3>1 DEF LinkedTo
      <3>3. PICK y : y = code'[x].next
        OBVIOUS
      <3>4. y \in DOMAIN code' /\ Follows(x, y)
        BY <1>3, <2>1, <3>1, <3>2, <3>3
      <3>5. Follows(x, y)'
        BY <2>1, <3>4, FlowKept
      <3> QED
        BY <3>3, <3>4, <3>5
    <2>4. (\A p \in Entered : <<p, 1>> \in DOMAIN code)' /\ cv'.entry # <<>>
      BY <1>3, <2>1 DEF Entered, Range
    <2> QED
      BY <1>6, <1>r, <2>1, <2>2, <2>3, <2>4 DEF FlowInv
  <1>7. CASE Aborts \/ WalkStep \/ WalkEnd
    <2>1. /\ plan' = plan /\ at' = at /\ cv' = cv /\ code' = code
          /\ phase' # "codegen"
          /\ phase' = "aborted" \/ phase = "walk"
      BY <1>7 DEF Aborts, WalkStep, WalkEnd
    <2>2. ASSUME NEW x \in DOMAIN code', ~IsLeaf(OpAt(x)'), phase' # "aborted"
          PROVE  code'[x].next \in DOMAIN code' /\ Follows(x, code[x].next)'
      <3>1. PICK y : y = code[x].next
        OBVIOUS
      <3>2. x \in DOMAIN code /\ y \in DOMAIN code /\ Follows(x, y)
        BY <1>3, <2>1, <2>2, <3>1, FlowKept
      <3>3. Follows(x, y)'
        BY <2>1, <3>2, FlowKept
      <3> QED
        BY <2>1, <3>1, <3>2, <3>3
    <2>3. (\A p \in Entered : <<p, 1>> \in DOMAIN code)'
      BY <1>3, <2>1 DEF Entered
    <2> QED
      BY <1>s, <2>1, <2>2, <2>3 DEF FlowInv
  <1>8. Links \/ Skips \/ (Leaves /\ LinkedTo(cv.prev_bb)) \/ Aborts \/ WalkStep \/ WalkEnd
    BY FlowKinds DEF Compile
  <1>9. CASE Links /\ ~Visit
    BY <1>9 DEF Compile, WalkStep, WalkEnd, Links
  <1> QED
    BY <1>4, <1>5, <1>6, <1>7, <1>8, <1>9

-----------------------------------------------------------------------------
(***************************************************************************)
(* The types of the registers of a pipeline.                               *)
(***************************************************************************)
\* A set of natural numbers that is not empty has a least element.
LEMMA Least ==
  ASSUME NEW T, T \subseteq Nat, T # {}
  PROVE  \E n \in T : \A m \in T : n <= m
  <1> DEFINE R == {ss \in Nat \X Nat : ss[1] < ss[2]}
  <1>1. IsWellFoundedOn(R, Nat)
    BY NatLessThanWellFounded DEF OpToRel
  <1>2. \A m, n \in T : m < n => <<m, n>> \in R
    OBVIOUS
  <1> HIDE DEF R
  <1>3. \E n \in T : \A m \in T : ~(<<m, n>> \in R)
    BY <1>1, WFMin
  <1>4. PICK n \in T : \A m \in T : ~(m < n)
    BY <1>2, <1>3
  <1>5. \A m \in T : m \in Nat /\ n \in Nat
    OBVIOUS
  <1> QED
    BY <1>4, <1>5

\* Induction, for a set of natural numbers.
LEMMA SetInduction ==
  ASSUME NEW T, 0 \in T, \A n \in Nat : n \in T => n + 1 \in T
  PROVE  \A n \in Nat : n \in T
  <1> DEFINE U == {n \in Nat : n \notin T}
  <1> SUFFICES ASSUME U # {} PROVE FALSE
    OBVIOUS
  <1>1. U \subseteq Nat
    OBVIOUS
  <1>2. PICK n \in U : \A m \in U : n <= m
    <2> HIDE DEF U
    <2> QED
      BY <1>1, Least
  <1>3. n \in Nat /\ n # 0 /\ n - 1 \in Nat /\ n - 1 \notin U /\ n - 1 + 1 = n
    BY <1>2
  <1> QED
    BY <1>2, <1>3

\* c holds what FlattenSeq has appended to each other after each sequence.
Flattens(c, seqs) ==
  /\ c[1] = seqs[1]
  /\ \A i \in 1..Len(seqs) : i # 1 => c[i] = c[i - 1] \o seqs[i]
  /\ FlattenSeq(seqs) = c[Len(seqs)]

\* FlattenSeq appends the sequences of a sequence to each other.
LEMMA FlattenIs ==
  ASSUME NEW seqs, IsSequence(seqs), Len(seqs) # 0
  PROVE  \E c : Flattens(c, seqs)
  <1>a. Len(seqs) \in Nat /\ DOMAIN seqs = 1..Len(seqs)
    BY DEF IsSequence
  <1>b. Len(seqs) # 0
    OBVIOUS
  <1> DEFINE Is(f, m) == f = [i \in 1..m |-> IF i = 1 THEN seqs[i] ELSE f[i - 1] \o seqs[i]]
             T == {m \in Nat : m < Len(seqs) => \E f : Is(f, m + 1)}
  <1>1. 0 \in T
    <2> DEFINE f == [i \in 1..1 |-> seqs[i]]
    <2>1. f = [i \in 1..1 |-> IF i = 1 THEN seqs[i] ELSE f[i - 1] \o seqs[i]]
      OBVIOUS
    <2>2. \E h : Is(h, 0 + 1)
      <3> HIDE DEF f
      <3> QED
        BY <2>1
    <2> HIDE DEF Is
    <2> QED
      BY <2>2
  <1>2. ASSUME NEW m \in Nat, m \in T PROVE m + 1 \in T
    <2>0. ASSUME m + 1 < Len(seqs) PROVE \E f : Is(f, m + 1)
      <3> HIDE DEF Is
      <3> QED
        BY <1>a, <1>2, <2>0
    <2>a. SUFFICES ASSUME m + 1 < Len(seqs) PROVE \E h : Is(h, m + 1 + 1)
      <3> HIDE DEF Is
      <3> QED
        OBVIOUS
    <2>1. PICK f : Is(f, m + 1)
      BY <2>0, <2>a
    <2> DEFINE n == m + 1
               g == [i \in 1..(n + 1) |-> IF i = n + 1 THEN f[n] \o seqs[n + 1] ELSE f[i]]
    <2>2. ASSUME NEW i \in 1..(n + 1)
          PROVE  g[i] = IF i = 1 THEN seqs[i] ELSE g[i - 1] \o seqs[i]
      <3>1. CASE i = n + 1
        <4>1. i - 1 = n /\ n \in 1..(n + 1) /\ n # n + 1 /\ i # 1
          BY <3>1
        <4>2. g[n] = f[n] /\ g[i] = f[n] \o seqs[n + 1]
          BY <3>1, <4>1
        <4> QED
          BY <3>1, <4>1, <4>2
      <3>2. CASE i # n + 1
        <4>1. i \in 1..n /\ (i # 1 => i - 1 \in 1..(n + 1) /\ i - 1 # n + 1)
          BY <3>2
        <4>2. f[i] = IF i = 1 THEN seqs[i] ELSE f[i - 1] \o seqs[i]
          BY <2>1, <4>1
        <4>3. g[i] = f[i] /\ (i # 1 => g[i - 1] = f[i - 1])
          BY <3>2, <4>1
        <4> QED
          BY <4>2, <4>3
      <3> QED
        BY <3>1, <3>2
    <2>3. Is(g, n + 1)
      <3>1. g = [i \in 1..(n + 1) |-> g[i]]
        OBVIOUS
      <3> HIDE DEF g
      <3> QED
        BY <2>2, <3>1
    <2>4. \E h : Is(h, n + 1)
      <3> HIDE DEF g, Is
      <3> QED
        BY <2>3
    <2> QED
      BY <2>4
  <1>3. \A m \in Nat : m \in T
    <2> HIDE DEF T
    <2> QED
      BY <1>1, <1>2, SetInduction
  <1>4. Len(seqs) - 1 \in Nat /\ Len(seqs) - 1 < Len(seqs) /\ Len(seqs) - 1 + 1 = Len(seqs)
    BY <1>a, <1>b
  <1>5. \E f : Is(f, Len(seqs))
    <2> HIDE DEF Is
    <2> QED
      BY <1>3, <1>4
  <1> DEFINE h == CHOOSE g : Is(g, Len(seqs))
  <1>7. FlattenSeq(seqs) = h[Len(seqs)]
    BY <1>b DEF FlattenSeq
  <1>8. Is(h, Len(seqs))
    <2> HIDE DEF Is
    <2> QED
      BY <1>5
  <1> HIDE DEF h
  <1>10. h[1] = seqs[1] /\ \A i \in 1..Len(seqs) : i # 1 => h[i] = h[i - 1] \o seqs[i]
    <2>1. 1 \in 1..Len(seqs)
      BY <1>a, <1>b
    <2> QED
      BY <1>8, <2>1
  <1> QED
    <2>1. Flattens(h, seqs)
      BY <1>7, <1>10 DEF Flattens
    <2> QED
      BY <2>1

\* The sequences of a sequence, one after the other.
LEMMA FlattenType ==
  ASSUME NEW S, NEW seqs, IsSequence(seqs), \A i \in DOMAIN seqs : seqs[i] \in Seq(S)
  PROVE  FlattenSeq(seqs) \in Seq(S)
  <1>1. Len(seqs) \in Nat /\ DOMAIN seqs = 1..Len(seqs)
    BY DEF IsSequence
  <1>2. CASE Len(seqs) = 0
    <2>1. seqs \in Seq(S)
      BY <1>1, <1>2
    <2> QED
      BY <1>2, <2>1 DEF FlattenSeq
  <1>3. CASE Len(seqs) # 0
    <2>0. PICK c : Flattens(c, seqs)
      BY <1>3, FlattenIs
    <2>1. /\ c[1] = seqs[1]
          /\ \A i \in 1..Len(seqs) : i # 1 => c[i] = c[i - 1] \o seqs[i]
          /\ FlattenSeq(seqs) = c[Len(seqs)]
      BY <2>0 DEF Flattens
    <2> DEFINE V == {m \in Nat : m < Len(seqs) => c[m + 1] \in Seq(S)}
    <2>2. 0 \in V
      <3>1. 1 \in 1..Len(seqs) /\ 0 + 1 = 1
        BY <1>1, <1>3
      <3> QED
        BY <1>1, <2>1, <3>1
    <2>3. ASSUME NEW m \in Nat, m \in V PROVE m + 1 \in V
      <3> SUFFICES ASSUME m + 1 < Len(seqs) PROVE c[m + 1 + 1] \in Seq(S)
        OBVIOUS
      <3>1. PICK j, k : j = m + 1 + 1 /\ k = m + 1
        OBVIOUS
      <3>2. j \in 1..Len(seqs) /\ j # 1 /\ j - 1 = k /\ m < Len(seqs)
        BY <1>1, <3>1
      <3>3. c[j] = c[k] \o seqs[j]
        <4>1. c[j] = c[j - 1] \o seqs[j]
          BY <2>1, <3>2
        <4> QED
          BY <3>2, <4>1
      <3>4. c[k] \in Seq(S) /\ seqs[j] \in Seq(S)
        BY <1>1, <2>3, <3>1, <3>2
      <3>5. c[j] \in Seq(S)
        BY <3>3, <3>4
      <3> QED
        BY <3>1, <3>5
    <2>4. \A m \in Nat : m \in V
      <3> HIDE DEF V
      <3> QED
        BY <2>2, <2>3, SetInduction
    <2>5. Len(seqs) - 1 \in Nat /\ Len(seqs) - 1 < Len(seqs) /\ Len(seqs) - 1 + 1 = Len(seqs)
      BY <1>1, <1>3
    <2> QED
      BY <2>1, <2>4, <2>5
  <1> QED
    BY <1>2, <1>3

\* What get_rhs_type returns: the recursion, which goes to pipelines of higher numbers,
\* ends.
TypesEq(types, p) ==
  types[p] = FlattenSeq([k \in DOMAIN plan[p] |-> OpTypes(plan[p][k], types)])

LEMMA RhsTypesIs ==
  ASSUME plan \in Plans
  PROVE  /\ DOMAIN RhsTypes(plan) = DOMAIN plan
         /\ \A p \in DOMAIN plan : TypesEq(RhsTypes(plan), p)
  <1>1. /\ Len(plan) \in Nat /\ DOMAIN plan = 1..Len(plan)
        /\ \A p \in DOMAIN plan : \A k \in DOMAIN plan[p] :
             IsJoin(plan[p][k]) => plan[p][k].rhs \in DOMAIN plan /\ p < plan[p][k].rhs
    BY PlansAssumption DEF IsPlan, IsSequence
  \* Only the pipelines above matter.
  <1>2. ASSUME NEW f, NEW g, NEW p \in DOMAIN plan, \A q \in DOMAIN plan : q > p => f[q] = g[q]
        PROVE  FlattenSeq([k \in DOMAIN plan[p] |-> OpTypes(plan[p][k], f)]) =
               FlattenSeq([k \in DOMAIN plan[p] |-> OpTypes(plan[p][k], g)])
    <2>1. ASSUME NEW k \in DOMAIN plan[p]
          PROVE  OpTypes(plan[p][k], f) = OpTypes(plan[p][k], g)
      <3>1. IsJoin(plan[p][k]) => f[plan[p][k].rhs] = g[plan[p][k].rhs]
        BY <1>1, <1>2
      <3> QED
        BY <3>1 DEF OpTypes, IsJoin
    <2>2. [k \in DOMAIN plan[p] |-> OpTypes(plan[p][k], f)] =
          [k \in DOMAIN plan[p] |-> OpTypes(plan[p][k], g)]
      BY <2>1
    <2> QED
      BY <2>2
  <1> DEFINE Same(f, p) == f[p] = FlattenSeq([k \in DOMAIN plan[p] |-> OpTypes(plan[p][k], f)])
             Is(f, n) == DOMAIN f = DOMAIN plan /\ f = [p \in DOMAIN plan |-> f[p]]
                         /\ \A p \in DOMAIN plan : p > Len(plan) - n => Same(f, p)
             T == {n \in Nat : n <= Len(plan) => \E f : Is(f, n)}
  <1>3. 0 \in T
    <2> DEFINE f == [p \in DOMAIN plan |-> <<>>]
    <2>1. Is(f, 0)
      <3>1. \A p \in DOMAIN plan : ~(p > Len(plan) - 0)
        BY <1>1
      <3> HIDE DEF Same
      <3> QED
        BY <3>1
    <2>2. \E h : Is(h, 0)
      <3> HIDE DEF Is, f
      <3> QED
        BY <2>1
    <2> HIDE DEF Is
    <2> QED
      BY <2>2
  <1>4. ASSUME NEW n \in Nat, n \in T PROVE n + 1 \in T
    <2>0. ASSUME n + 1 <= Len(plan) PROVE \E f : Is(f, n)
      <3>1. n <= Len(plan)
        BY <1>1, <2>0
      <3> HIDE DEF Is
      <3> QED
        BY <1>4, <3>1
    <2>s. SUFFICES ASSUME n + 1 <= Len(plan) PROVE \E h : Is(h, n + 1)
      <3> HIDE DEF Is
      <3> QED
        OBVIOUS
    <2>1. PICK f : Is(f, n)
      BY <2>0, <2>s
    <2>2. PICK m : m = Len(plan) - n
      OBVIOUS
    <2>3. m \in DOMAIN plan /\ \A p \in DOMAIN plan : p > Len(plan) - (n + 1) <=> p > m \/ p = m
      BY <1>1, <2>s, <2>2
    <2> DEFINE v == FlattenSeq([k \in DOMAIN plan[m] |-> OpTypes(plan[m][k], f)])
               g == [p \in DOMAIN plan |-> IF p = m THEN v ELSE f[p]]
    <2>4. \A p \in DOMAIN plan : p # m => g[p] = f[p]
      OBVIOUS
    <2>5. g[m] = v
      BY <2>3
    <2>6. DOMAIN g = DOMAIN plan /\ g = [p \in DOMAIN plan |-> g[p]]
      OBVIOUS
    <2> HIDE DEF g
    <2>7. ASSUME NEW p \in DOMAIN plan, p > m \/ p = m PROVE Same(g, p)
      <3>1. p \in Nat /\ m \in Nat /\ \A q \in DOMAIN plan : q \in Nat
        BY <1>1, <2>3
      <3>2. \A q \in DOMAIN plan : q > p => f[q] = g[q]
        BY <2>4, <2>7, <3>1
      <3>3. FlattenSeq([k \in DOMAIN plan[p] |-> OpTypes(plan[p][k], f)]) =
            FlattenSeq([k \in DOMAIN plan[p] |-> OpTypes(plan[p][k], g)])
        BY <1>2, <3>2
      <3>4. g[p] = FlattenSeq([k \in DOMAIN plan[p] |-> OpTypes(plan[p][k], f)])
        <4>1. CASE p = m
          BY <2>5, <4>1
        <4>2. CASE p # m
          <5>1. Same(f, p)
            <6>1. p > Len(plan) - n
              BY <2>2, <2>7, <4>2
            <6> HIDE DEF Same
            <6> QED
              BY <2>1, <6>1
          <5> QED
            BY <2>4, <4>2, <5>1
        <4> QED
          BY <4>1, <4>2
      <3> QED
        BY <3>3, <3>4
    <2>8. Is(g, n + 1)
      <3> HIDE DEF Same
      <3> QED
        BY <2>3, <2>6, <2>7
    <2> HIDE DEF Is
    <2> QED
      BY <2>8
  <1>5. \E f : Is(f, Len(plan))
    <2>1. \A n \in Nat : n \in T
      <3> HIDE DEF T
      <3> QED
        BY <1>3, <1>4, SetInduction
    <2>2. Len(plan) \in Nat /\ Len(plan) <= Len(plan)
      BY <1>1
    <2> HIDE DEF Is
    <2> QED
      BY <2>1, <2>2
  <1> DEFINE Sol(f) == f = [p \in DOMAIN plan |->
                              FlattenSeq([k \in DOMAIN plan[p] |-> OpTypes(plan[p][k], f)])]
  <1>6. \E f : Sol(f)
    <2>1. PICK f : Is(f, Len(plan))
      BY <1>5
    <2>2. \A p \in DOMAIN plan : p > Len(plan) - Len(plan)
      BY <1>1
    <2>3. f = [p \in DOMAIN plan |-> f[p]] /\ \A p \in DOMAIN plan : Same(f, p)
      <3> HIDE DEF Same
      <3> QED
        BY <2>1, <2>2
    <2>4. Sol(f)
      BY <2>3
    <2> HIDE DEF Sol
    <2> QED
      BY <2>4
  <1>7. RhsTypes(plan) = CHOOSE f : Sol(f)
    BY DEF RhsTypes
  <1>8. Sol(RhsTypes(plan))
    <2> HIDE DEF Sol
    <2> QED
      BY <1>6, <1>7
  <1>9. PICK f : f = RhsTypes(plan)
    OBVIOUS
  <1> QED
    BY <1>8, <1>9 DEF TypesEq

\* The types of a right-hand side are a sequence of nodes and relationships.
LEMMA RhsTypesType ==
  ASSUME plan \in Plans, NEW p \in DOMAIN plan
  PROVE  RhsTypes(plan)[p] \in Seq({0, 1})
  <1>1. /\ Len(plan) \in Nat /\ DOMAIN plan = 1..Len(plan)
        /\ \A q \in DOMAIN plan : IsSequence(plan[q])
        /\ \A q \in DOMAIN plan : \A k \in DOMAIN plan[q] :
             IsJoin(plan[q][k]) => plan[q][k].rhs \in DOMAIN plan /\ q < plan[q][k].rhs
    <2>1. IsPlan(plan)
      BY PlansAssumption
    <2>2. Len(plan) \in Nat /\ DOMAIN plan = 1..Len(plan)
      BY <2>1 DEF IsPlan, IsSequence
    <2> QED
      BY <2>1, <2>2 DEF IsPlan
  <1> DEFINE types == RhsTypes(plan)
             Bad == {q \in DOMAIN plan : types[q] \notin Seq({0, 1})}
             N == {Len(plan) - q : q \in Bad}
  <1> SUFFICES ASSUME Bad # {} PROVE FALSE
    OBVIOUS
  <1>2. N \subseteq Nat /\ N # {}
    BY <1>1
  <1>3. PICK n \in N : \A m \in N : n <= m
    <2> HIDE DEF N
    <2> QED
      BY <1>2, Least
  <1>4. PICK q \in Bad : n = Len(plan) - q
    BY <1>3
  <1>5. \A r \in DOMAIN plan : r > q => types[r] \in Seq({0, 1})
    <2> SUFFICES ASSUME NEW r \in DOMAIN plan, r > q, r \in Bad PROVE FALSE
      OBVIOUS
    <2>1. Len(plan) - r \in N
      OBVIOUS
    <2>2. r \in Nat /\ q \in Nat
      BY <1>1
    <2> HIDE DEF Bad, N
    <2>3. n <= Len(plan) - r
      BY <1>3, <2>1
    <2> QED
      BY <1>1, <1>4, <2>2, <2>3
  <1>6. q \in DOMAIN plan
    OBVIOUS
  <1> DEFINE seqs == [k \in DOMAIN plan[q] |-> OpTypes(plan[q][k], types)]
  <1>7. types[q] = FlattenSeq(seqs)
    BY <1>6, RhsTypesIs DEF TypesEq
  <1>8. ASSUME NEW k \in DOMAIN plan[q] PROVE OpTypes(plan[q][k], types) \in Seq({0, 1})
    <2>1. IsJoin(plan[q][k]) => types[plan[q][k].rhs] \in Seq({0, 1})
      BY <1>1, <1>5, <1>6
    <2>2. <<0>> \in Seq({0, 1}) /\ <<1>> \in Seq({0, 1}) /\ <<>> \in Seq({0, 1})
      OBVIOUS
    <2> HIDE DEF types
    <2> QED
      BY <2>1, <2>2 DEF OpTypes
  <1>9. DOMAIN seqs = DOMAIN plan[q] /\ Len(seqs) = Len(plan[q]) /\ IsSequence(seqs)
    <2>1. IsSequence(plan[q])
      BY <1>1, <1>6
    <2>2. DOMAIN seqs = 1..Len(plan[q]) /\ Len(plan[q]) \in Nat
      BY <2>1 DEF IsSequence
    <2>3. Len(seqs) = Len(plan[q])
      <3> HIDE DEF seqs
      <3> QED
        BY <2>2
    <2> QED
      BY <2>1, <2>2, <2>3 DEF IsSequence
  <1>10. \A k \in DOMAIN seqs : seqs[k] \in Seq({0, 1})
    BY <1>8
  <1>11. FlattenSeq(seqs) \in Seq({0, 1})
    <2> HIDE DEF seqs
    <2> QED
      BY <1>9, <1>10, FlattenType
  <1> QED
    BY <1>7, <1>11

-----------------------------------------------------------------------------
(***************************************************************************)
(* The registers.                                                          *)
(***************************************************************************)
LEMMA AnySeq ==
  ASSUME NEW s, IsSequence(s), NEW S, Range(s) \subseteq S
  PROVE  s \in Seq(S) /\ DOMAIN s = 1..Len(s)
  <1>1. Len(s) \in Nat /\ s = [i \in 1..Len(s) |-> s[i]]
    BY DEF IsSequence
  <1>2. DOMAIN s = 1..Len(s)
    BY <1>1
  <1>3. \A i \in 1..Len(s) : s[i] \in S
    BY <1>2 DEF Range
  <1>4. [i \in 1..Len(s) |-> s[i]] \in [1..Len(s) -> S]
    BY <1>3
  <1> QED
    BY <1>1, <1>2, <1>4

LEMMA SeqAny ==
  ASSUME NEW S, NEW s \in Seq(S)
  PROVE  IsSequence(s) /\ Range(s) \subseteq S
  BY DEF IsSequence, Range

LEMMA ConcatAny ==
  ASSUME NEW s, NEW t, IsSequence(s), IsSequence(t)
  PROVE  /\ IsSequence(s \o t) /\ Len(s \o t) = Len(s) + Len(t)
         /\ Range(s \o t) \subseteq Range(s) \cup Range(t)
         /\ \A i \in 1..Len(s) : (s \o t)[i] = s[i]
         /\ \A i \in 1..Len(t) : (s \o t)[Len(s) + i] = t[i]
  <1> DEFINE S == Range(s) \cup Range(t)
  <1>1. s \in Seq(S) /\ t \in Seq(S)
    <2>1. Range(s) \subseteq S /\ Range(t) \subseteq S
      OBVIOUS
    <2> HIDE DEF S
    <2> QED
      BY <2>1, AnySeq
  <1> HIDE DEF S
  <1>2. /\ s \o t \in Seq(S) /\ Len(s \o t) = Len(s) + Len(t)
        /\ \A i \in 1..(Len(s) + Len(t)) : (s \o t)[i] = IF i <= Len(s) THEN s[i] ELSE t[i - Len(s)]
    BY <1>1, ConcatProperties
  <1>3. Len(s) \in Nat /\ Len(t) \in Nat
    BY DEF IsSequence
  <1>4. IsSequence(s \o t) /\ Range(s \o t) \subseteq S
    BY <1>2, SeqAny
  <1>5. ASSUME NEW i \in 1..Len(t) PROVE (s \o t)[Len(s) + i] = t[i]
    <2>1. Len(s) + i \in 1..(Len(s) + Len(t)) /\ ~(Len(s) + i <= Len(s)) /\ Len(s) + i - Len(s) = i
      BY <1>3
    <2> QED
      BY <1>2, <2>1
  <1>6. \A i \in 1..Len(s) : (s \o t)[i] = s[i]
    BY <1>2, <1>3
  <1> QED
    BY <1>2, <1>4, <1>5, <1>6 DEF S

LEMMA AppendAny ==
  ASSUME NEW s, IsSequence(s), NEW e
  PROVE  /\ IsSequence(Append(s, e)) /\ Len(Append(s, e)) = Len(s) + 1
         /\ Range(Append(s, e)) \subseteq Range(s) \cup {e}
         /\ \A i \in 1..Len(s) : Append(s, e)[i] = s[i]
         /\ Append(s, e)[Len(s) + 1] = e
  <1> DEFINE S == Range(s) \cup {e}
  <1>1. s \in Seq(S) /\ e \in S
    <2>1. Range(s) \subseteq S /\ e \in S
      OBVIOUS
    <2> HIDE DEF S
    <2> QED
      BY <2>1, AnySeq
  <1> HIDE DEF S
  <1>2. /\ Append(s, e) \in Seq(S) /\ Len(Append(s, e)) = Len(s) + 1
        /\ \A i \in 1..Len(s) : Append(s, e)[i] = s[i]
        /\ Append(s, e)[Len(s) + 1] = e
    BY <1>1, AppendProperties
  <1>3. IsSequence(Append(s, e)) /\ Range(Append(s, e)) \subseteq S
    BY <1>2, SeqAny
  <1> QED
    BY <1>2, <1>3 DEF S

\* What is available only grows.
LEMMA AvailableKept ==
  ASSUME plan' = plan, DOMAIN code \subseteq DOMAIN code', NEW x
  PROVE  /\ Assigns(x)' = Assigns(x)
         /\ Available(x) \subseteq Available(x)'
  <1>1. \A y : Assigns(y)' = Assigns(y)
    BY DEF Assigns, OpAt
  <1> QED
    BY <1>1 DEF Available

LEMMA AvailableAbove ==
  ASSUME NEW x, x = <<x[1], x[2]>>, x[2] \in Nat, x[2] >= 1, x \in DOMAIN code,
         NEW y, y[1] = x[1], y[2] \in Nat, y[2] > x[2]
  PROVE  Available(x) \cup Assigns(x) \subseteq Available(y)
  <1>1. ASSUME NEW j \in 1..(x[2] - 1) PROVE j \in 1..(y[2] - 1)
    OBVIOUS
  <1>2. Available(x) \subseteq Available(y)
    BY <1>1 DEF Available
  <1>3. x[2] \in 1..(y[2] - 1) /\ <<y[1], x[2]>> \in DOMAIN code
    OBVIOUS
  <1>4. Assigns(x) \subseteq Available(y)
    BY <1>3 DEF Available
  <1> QED
    BY <1>2, <1>4

\* What a visit does to the registers.
RegsEmitted ==
  /\ DOMAIN code' = DOMAIN code \cup {at}
  /\ code'[at].regs = cv.regs
  /\ \A x \in DOMAIN code : x # at => code'[x].regs = code[x].regs

LEMMA RegsEmit ==
  ASSUME CodegenType, NEW prev, NEW jid, NEW cmp, EmitTest(prev, jid, cmp)
  PROVE  RegsEmitted
  <1>1. DOMAIN code' = DOMAIN code \cup {at}
    BY DEF EmitTest
  <1>2. code'[at].regs = cv.regs
    BY DEF EmitTest
  <1>3. ASSUME NEW x \in DOMAIN code, x # at PROVE code'[x].regs = code[x].regs
    <2>1. code'[x] = IF x = prev THEN [code[x] EXCEPT !.next = at] ELSE code[x]
      BY <1>3 DEF EmitTest
    <2>2. code[x] = [op_id |-> code[x].op_id, ret |-> code[x].ret, regs |-> code[x].regs,
                     keys |-> code[x].keys, end |-> code[x].end, jid |-> code[x].jid,
                     cmp |-> code[x].cmp, next |-> code[x].next]
      BY DEF CodegenType
    <2> QED
      BY <2>1, <2>2
  <1> QED
    BY <1>1, <1>2, <1>3 DEF RegsEmitted

Registers ==
  /\ phase = "codegen" /\ phase' = phase /\ plan' = plan /\ at' = Succ(at)
  /\ OpAt(at).type # "sort" /\ Finds /\ RegsEmitted
  /\ OpAt(at).type # "scan" => IsSequence(cv.regs) /\ Range(cv.regs) \subseteq Available(at)
  /\ IsSequence(cv'.regs)
  /\ Range(cv'.regs) \subseteq Assigns(at) \cup IF OpAt(at).type = "scan" THEN {} ELSE Range(cv.regs)

LEMMA RegsKinds ==
  ASSUME CodegenType, OrderInv, RegsInv, Visit
  PROVE  Registers \/ Skips \/ (Leaves /\ RegsEmitted /\ Finds /\ cv'.regs = cv.regs) \/ Aborts
  <1>t. cv = [main_return |-> cv.main_return, prev_bb |-> cv.prev_bb,
              scan_nodes_end |-> cv.scan_nodes_end, regs |-> cv.regs,
              project_string |-> cv.project_string, jids |-> cv.jids,
              query_id_inline |-> cv.query_id_inline, entry |-> cv.entry,
              expr_register |-> cv.expr_register]
    BY DEF CodegenType
  <1>p. /\ plan \in Plans /\ at \in Positions /\ at = <<at[1], at[2]>> /\ at[2] \in Nat
        /\ at[2] >= 1 /\ at[1] \in DOMAIN plan /\ at[2] \in DOMAIN plan[at[1]]
        /\ OpAt(at).type = "scan" => at[2] = 1
        /\ at[2] = 1 => OpAt(at).type \in {"scan", "create"}
    BY PositionFacts, PlanFacts DEF OpAt, OrderInv
  <1>r. phase = "codegen" /\ at[2] > 1 => IsSequence(cv.regs) /\ Range(cv.regs) \subseteq Available(at)
    BY DEF RegsInv
  \* Operators that only use registers.
  <1>u. ASSUME phase = "codegen", at[2] > 1, NEW cmp, NEW jid, EmitTest(cv.prev_bb, jid, cmp),
               NEW w, Descend(w), Finds, OpAt(at).type \notin {"scan", "sort"}, IsSequence(cv'.regs),
               Range(cv'.regs) \subseteq Assigns(at) \cup Range(cv.regs)
        PROVE  Registers
    <2>1. RegsEmitted
      BY <1>u, RegsEmit
    <2> QED
      BY <1>r, <1>u, <2>1 DEF Registers, Descend
  <1>a. ASSUME NEW type, NEW i, type = 0 \/ type = 1, i = 1, IsSequence(cv.regs),
               cv'.regs = Append(cv.regs, Reg(i, type)), Reg(i, type) \in Assigns(at)
        PROVE  IsSequence(cv'.regs) /\ Range(cv'.regs) \subseteq Assigns(at) \cup Range(cv.regs)
    <2> DEFINE r == Reg(i, type)
    <2>1. IsSequence(Append(cv.regs, r)) /\ Range(Append(cv.regs, r)) \subseteq Range(cv.regs) \cup {r}
      <3> HIDE DEF r
      <3> QED
        BY <1>a, AppendAny
    <2> QED
      BY <1>a, <2>1
  <1>1. CASE VisitScan
    <2>1. /\ phase = "codegen" /\ OpAt(at).type = "scan" /\ Finds
          /\ EmitTest(Null, Null, Null) /\ Descend(IF OpAt(at).indexed THEN 3 ELSE 1)
      BY <1>1 DEF VisitScan, VisitScanEntry, Visiting, Emit
    <2>2. PICK keys :
            cv' = [cv EXCEPT !.regs = <<Reg(1, 0)>>,
                             !.main_return = Block(at, IF OpAt(at).indexed THEN "end" ELSE "next"),
                             !.scan_nodes_end = Block(at, "end"),
                             !.prev_bb = at, !.project_string = keys,
                             !.entry = <<at[1]>> \o cv.entry]
      BY <1>1, Zenon DEF VisitScan, VisitScanEntry
    <2>3. cv'.regs = <<Reg(1, 0)>>
      BY <1>t, <2>2
    <2>4. RegsEmitted
      BY <2>1, RegsEmit
    <2>5. Reg(1, 0) \in Assigns(at)
      BY <2>1 DEF Assigns, Reg
    <2>6. IsSequence(cv'.regs) /\ Range(cv'.regs) \subseteq Assigns(at)
      BY <2>3, <2>5 DEF IsSequence, Range
    <2> QED
      BY <2>1, <2>4, <2>6 DEF Registers, Descend
  <1>2. CASE VisitForeach
    <2>1. /\ phase = "codegen" /\ OpAt(at).type = "foreach_rship" /\ Finds
          /\ EmitTest(cv.prev_bb, Null, Null) /\ Descend(1)
      BY <1>2 DEF VisitForeach, Visiting, Emit
    <2>2. cv'.regs = Append(cv.regs, Reg(1, 1))
      BY <1>2, <1>t DEF VisitForeach
    <2>3. at[2] > 1
      BY <1>p, <2>1
    <2>4. Reg(1, 1) \in Assigns(at)
      BY <2>1 DEF Assigns, Reg
    <2> QED
      BY <1>a, <1>r, <1>u, <2>1, <2>2, <2>3, <2>4
  <1>3. CASE VisitExpand
    <2>1. /\ phase = "codegen" /\ OpAt(at).type = "expand" /\ Finds
          /\ EmitTest(cv.prev_bb, Null, Null) /\ Descend(1)
      BY <1>3 DEF VisitExpand, Visiting, Emit
    <2>2. cv'.regs = Append(cv.regs, Reg(1, 0))
      BY <1>3, <1>t DEF VisitExpand
    <2>3. at[2] > 1
      BY <1>p, <2>1
    <2>4. Reg(1, 0) \in Assigns(at)
      BY <2>1 DEF Assigns, Reg
    <2> QED
      BY <1>a, <1>r, <1>u, <2>1, <2>2, <2>3, <2>4
  <1>4. CASE VisitFilter
    <2> DEFINE e == OpAt(at).fexpr
               tested == Tested(e)
    <2>1. /\ phase = "codegen" /\ OpAt(at).type = "filter" /\ Finds
          /\ UNCHANGED todo
          /\ \/ /\ cv' = [cv EXCEPT !.prev_bb = at,
                                    !.expr_register = IF e.kind = "eq" THEN tested ELSE @]
                /\ EmitTest(cv.prev_bb, Null, tested) /\ Descend(1)
             \/ Abort
      BY <1>4 DEF VisitFilter, Visiting
    <2>2. CASE Abort
      BY <2>1, <2>2 DEF Abort, Aborts
    <2>3. CASE ~Abort
      <3> HIDE DEF tested
      <3>0. cv'.regs = cv.regs
        BY <1>t, <2>1, <2>3
      <3>1. cv'.regs = cv.regs /\ at[2] > 1
        BY <1>p, <2>1, <3>0
      <3>2. IsSequence(cv'.regs) /\ Range(cv'.regs) \subseteq Assigns(at) \cup Range(cv.regs)
        BY <1>r, <2>1, <3>1
      <3> QED
        BY <1>u, <2>1, <2>3, <3>1, <3>2
    <2> QED
      BY <2>2, <2>3
  <1>5. CASE VisitProject
    <2> DEFINE es == OpAt(at).prexpr
               Kept(i) == IF es[i].key = Keep THEN cv.regs[es[i].id + 1] ELSE Alloca(i, ProjectedType(es[i]))
               kept == [i \in DOMAIN es |-> Kept(i)]
    <2>1. /\ phase = "codegen" /\ OpAt(at).type = "project" /\ UNCHANGED todo /\ Finds
          /\ \/ /\ cv' = [cv EXCEPT !.regs = kept, !.prev_bb = at]
                /\ EmitTest(cv.prev_bb, Null, Null) /\ Descend(0)
             \/ Abort
      BY <1>5, Zenon DEF VisitProject, Visiting, Emit
    <2>2. CASE Abort
      BY <2>1, <2>2 DEF Abort, Aborts
    <2>3. CASE ~Abort
      <3>0. cv'.regs = kept
        <4> HIDE DEF kept
        <4> QED
          BY <1>t, <2>1, <2>3
      <3>1. cv'.regs = [i \in DOMAIN es |-> Kept(i)] /\ at[2] > 1
        BY <1>p, <2>1, <3>0
      <3>2. IsSequence(es)
        BY <1>p, PlansAssumption DEF IsPlan, OpAt
      <3>3. Len(es) \in Nat /\ DOMAIN es = 1..Len(es)
        BY <3>2 DEF IsSequence
      <3>4. ASSUME NEW i \in DOMAIN es PROVE Kept(i) \in Assigns(at) \cup Range(cv.regs)
        <4>1. CASE es[i].key = Keep
          <5>1. es[i].id + 1 \in DOMAIN TypesOf(cv.regs)
            BY <2>1 DEF Finds, Usable
          <5> QED
            BY <4>1, <5>1 DEF TypesOf, Range
        <4>2. CASE es[i].key # Keep
          <5>1. Alloca(i, ProjectedType(es[i])) \in Assigns(at)
            BY <2>1, <4>2 DEF Assigns, Alloca, IsJoin
          <5> QED
            BY <4>2, <5>1
        <4> QED
          BY <4>1, <4>2
      <3>5. IsSequence(cv'.regs)
        <4> HIDE DEF Kept, es
        <4>1. cv'.regs = [i \in 1..Len(es) |-> cv'.regs[i]] /\ DOMAIN cv'.regs = 1..Len(es)
          BY <3>1, <3>3
        <4>2. cv'.regs \in Seq(Range(cv'.regs))
          <5>1. \A i \in 1..Len(es) : cv'.regs[i] \in Range(cv'.regs)
            BY <4>1 DEF Range
          <5>2. [i \in 1..Len(es) |-> cv'.regs[i]] \in [1..Len(es) -> Range(cv'.regs)]
            BY <5>1
          <5> QED
            BY <3>3, <4>1, <5>2
        <4> QED
          BY <4>2, SeqAny
      <3>6. Range(cv'.regs) \subseteq Assigns(at) \cup Range(cv.regs)
        <4> HIDE DEF Kept, es
        <4> QED
          BY <3>1, <3>4 DEF Range
      <3> QED
        BY <1>u, <2>1, <2>3, <3>1, <3>5, <3>6
    <2> QED
      BY <2>2, <2>3
  <1>6. CASE VisitJoin
    <2> DEFINE op == OpAt(at)
               types == RhsTypes(plan)[op.rhs]
               outer == op.type = "left_join"
               read == [i \in DOMAIN types |-> Reg(i, types[i])]
               flag == IF outer THEN <<Alloca(0, 7)>> ELSE <<>>
    <2>1. /\ phase = "codegen" /\ IsJoin(op) /\ Finds
          /\ EmitTest(cv.prev_bb, cv.query_id_inline, Null) /\ Descend(0)
      BY <1>6 DEF VisitJoin, VisitJoinQueueing, Emit
    <2>2. cv'.regs = cv.regs \o read \o flag
      <3>1. PICK ret, jids, id : cv' = [cv EXCEPT !.regs = @ \o read \o flag, !.main_return = ret, !.prev_bb = at,
                                     !.jids = jids, !.query_id_inline = id]
        BY <1>6, Zenon DEF VisitJoin, VisitJoinQueueing
      <3> HIDE DEF read, flag
      <3> QED
        BY <1>t, <3>1
    <2>3. at[2] > 1
      BY <1>p, <2>1 DEF IsJoin
    <2>4. op.rhs \in DOMAIN plan
      <3>1. at \in JoinPositions
        BY <1>p, <2>1 DEF JoinPositions
      <3> QED
        BY <1>p, <3>1, PlanFacts DEF RhsOf
    <2>5. types \in Seq({0, 1})
      BY <1>p, <2>4, RhsTypesType
    <2>6. IsSequence(read) /\ Range(read) \subseteq Assigns(at)
      <3>1. Len(types) \in Nat /\ DOMAIN types = 1..Len(types)
        <4> HIDE DEF types
        <4> QED
          BY <2>5
      <3>2. ASSUME NEW i \in DOMAIN types PROVE Reg(i, types[i]) \in Assigns(at)
        BY <2>1 DEF Assigns, Reg, IsJoin
      <3>3. read \in Seq(Assigns(at))
        <4> HIDE DEF types
        <4>1. [i \in 1..Len(types) |-> Reg(i, types[i])] \in [1..Len(types) -> Assigns(at)]
          BY <3>1, <3>2
        <4> QED
          BY <3>1, <4>1
      <3> HIDE DEF read
      <3> QED
        BY <3>3, SeqAny
    <2>7. IsSequence(flag) /\ Range(flag) \subseteq Assigns(at)
      <3>1. outer => Alloca(0, 7) \in Assigns(at)
        BY DEF Assigns, Alloca, IsJoin
      <3>2. flag \in Seq(Assigns(at))
        BY <3>1
      <3> HIDE DEF flag
      <3> QED
        BY <3>2, SeqAny
    <2>8. IsSequence(cv'.regs) /\ Range(cv'.regs) \subseteq Assigns(at) \cup Range(cv.regs)
      <3> HIDE DEF read, flag
      <3>1. IsSequence(cv.regs)
        BY <1>r, <2>1, <2>3
      <3>2. IsSequence(cv.regs \o read) /\ Range(cv.regs \o read) \subseteq Range(cv.regs) \cup Range(read)
        BY <2>6, <3>1, ConcatAny
      <3>3. PICK s : s = cv.regs \o read
        OBVIOUS
      <3>4. IsSequence(s \o flag) /\ Range(s \o flag) \subseteq Range(s) \cup Range(flag)
        BY <2>7, <3>2, <3>3, ConcatAny
      <3> QED
        BY <2>2, <2>6, <2>7, <3>2, <3>3, <3>4
    <2>9. op.type \notin {"scan", "sort"}
      BY <2>1 DEF IsJoin
    <2> QED
      BY <1>u, <2>1, <2>3, <2>8, <2>9
  <1>7. CASE VisitSort
    BY <1>7 DEF VisitSort, Visiting, Skips, Descend
  <1>8. CASE VisitLimit
    <2>1. /\ phase = "codegen" /\ OpAt(at).type = "limit" /\ UNCHANGED todo /\ Finds
          /\ \/ /\ cv' = [cv EXCEPT !.prev_bb = at]
                /\ EmitTest(cv.prev_bb, Null, Null) /\ Descend(1)
             \/ Abort
      BY <1>8 DEF VisitLimit, Visiting, Emit
    <2>2. CASE Abort
      BY <2>1, <2>2 DEF Abort, Aborts
    <2>3. CASE ~Abort
      <3>1. cv'.regs = cv.regs /\ at[2] > 1
        BY <1>t, <1>p, <2>1, <2>3
      <3>2. IsSequence(cv'.regs) /\ Range(cv'.regs) \subseteq Assigns(at) \cup Range(cv.regs)
        BY <1>r, <2>1, <3>1
      <3> QED
        BY <1>u, <2>1, <2>3, <3>1, <3>2
    <2> QED
      BY <2>2, <2>3
  <1>9. CASE VisitCreate
    <2> DEFINE access == cv.entry = <<>>
               r == Reg(1, IF OpAt(at).dir = "node" THEN 0 ELSE 1)
    <2>1. /\ phase = "codegen" /\ OpAt(at).type = "create" /\ UNCHANGED todo /\ Finds
          /\ \/ /\ access \/ at[2] > 1
                /\ cv' = [cv EXCEPT !.regs = Append(@, r),
                                    !.main_return = IF access THEN Block(at, "end") ELSE @,
                                    !.entry = IF access THEN <<at[1]>> ELSE @, !.prev_bb = at]
                /\ \E prev : EmitTest(prev, Null, Null)
                /\ Descend(2)
             \/ Abort
      BY <1>9, Zenon DEF VisitCreate, Visiting, Emit
    <2>2. CASE Abort
      BY <2>1, <2>2 DEF Abort, Aborts
    <2>3. CASE ~Abort
      <3>1. /\ access \/ at[2] > 1
            /\ \E prev : EmitTest(prev, Null, Null)
            /\ Descend(2)
        BY <2>1, <2>3
      <3>2. cv'.regs = Append(cv.regs, r)
        <4> HIDE DEF r, access
        <4> QED
          BY <1>t, <2>1, <2>3
      <3>3. IsSequence(cv.regs) /\ Range(cv.regs) \subseteq Available(at)
        <4>1. CASE access
          <5>1. cv.regs = <<>>
            BY <2>1, <4>1 DEF RegsInv
          <5> QED
            BY <5>1 DEF IsSequence, Range
        <4>2. CASE ~access
          BY <1>r, <2>1, <3>1, <4>2
        <4> QED
          BY <4>1, <4>2
      <3>4. r \in Assigns(at)
        BY <2>1 DEF Assigns, Reg, IsJoin
      <3>5. IsSequence(Append(cv.regs, r)) /\ Range(Append(cv.regs, r)) \subseteq Range(cv.regs) \cup {r}
        <4> HIDE DEF r
        <4> QED
          BY <3>3, AppendAny
      <3>6. RegsEmitted
        BY <3>1, RegsEmit
      <3>7. at' = Succ(at) /\ plan' = plan /\ phase' = phase
        BY <3>1 DEF Descend
      <3> HIDE DEF r, access
      <3> QED
        BY <2>1, <3>2, <3>3, <3>4, <3>5, <3>6, <3>7 DEF Registers
    <2> QED
      BY <2>2, <2>3
  <1>10. CASE VisitCollect \/ VisitEnd
    <2>1. \E jid : EmitTest(cv.prev_bb, jid, Null)
      BY <1>10 DEF VisitCollect, VisitEnd, Emit
    <2>2. RegsEmitted
      BY <2>1, RegsEmit
    <2>3. phase = "codegen" /\ IsLeaf(OpAt(at)) /\ Finds
      BY <1>10 DEF VisitCollect, VisitEnd, Visiting, IsLeaf
    <2>4. Advances \/ Joins \/ Leaves \/ Aborts
      BY <1>p, VisitKinds
    <2>5. ~Advances /\ ~Joins
      BY <2>3 DEF Advances, Joins, IsLeaf, IsJoin
    <2>6. cv'.regs = cv.regs
      BY <1>10, <1>t DEF VisitCollect, VisitEnd
    <2> QED
      BY <2>2, <2>3, <2>4, <2>5, <2>6
  <1>11. CASE VisitUnusable
    BY <1>11 DEF VisitUnusable, Abort, Aborts
  <1> QED
    BY <1>1, <1>2, <1>3, <1>4, <1>5, <1>6, <1>7, <1>8, <1>9, <1>10, <1>11 DEF Visit

\* What the code of x reads.
Reads(x) ==
  OpAt(x).type # "scan" =>
    /\ IsSequence(code[x].regs) /\ Range(code[x].regs) \subseteq Available(x)
    /\ Usable(OpAt(x), TypesOf(code[x].regs))

LEMMA ReadsKept ==
  ASSUME plan' = plan, DOMAIN code \subseteq DOMAIN code', NEW x, code'[x].regs = code[x].regs, Reads(x)
  PROVE  Reads(x)'
  <1>1. OpAt(x)' = OpAt(x)
    BY DEF OpAt
  <1>2. PICK r : r = code[x].regs
    OBVIOUS
  <1>3. OpAt(x)'.type # "scan" => IsSequence(r) /\ Range(r) \subseteq Available(x)'
                                  /\ Usable(OpAt(x)', TypesOf(r))
    BY <1>1, <1>2, AvailableKept DEF Reads
  <1> QED
    BY <1>2, <1>3 DEF Reads

\* With the same plan and code.
LEMMA RegsSame ==
  ASSUME RegsInv, UNCHANGED <<plan, cv, code>>, phase' = "codegen" => UNCHANGED <<phase, at>>
  PROVE  RegsInv'
  <1>1. ASSUME NEW x \in DOMAIN code' PROVE Reads(x)'
    <2>1. Reads(x)
      BY DEF RegsInv, Reads
    <2> QED
      BY <2>1, ReadsKept
  <1>2. ASSUME phase' = "codegen", at'[2] > 1
        PROVE  IsSequence(cv'.regs) /\ Range(cv'.regs) \subseteq Available(at)'
    <2>1. PICK x : x = at
      OBVIOUS
    <2>2. IsSequence(cv.regs) /\ Range(cv.regs) \subseteq Available(x)
      BY <1>2, <2>1 DEF RegsInv
    <2>3. Available(x) \subseteq Available(x)'
      BY AvailableKept
    <2>4. Available(x)' = Available(at)'
      BY <1>2, <2>1 DEF Available
    <2> QED
      BY <2>2, <2>3, <2>4
  <1>3. phase' = "codegen" /\ cv'.entry = <<>> => cv'.regs = <<>>
    BY DEF RegsInv
  <1> QED
    BY <1>1, <1>2, <1>3 DEF RegsInv, Reads

LEMMA RegsNext ==
  ASSUME CodegenType, OrderInv, FlowInv, RegsInv, Compile, OrderInv'
  PROVE  RegsInv'
  <1>1. /\ plan \in Plans /\ at \in Positions /\ at = <<at[1], at[2]>> /\ at[2] \in Nat /\ at[2] >= 1
    BY PositionFacts, PlanFacts DEF OrderInv
  <1>2. PICK o, p, n : o = at /\ p = at[1] /\ n = at[2]
    OBVIOUS
  <1>e. ASSUME RegsEmitted, plan' = plan, Finds, NEW x \in DOMAIN code',
               OpAt(o).type # "scan" => IsSequence(cv.regs) /\ Range(cv.regs) \subseteq Available(o)
        PROVE  Reads(x)'
    <2>1. CASE x = o
      <3>1. OpAt(x)' = OpAt(x)
        BY <1>e DEF OpAt
      <3>2. PICK r : r = cv.regs
        OBVIOUS
      <3>3. code'[x].regs = r /\ DOMAIN code \subseteq DOMAIN code'
        BY <1>2, <1>e, <2>1, <3>2 DEF RegsEmitted
      <3>4. OpAt(x)'.type # "scan" => IsSequence(r) /\ Range(r) \subseteq Available(x)'
                                      /\ Usable(OpAt(x)', TypesOf(r))
        BY <1>2, <1>e, <2>1, <3>1, <3>2, <3>3, AvailableKept DEF Finds
      <3> QED
        BY <3>3, <3>4 DEF Reads
    <2>2. CASE x # o
      <3>1. x \in DOMAIN code /\ code'[x].regs = code[x].regs /\ DOMAIN code \subseteq DOMAIN code'
        BY <1>2, <1>e, <2>2 DEF RegsEmitted
      <3>2. Reads(x)
        BY <3>1 DEF RegsInv, Reads
      <3> QED
        BY <1>e, <3>1, <3>2, ReadsKept
    <2> QED
      BY <2>1, <2>2
  <1>3. CASE Registers
    <2>1. /\ plan' = plan /\ at' = <<p, n + 1>> /\ phase' = "codegen" /\ RegsEmitted /\ Finds
          /\ OpAt(o).type # "scan" => IsSequence(cv.regs) /\ Range(cv.regs) \subseteq Available(o)
          /\ IsSequence(cv'.regs)
          /\ Range(cv'.regs) \subseteq Assigns(o) \cup IF OpAt(o).type = "scan" THEN {} ELSE Range(cv.regs)
      BY <1>2, <1>3 DEF Registers, Succ
    <2>2. Range(cv'.regs) \subseteq Assigns(o) \cup Available(o)
      BY <2>1
    <2>3. o \in DOMAIN code' /\ DOMAIN code \subseteq DOMAIN code'
      BY <1>2, <2>1 DEF RegsEmitted
    <2>4. Range(cv'.regs) \subseteq Assigns(o)' \cup Available(o)'
      BY <2>1, <2>2, <2>3, AvailableKept
    <2>5. PICK y : y = at'
      OBVIOUS
    <2>6. Available(o)' \cup Assigns(o)' \subseteq Available(y)'
      <3>1. /\ o = <<o[1], o[2]>> /\ o[2] \in Nat /\ o[2] >= 1
            /\ y[1] = o[1] /\ y[2] \in Nat /\ y[2] > o[2]
        BY <1>1, <1>2, <2>1, <2>5
      <3>2. o[2] \in 1..(y[2] - 1) /\ <<y[1], o[2]>> \in DOMAIN code'
        BY <2>3, <3>1
      <3>3. \A j \in 1..(o[2] - 1) : j \in 1..(y[2] - 1)
        BY <3>1
      <3>4. Available(o)' \subseteq Available(y)'
        BY <3>1, <3>3 DEF Available
      <3>5. Assigns(o)' \subseteq Available(y)'
        BY <3>1, <3>2 DEF Available
      <3> QED
        BY <3>4, <3>5
    <2>7. Available(y)' = Available(at)'
      BY <2>5 DEF Available
    <2>8. \A x \in DOMAIN code' : Reads(x)'
      BY <1>e, <2>1
    <2>9. cv'.entry # <<>>
      <3>1. at' # <<1, 1>>
        BY <1>1, <1>2, <2>1
      <3>2. 1 \in Entered'
        BY <3>1 DEF OrderInv
      <3> QED
        BY <3>2 DEF Entered, Range
    <2> QED
      BY <2>1, <2>4, <2>6, <2>7, <2>8, <2>9 DEF RegsInv, Reads
  <1>4. CASE Leaves /\ RegsEmitted /\ Finds /\ cv'.regs = cv.regs
    <2>1. /\ phase = "codegen" /\ plan' = plan /\ cv'.entry = cv.entry /\ IsLeaf(OpAt(at))
          /\ phase' # "codegen" \/ at'[2] = 1
      BY <1>4 DEF Leaves, Ascend
    <2>2. n > 1
      <3>1. at[2] = 1 => OpAt(at).type \in {"scan", "create"}
        BY <1>1, PositionFacts, PlanFacts DEF OpAt
      <3> QED
        BY <1>1, <1>2, <2>1, <3>1 DEF IsLeaf
    <2>3. IsSequence(cv.regs) /\ Range(cv.regs) \subseteq Available(o)
      BY <1>2, <2>1, <2>2 DEF RegsInv
    <2>4. \A x \in DOMAIN code' : Reads(x)'
      BY <1>4, <1>e, <2>1, <2>3
    <2>5. cv'.entry # <<>>
      <3>1. p \in Entered
        BY <1>1, <1>2, <2>2 DEF OrderInv
      <3> QED
        BY <2>1, <3>1 DEF Entered, Range
    <2>6. phase' = "codegen" => ~(at'[2] > 1)
      BY <2>1
    <2> QED
      BY <2>4, <2>5, <2>6 DEF RegsInv, Reads
  <1>5. CASE Skips
    <2>1. /\ plan' = plan /\ cv' = cv /\ code' = code /\ phase' = "codegen" /\ phase = "codegen"
          /\ at' = <<p, n + 1>> /\ OpAt(at).type = "sort"
      BY <1>2, <1>5 DEF Skips, Succ
    <2>2. n > 1
      <3>1. at[2] = 1 => OpAt(at).type \in {"scan", "create"}
        BY <1>1, PositionFacts, PlanFacts DEF OpAt
      <3> QED
        BY <1>1, <1>2, <2>1, <3>1
    <2>3. IsSequence(cv.regs) /\ Range(cv.regs) \subseteq Available(o)
      BY <1>2, <2>1, <2>2 DEF RegsInv
    <2>4. Available(o) \subseteq Available(o)'
      BY <2>1, AvailableKept
    <2>5. PICK y : y = at'
      OBVIOUS
    <2>6. Available(o)' \subseteq Available(y)'
      <3>1. o[1] = y[1] /\ \A j \in 1..(o[2] - 1) : j \in 1..(y[2] - 1)
        BY <1>1, <1>2, <2>1, <2>5
      <3> QED
        BY <3>1 DEF Available
    <2>7. Available(y)' = Available(at)'
      BY <2>5 DEF Available
    <2>8. \A x \in DOMAIN code' : Reads(x)'
      <3>1. \A x \in DOMAIN code : Reads(x)
        BY DEF RegsInv, Reads
      <3> QED
        BY <2>1, <3>1, ReadsKept
    <2>9. cv'.entry = <<>> => cv'.regs = <<>>
      BY <2>1 DEF RegsInv
    <2> QED
      BY <2>1, <2>3, <2>4, <2>6, <2>7, <2>8, <2>9 DEF RegsInv, Reads
  <1>6. CASE Aborts \/ WalkStep \/ WalkEnd
    <2>1. /\ plan' = plan /\ cv' = cv /\ code' = code /\ phase' # "codegen"
      BY <1>6 DEF Aborts, WalkStep, WalkEnd
    <2> QED
      BY <2>1, RegsSame
  <1>7. \/ Registers \/ Skips \/ (Leaves /\ RegsEmitted /\ Finds /\ cv'.regs = cv.regs)
        \/ Aborts \/ WalkStep \/ WalkEnd
    BY RegsKinds DEF Compile
  <1> QED
    BY <1>3, <1>4, <1>5, <1>6, <1>7

-----------------------------------------------------------------------------
(***************************************************************************)
(* The types of the registers: the visits follow the recursion of TypesBelow. *)
(***************************************************************************)
\* The types below an operator are those that the recursion gives.
LEMMA BelowIs ==
  ASSUME plan \in Plans, NEW p \in DOMAIN plan
  PROVE  /\ Len(plan[p]) \in Nat
         /\ TypesBelow(plan, p)[0] = <<>>
         /\ \A k \in 1..Len(plan[p]) : TypesBelow(plan, p)[k] = TypesAfter(plan[p][k], TypesBelow(plan, p)[k - 1], RhsTypes(plan))
  <1>1. PICK n : n = Len(plan[p]) /\ n \in Nat
    BY PlansAssumption DEF IsPlan, IsSequence
  <1> DEFINE Next1(f, k) == IF k = 0 THEN <<>> ELSE TypesAfter(plan[p][k], f[k - 1], RhsTypes(plan))
             Is(f, m) == f = [k \in 0..m |-> Next1(f, k)]
             T == {m \in Nat : \E f : Is(f, m)}
  <1>2. 0 \in T
    <2> DEFINE f == [k \in 0..0 |-> <<>>]
    <2>1. \A k \in 0..0 : k = 0
      OBVIOUS
    <2>2. f = [k \in 0..0 |-> Next1(f, k)]
      BY <2>1
    <2> HIDE DEF Next1, f
    <2> QED
      BY <2>2
  <1>3. ASSUME NEW m \in Nat, m \in T PROVE m + 1 \in T
    <2>1. PICK f : Is(f, m)
      BY <1>3
    <2> DEFINE g == [k \in 0..(m + 1) |-> IF k = m + 1 THEN TypesAfter(plan[p][m + 1], f[m], RhsTypes(plan)) ELSE f[k]]
    <2>2. \A k \in 0..m : g[k] = f[k]
      OBVIOUS
    <2>3. g[m + 1] = TypesAfter(plan[p][m + 1], f[m], RhsTypes(plan))
      OBVIOUS
    <2>4. g = [k \in 0..(m + 1) |-> g[k]]
      OBVIOUS
    <2> HIDE DEF g
    <2>5. ASSUME NEW k \in 0..(m + 1) PROVE g[k] = Next1(g, k)
      <3>1. CASE k = m + 1
        <4>1. k # 0 /\ k - 1 = m /\ m \in 0..m
          BY <3>1
        <4> QED
          BY <2>2, <2>3, <3>1, <4>1
      <3>2. CASE k # m + 1
        <4>1. k \in 0..m /\ (k # 0 => k - 1 \in 0..m)
          BY <3>2
        <4>2. f[k] = Next1(f, k)
          <5> HIDE DEF Next1
          <5> QED
            BY <2>1, <4>1
        <4> QED
          BY <2>2, <4>1, <4>2
      <3> QED
        BY <3>1, <3>2
    <2>6. Is(g, m + 1)
      <3> HIDE DEF Next1
      <3> QED
        BY <2>4, <2>5
    <2> HIDE DEF Is
    <2> QED
      BY <2>6
  <1>4. \E f : Is(f, n)
    <2>1. \A m \in Nat : m \in T
      <3> HIDE DEF T
      <3> QED
        BY <1>2, <1>3, SetInduction
    <2> HIDE DEF Is
    <2> QED
      BY <1>1, <2>1
  <1>5. TypesBelow(plan, p) = CHOOSE f : Is(f, Len(plan[p]))
    BY DEF TypesBelow
  <1>6. Is(TypesBelow(plan, p), n)
    <2> HIDE DEF Is
    <2> QED
      BY <1>1, <1>4, <1>5
  <1>7. PICK f : f = TypesBelow(plan, p)
    OBVIOUS
  <1>8. \A k \in 0..n : f[k] = Next1(f, k)
    <2> HIDE DEF Next1
    <2> QED
      BY <1>6, <1>7
  <1>9. 0 \in 0..n /\ \A k \in 1..n : k \in 0..n /\ k # 0
    BY <1>1
  <1> QED
    BY <1>1, <1>7, <1>8, <1>9

\* What the operator at x leaves is what the next one finds.
LEMMA FoundIs ==
  ASSUME plan \in Plans, NEW x \in Positions
  PROVE  /\ FoundTypes(<<x[1], 1>>) = <<>>
         /\ FoundTypes(Succ(x)) = TypesAfter(OpAt(x), FoundTypes(x), RhsTypes(plan))
  <1>1. /\ x[1] \in DOMAIN plan /\ x[2] \in 1..Len(plan[x[1]]) /\ x[2] \in Nat
    BY PositionFacts, PlanFacts
  <1>2. /\ <<x[1], 1>>[1] = x[1] /\ <<x[1], 1>>[2] - 1 = 0
        /\ Succ(x)[1] = x[1] /\ Succ(x)[2] - 1 = x[2]
    BY <1>1 DEF Succ
  <1> QED
    BY <1>1, <1>2, BelowIs DEF FoundTypes, OpAt

\* Sequences of the same length with the same elements are the same.
LEMMA SameSeq ==
  ASSUME NEW s, NEW t, IsSequence(s), IsSequence(t), Len(s) = Len(t),
         \A i \in 1..Len(s) : s[i] = t[i]
  PROVE  s = t
  BY DEF IsSequence

\* The types of registers, of one more, and of those of two lists.
LEMMA TypesOfIs ==
  ASSUME NEW s, IsSequence(s)
  PROVE  /\ IsSequence(TypesOf(s)) /\ Len(TypesOf(s)) = Len(s)
         /\ \A i \in 1..Len(s) : TypesOf(s)[i] = s[i].type
  <1>1. Len(s) \in Nat /\ DOMAIN s = 1..Len(s)
    BY DEF IsSequence
  <1>2. TypesOf(s) = [i \in 1..Len(s) |-> s[i].type]
    BY <1>1 DEF TypesOf
  <1> DEFINE S == {s[i].type : i \in 1..Len(s)}
  <1>3. TypesOf(s) \in Seq(S)
    <2>1. TypesOf(s) \in [1..Len(s) -> S]
      BY <1>2
    <2> HIDE DEF S
    <2> QED
      BY <1>1, <2>1
  <1>4. Len(TypesOf(s)) = Len(s)
    <2>1. DOMAIN TypesOf(s) = 1..Len(s)
      BY <1>2
    <2> HIDE DEF S
    <2> QED
      BY <1>1, <1>3, <2>1
  <1>5. IsSequence(TypesOf(s))
    <2> HIDE DEF S
    <2> QED
      BY <1>3, SeqAny
  <1> QED
    BY <1>2, <1>4, <1>5

LEMMA TypesAppend ==
  ASSUME NEW s, IsSequence(s), NEW e
  PROVE  TypesOf(Append(s, e)) = Append(TypesOf(s), e.type)
  <1>1. PICK a : a = Append(s, e)
    OBVIOUS
  <1>2. PICK t : t = TypesOf(s)
    OBVIOUS
  <1>3. Len(s) \in Nat
    BY DEF IsSequence
  <1>4. /\ IsSequence(a) /\ Len(a) = Len(s) + 1 /\ a[Len(s) + 1] = e
        /\ \A i \in 1..Len(s) : a[i] = s[i]
    BY <1>1, AppendAny
  <1>5. /\ IsSequence(t) /\ Len(t) = Len(s) /\ \A i \in 1..Len(s) : t[i] = s[i].type
    BY <1>2, TypesOfIs
  <1>6. PICK b : b = Append(t, e.type)
    OBVIOUS
  <1>7. /\ IsSequence(b) /\ Len(b) = Len(s) + 1 /\ b[Len(s) + 1] = e.type
        /\ \A i \in 1..Len(s) : b[i] = t[i]
    BY <1>5, <1>6, AppendAny
  <1>8. PICK c : c = TypesOf(a)
    OBVIOUS
  <1>9. /\ IsSequence(c) /\ Len(c) = Len(a) /\ \A i \in 1..Len(a) : c[i] = a[i].type
    BY <1>4, <1>8, TypesOfIs
  <1>10. ASSUME NEW i \in 1..Len(c) PROVE c[i] = b[i]
    <2>1. i \in 1..Len(s) \/ i = Len(s) + 1
      BY <1>3, <1>4, <1>9
    <2>2. c[i] = a[i].type
      BY <1>9
    <2> QED
      BY <1>4, <1>5, <1>7, <2>1, <2>2
  <1>11. c = b
    BY <1>4, <1>7, <1>9, <1>10, SameSeq
  <1> QED
    BY <1>1, <1>2, <1>6, <1>8, <1>11

LEMMA TypesConcat ==
  ASSUME NEW s, NEW t, IsSequence(s), IsSequence(t)
  PROVE  TypesOf(s \o t) = TypesOf(s) \o TypesOf(t)
  <1>1. PICK a : a = s \o t
    OBVIOUS
  <1>2. PICK u : u = TypesOf(s)
    OBVIOUS
  <1>3. PICK v : v = TypesOf(t)
    OBVIOUS
  <1>4. PICK b : b = u \o v
    OBVIOUS
  <1>5. PICK c : c = TypesOf(a)
    OBVIOUS
  <1>6. Len(s) \in Nat /\ Len(t) \in Nat
    BY DEF IsSequence
  <1>7. /\ IsSequence(a) /\ Len(a) = Len(s) + Len(t)
        /\ \A i \in 1..Len(s) : a[i] = s[i]
        /\ \A i \in 1..Len(t) : a[Len(s) + i] = t[i]
    BY <1>1, ConcatAny
  <1>8. /\ IsSequence(u) /\ Len(u) = Len(s) /\ \A i \in 1..Len(s) : u[i] = s[i].type
    BY <1>2, TypesOfIs
  <1>9. /\ IsSequence(v) /\ Len(v) = Len(t) /\ \A i \in 1..Len(t) : v[i] = t[i].type
    BY <1>3, TypesOfIs
  <1>10. /\ IsSequence(b) /\ Len(b) = Len(s) + Len(t)
         /\ \A i \in 1..Len(s) : b[i] = u[i]
         /\ \A i \in 1..Len(t) : b[Len(s) + i] = v[i]
    <2>1. /\ IsSequence(b) /\ Len(b) = Len(u) + Len(v)
          /\ \A i \in 1..Len(u) : b[i] = u[i]
          /\ \A i \in 1..Len(v) : b[Len(u) + i] = v[i]
      <3>1. IsSequence(u) /\ IsSequence(v)
        BY <1>8, <1>9
      <3> QED
        BY <1>4, <3>1, ConcatAny
    <2> QED
      BY <1>8, <1>9, <2>1
  <1>11. /\ IsSequence(c) /\ Len(c) = Len(a) /\ \A i \in 1..Len(a) : c[i] = a[i].type
    BY <1>5, <1>7, TypesOfIs
  <1>12. ASSUME NEW i \in 1..Len(c) PROVE c[i] = b[i]
    <2>1. c[i] = a[i].type
      BY <1>11
    <2>2. CASE i \in 1..Len(s)
      BY <1>7, <1>8, <1>10, <2>1, <2>2
    <2>3. CASE i \notin 1..Len(s)
      <3>1. PICK j : j = i - Len(s)
        OBVIOUS
      <3>2. j \in 1..Len(t) /\ i = Len(s) + j
        BY <1>6, <1>7, <1>11, <2>3, <3>1
      <3>3. a[i] = t[j] /\ b[i] = v[j]
        BY <1>7, <1>10, <3>2
      <3> QED
        BY <1>9, <2>1, <3>2, <3>3
    <2> QED
      BY <2>2, <2>3
  <1>13. c = b
    BY <1>7, <1>10, <1>11, <1>12, SameSeq
  <1> QED
    BY <1>1, <1>2, <1>3, <1>4, <1>5, <1>13

LEMMA ConcatEmpty ==
  ASSUME NEW s, IsSequence(s)
  PROVE  s \o <<>> = s
  <1>1. IsSequence(<<>>) /\ Len(<<>>) = 0
    BY DEF IsSequence
  <1>2. PICK e : e = <<>>
    OBVIOUS
  <1>3. PICK c : c = s \o e
    OBVIOUS
  <1>4. Len(s) \in Nat
    BY DEF IsSequence
  <1>5. IsSequence(c) /\ Len(c) = Len(s) + 0 /\ \A i \in 1..Len(s) : c[i] = s[i]
    BY <1>1, <1>2, <1>3, ConcatAny
  <1>6. Len(c) = Len(s)
    BY <1>4, <1>5
  <1>7. c = s
    BY <1>5, <1>6, SameSeq
  <1> QED
    BY <1>2, <1>3, <1>7

\* A visit leaves registers of the types that the operator's plan leaves.
LEMMA TypesVisit ==
  ASSUME CodegenType, OrderInv, RegsInv, Visit, phase' = "codegen", ~IsLeaf(OpAt(at))
  PROVE  TypesOf(cv'.regs) = TypesAfter(OpAt(at), TypesOf(cv.regs), RhsTypes(plan))
  <1>t. cv = [main_return |-> cv.main_return, prev_bb |-> cv.prev_bb,
              scan_nodes_end |-> cv.scan_nodes_end, regs |-> cv.regs,
              project_string |-> cv.project_string, jids |-> cv.jids,
              query_id_inline |-> cv.query_id_inline, entry |-> cv.entry,
              expr_register |-> cv.expr_register]
    BY DEF CodegenType
  <1>p. /\ plan \in Plans /\ at \in Positions /\ at[2] \in Nat /\ at[2] >= 1
        /\ OpAt(at).type = "scan" => at[2] = 1
        /\ at[2] = 1 => OpAt(at).type \in {"scan", "create"}
    BY PositionFacts, PlanFacts DEF OpAt, OrderInv
  <1>r. phase = "codegen" /\ at[2] > 1 => IsSequence(cv.regs)
    BY DEF RegsInv
  <1>s. phase = "codegen" /\ at[2] > 1 => IsSequence(TypesOf(cv.regs))
    BY <1>r, TypesOfIs
  <1> DEFINE op == OpAt(at)
             types == RhsTypes(plan)
  \* Operators that leave the registers alone.
  <1>u. ASSUME phase = "codegen", op.type \in {"filter", "limit", "sort"}, cv'.regs = cv.regs
        PROVE  TypesOf(cv'.regs) = TypesAfter(op, TypesOf(cv.regs), types)
    <2>1. OpTypes(op, types) = <<>>
      BY <1>u DEF OpTypes, IsJoin
    <2>2. TypesAfter(op, TypesOf(cv.regs), types) = TypesOf(cv.regs) \o <<>>
      BY <1>u, <2>1 DEF TypesAfter
    <2>3. at[2] > 1
      BY <1>p, <1>u
    <2>4. PICK s : s = TypesOf(cv.regs)
      OBVIOUS
    <2>5. s \o <<>> = s
      BY <1>s, <1>u, <2>3, <2>4, ConcatEmpty
    <2> QED
      BY <1>u, <2>2, <2>4, <2>5
  <1>a. ASSUME NEW r, IsSequence(cv.regs), cv'.regs = Append(cv.regs, r)
        PROVE  /\ TypesOf(cv'.regs) = Append(TypesOf(cv.regs), r.type)
               /\ TypesOf(cv'.regs) = TypesOf(cv.regs) \o <<r.type>>
    <2>1. TypesOf(cv'.regs) = Append(TypesOf(cv.regs), r.type)
      BY <1>a, TypesAppend
    <2>2. PICK s : s = TypesOf(cv.regs)
      OBVIOUS
    <2>3. s \in Seq(Range(s) \cup {r.type})
      <3>1. IsSequence(s) /\ Range(s) \subseteq Range(s) \cup {r.type}
        BY <1>a, <2>2, TypesOfIs
      <3> QED
        BY <3>1, AnySeq
    <2>4. Append(s, r.type) = s \o <<r.type>>
      <3>1. PICK S : S = Range(s) \cup {r.type}
        OBVIOUS
      <3>2. s \in Seq(S) /\ r.type \in S
        BY <2>3, <3>1
      <3> QED
        BY <3>2, AppendIsConcat
    <2> QED
      BY <2>1, <2>2, <2>4
  <1>1. CASE VisitScan
    <2>1. phase = "codegen" /\ op.type = "scan"
      BY <1>1 DEF VisitScan, VisitScanEntry, Visiting
    <2>2. PICK keys :
            cv' = [cv EXCEPT !.regs = <<Reg(1, 0)>>,
                             !.main_return = Block(at, IF OpAt(at).indexed THEN "end" ELSE "next"),
                             !.scan_nodes_end = Block(at, "end"),
                             !.prev_bb = at, !.project_string = keys,
                             !.entry = <<at[1]>> \o cv.entry]
      BY <1>1, Zenon DEF VisitScan, VisitScanEntry
    <2>3. cv'.regs = <<Reg(1, 0)>>
      BY <1>t, <2>2
    <2>4. TypesOf(cv'.regs) = <<0>>
      BY <2>3 DEF TypesOf, Reg
    <2> QED
      BY <2>1, <2>4 DEF TypesAfter
  <1>2. CASE VisitForeach
    <2>1. phase = "codegen" /\ op.type = "foreach_rship"
      BY <1>2 DEF VisitForeach, Visiting
    <2>2. cv'.regs = Append(cv.regs, Reg(1, 1))
      BY <1>2, <1>t DEF VisitForeach
    <2>3. at[2] > 1
      BY <1>p, <2>1
    <2>4. TypesOf(cv'.regs) = TypesOf(cv.regs) \o <<1>>
      <3>1. PICK r : r = Reg(1, 1)
        OBVIOUS
      <3>2. TypesOf(cv'.regs) = TypesOf(cv.regs) \o <<r.type>>
        BY <1>a, <1>r, <2>1, <2>2, <2>3, <3>1
      <3> QED
        BY <3>1, <3>2 DEF Reg
    <2>5. OpTypes(op, types) = <<1>>
      BY <2>1 DEF OpTypes, IsJoin
    <2> QED
      BY <2>1, <2>4, <2>5 DEF TypesAfter
  <1>3. CASE VisitExpand
    <2>1. phase = "codegen" /\ op.type = "expand"
      BY <1>3 DEF VisitExpand, Visiting
    <2>2. cv'.regs = Append(cv.regs, Reg(1, 0))
      BY <1>3, <1>t DEF VisitExpand
    <2>3. at[2] > 1
      BY <1>p, <2>1
    <2>4. TypesOf(cv'.regs) = TypesOf(cv.regs) \o <<0>>
      <3>1. PICK r : r = Reg(1, 0)
        OBVIOUS
      <3>2. TypesOf(cv'.regs) = TypesOf(cv.regs) \o <<r.type>>
        BY <1>a, <1>r, <2>1, <2>2, <2>3, <3>1
      <3> QED
        BY <3>1, <3>2 DEF Reg
    <2>5. OpTypes(op, types) = <<0>>
      BY <2>1 DEF OpTypes, IsJoin
    <2> QED
      BY <2>1, <2>4, <2>5 DEF TypesAfter
  <1>4. CASE VisitFilter
    <2> DEFINE e == OpAt(at).fexpr
               tested == Tested(e)
    <2>1. /\ phase = "codegen" /\ op.type = "filter"
          /\ \/ cv' = [cv EXCEPT !.prev_bb = at,
                                 !.expr_register = IF e.kind = "eq" THEN tested ELSE @]
             \/ Abort
      BY <1>4 DEF VisitFilter, Visiting
    <2>2. ~Abort
      BY DEF Abort
    <2>3. cv'.regs = cv.regs
      <3> HIDE DEF tested
      <3> QED
        BY <1>t, <2>1, <2>2
    <2> QED
      BY <1>u, <2>1, <2>3
  <1>5. CASE VisitProject
    <2> DEFINE es == OpAt(at).prexpr
               Kept(i) == IF es[i].key = Keep THEN cv.regs[es[i].id + 1] ELSE Alloca(i, ProjectedType(es[i]))
               kept == [i \in DOMAIN es |-> Kept(i)]
    <2>1. /\ phase = "codegen" /\ OpAt(at).type = "project" /\ Finds
          /\ \/ cv' = [cv EXCEPT !.regs = kept, !.prev_bb = at]
             \/ Abort
      BY <1>5, Zenon DEF VisitProject, Visiting
    <2>2. ~Abort
      BY DEF Abort
    <2>3. cv'.regs = kept
      <3> HIDE DEF kept
      <3> QED
        BY <1>t, <2>1, <2>2
    <2>4. cv'.regs = [i \in DOMAIN es |-> Kept(i)]
      BY <2>3
    <2>5. TypesOf(cv'.regs) = [i \in DOMAIN es |-> Kept(i).type]
      <3> HIDE DEF Kept, es
      <3> QED
        BY <2>4 DEF TypesOf
    <2>6. ASSUME NEW i \in DOMAIN es
          PROVE  Kept(i).type = IF es[i].key = Keep THEN TypesOf(cv.regs)[es[i].id + 1]
                         ELSE ProjectedType(es[i])
      <3>1. CASE es[i].key = Keep
        <4>1. es[i].id + 1 \in DOMAIN TypesOf(cv.regs)
          BY <2>1 DEF Finds, Usable
        <4>2. TypesOf(cv.regs)[es[i].id + 1] = cv.regs[es[i].id + 1].type
          BY <4>1 DEF TypesOf
        <4> QED
          BY <3>1, <4>2
      <3>2. CASE es[i].key # Keep
        BY <3>2 DEF Alloca
      <3> QED
        BY <3>1, <3>2
    <2>7. TypesOf(cv'.regs) =
            [i \in DOMAIN es |-> IF es[i].key = Keep THEN TypesOf(cv.regs)[es[i].id + 1]
                                ELSE ProjectedType(es[i])]
      <3> HIDE DEF Kept
      <3> QED
        BY <2>5, <2>6
    <2> QED
      BY <2>1, <2>7 DEF TypesAfter
  <1>6. CASE VisitJoin
    <2> DEFINE rhs == types[op.rhs]
               outer == op.type = "left_join"
               read == [i \in DOMAIN rhs |-> Reg(i, rhs[i])]
               flag == IF outer THEN <<Alloca(0, 7)>> ELSE <<>>
    <2>1. /\ phase = "codegen" /\ IsJoin(op)
      BY <1>6 DEF VisitJoin, VisitJoinQueueing
    <2>2. cv'.regs = cv.regs \o read \o flag
      <3>1. PICK ret, jids, id : cv' = [cv EXCEPT !.regs = @ \o read \o flag, !.main_return = ret, !.prev_bb = at,
                                     !.jids = jids, !.query_id_inline = id]
        BY <1>6, Zenon DEF VisitJoin, VisitJoinQueueing
      <3> HIDE DEF read, flag
      <3> QED
        BY <1>t, <3>1
    <2>3. at[2] > 1
      BY <1>p, <2>1 DEF IsJoin
    <2>4. op.rhs \in DOMAIN plan
      <3>1. at \in JoinPositions
        BY <1>p, <2>1 DEF JoinPositions
      <3> QED
        BY <1>p, <3>1, PlanFacts DEF RhsOf
    <2>5. rhs \in Seq({0, 1})
      BY <1>p, <2>4, RhsTypesType
    <2>6. Len(rhs) \in Nat /\ DOMAIN rhs = 1..Len(rhs) /\ IsSequence(rhs)
      <3> HIDE DEF rhs
      <3> QED
        BY <2>5, SeqAny
    <2>7. IsSequence(read) /\ TypesOf(read) = rhs
      <3>1. read \in Seq({Reg(i, rhs[i]) : i \in 1..Len(rhs)})
        <4> HIDE DEF rhs
        <4>1. [i \in 1..Len(rhs) |-> Reg(i, rhs[i])] \in [1..Len(rhs) -> {Reg(i, rhs[i]) : i \in 1..Len(rhs)}]
          OBVIOUS
        <4> QED
          BY <2>6, <4>1
      <3>2. IsSequence(read)
        <4> HIDE DEF read
        <4> QED
          BY <3>1, SeqAny
      <3>3. TypesOf(read) = [i \in DOMAIN rhs |-> Reg(i, rhs[i]).type]
        <4> HIDE DEF rhs
        <4> QED
          BY DEF TypesOf
      <3>4. TypesOf(read) = [i \in 1..Len(rhs) |-> rhs[i]]
        <4> HIDE DEF rhs
        <4> QED
          BY <2>6, <3>3 DEF Reg
      <3>5. TypesOf(read) = rhs
        <4> HIDE DEF rhs, read
        <4> QED
          BY <2>6, <3>4 DEF IsSequence
      <3> QED
        BY <3>2, <3>5
    <2>8. IsSequence(cv.regs)
      BY <1>r, <2>1, <2>3
    <2>9. PICK s : s = cv.regs \o read
      OBVIOUS
    <2>10. IsSequence(s) /\ TypesOf(s) = TypesOf(cv.regs) \o rhs
      <3> HIDE DEF read, rhs
      <3> QED
        BY <2>7, <2>8, <2>9, ConcatAny, TypesConcat
    <2>11. OpTypes(op, types) = rhs
      BY <2>1 DEF OpTypes, IsJoin
    <2>12. CASE outer
      <3>1. flag = <<Alloca(0, 7)>> /\ cv'.regs = s \o <<Alloca(0, 7)>>
        BY <2>2, <2>9, <2>12
      <3>2. PICK r : r = Alloca(0, 7)
        OBVIOUS
      <3>3. IsSequence(<<r>>) /\ TypesOf(<<r>>) = <<7>>
        BY <3>2 DEF TypesOf, Alloca, IsSequence
      <3>4. TypesOf(s \o <<r>>) = TypesOf(s) \o TypesOf(<<r>>)
        BY <2>10, <3>3, TypesConcat
      <3>5. TypesOf(cv'.regs) = TypesOf(s) \o <<7>>
        BY <3>1, <3>2, <3>3, <3>4
      <3>6. PICK t : t = TypesOf(s)
        OBVIOUS
      <3>7. Append(t, 7) = t \o <<7>>
        <4>1. PICK S : S = Range(t) \cup {7}
          OBVIOUS
        <4>2. IsSequence(t) /\ Range(t) \subseteq S
          BY <2>10, <3>6, <4>1, TypesOfIs
        <4>3. t \in Seq(S) /\ 7 \in S
          BY <4>1, <4>2, AnySeq
        <4> QED
          BY <4>3, AppendIsConcat
      <3>8. TypesAfter(op, TypesOf(cv.regs), types) = Append(TypesOf(cv.regs) \o OpTypes(op, types), 7)
        BY <2>12 DEF TypesAfter
      <3> HIDE DEF rhs
      <3> QED
        BY <2>10, <2>11, <3>5, <3>6, <3>7, <3>8
    <2>13. CASE ~outer
      <3>1. flag = <<>> /\ cv'.regs = s \o <<>>
        BY <2>2, <2>9, <2>13
      <3>2. cv'.regs = s
        BY <2>10, <3>1, ConcatEmpty
      <3>3. TypesAfter(op, TypesOf(cv.regs), types) = TypesOf(cv.regs) \o OpTypes(op, types)
        BY <2>1, <2>13 DEF TypesAfter, IsJoin
      <3> HIDE DEF rhs
      <3> QED
        BY <2>10, <2>11, <3>2, <3>3
    <2> QED
      BY <2>12, <2>13
  <1>7. CASE VisitSort
    BY <1>7, <1>u DEF VisitSort, Visiting
  <1>8. CASE VisitLimit
    <2>1. /\ phase = "codegen" /\ op.type = "limit"
          /\ cv' = [cv EXCEPT !.prev_bb = at] \/ Abort
      BY <1>8 DEF VisitLimit, Visiting
    <2>2. ~Abort
      BY DEF Abort
    <2>3. cv'.regs = cv.regs
      BY <1>t, <2>1, <2>2
    <2> QED
      BY <1>u, <2>1, <2>3
  <1>9. CASE VisitCreate
    <2> DEFINE access == cv.entry = <<>>
               r == Reg(1, IF OpAt(at).dir = "node" THEN 0 ELSE 1)
    <2>1. /\ phase = "codegen" /\ OpAt(at).type = "create"
          /\ \/ /\ access \/ at[2] > 1
                /\ cv' = [cv EXCEPT !.regs = Append(@, r),
                                    !.main_return = IF access THEN Block(at, "end") ELSE @,
                                    !.entry = IF access THEN <<at[1]>> ELSE @, !.prev_bb = at]
             \/ Abort
      BY <1>9, Zenon DEF VisitCreate, Visiting
    <2>2. ~Abort
      BY DEF Abort
    <2>3. cv'.regs = Append(cv.regs, r)
      <3> HIDE DEF r, access
      <3> QED
        BY <1>t, <2>1, <2>2
    <2>4. IsSequence(cv.regs)
      <3>1. CASE access
        <4>1. cv.regs = <<>>
          BY <2>1, <3>1 DEF RegsInv
        <4> QED
          BY <4>1 DEF IsSequence
      <3>2. CASE ~access
        BY <1>r, <2>1, <2>2, <3>2
      <3> QED
        BY <3>1, <3>2
    <2>5. TypesOf(cv'.regs) = Append(TypesOf(cv.regs), IF OpAt(at).dir = "node" THEN 0 ELSE 1)
      <3>1. TypesOf(cv'.regs) = Append(TypesOf(cv.regs), r.type)
        <4> HIDE DEF r
        <4> QED
          BY <1>a, <2>3, <2>4
      <3> QED
        BY <3>1 DEF Reg
    <2> QED
      BY <2>1, <2>5 DEF TypesAfter
  <1>10. CASE VisitCollect \/ VisitEnd
    BY <1>10 DEF VisitCollect, VisitEnd, Visiting, IsLeaf
  <1>11. CASE VisitUnusable
    BY <1>11 DEF VisitUnusable, Abort
  <1> QED
    BY <1>1, <1>2, <1>3, <1>4, <1>5, <1>6, <1>7, <1>8, <1>9, <1>10, <1>11 DEF Visit

\* A create that is an access path finds no registers.
LEMMA CreateFinds ==
  ASSUME CodegenType, RegsInv, OpAt(at).type = "create", at[2] = 1, Visit, phase' = "codegen"
  PROVE  cv.regs = <<>>
  <1> DEFINE access == cv.entry = <<>>
  <1>1. VisitCreate \/ VisitUnusable
    BY DEF Visit, VisitScan, VisitScanEntry, VisitForeach, VisitExpand, VisitFilter, VisitProject,
           VisitJoin, VisitJoinQueueing, VisitSort, VisitLimit, VisitCollect, VisitEnd, Visiting,
           IsJoin
  <1>2. ~Abort
    BY DEF Abort
  <1>3. VisitCreate
    BY <1>1, <1>2 DEF VisitUnusable
  <1>4. phase = "codegen" /\ (access \/ at[2] > 1)
    BY <1>2, <1>3, Zenon DEF VisitCreate, Visiting
  <1>5. ~(1 > 1)
    OBVIOUS
  <1> QED
    BY <1>4, <1>5 DEF RegsInv

LEMMA FoundKept ==
  ASSUME plan' = plan, NEW x
  PROVE  FoundTypes(x)' = FoundTypes(x)
  BY DEF FoundTypes

LEMMA TypesNext ==
  ASSUME CodegenType, OrderInv, RegsInv, TypesInv, Compile
  PROVE  TypesInv'
  <1>1. /\ plan \in Plans /\ at \in Positions /\ at = <<at[1], at[2]>> /\ at[2] \in Nat /\ at[2] >= 1
        /\ OpAt(at).type = "scan" => at[2] = 1
        /\ at[2] = 1 => OpAt(at).type \in {"scan", "create"}
    BY PositionFacts, PlanFacts DEF OrderInv, OpAt
  <1>2. PICK o : o = at
    OBVIOUS
  <1>k. plan' = plan
    BY <1>1, VisitKinds DEF Compile, Advances, Joins, Leaves, Ascend, Aborts, WalkStep, WalkEnd
  <1>e. ASSUME RegsEmitted, phase = "codegen", NEW x \in DOMAIN code', x[2] > 1
        PROVE  TypesOf(code'[x].regs) = FoundTypes(x)
    <2>1. CASE x = o
      <3>1. code'[x].regs = cv.regs
        BY <1>2, <1>e, <2>1 DEF RegsEmitted
      <3>2. TypesOf(cv.regs) = FoundTypes(x)
        BY <1>2, <1>e, <2>1 DEF TypesInv
      <3> QED
        BY <3>1, <3>2
    <2>2. CASE x # o
      <3>1. x \in DOMAIN code /\ code'[x].regs = code[x].regs
        BY <1>2, <1>e, <2>2 DEF RegsEmitted
      <3>2. TypesOf(code[x].regs) = FoundTypes(x)
        BY <1>e, <3>1 DEF TypesInv
      <3> QED
        BY <3>1, <3>2
    <2> QED
      BY <2>1, <2>2
  <1>v. ASSUME Visit, phase = "codegen", phase' = "codegen", ~IsLeaf(OpAt(at)), at' = Succ(at)
        PROVE  TypesOf(cv'.regs) = FoundTypes(Succ(at))
    <2>1. TypesOf(cv'.regs) = TypesAfter(OpAt(at), TypesOf(cv.regs), RhsTypes(plan))
      BY <1>v, TypesVisit
    <2>2. FoundTypes(Succ(at)) = TypesAfter(OpAt(at), FoundTypes(at), RhsTypes(plan))
      BY <1>1, FoundIs
    <2>3. CASE at[2] > 1
      <3>1. TypesOf(cv.regs) = FoundTypes(at)
        BY <1>v, <2>3 DEF TypesInv
      <3> QED
        BY <2>1, <2>2, <3>1
    <2>4. CASE at[2] = 1 /\ OpAt(at).type = "scan"
      BY <2>1, <2>2, <2>4 DEF TypesAfter
    <2>5. CASE at[2] = 1 /\ OpAt(at).type = "create"
      <3>1. cv.regs = <<>>
        BY <1>v, <2>5, CreateFinds
      <3>2. TypesOf(cv.regs) = <<>>
        BY <3>1 DEF TypesOf
      <3>3. FoundTypes(at) = <<>>
        <4>1. at = <<at[1], 1>>
          BY <1>1, <2>5
        <4> QED
          BY <1>1, <4>1, FoundIs
      <3> QED
        BY <2>1, <2>2, <3>2, <3>3
    <2> QED
      BY <1>1, <2>3, <2>4, <2>5
  <1>3. CASE Registers /\ Visit
    <2>1. RegsEmitted /\ phase = "codegen" /\ phase' = "codegen" /\ at' = Succ(at)
      BY <1>3 DEF Registers
    <2>2. ~IsLeaf(OpAt(at))
      <3> SUFFICES ASSUME IsLeaf(OpAt(at)) PROVE FALSE
        OBVIOUS
      <3>1. Leaves \/ Aborts
        BY <1>1, <1>3, VisitKinds DEF Advances, Joins, IsJoin, IsLeaf
      <3>2. phase' # "codegen" \/ at'[2] = 1
        BY <3>1 DEF Leaves, Aborts, Ascend
      <3> QED
        BY <1>1, <2>1, <3>2 DEF Succ
    <2>3. TypesOf(cv'.regs) = FoundTypes(at')
      BY <1>v, <1>3, <2>1, <2>2
    <2>4. PICK y : y = at'
      OBVIOUS
    <2>5. TypesOf(cv'.regs) = FoundTypes(at)'
      BY <1>k, <2>3, <2>4 DEF FoundTypes
    <2>6. \A x \in DOMAIN code' : x[2] > 1 => TypesOf(code'[x].regs) = FoundTypes(x)'
      BY <1>e, <1>k, <2>1, FoundKept
    <2> QED
      BY <2>5, <2>6 DEF TypesInv
  <1>4. CASE Leaves /\ RegsEmitted
    <2>1. /\ phase = "codegen" /\ (phase' # "codegen" \/ at'[2] = 1)
      BY <1>4 DEF Leaves, Ascend
    <2>2. \A x \in DOMAIN code' : x[2] > 1 => TypesOf(code'[x].regs) = FoundTypes(x)'
      BY <1>e, <1>k, <1>4, <2>1, FoundKept
    <2>3. ~(phase' = "codegen" /\ at'[2] > 1)
      BY <2>1
    <2> QED
      BY <2>2, <2>3 DEF TypesInv
  <1>o. ASSUME code' = code PROVE \A x \in DOMAIN code' : x[2] > 1 => TypesOf(code'[x].regs) = FoundTypes(x)'
    BY <1>k, <1>o, FoundKept DEF TypesInv
  <1>5. CASE Skips /\ Visit
    <2>1. /\ code' = code /\ phase = "codegen" /\ phase' = "codegen" /\ at' = Succ(at)
          /\ OpAt(at).type = "sort"
      BY <1>5 DEF Skips
    <2>2. TypesOf(cv'.regs) = FoundTypes(at')
      BY <1>v, <1>5, <2>1 DEF IsLeaf
    <2>3. TypesOf(cv'.regs) = FoundTypes(at)'
      BY <1>k, <2>2 DEF FoundTypes
    <2> QED
      BY <1>o, <2>1, <2>3 DEF TypesInv
  <1>6. CASE Aborts \/ WalkStep \/ WalkEnd
    <2>1. code' = code /\ phase' # "codegen"
      BY <1>6 DEF Aborts, WalkStep, WalkEnd
    <2> QED
      BY <1>o, <2>1 DEF TypesInv
  <1>7. \/ Registers /\ Visit
        \/ Skips /\ Visit
        \/ Leaves /\ RegsEmitted
        \/ Aborts \/ WalkStep \/ WalkEnd
    BY RegsKinds DEF Compile
  <1> QED
    BY <1>3, <1>4, <1>5, <1>6, <1>7

-----------------------------------------------------------------------------
(***************************************************************************)
(* The identifiers of joins, the keys and the block of a limit.            *)
(***************************************************************************)
\* A function on 1..n is a sequence.
LEMMA FunSeq ==
  ASSUME NEW n \in Nat, NEW f, f = [i \in 1..n |-> f[i]]
  PROVE  IsSequence(f) /\ Len(f) = n /\ DOMAIN f = 1..n
  <1> DEFINE S == {f[i] : i \in 1..n}
  <1>1. f \in Seq(S) /\ DOMAIN f = 1..n
    <2>1. f \in [1..n -> S]
      OBVIOUS
    <2> HIDE DEF S
    <2> QED
      BY <2>1
  <1>2. Len(f) = n
    <2> HIDE DEF S
    <2> QED
      BY <1>1
  <1>3. IsSequence(f)
    <2> HIDE DEF S
    <2> QED
      BY <1>1, SeqAny
  <1> QED
    BY <1>1, <1>2, <1>3

\* What it returns is no shorter than any of them.
LEMMA FlattenAny ==
  ASSUME NEW seqs, IsSequence(seqs), \A i \in DOMAIN seqs : IsSequence(seqs[i])
  PROVE  /\ IsSequence(FlattenSeq(seqs))
         /\ \A i \in DOMAIN seqs : Len(seqs[i]) <= Len(FlattenSeq(seqs))
  <1>1. Len(seqs) \in Nat /\ DOMAIN seqs = 1..Len(seqs)
    BY DEF IsSequence
  <1>2. CASE Len(seqs) = 0
    <2>1. FlattenSeq(seqs) = seqs
      BY <1>2 DEF FlattenSeq
    <2> QED
      BY <1>1, <1>2, <2>1
  <1>3. CASE Len(seqs) # 0
    <2>0. PICK c : Flattens(c, seqs)
      BY <1>3, FlattenIs
    <2>1. /\ c[1] = seqs[1]
          /\ \A i \in 1..Len(seqs) : i # 1 => c[i] = c[i - 1] \o seqs[i]
          /\ FlattenSeq(seqs) = c[Len(seqs)]
      BY <2>0 DEF Flattens
    <2> DEFINE Upto(m) == IsSequence(c[m]) /\ \A i \in 1..m : Len(seqs[i]) <= Len(c[m])
               V == {m \in Nat : m < Len(seqs) => Upto(m + 1)}
    <2>2. 0 \in V
      <3>1. \A i \in 1..1 : i = 1
        OBVIOUS
      <3>2. 1 \in DOMAIN seqs
        BY <1>1, <1>3
      <3>3. PICK s : s = seqs[1]
        OBVIOUS
      <3>4. IsSequence(s) /\ Len(s) <= Len(s) /\ c[1] = s
        <4>1. IsSequence(s)
          BY <3>2, <3>3
        <4> QED
          BY <2>1, <3>3, <4>1 DEF IsSequence
      <3>5. Upto(1)
        BY <3>1, <3>3, <3>4
      <3>6. 0 + 1 = 1
        OBVIOUS
      <3> HIDE DEF Upto
      <3> QED
        BY <3>5, <3>6
    <2>3. ASSUME NEW m \in Nat, m \in V PROVE m + 1 \in V
      <3> SUFFICES ASSUME m + 1 < Len(seqs) PROVE Upto(m + 1 + 1)
        <4> HIDE DEF Upto
        <4> QED
          OBVIOUS
      <3>1. PICK j, k : j = m + 1 + 1 /\ k = m + 1
        OBVIOUS
      <3>2. j \in 1..Len(seqs) /\ j # 1 /\ j - 1 = k /\ k \in Nat /\ \A i \in 1..j : i \in 1..k \/ i = j
        BY <1>1, <3>1
      <3>3. Upto(k)
        <4> HIDE DEF Upto
        <4> QED
          BY <1>1, <2>3, <3>1
      <3>4. PICK s, t, u : s = c[k] /\ t = seqs[j] /\ u = s \o t
        OBVIOUS
      <3>5. c[j] = u
        <4>1. c[j] = c[j - 1] \o seqs[j]
          BY <2>1, <3>2
        <4> QED
          BY <3>2, <3>4, <4>1
      <3>6. IsSequence(s) /\ IsSequence(t)
        BY <1>1, <3>2, <3>3, <3>4
      <3>7. IsSequence(u) /\ Len(u) = Len(s) + Len(t) /\ Len(s) \in Nat /\ Len(t) \in Nat
        <4>1. IsSequence(u) /\ Len(u) = Len(s) + Len(t)
          BY <3>4, <3>6, ConcatAny
        <4> QED
          BY <3>6, <4>1 DEF IsSequence
      <3>8. ASSUME NEW i \in 1..j PROVE Len(seqs[i]) <= Len(u)
        <4>1. CASE i \in 1..k
          <5>1. PICK n : n = Len(seqs[i])
            OBVIOUS
          <5>2. n <= Len(s)
            BY <3>3, <3>4, <4>1, <5>1
          <5>3. n \in Nat
            <6>1. i \in DOMAIN seqs
              BY <1>1, <3>2
            <6>2. IsSequence(seqs[i])
              BY <6>1
            <6> QED
              BY <5>1, <6>2 DEF IsSequence
          <5> QED
            BY <3>7, <5>1, <5>2, <5>3
        <4>2. CASE i = j
          <5>1. Len(t) <= Len(u)
            BY <3>7
          <5> QED
            BY <3>4, <4>2, <5>1
        <4> QED
          BY <3>2, <4>1, <4>2
      <3> QED
        BY <3>1, <3>5, <3>7, <3>8
    <2>4. \A m \in Nat : m \in V
      <3> HIDE DEF V
      <3> QED
        BY <2>2, <2>3, SetInduction
    <2>5. Len(seqs) - 1 \in Nat /\ Len(seqs) - 1 < Len(seqs) /\ Len(seqs) - 1 + 1 = Len(seqs)
      BY <1>1, <1>3
    <2>6. Upto(Len(seqs))
      <3> HIDE DEF Upto
      <3> QED
        BY <2>4, <2>5
    <2> QED
      BY <1>1, <2>1, <2>6
  <1> QED
    BY <1>2, <1>3

\* The keys of a pipeline's projections, one operator after the other.
KeysOf(p) ==
  FlattenSeq([k \in DOMAIN plan[p] |->
    LET es == plan[p][k].prexpr IN [i \in DOMAIN es |-> es[i].key]])

\* No operator projects more expressions than its pipeline has keys.
LEMMA KeysAny ==
  ASSUME plan \in Plans, NEW p \in DOMAIN plan
  PROVE  /\ IsSequence(KeysOf(p))
         /\ \A k \in DOMAIN plan[p] :
              /\ DOMAIN plan[p][k].prexpr = 1..Len(plan[p][k].prexpr)
              /\ Len(plan[p][k].prexpr) \in Nat
              /\ Len(plan[p][k].prexpr) <= Len(KeysOf(p))
  <1>1. Len(plan[p]) \in Nat /\ DOMAIN plan[p] = 1..Len(plan[p])
    BY PlanFacts
  <1>2. ASSUME NEW k \in DOMAIN plan[p]
        PROVE  /\ Len(plan[p][k].prexpr) \in Nat
               /\ DOMAIN plan[p][k].prexpr = 1..Len(plan[p][k].prexpr)
    BY PlansAssumption DEF IsPlan, IsSequence
  <1> DEFINE Keys(es) == [i \in DOMAIN es |-> es[i].key]
             seqs == [k \in DOMAIN plan[p] |-> Keys(plan[p][k].prexpr)]
  <1>3. KeysOf(p) = FlattenSeq(seqs)
    BY DEF KeysOf
  <1>4. IsSequence(seqs) /\ Len(seqs) = Len(plan[p]) /\ DOMAIN seqs = DOMAIN plan[p]
    <2>1. PICK n : n = Len(plan[p])
      OBVIOUS
    <2>2. seqs = [k \in 1..n |-> seqs[k]] /\ n \in Nat
      BY <1>1, <2>1
    <2> HIDE DEF seqs
    <2> QED
      BY <1>1, <2>1, <2>2, FunSeq
  <1>5. ASSUME NEW k \in DOMAIN plan[p]
        PROVE  IsSequence(seqs[k]) /\ Len(seqs[k]) = Len(plan[p][k].prexpr)
    <2>1. PICK es, n : es = plan[p][k].prexpr /\ n = Len(plan[p][k].prexpr)
      OBVIOUS
    <2>2. n \in Nat /\ DOMAIN es = 1..n /\ seqs[k] = Keys(es)
      BY <1>2, <2>1
    <2>3. PICK f : f = Keys(es)
      OBVIOUS
    <2>4. f = [i \in 1..n |-> f[i]]
      BY <2>2, <2>3
    <2>5. IsSequence(f) /\ Len(f) = n
      BY <2>2, <2>4, FunSeq
    <2> HIDE DEF seqs, Keys
    <2> QED
      BY <2>1, <2>2, <2>3, <2>5
  <1> HIDE DEF seqs
  <1>6. IsSequence(FlattenSeq(seqs)) /\ \A k \in DOMAIN seqs : Len(seqs[k]) <= Len(FlattenSeq(seqs))
    BY <1>4, <1>5, FlattenAny
  <1> QED
    BY <1>2, <1>3, <1>4, <1>5, <1>6

\* What a visit does to the names: the identifiers of joins, the keys and the block of
\* a limit.
SameNames ==
  /\ cv'.query_id_inline = cv.query_id_inline
  /\ cv'.project_string = cv.project_string
  /\ at[2] > 1 => cv'.scan_nodes_end = cv.scan_nodes_end

NewNames ==
  /\ cv'.query_id_inline = cv.query_id_inline
  /\ cv'.project_string = cv.project_string \o KeysOf(at[1])
  /\ cv'.scan_nodes_end = Block(at, "end")

Names ==
  /\ IsJoin(OpAt(at)) =>
       /\ cv'.query_id_inline = cv.query_id_inline + 1
       /\ cv'.project_string = cv.project_string /\ cv'.scan_nodes_end = cv.scan_nodes_end
  /\ ~IsJoin(OpAt(at)) => IF OpAt(at).type = "scan" THEN NewNames ELSE SameNames

LEMMA NamesKinds ==
  ASSUME CodegenType, OrderInv, Visit, ~Aborts
  PROVE  Names
  <1>t. cv = [main_return |-> cv.main_return, prev_bb |-> cv.prev_bb,
              scan_nodes_end |-> cv.scan_nodes_end, regs |-> cv.regs,
              project_string |-> cv.project_string, jids |-> cv.jids,
              query_id_inline |-> cv.query_id_inline, entry |-> cv.entry,
              expr_register |-> cv.expr_register]
    BY DEF CodegenType
  <1>a. ASSUME Abort, UNCHANGED todo, phase = "codegen" PROVE FALSE
    BY <1>a DEF Abort, Aborts
  <1> DEFINE Same == /\ cv'.query_id_inline = cv.query_id_inline
                     /\ cv'.project_string = cv.project_string
                     /\ cv'.scan_nodes_end = cv.scan_nodes_end
  <1>s. ASSUME Same, OpAt(at).type # "scan", ~IsJoin(OpAt(at)) PROVE Names
    BY <1>s DEF Names, SameNames
  <1>1. CASE VisitScan
    <2>1. OpAt(at).type = "scan"
      BY <1>1 DEF VisitScan, VisitScanEntry, Visiting
    <2>2. PICK r, reg, e :
            cv' = [cv EXCEPT !.regs = reg, !.main_return = r, !.scan_nodes_end = Block(at, "end"),
                             !.prev_bb = at, !.project_string = @ \o KeysOf(at[1]), !.entry = e]
      BY <1>1, Zenon DEF VisitScan, VisitScanEntry, KeysOf
    <2>3. NewNames
      BY <1>t, <2>2 DEF NewNames
    <2> QED
      BY <2>1, <2>3 DEF Names, IsJoin
  <1>2. CASE VisitForeach
    <2>1. OpAt(at).type = "foreach_rship"
      BY <1>2 DEF VisitForeach, Visiting
    <2>2. PICK regs, ret : cv' = [cv EXCEPT !.regs = regs, !.prev_bb = at, !.main_return = ret]
      BY <1>2, Zenon DEF VisitForeach
    <2> QED
      BY <1>t, <1>s, <2>1, <2>2 DEF IsJoin
  <1>3. CASE VisitExpand
    <2>1. OpAt(at).type = "expand"
      BY <1>3 DEF VisitExpand, Visiting
    <2>2. PICK regs : cv' = [cv EXCEPT !.regs = regs, !.prev_bb = at]
      BY <1>3, Zenon DEF VisitExpand
    <2> QED
      BY <1>t, <1>s, <2>1, <2>2 DEF IsJoin
  <1>4. CASE VisitFilter
    <2> DEFINE e == OpAt(at).fexpr
               tested == Tested(e)
    <2>1. OpAt(at).type = "filter"
      BY <1>4 DEF VisitFilter, Visiting
    <2>2. cv' = [cv EXCEPT !.prev_bb = at, !.expr_register = IF e.kind = "eq" THEN tested ELSE @]
      BY <1>4, <1>a DEF VisitFilter, Visiting
    <2> HIDE DEF e, tested
    <2> QED
      BY <1>t, <1>s, <2>1, <2>2 DEF IsJoin
  <1>5. CASE VisitProject
    <2>1. OpAt(at).type = "project" /\ phase = "codegen" /\ UNCHANGED todo
      BY <1>5 DEF VisitProject, Visiting
    <2>2. (\E regs : cv' = [cv EXCEPT !.regs = regs, !.prev_bb = at]) \/ Abort
      BY <1>5, Zenon DEF VisitProject
    <2>3. PICK regs : cv' = [cv EXCEPT !.regs = regs, !.prev_bb = at]
      BY <1>a, <2>1, <2>2
    <2> QED
      BY <1>t, <1>s, <2>1, <2>3 DEF IsJoin
  <1>6. CASE VisitJoin
    <2>1. IsJoin(OpAt(at))
      BY <1>6 DEF VisitJoin, VisitJoinQueueing
    <2>2. PICK regs, ret, jids :
            cv' = [cv EXCEPT !.regs = regs, !.main_return = ret, !.prev_bb = at,
                             !.jids = jids, !.query_id_inline = @ + 1]
      BY <1>6, Zenon DEF VisitJoin, VisitJoinQueueing
    <2> QED
      BY <1>t, <2>1, <2>2 DEF Names
  <1>7. CASE VisitSort
    <2>1. OpAt(at).type = "sort" /\ cv' = cv
      BY <1>7 DEF VisitSort, Visiting
    <2> QED
      BY <1>s, <2>1 DEF IsJoin
  <1>8. CASE VisitLimit
    <2>1. OpAt(at).type = "limit" /\ cv' = [cv EXCEPT !.prev_bb = at]
      BY <1>8, <1>a DEF VisitLimit, Visiting
    <2> QED
      BY <1>t, <1>s, <2>1 DEF IsJoin
  <1>9. CASE VisitCreate
    <2> DEFINE access == cv.entry = <<>>
    <2>1. OpAt(at).type = "create" /\ phase = "codegen" /\ UNCHANGED todo
      BY <1>9 DEF VisitCreate, Visiting
    <2>2. \/ \E regs : cv' = [cv EXCEPT !.regs = regs,
                               !.main_return = IF access THEN Block(at, "end") ELSE @,
                               !.entry = IF access THEN <<at[1]>> ELSE @,
                               !.prev_bb = at]
          \/ Abort
      BY <1>9, Zenon DEF VisitCreate
    <2>3. PICK regs : cv' = [cv EXCEPT !.regs = regs,
                               !.main_return = IF access THEN Block(at, "end") ELSE @,
                               !.entry = IF access THEN <<at[1]>> ELSE @,
                               !.prev_bb = at]
      BY <1>a, <2>1, <2>2
    <2> HIDE DEF access
    <2> QED
      BY <1>t, <1>s, <2>1, <2>3 DEF IsJoin
  <1>10. CASE VisitCollect
    <2>1. OpAt(at).type = "collect" /\ cv' = cv
      BY <1>10 DEF VisitCollect, Visiting
    <2> QED
      BY <1>s, <2>1 DEF IsJoin
  <1>11. CASE VisitEnd
    <2>1. OpAt(at).type = "none" /\ cv' = [cv EXCEPT !.jids = Tail(@)]
      BY <1>11 DEF VisitEnd, Visiting
    <2> QED
      BY <1>t, <1>s, <2>1 DEF IsJoin
  <1>12. CASE VisitUnusable
    BY <1>12, <1>a DEF VisitUnusable
  <1> QED
    BY <1>1, <1>2, <1>3, <1>4, <1>5, <1>6, <1>7, <1>8, <1>9, <1>10, <1>11, <1>12 DEF Visit

LEMMA NamesNext ==
  ASSUME CodegenType, OrderInv, NamesInv, Compile
  PROVE  NamesInv'
  <1>1. /\ plan \in Plans /\ at \in Positions /\ at = <<at[1], at[2]>> /\ at[1] \in DOMAIN plan
        /\ at[1] \in Nat /\ at[2] \in Nat /\ at[2] >= 1 /\ at[2] \in DOMAIN plan[at[1]]
        /\ OpAt(at).type = "scan" => at[2] = 1
        /\ at[2] = 1 => OpAt(at) = plan[at[1]][1]
        /\ at[2] = 1 => OpAt(at).type \in {"scan", "create"}
    BY PositionFacts, PlanFacts DEF OrderInv, OpAt
  <1>2. PICK o, id, ps : o = at /\ id = cv.query_id_inline /\ ps = cv.project_string
    OBVIOUS
  <1>3. id \in Nat /\ IsSequence(ps)
    BY <1>2 DEF CodegenType, NamesInv
  <1>k. plan' = plan
    BY <1>1, VisitKinds DEF Compile, Advances, Joins, Leaves, Ascend, Aborts, WalkStep, WalkEnd
  <1>p. JoinPositions' = JoinPositions
    BY <1>k, PlanUnchanged
  <1>n. \A x, y \in JoinPositions \cap DOMAIN code :
          code[x].jid \in 0..(id - 1) /\ (code[x].jid = code[y].jid => x = y)
    BY <1>2 DEF NamesInv
  \* The identifiers.
  <1> DEFINE Distinct ==
        \A x, y \in JoinPositions \cap DOMAIN code' :
          code'[x].jid \in 0..(cv'.query_id_inline - 1) /\ (code'[x].jid = code'[y].jid => x = y)
  <1>i. ASSUME NEW jid, Emitted(jid), \/ IsJoin(OpAt(o)) /\ jid = id /\ cv'.query_id_inline = id + 1
                                      \/ ~IsJoin(OpAt(o)) /\ cv'.query_id_inline = id
        PROVE  Distinct
    <2>1. /\ DOMAIN code' = DOMAIN code \cup {o} /\ code'[o].jid = jid
          /\ \A x \in DOMAIN code : x # o => code'[x].jid = code[x].jid
      BY <1>2, <1>i DEF Emitted
    <2>2. ASSUME NEW x \in JoinPositions, x \in DOMAIN code', x # o
          PROVE  x \in JoinPositions \cap DOMAIN code /\ code'[x].jid = code[x].jid
                 /\ code[x].jid \in 0..(id - 1)
      BY <1>n, <2>1, <2>2
    <2>3. ASSUME o \in JoinPositions PROVE jid = id /\ cv'.query_id_inline = id + 1
      BY <1>i, <2>3 DEF JoinPositions
    <2>4. cv'.query_id_inline \in {id, id + 1}
      BY <1>i
    <2> SUFFICES ASSUME NEW x \in JoinPositions \cap DOMAIN code',
                        NEW y \in JoinPositions \cap DOMAIN code'
                 PROVE  /\ code'[x].jid \in 0..(cv'.query_id_inline - 1)
                        /\ code'[x].jid = code'[y].jid => x = y
      OBVIOUS
    <2>5. CASE x = o
      <3>1. code'[x].jid = id /\ cv'.query_id_inline = id + 1
        BY <2>1, <2>3, <2>5
      <3>2. y # o => code'[y].jid \in 0..(id - 1)
        BY <2>2
      <3> QED
        BY <1>3, <2>5, <3>1, <3>2
    <2>6. CASE x # o
      <3>1. code'[x].jid = code[x].jid /\ code[x].jid \in 0..(id - 1) /\ x \in JoinPositions \cap DOMAIN code
        BY <2>2, <2>6
      <3>2. CASE y = o
        <4>1. code'[y].jid = id
          BY <2>1, <2>3, <3>2
        <4> QED
          BY <1>3, <2>4, <3>1, <4>1
      <3>3. CASE y # o
        <4>1. code'[y].jid = code[y].jid /\ y \in JoinPositions \cap DOMAIN code
          BY <2>2, <3>3
        <4> QED
          BY <1>3, <1>n, <2>4, <3>1, <4>1
      <3> QED
        BY <3>2, <3>3
    <2> QED
      BY <2>5, <2>6
  <1>d. ASSUME code' = code, cv'.query_id_inline = id PROVE Distinct
    BY <1>d, <1>n
  <1>m. Distinct => \A x, y \in JoinPositions' \cap DOMAIN code' :
          code'[x].jid \in 0..(cv'.query_id_inline - 1) /\ (code'[x].jid = code'[y].jid => x = y)
    BY <1>p
  <1> HIDE DEF Distinct
  <1>4. CASE Aborts \/ WalkStep \/ WalkEnd
    <2>1. cv' = cv /\ code' = code /\ phase' # "codegen"
      BY <1>4 DEF Aborts, WalkStep, WalkEnd
    <2>2. Distinct
      BY <1>2, <1>d, <2>1
    <2>3. IsSequence(cv'.project_string)
      BY <1>2, <1>3, <2>1
    <2> QED
      BY <1>m, <2>1, <2>2, <2>3 DEF NamesInv
  <1>5. CASE Visit /\ ~Aborts
    <2>n. Names
      BY <1>5, NamesKinds
    <2>1. \/ Advances \/ Joins \/ Leaves
      BY <1>1, <1>5, VisitKinds
    <2>2. IsSequence(cv'.project_string)
      <3>1. PICK ks : ks = KeysOf(at[1])
        OBVIOUS
      <3>2. cv'.project_string = ps \/ cv'.project_string = ps \o ks
        BY <1>2, <2>n, <3>1 DEF Names, NewNames, SameNames
      <3>3. IsSequence(ks)
        BY <1>1, <3>1, KeysAny
      <3>4. IsSequence(ps \o ks)
        BY <1>3, <3>3, ConcatAny
      <3> QED
        BY <1>3, <3>2, <3>4, Zenon
    <2>3. cv'.query_id_inline = IF IsJoin(OpAt(o)) THEN id + 1 ELSE id
      BY <1>2, <2>n DEF Names, NewNames, SameNames
    <2>4. Distinct
      <3>1. CASE Advances
        <4>1. Emitted(Null) \/ code' = code
          BY <3>1 DEF Advances
        <4>2. ~IsJoin(OpAt(o))
          BY <1>2, <3>1 DEF Advances
        <4> QED
          BY <1>d, <1>i, <2>3, <4>1, <4>2
      <3>2. CASE Joins
        <4>1. Emitted(id) /\ IsJoin(OpAt(o))
          BY <1>2, <3>2 DEF Joins
        <4> QED
          BY <1>i, <2>3, <4>1
      <3>3. CASE Leaves
        <4>1. PICK jid : Emitted(jid)
          BY <3>3 DEF Leaves
        <4>2. ~IsJoin(OpAt(o))
          BY <1>2, <3>3 DEF Leaves, IsLeaf, IsJoin
        <4> QED
          BY <1>i, <2>3, <4>1, <4>2
      <3> QED
        BY <2>1, <3>1, <3>2, <3>3
    <2>5. CASE Leaves
      <3>1. phase' = "codegen" => at'[2] = 1 /\ at' # <<1, 1>>
        <4>1. CASE todo = <<>>
          BY <2>5, <4>1 DEF Leaves, Ascend
        <4>2. CASE todo # <<>>
          <5>1. at' = <<Last(todo), 1>>
            BY <2>5, <4>2 DEF Leaves, Ascend
          <5>2. Last(todo) > 1 /\ Last(todo) \in Nat
            <6>1. todo \in Seq(Nat) /\ \A i \in DOMAIN todo : todo[i] > 1
              BY DEF CodegenType, OrderInv
            <6>2. Len(todo) \in DOMAIN todo /\ Last(todo) = todo[Len(todo)]
              BY <4>2, <6>1 DEF Last
            <6> QED
              BY <6>1, <6>2
          <5> QED
            BY <5>1, <5>2
        <4> QED
          BY <4>1, <4>2
      <3> QED
        BY <1>m, <2>2, <2>4, <3>1 DEF NamesInv
    <2>6. CASE Advances \/ Joins
      <3>1. phase = "codegen" /\ at' = <<at[1], at[2] + 1>>
        BY <2>6 DEF Advances, Joins, Succ
      <3>2. at' # <<1, 1>> /\ at'[1] = at[1]
        BY <1>1, <3>1
      <3> DEFINE Fits(end, keys) ==
            end # Null /\ \A op \in Range(plan[at[1]]) : DOMAIN op.prexpr \subseteq DOMAIN keys
      <3>3. ASSUME plan[at[1]][1].type = "scan"
            PROVE  Fits(cv'.scan_nodes_end, cv'.project_string)
        <4>1. CASE OpAt(at).type = "scan"
          <5>1. PICK ks : ks = KeysOf(at[1])
            OBVIOUS
          <5>2. cv'.project_string = ps \o ks /\ cv'.scan_nodes_end = Block(at, "end")
            BY <1>2, <2>n, <4>1, <5>1 DEF Names, NewNames, IsJoin
          <5>3. Block(at, "end") # Null
            <6>1. Block(at, "end") \in Nat \X Nat \X {"end"}
              <7>1. PICK a, b, c : a = at[1] /\ b = at[2] /\ c = "end"
                OBVIOUS
              <7>2. a \in Nat /\ b \in Nat /\ c \in {"end"}
                BY <1>1, <7>1
              <7>3. <<a, b, c>> \in Nat \X Nat \X {"end"}
                BY <7>2
              <7> QED
                BY <7>1, <7>3 DEF Block
            <6> QED
              BY <6>1, NullAssumption
          <5>4. IsSequence(ks) /\ Len(ks) \in Nat /\ Len(ps) \in Nat
            <6>1. IsSequence(ks)
              BY <1>1, <5>1, KeysAny
            <6> QED
              BY <1>3, <6>1 DEF IsSequence
          <5>5. DOMAIN (ps \o ks) = 1..(Len(ps) + Len(ks))
            <6>1. IsSequence(ps \o ks) /\ Len(ps \o ks) = Len(ps) + Len(ks)
              BY <1>3, <5>4, ConcatAny
            <6>2. PICK c : c = ps \o ks
              OBVIOUS
            <6>3. DOMAIN c = 1..Len(c)
              BY <6>1, <6>2 DEF IsSequence
            <6> QED
              BY <6>1, <6>2, <6>3
          <5>6. ASSUME NEW op \in Range(plan[at[1]])
                PROVE  DOMAIN op.prexpr \subseteq DOMAIN cv'.project_string
            <6>1. PICK k \in DOMAIN plan[at[1]] : op = plan[at[1]][k]
              BY DEF Range
            <6>2. PICK n : n = Len(op.prexpr)
              OBVIOUS
            <6>3. DOMAIN op.prexpr = 1..n /\ n \in Nat /\ n <= Len(ks)
              BY <1>1, <5>1, <6>1, <6>2, KeysAny
            <6> QED
              BY <5>2, <5>4, <5>5, <6>3
          <5> QED
            BY <5>2, <5>3, <5>6
        <4>2. CASE OpAt(at).type # "scan"
          <5>1. at[2] > 1
            BY <1>1, <3>3, <4>2
          <5>2. cv'.project_string = cv.project_string /\ cv'.scan_nodes_end = cv.scan_nodes_end
            BY <2>n, <4>2, <5>1 DEF Names, SameNames
          <5> QED
            BY <3>1, <3>3, <5>1, <5>2 DEF NamesInv
        <4> QED
          BY <4>1, <4>2
      <3>4. plan'[at'[1]][1].type = "scan" =>
              /\ cv'.scan_nodes_end # Null
              /\ \A op \in Range(plan'[at'[1]]) :
                   DOMAIN op.prexpr \subseteq DOMAIN cv'.project_string
        BY <1>k, <3>2, <3>3
      <3> QED
        BY <1>m, <2>2, <2>4, <3>2, <3>4 DEF NamesInv
    <2> QED
      BY <2>1, <2>5, <2>6
  <1> QED
    BY <1>4, <1>5 DEF Compile

-----------------------------------------------------------------------------
(***************************************************************************)
(* The invariant, and what follows from it.                                *)
(***************************************************************************)
IInv == CodegenType /\ CodegenInv

LEMMA InitInv == CodegenInit => IInv
  <1> SUFFICES ASSUME CodegenInit PROVE IInv
    OBVIOUS
  <1>1. /\ plan \in Plans /\ phase = "codegen" /\ at = <<1, 1>> /\ todo = <<>> /\ op_id = 1
        /\ cv.jids = <<>> /\ cv.entry = <<>> /\ cv.query_id_inline = 0
        /\ code = <<>> /\ DOMAIN code = {}
        /\ walk.cur = <<1, 1>> /\ walk.recur = <<>> /\ walk.args = <<>>
    BY DEF CodegenInit
  <1>2. /\ 1 \in DOMAIN plan /\ DOMAIN plan[1] = 1..Len(plan[1]) /\ Len(plan[1]) \in Nat
        /\ 1 \in DOMAIN plan[1] /\ at \in Positions
    <2>1. /\ 1 \in DOMAIN plan /\ Len(plan[1]) \in Nat /\ Len(plan[1]) >= 1
          /\ DOMAIN plan[1] = 1..Len(plan[1])
      BY <1>1, PlanFacts
    <2> QED
      BY <1>1, <2>1, PositionFacts
  <1>3. CodegenType
    BY <1>1 DEF CodegenInit, CodegenType
  <1>4. /\ Entered = {} /\ \A x \in JoinPositions : ~Reached(x)
    <2>1. Entered = {}
      BY <1>1 DEF Entered, Range
    <2>2. \A x \in JoinPositions : x[2] \in Nat /\ x[2] >= 1
      BY <1>1, PlanFacts DEF JoinPositions
    <2> QED
      BY <1>1, <2>1, <2>2 DEF Reached
  <1>5. OrderInv
    BY <1>1, <1>2, <1>4 DEF OrderInv
  <1>6. JidInv
    <2>1. ~Joined
      BY <1>1, <1>2, <1>4, JoinOfPipeline
    <2> QED
      BY <1>1, <1>4, <2>1 DEF JidInv
  <1>7. SlotInv
    <2>1. SlotsUpTo(at[2] - 1)
      BY <1>1, <1>2 DEF SlotsUpTo
    <2>2. SlotAfter(at[2] - 1) = 1
      BY <1>1 DEF SlotAfter
    <2> QED
      BY <1>1, <2>1, <2>2 DEF SlotInv, Compiled
  <1>8. FlowInv
    <2>1. DOMAIN code = {} /\ at[2] = 1 /\ cv.scan_nodes_end = Null
      BY DEF CodegenInit
    <2> QED
      BY <1>4, <2>1 DEF FlowInv
  <1>9. RegsInv
    <2>1. DOMAIN code = {} /\ at[2] = 1 /\ cv.regs = <<>>
      BY DEF CodegenInit
    <2> QED
      BY <2>1 DEF RegsInv
  <1>10. TypesInv
    <2>1. DOMAIN code = {} /\ at[2] = 1
      BY <1>1
    <2> QED
      BY <2>1 DEF TypesInv
  <1>11. NamesInv
    <2>1. DOMAIN code = {} /\ at[2] = 1 /\ cv.entry = <<>> /\ cv.project_string = <<>>
      BY DEF CodegenInit
    <2>2. IsSequence(cv.project_string)
      BY <2>1 DEF IsSequence
    <2> QED
      BY <2>1, <2>2 DEF NamesInv
  <1> QED
    BY <1>3, <1>5, <1>6, <1>7, <1>8, <1>9, <1>10, <1>11 DEF IInv, CodegenInv

LEMMA CompileKeeps ==
  ASSUME IInv, Compile
  PROVE  IInv'
  <1>1. CodegenType' /\ OrderInv'
    BY TypeNext, OrderNext DEF IInv, CodegenInv
  <1>2. JidInv' /\ SlotInv' /\ FlowInv' /\ RegsInv'
    BY <1>1, JidNext, SlotNext, FlowNext, RegsNext DEF IInv, CodegenInv
  <1>3. TypesInv' /\ NamesInv'
    BY TypesNext, NamesNext DEF IInv, CodegenInv
  <1> QED
    BY <1>1, <1>2, <1>3 DEF IInv, CodegenInv

\* When the plan is compiled, every pipeline is entered: the first one that was
\* not would be the right-hand side of a join in one that was.
LEMMA AllEntered ==
  ASSUME IInv, Compiled
  PROVE  /\ \A p \in DOMAIN plan : p \in Entered
         /\ \A x \in JoinPositions : Reached(x) /\ Precedes(RhsOf(x), x[1])
  <1>1. /\ plan \in Plans /\ at \in Positions /\ todo = <<>> /\ at[2] = Len(plan[at[1]])
        /\ at[1] \in Entered /\ (1 \in Entered \/ at = <<1, 1>>)
        /\ \A x \in JoinPositions : Reached(x) =>
             \/ RhsOf(x) \in Range(todo)
             \/ at = <<RhsOf(x), 1>>
             \/ Precedes(RhsOf(x), x[1])
    BY DEF IInv, CodegenInv, OrderInv, Compiled
  <1>2. at[2] # 1
    <2>1. /\ plan[at[1]][1].type \in {"scan", "create"} /\ at[1] \in DOMAIN plan
          /\ plan[at[1]][Len(plan[at[1]])].type = IF at[1] = 1 THEN "collect" ELSE "none"
      BY <1>1, PositionFacts, PlanFacts
    <2> QED
      BY <1>1, <2>1
  <1>3. ASSUME NEW x \in JoinPositions, x[1] \in Entered
        PROVE  Reached(x) /\ Precedes(RhsOf(x), x[1])
    <2>1. Reached(x)
      <3>1. CASE x[1] = at[1]
        <4>1. ~IsLeaf(OpAt(x)) /\ x \in Positions
          BY DEF JoinPositions, IsJoin, IsLeaf
        <4> QED
          BY <1>1, <3>1, <4>1, PlanFacts DEF Reached
      <3>2. CASE x[1] # at[1]
        BY <1>3, <3>2 DEF Reached
      <3> QED
        BY <3>1, <3>2
    <2>2. RhsOf(x) \notin Range(todo)
      BY <1>1 DEF Range
    <2>3. at # <<RhsOf(x), 1>>
      BY <1>2
    <2> QED
      BY <1>1, <2>1, <2>2, <2>3
  <1>4. \A p \in DOMAIN plan : p \in Entered
    <2> DEFINE Left == {p \in DOMAIN plan : p \notin Entered}
               R == {ss \in Nat \X Nat : ss[1] < ss[2]}
    <2> SUFFICES ASSUME Left # {} PROVE FALSE
      OBVIOUS
    <2>1. Left \subseteq Nat
      BY <1>1, PlanFacts
    <2>2. IsWellFoundedOn(R, Nat)
      BY NatLessThanWellFounded DEF OpToRel
    <2>3. \E p \in Left : \A q \in Left : ~(<<q, p>> \in R)
      <3> HIDE DEF Left, R
      <3> QED
        BY <2>1, <2>2, WFMin
    <2>4. PICK p \in Left : \A q \in Left : ~(q < p)
      <3>1. \A p, q \in Left : q < p => <<q, p>> \in R
        BY <2>1
      <3> HIDE DEF Left, R
      <3> QED
        BY <2>3, <3>1
    <2>5. p \in DOMAIN plan /\ p \notin Entered /\ p # 1
      <3>1. 1 \in Entered
        BY <1>1, <1>2
      <3> QED
        BY <2>4, <3>1
    <2>6. PICK x \in JoinPositions : RhsOf(x) = p /\ x[1] < p
      BY <1>1, <2>5, PlanFacts
    <2>7. x[1] \in Entered
      <3>1. x[1] \in DOMAIN plan
        BY PositionFacts DEF JoinPositions
      <3> QED
        BY <2>4, <2>6, <3>1
    <2>8. Precedes(p, x[1])
      BY <1>3, <2>6, <2>7
    <2> QED
      BY <2>5, <2>8 DEF Precedes, Entered, Range
  <1>5. \A x \in JoinPositions : x[1] \in DOMAIN plan
    BY PositionFacts DEF JoinPositions
  <1> QED
    BY <1>3, <1>4, <1>5

LEMMA RhsFirst ==
  ASSUME IInv
  PROVE  RhsExecutesFirst
  <1> SUFFICES ASSUME Compiled, NEW x \in Positions, IsJoin(OpAt(x))
               PROVE  \E i, j \in DOMAIN cv.entry :
                        i < j /\ cv.entry[i] = OpAt(x).rhs /\ cv.entry[j] = x[1]
    BY DEF RhsExecutesFirst
  <1>1. Precedes(RhsOf(x), x[1])
    BY AllEntered DEF JoinPositions
  <1> QED
    BY <1>1 DEF Precedes, RhsOf

LEMMA ReadsOwn ==
  ASSUME IInv
  PROVE  JoinReadsOwnRhs
  <1> SUFFICES ASSUME Compiled, OneJoinEach, NEW x \in Positions, IsJoin(OpAt(x))
               PROVE  code[x].jid = code[LeafOf(OpAt(x).rhs)].jid
    BY DEF JoinReadsOwnRhs
  <1>1. x \in JoinPositions /\ Reached(x)
    BY AllEntered DEF JoinPositions
  <1>2. phase # "codegen" /\ phase # "aborted"
    BY DEF Compiled
  <1>3. Handed(x)
    BY <1>1, <1>2 DEF IInv, CodegenInv, JidInv
  <1> QED
    BY <1>2, <1>3 DEF Handed, RhsOf

LEMMA Binds ==
  ASSUME IInv
  PROVE  BindsLabels
  <1>1. Compiled => \A k \in DOMAIN plan[1] : Plain(k) => InSlot(k)
    BY DEF IInv, CodegenInv, SlotInv
  <1> QED
    BY <1>1 DEF BindsLabels, Plain, InSlot
=============================================================================
