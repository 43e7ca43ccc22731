----------------------- MODULE FilterExpressionProofs -----------------------
(***************************************************************************)
(* Theorems about FilterExpression, for any set of expressions in postfix  *)
(* order, of any size, and any property chains: the variables keep their   *)
(* types, an expression whose connectives have a comparison as their right *)
(* operand is compiled, and the code that is compiled is exact.            *)
(***************************************************************************)
EXTENDS FilterExpression, FiniteSetTheorems, SequenceTheorems, WellFoundedInduction, TLAPS

(***************************************************************************)
(* Sequences of elements of any kind.                                      *)
(***************************************************************************)
IsSequence(s) == Len(s) \in Nat /\ s = [i \in 1..Len(s) |-> s[i]]

LEMMA SeqIs ==
  ASSUME NEW S, NEW s \in Seq(S)
  PROVE  IsSequence(s)
  BY DEF IsSequence

LEMMA AppendAny ==
  ASSUME NEW s, IsSequence(s), NEW e
  PROVE  /\ IsSequence(Append(s, e)) /\ Len(Append(s, e)) = Len(s) + 1
         /\ \A i \in 1..Len(s) : Append(s, e)[i] = s[i]
         /\ Append(s, e)[Len(s) + 1] = e
  <1> DEFINE S == {s[i] : i \in 1..Len(s)} \cup {e}
  <1>1. s \in Seq(S)
    <2>1. [i \in 1..Len(s) |-> s[i]] \in [1..Len(s) -> S]
      OBVIOUS
    <2> QED
      BY <2>1 DEF IsSequence
  <1>2. e \in S
    OBVIOUS
  <1> HIDE DEF S
  <1>3. /\ Append(s, e) \in Seq(S) /\ Len(Append(s, e)) = Len(s) + 1
        /\ \A i \in 1..Len(s) : Append(s, e)[i] = s[i]
        /\ Append(s, e)[Len(s) + 1] = e
    BY <1>1, <1>2, AppendProperties
  <1>4. IsSequence(Append(s, e))
    BY <1>3, SeqIs
  <1> QED
    BY <1>3, <1>4

LEMMA PushAny ==
  ASSUME NEW s, IsSequence(s), NEW e
  PROVE  /\ IsSequence(<<e>> \o s) /\ Len(<<e>> \o s) = Len(s) + 1
         /\ (<<e>> \o s)[1] = e
         /\ \A i \in 1..Len(s) : (<<e>> \o s)[i + 1] = s[i]
  <1> DEFINE S == {s[i] : i \in 1..Len(s)} \cup {e}
  <1>1. s \in Seq(S)
    <2>1. [i \in 1..Len(s) |-> s[i]] \in [1..Len(s) -> S]
      OBVIOUS
    <2> QED
      BY <2>1 DEF IsSequence
  <1>2. <<e>> \in Seq(S) /\ Len(<<e>>) = 1 /\ <<e>>[1] = e
    OBVIOUS
  <1> HIDE DEF S
  <1>3. /\ <<e>> \o s \in Seq(S) /\ Len(<<e>> \o s) = 1 + Len(s)
        /\ \A i \in 1..(1 + Len(s)) :
             (<<e>> \o s)[i] = IF i <= 1 THEN <<e>>[i] ELSE s[i - 1]
    BY <1>1, <1>2, ConcatProperties
  <1>4. IsSequence(<<e>> \o s)
    BY <1>3, SeqIs
  <1> QED
    BY <1>1, <1>2, <1>3, <1>4

-----------------------------------------------------------------------------
(***************************************************************************)
(* The operands of a connective.                                           *)
(***************************************************************************)
LEMMA TokensFinite ==
  ASSUME NEW e, NEW ftypes, NEW n \in Nat
  PROVE  IsFiniteSet(TokensOf(e, ftypes, n)) /\ Cardinality(TokensOf(e, ftypes, n)) \in Nat
  <1>1. IsFiniteSet(1..n)
    BY FS_Interval
  <1>2. TokensOf(e, ftypes, n) \subseteq 1..n
    BY DEF TokensOf
  <1>3. IsFiniteSet(TokensOf(e, ftypes, n))
    BY <1>1, <1>2, FS_Subset
  <1> QED
    BY <1>3, FS_CardinalityType

\* In a postfix expression a connective whose right operand is a comparison has
\* the last result of its left operand right in front of that comparison's three
\* tokens.
LEMMA OperandsInPlace ==
  ASSUME NEW e, Postfix(e), NEW i \in 1..Len(e), IsBoolOp(e[i]), i > 1 => ~IsBoolOp(e[i - 1])
  PROVE  i > 4 /\ e[i - 4].ftype \in {"eq", "and", "or"}
  <1> DEFINE eqs == TokensOf(e, {"eq"}, i - 1)
             ops == TokensOf(e, {"and", "or"}, i - 1)
  <1>1. i \in Nat /\ i - 1 \in Nat /\ Len(e) \in Nat /\ DOMAIN e = 1..Len(e)
    BY DEF Postfix
  <1>2. Cardinality(eqs) >= 2
    <2>1. Cardinality(eqs) - Cardinality(ops) >= 2
      BY DEF Postfix, Results
    <2>2. Cardinality(eqs) \in Nat /\ Cardinality(ops) \in Nat
      BY <1>1, TokensFinite
    <2> HIDE DEF eqs, ops
    <2> QED
      BY <2>1, <2>2
  <1>3. IsFiniteSet(eqs)
    BY <1>1, TokensFinite
  <1>4. PICK j \in eqs : j # i - 1
    <2>1. CASE eqs \subseteq {i - 1}
      <3>1. IsFiniteSet({i - 1}) /\ Cardinality({i - 1}) = 1
        BY FS_Singleton
      <3>2. Cardinality(eqs) <= 1
        BY <2>1, <3>1, FS_Subset
      <3>3. Cardinality(eqs) \in Nat
        BY <1>3, FS_CardinalityType
      <3> HIDE DEF eqs
      <3> QED
        BY <1>2, <3>2, <3>3
    <2>2. CASE ~(eqs \subseteq {i - 1})
      BY <2>2
    <2> QED
      BY <2>1, <2>2
  <1>5. j \in 1..(i - 1) /\ e[j].ftype = "eq"
    BY DEF TokensOf
  <1>6. i - 1 \in 1..Len(e) /\ ~IsBoolOp(e[i - 1]) /\ i > 2
    BY <1>1, <1>4, <1>5
  <1>7. e[i].ftype \in {"and", "or"}
    BY DEF IsBoolOp
  <1>8. e[i - 1].ftype = "eq"
    <2>1. /\ e[i - 1].ftype \in {"key", "int", "str", "eq", "and", "or", "fct"}
          /\ e[i - 1].ftype = "key" => e[i - 1 + 1].ftype \in {"int", "str"}
          /\ e[i - 1].ftype \in {"int", "str"} => e[i - 1 + 1].ftype = "eq"
          /\ e[i - 1].ftype = "fct" => Len(e) = 1
      BY <1>6 DEF Postfix
    <2>2. i - 1 + 1 = i /\ Len(e) # 1
      BY <1>1, <1>6
    <2> QED
      BY <1>6, <1>7, <2>1, <2>2 DEF IsBoolOp
  <1>9. i - 2 \in 1..Len(e) /\ e[i - 2].ftype \in {"int", "str"}
    <2>1. i - 1 - 1 \in 1..Len(e) /\ e[i - 1 - 1].ftype \in {"int", "str"}
      BY <1>1, <1>6, <1>8 DEF Postfix
    <2>2. i - 1 - 1 = i - 2
      BY <1>1
    <2> QED
      BY <2>1, <2>2
  <1>10. i - 3 \in 1..Len(e) /\ e[i - 3].ftype = "key"
    <2>1. i - 2 - 1 \in 1..Len(e) /\ e[i - 2 - 1].ftype = "key"
      BY <1>1, <1>9 DEF Postfix
    <2>2. i - 2 - 1 = i - 3
      BY <1>1
    <2> QED
      BY <2>1, <2>2
  <1>11. j # i - 2 /\ j # i - 3
    BY <1>5, <1>9, <1>10
  <1>12. i - 4 \in 1..Len(e) /\ i > 4
    BY <1>1, <1>4, <1>5, <1>11
  <1>13. i - 4 + 1 = i - 3
    BY <1>1
  <1>14. e[i - 4].ftype \in {"eq", "and", "or"}
    <2>1. /\ e[i - 4].ftype \in {"key", "int", "str", "eq", "and", "or", "fct"}
          /\ e[i - 4].ftype = "key" => e[i - 3].ftype \in {"int", "str"}
          /\ e[i - 4].ftype \in {"int", "str"} => e[i - 3].ftype = "eq"
          /\ e[i - 4].ftype = "fct" => Len(e) = 1
      BY <1>12, <1>13 DEF Postfix
    <2>2. Len(e) # 1
      BY <1>1, <1>12
    <2> QED
      BY <1>10, <2>1, <2>2
  <1> QED
    BY <1>12, <1>14

\* The last token of an expression is a result.
LEMMA LastIsResult ==
  ASSUME NEW e, Postfix(e)
  PROVE  e[Len(e)].ftype \in {"eq", "and", "or", "fct"}
  <1>1. Len(e) \in 1..Len(e) /\ ~(Len(e) + 1 \in DOMAIN e)
    BY DEF Postfix
  <1> QED
    BY <1>1 DEF Postfix

-----------------------------------------------------------------------------
(***************************************************************************)
(* The invariant, step by step.                                            *)
(***************************************************************************)
Inv == TypeOK /\ StackInv /\ IsSequence(expr_stack) /\ IsSequence(code) /\ opd_cnt \in Nat

LEMMA ExprFacts ==
  ASSUME StackInv
  PROVE  Postfix(expr) /\ Len(expr) \in Nat /\ Len(expr) > 0 /\ DOMAIN expr = 1..Len(expr)
  <1>1. Postfix(expr)
    BY ExprsAssumption DEF StackInv
  <1> QED
    BY <1>1 DEF Postfix

\* The visited token is in front of the others.
LEMMA PushStep ==
  ASSUME Inv, NEW ftypes, Visiting(ftypes), Push, expr' = expr
  PROVE  /\ IsSequence(expr_stack') /\ Visited \in Nat /\ Len(expr_stack') = Visited + 1
         /\ Len(expr_stack') <= Len(expr)
         /\ \A j \in 1..Len(expr_stack') : expr_stack'[j].ftype = expr[Len(expr_stack') + 1 - j].ftype
  <1> DEFINE e == [ftype |-> Tok.ftype, opd_num |-> opd_cnt]
  <1>1. IsSequence(expr_stack) /\ Visited \in Nat
    BY DEF Inv, IsSequence, Visited
  <1>2. expr_stack' = <<e>> \o expr_stack
    BY DEF Push
  <1> HIDE DEF e
  <1>3. /\ IsSequence(expr_stack') /\ Len(expr_stack') = Visited + 1
        /\ expr_stack'[1] = e /\ \A i \in 1..Visited : expr_stack'[i + 1] = expr_stack[i]
    BY <1>1, <1>2, PushAny DEF Visited
  <1>4. Visited < Len(expr) /\ Len(expr) \in Nat
    BY ExprFacts DEF Visiting, Inv
  <1>5. ASSUME NEW j \in 1..(Visited + 1)
        PROVE  expr_stack'[j].ftype = expr[Visited + 1 + 1 - j].ftype
    <2>1. CASE j = 1
      <3>1. Visited + 1 + 1 - j = Visited + 1
        BY <1>1, <2>1
      <3> QED
        BY <1>3, <2>1, <3>1 DEF e, Tok
    <2>2. CASE j # 1
      <3>1. j - 1 \in 1..Visited /\ j - 1 + 1 = j /\ Visited + 1 - (j - 1) = Visited + 1 + 1 - j
        BY <1>1, <2>2
      <3>2. expr_stack'[j] = expr_stack[j - 1]
        BY <1>3, <3>1
      <3>3. expr_stack[j - 1].ftype = expr[Visited + 1 - (j - 1)].ftype
        BY <3>1 DEF Inv, StackInv
      <3> QED
        BY <3>1, <3>2, <3>3
    <2> QED
      BY <2>1, <2>2
  <1> QED
    BY <1>1, <1>3, <1>4, <1>5

\* A visit that emits an instruction of the token's kind.
LEMMA EmitStep ==
  ASSUME Inv, NEW ftypes, Visiting(ftypes), Push, NEW instr, code' = Append(code, instr),
         instr.ftype = IF Tok.ftype = "str" THEN "int" ELSE Tok.ftype,
         instr.ftype \in {"eq", "and", "or"} => instr.root = IsRoot,
         UNCHANGED <<expr, props, phase, execution>>,
         opd_cnt' \in Nat, DOMAIN gen_vals_' \subseteq 0..(opd_cnt' - 1),
         \A n \in DOMAIN gen_vals_' : gen_vals_'[n] \in alloc_stack'
  PROVE  Inv'
  <1>1. /\ IsSequence(expr_stack') /\ Visited \in Nat /\ Len(expr_stack') = Visited + 1
        /\ Len(expr_stack') <= Len(expr)
        /\ \A j \in 1..Len(expr_stack') : expr_stack'[j].ftype = expr[Len(expr_stack') + 1 - j].ftype
    BY PushStep
  <1>2. phase = "visit" /\ Len(code) = Visited /\ IsSequence(code) /\ Len(code) \in Nat
    BY DEF Visiting, Inv, StackInv, IsSequence
  <1>3. /\ IsSequence(code') /\ Len(code') = Visited + 1
        /\ \A i \in 1..Visited : code'[i] = code[i]
        /\ code'[Visited + 1] = instr
    BY <1>2, AppendAny
  <1>4. DOMAIN code = 1..Visited /\ DOMAIN code' = 1..(Visited + 1)
    <2>1. ASSUME NEW s, IsSequence(s) PROVE DOMAIN s = 1..Len(s)
      BY <2>1 DEF IsSequence
    <2> QED
      BY <1>2, <1>3, <2>1
  <1>5. ASSUME NEW i \in DOMAIN code'
        PROVE  /\ code'[i].ftype = IF expr[i].ftype = "str" THEN "int" ELSE expr[i].ftype
               /\ code'[i].ftype \in {"eq", "and", "or"} => code'[i].root = (i = Len(expr))
    <2>1. CASE i = Visited + 1
      BY <1>3, <2>1 DEF Tok, IsRoot
    <2>2. CASE i # Visited + 1
      <3>1. i \in DOMAIN code /\ code'[i] = code[i]
        BY <1>1, <1>3, <1>4, <2>2
      <3> QED
        BY <3>1 DEF Inv, StackInv
    <2> QED
      BY <2>1, <2>2
  <1>6. StackInv'
    BY <1>1, <1>2, <1>3, <1>5 DEF StackInv, Inv, Visited
  <1>7. TypeOK'
    BY <1>1, <1>2, <1>3 DEF TypeOK, Inv, Visited, execution
  <1> QED
    BY <1>1, <1>3, <1>6, <1>7 DEF Inv

\* A visit that gives the value a name.
LEMMA GenerateStep ==
  ASSUME Inv, NEW ftypes, Visiting(ftypes), Push, NEW name, NEW instr, Generate(name, instr),
         instr.ftype = IF Tok.ftype = "str" THEN "int" ELSE Tok.ftype,
         instr.ftype \in {"eq", "and", "or"} => instr.root = IsRoot
  PROVE  Inv'
  <1>1. /\ gen_vals_' = [n \in DOMAIN gen_vals_ \cup {opd_cnt} |->
                           IF n = opd_cnt THEN name ELSE gen_vals_[n]]
        /\ opd_cnt' = opd_cnt + 1
        /\ name \in alloc_stack' /\ alloc_stack \subseteq alloc_stack'
        /\ code' = Append(code, instr) /\ UNCHANGED <<expr, props, phase, execution>>
    BY DEF Generate, GenerateWith, Written
  <1>2. /\ opd_cnt \in Nat /\ DOMAIN gen_vals_ \subseteq 0..(opd_cnt - 1)
        /\ \A n \in DOMAIN gen_vals_ : gen_vals_[n] \in alloc_stack
    BY DEF Inv, TypeOK
  <1>3. /\ DOMAIN gen_vals_' = {opd_cnt} \cup DOMAIN gen_vals_
        /\ \A n \in DOMAIN gen_vals_' :
             gen_vals_'[n] = IF n = opd_cnt THEN name ELSE gen_vals_[n]
    BY <1>1
  <1>4. \A n \in DOMAIN gen_vals_' : gen_vals_'[n] \in alloc_stack'
    BY <1>1, <1>2, <1>3
  <1>5. DOMAIN gen_vals_' \subseteq 0..(opd_cnt' - 1) /\ opd_cnt' \in Nat
    BY <1>1, <1>2, <1>3
  <1> QED
    BY <1>1, <1>4, <1>5, EmitStep

LEMMA AbortStep ==
  ASSUME Inv, NEW ftypes, Visiting(ftypes), Push, Abort
  PROVE  Inv'
  <1>1. /\ IsSequence(expr_stack') /\ Visited \in Nat /\ Len(expr_stack') = Visited + 1
        /\ Len(expr_stack') <= Len(expr)
        /\ \A j \in 1..Len(expr_stack') : expr_stack'[j].ftype = expr[Len(expr_stack') + 1 - j].ftype
    BY PushStep DEF Abort
  <1>2. Len(code) = Visited
    BY DEF Visiting, Inv, StackInv
  <1> QED
    BY <1>1, <1>2 DEF Abort, execution, Inv, StackInv, TypeOK, Visited

LEMMA VisitStep ==
  ASSUME Inv, Visit
  PROVE  Inv'
  <1>1. ASSUME NEW ftype \in {"int", "str"}, VisitOperand(ftype) PROVE Inv'
    <2> DEFINE name == <<"int", Tok.value>>
               instr == [ftype |-> "int", name |-> name, value |-> Tok.value,
                         store |-> IsNew(name)]
    <2>1. Visiting({ftype}) /\ Push /\ Generate(name, instr)
      BY <1>1 DEF VisitOperand
    <2>2. Tok.ftype = ftype /\ instr.ftype = "int"
      BY <2>1 DEF Visiting, Tok
    <2>3. instr.ftype = IF Tok.ftype = "str" THEN "int" ELSE Tok.ftype
      BY <2>2
    <2>4. instr.ftype \notin {"eq", "and", "or"}
      BY <2>2
    <2> HIDE DEF name, instr
    <2> QED
      BY <2>1, <2>3, <2>4, GenerateStep
  <1>2. CASE VisitKey
    <2> DEFINE name == <<"pitem", Tok.value>>
               instr == [ftype |-> "key", name |-> name, value |-> Tok.value,
                         store |-> IsNew(name), first |-> IsNew(PlistAlloc)]
    <2>1. Visiting({"key"}) /\ Push /\ Generate(name, instr)
      BY <1>2 DEF VisitKey
    <2>2. Tok.ftype = "key" /\ instr.ftype = "key"
      BY <2>1 DEF Visiting, Tok
    <2> HIDE DEF name, instr
    <2> QED
      BY <2>1, <2>2, GenerateStep
  <1>3. CASE VisitEq
    <2> DEFINE name == <<"cmp", opd_cnt>>
               instr == [ftype |-> "eq", name |-> name, store |-> IsNew(name), root |-> IsRoot,
                         lhs |-> gen_vals_[OpdOf(2)], rhs |-> gen_vals_[OpdOf(1)]]
    <2>1. /\ Visiting({"eq"}) /\ Push
          /\ IF expr_stack'[2].ftype = "int" THEN Generate(name, instr) ELSE Abort
      BY <1>3 DEF VisitEq, VisitEqAs
    <2>2. Tok.ftype = "eq" /\ instr.ftype = "eq" /\ instr.root = IsRoot
      BY <2>1 DEF Visiting, Tok
    <2> HIDE DEF name, instr
    <2> QED
      BY <2>1, <2>2, GenerateStep, AbortStep
  <1>4. ASSUME NEW ftype \in {"and", "or"}, VisitBoolOp(ftype, 4) PROVE Inv'
    <2> DEFINE name == <<"cmp", opd_cnt>>
               instr == [ftype |-> Tok.ftype, name |-> name, store |-> TRUE, root |-> IsRoot,
                         lhs |-> gen_vals_[OpdOf(4)], rhs |-> gen_vals_[OpdOf(1)]]
    <2>1. Visiting({ftype}) /\ Push /\ (Generate(name, instr) \/ Abort)
      BY <1>4 DEF VisitBoolOp
    <2>2. Tok.ftype = ftype /\ instr.ftype = ftype /\ instr.root = IsRoot
      BY <2>1 DEF Visiting, Tok
    <2>3. Tok.ftype # "str"
      BY <2>2
    <2> HIDE DEF name, instr
    <2> QED
      BY <2>1, <2>2, <2>3, GenerateStep, AbortStep
  <1>5. CASE VisitFct
    <2> DEFINE instr == [ftype |-> "fct", value |-> Tok.value]
    <2>1. /\ Visiting({"fct"}) /\ Push /\ code' = Append(code, instr)
          /\ UNCHANGED <<expr, props, phase, opd_cnt, gen_vals_, alloc_stack, execution>>
      BY <1>5 DEF VisitFct
    <2>2. Tok.ftype = "fct" /\ instr.ftype = "fct"
      BY <2>1 DEF Visiting, Tok
    <2>3. /\ opd_cnt \in Nat /\ DOMAIN gen_vals_ \subseteq 0..(opd_cnt - 1)
          /\ \A n \in DOMAIN gen_vals_ : gen_vals_[n] \in alloc_stack
      BY DEF Inv, TypeOK
    <2> HIDE DEF instr
    <2> QED
      BY <2>1, <2>2, <2>3, EmitStep
  <1> QED
    BY <1>1, <1>2, <1>3, <1>4, <1>5 DEF Visit, VisitNumber, VisitStr, VisitAnd, VisitOr

-----------------------------------------------------------------------------
\* The instructions of a compiled expression; only the last leaves for good.
LEMMA CodeFacts ==
  ASSUME Inv, Visited = Len(expr), phase # "aborted"
  PROVE  /\ DOMAIN code = 1..Len(expr) /\ Len(expr) \in Nat /\ Len(expr) > 0
         /\ code[Len(expr)].ftype \in {"eq", "and", "or", "fct"}
  <1>1. Postfix(expr) /\ Len(expr) \in Nat /\ Len(expr) > 0
    BY ExprFacts DEF Inv
  <1>2. Len(code) = Len(expr)
    BY DEF Inv, StackInv
  <1>3. DOMAIN code = 1..Len(expr)
    BY <1>2 DEF Inv, IsSequence
  <1>4. expr[Len(expr)].ftype \in {"eq", "and", "or", "fct"}
    BY <1>1, LastIsResult
  <1>5. Len(expr) \in DOMAIN code
    BY <1>1, <1>3
  <1> QED
    BY <1>1, <1>3, <1>4, <1>5 DEF Inv, StackInv

LEMMA CallStep ==
  ASSUME Inv, Call
  PROVE  Inv'
  <1>1. /\ phase # "aborted" /\ Visited = Len(expr) /\ phase' = "execute" /\ pc' = 1
        /\ branch' = Null /\ UNCHANGED <<expr, visitor>>
    BY DEF Call
  <1>2. DOMAIN code = 1..Len(expr) /\ Len(expr) \in Nat /\ Len(expr) > 0
    BY <1>1, CodeFacts
  <1>3. StackInv'
    BY <1>1, <1>2 DEF Inv, StackInv, visitor, Visited
  <1>4. TypeOK'
    BY <1>1, <1>2 DEF Inv, TypeOK, visitor
  <1> QED
    BY <1>1, <1>3, <1>4 DEF Inv, visitor

LEMMA LeaveStep ==
  ASSUME Inv, phase = "execute", NEW block \in {"next", "end"}, Leave(block)
  PROVE  Inv'
  <1>1. /\ phase' = "done" /\ branch' = block /\ UNCHANGED <<expr, props, visitor, pc>>
    BY DEF Leave
  <1>2. Visited = Len(expr) /\ Len(code) = Visited
    BY DEF Inv, StackInv
  <1>3. StackInv' /\ TypeOK'
    BY <1>1, <1>2 DEF Inv, StackInv, TypeOK, visitor, Visited
  <1> QED
    BY <1>1, <1>3 DEF Inv, visitor

LEMMA ContinueStep ==
  ASSUME Inv, phase = "execute", Continue, pc # Len(expr)
  PROVE  Inv'
  <1>1. pc' = pc + 1 /\ UNCHANGED <<expr, props, phase, visitor, branch>>
    BY DEF Continue
  <1>2. Visited = Len(expr) /\ Len(code) = Visited /\ pc \in DOMAIN code
    BY DEF Inv, StackInv
  <1>3. DOMAIN code = 1..Len(expr) /\ Len(expr) \in Nat
    BY <1>2, CodeFacts
  <1>4. pc + 1 \in DOMAIN code /\ pc + 1 \in 1..(Len(expr) + 1)
    BY <1>2, <1>3
  <1>5. StackInv' /\ TypeOK'
    BY <1>1, <1>2, <1>4 DEF Inv, StackInv, TypeOK, visitor, Visited
  <1> QED
    BY <1>1, <1>5 DEF Inv, visitor

LEMMA ExecuteStep ==
  ASSUME Inv, Execute
  PROVE  Inv'
  <1>1. phase = "execute"
    BY DEF Execute, LoadNumber, SearchKey, SearchFrom, Evaluate, CallFct, Executing
  <1>2. pc \in DOMAIN code /\ Visited = Len(expr)
    BY <1>1 DEF Inv, StackInv
  <1>3. Len(expr) \in Nat /\ code[Len(expr)].ftype \in {"eq", "and", "or", "fct"}
    BY <1>1, <1>2, CodeFacts
  <1>4. CASE LoadNumber
    <2>1. Continue /\ code[pc].ftype = "int"
      BY <1>4 DEF LoadNumber, Executing
    <2> QED
      BY <1>1, <1>3, <2>1, ContinueStep
  <1>5. CASE SearchKey
    <2>1. code[pc].ftype = "key" /\ (Leave("end") \/ Continue)
      BY <1>5, Zenon DEF SearchKey, SearchFrom, Executing
    <2> QED
      BY <1>1, <1>3, <2>1, ContinueStep, LeaveStep
  <1>6. CASE Evaluate
    <2>1. /\ code[pc].ftype \in {"eq", "and", "or"}
          /\ IF code[pc].root THEN \E cond : Leave(IF cond THEN "next" ELSE "end") ELSE Continue
      BY <1>6, Zenon DEF Evaluate, Executing, Instr
    <2>2. CASE code[pc].root
      <3>1. PICK block \in {"next", "end"} : Leave(block)
        BY <2>1, <2>2
      <3> QED
        BY <1>1, <3>1, LeaveStep
    <2>3. CASE ~code[pc].root
      <3>1. code[pc].root = (pc = Len(expr))
        BY <1>2, <2>1 DEF Inv, StackInv
      <3>2. pc # Len(expr)
        BY <2>3, <3>1, Zenon
      <3> QED
        BY <1>1, <2>1, <2>3, <3>2, ContinueStep
    <2> QED
      BY <2>2, <2>3
  <1>7. CASE CallFct
    <2>1. PICK block \in {"next", "end"} : Leave(block)
      BY <1>7 DEF CallFct
    <2> QED
      BY <1>1, <2>1, LeaveStep
  <1> QED
    BY <1>4, <1>5, <1>6, <1>7 DEF Execute

LEMMA InvInit == Init => Inv
  <1> SUFFICES ASSUME Init PROVE Inv
    OBVIOUS
  <1>1. /\ expr \in Exprs /\ phase = "visit" /\ expr_stack = <<>> /\ opd_cnt = 0
        /\ gen_vals_ = <<>> /\ alloc_stack = {} /\ code = <<>> /\ pc = 1 /\ branch = Null
    BY DEF Init
  <1>2. Postfix(expr)
    BY <1>1, ExprsAssumption
  <1>3. Len(expr) \in Nat /\ Len(expr) > 0
    BY <1>2 DEF Postfix
  <1>4. /\ IsSequence(expr_stack) /\ IsSequence(code)
        /\ Len(expr_stack) = 0 /\ Len(code) = 0 /\ DOMAIN code = {} /\ DOMAIN gen_vals_ = {}
    BY <1>1 DEF IsSequence
  <1>5. StackInv
    BY <1>1, <1>3, <1>4 DEF StackInv, Visited
  <1>6. TypeOK
    BY <1>1, <1>3, <1>4 DEF TypeOK
  <1> QED
    BY <1>1, <1>4, <1>5, <1>6 DEF Inv

LEMMA InvStep == Inv /\ [Next]_vars => Inv'
  <1>1. ASSUME Inv, UNCHANGED vars PROVE Inv'
    BY <1>1 DEF Inv, TypeOK, StackInv, IsSequence, Visited, vars, visitor, execution
  <1> QED
    BY <1>1, VisitStep, CallStep, ExecuteStep DEF Next

\* The variables of the filter compilation keep their types; every value has a
\* memory that alloc knows.
THEOREM Typing == Spec => []TypeOK
  BY InvInit, InvStep, PTL DEF Spec, Inv

-----------------------------------------------------------------------------
(***************************************************************************)
(* FilterCompiles.                                                         *)
(***************************************************************************)
LEMMA CompilesStep ==
  ASSUME Inv, FilterCompiles, [Next]_vars
  PROVE  FilterCompiles'
  <1> SUFFICES ASSUME LeftNested', phase' = "aborted" PROVE FALSE
    BY DEF FilterCompiles
  <1>1. UNCHANGED expr
    BY DEF Next, Visit, VisitNumber, VisitStr, VisitOperand, VisitKey, VisitEq, VisitEqAs,
           VisitAnd, VisitOr, VisitBoolOp, VisitFct, Generate, GenerateWith, Abort, Call,
           Execute, LoadNumber, SearchKey, SearchFrom, Evaluate, CallFct, Leave, Continue, vars
  <1>2. LeftNested /\ phase # "aborted"
    BY <1>1 DEF LeftNested, FilterCompiles
  <1>3. Postfix(expr) /\ Len(expr) \in Nat /\ DOMAIN expr = 1..Len(expr)
    BY ExprFacts DEF Inv
  <1>4. ASSUME NEW ftypes, Visiting(ftypes), Push
        PROVE  /\ Visited \in Nat /\ Len(expr_stack') = Visited + 1 /\ Visited + 1 \in 1..Len(expr)
               /\ Tok.ftype \in ftypes
               /\ \A j \in 1..(Visited + 1) : expr_stack'[j].ftype = expr[Visited + 2 - j].ftype
    <2>1. /\ Visited \in Nat /\ Len(expr_stack') = Visited + 1 /\ Len(expr_stack') <= Len(expr)
          /\ \A j \in 1..Len(expr_stack') :
               expr_stack'[j].ftype = expr[Len(expr_stack') + 1 - j].ftype
      BY <1>1, <1>4, PushStep
    <2>2. Visited + 1 \in 1..Len(expr) /\ Visited + 1 + 1 = Visited + 2
      BY <2>1, <1>3
    <2> QED
      BY <1>4, <2>1, <2>2 DEF Visiting, Tok
  <1>5. CASE VisitEq
    <2>1. Visiting({"eq"}) /\ Push /\ expr_stack'[2].ftype # "int"
      <3>1. Visiting({"eq"}) /\ Push
        BY <1>5 DEF VisitEq, VisitEqAs
      <3>2. phase = "visit"
        BY <3>1 DEF Visiting
      <3> QED
        BY <1>5, <3>1, <3>2 DEF VisitEq, VisitEqAs, Generate, GenerateWith
    <2>2. /\ Visited \in Nat /\ Visited + 1 \in 1..Len(expr) /\ expr[Visited + 1].ftype = "eq"
          /\ \A j \in 1..(Visited + 1) : expr_stack'[j].ftype = expr[Visited + 2 - j].ftype
      BY <2>1, <1>4 DEF Tok
    <2>3. /\ Visited + 1 - 1 \in 1..Len(expr)
          /\ expr[Visited + 1 - 1].ftype \in {"int", "str"}
      BY <2>2, <1>3 DEF Postfix
    <2>4. Visited + 1 - 1 = Visited /\ Visited + 2 - 2 = Visited /\ 2 \in 1..(Visited + 1)
          /\ Visited \in DOMAIN expr
      BY <2>2, <2>3, <1>3
    <2>5. expr_stack'[2].ftype = expr[Visited].ftype /\ expr[Visited].ftype # "str"
      BY <2>2, <2>4, <1>2 DEF LeftNested
    <2> QED
      BY <2>1, <2>3, <2>4, <2>5
  <1>6. ASSUME NEW ftype \in {"and", "or"}, VisitBoolOp(ftype, 4) PROVE FALSE
    <2>1. /\ Visiting({ftype}) /\ Push
          /\ ~(/\ ~IsBoolOp(expr_stack'[2]) /\ 4 < Len(expr_stack')
               /\ expr_stack'[4 + 1].ftype \in {"eq", "and", "or"})
      <3>1. Visiting({ftype}) /\ Push
        BY <1>6 DEF VisitBoolOp
      <3>2. phase = "visit"
        BY <3>1 DEF Visiting
      <3> QED
        BY <1>6, <3>1, <3>2 DEF VisitBoolOp, Generate, GenerateWith
    <2> DEFINE i == Visited + 1
    <2>2. /\ Visited \in Nat /\ i \in 1..Len(expr) /\ Len(expr_stack') = i
          /\ expr[i].ftype \in {"and", "or"}
          /\ \A j \in 1..i : expr_stack'[j].ftype = expr[Visited + 2 - j].ftype
      BY <2>1, <1>4 DEF Tok
    <2>3. IsBoolOp(expr[i]) /\ ~IsBoolOp(expr[i - 1])
      <3>1. i \in DOMAIN expr
        BY <2>2, <1>3
      <3> QED
        BY <2>2, <3>1, <1>2 DEF LeftNested, IsBoolOp
    <2>4. i > 4 /\ expr[i - 4].ftype \in {"eq", "and", "or"}
      BY <2>2, <2>3, <1>3, OperandsInPlace
    <2>5. /\ 2 \in 1..i /\ 5 \in 1..i /\ Visited + 2 - 2 = i - 1 /\ Visited + 2 - 5 = i - 4
          /\ 4 + 1 = 5
      BY <2>2, <2>4
    <2>6. expr_stack'[2].ftype = expr[i - 1].ftype /\ expr_stack'[5].ftype = expr[i - 4].ftype
      BY <2>2, <2>5
    <2> QED
      BY <2>1, <2>2, <2>3, <2>4, <2>5, <2>6 DEF IsBoolOp
  <1>7. CASE VisitNumber \/ VisitStr \/ VisitKey \/ VisitFct
    BY <1>2, <1>7 DEF VisitNumber, VisitStr, VisitOperand, VisitKey, VisitFct, Generate, GenerateWith
  <1>8. CASE Call \/ UNCHANGED vars
    BY <1>2, <1>8 DEF Call, vars
  <1>9. CASE Execute
    BY <1>2, <1>9, Zenon DEF Execute, LoadNumber, SearchKey, SearchFrom, Evaluate, CallFct,
                             Leave, Continue, Executing
  <1> QED
    BY <1>5, <1>6, <1>7, <1>8, <1>9 DEF Next, Visit, VisitAnd, VisitOr

\* An expression whose comparisons are with numbers, and whose connectives have
\* a comparison as their right operand, is compiled: the operands that
\* fep_visitor looks up by their distance are where it looks.
THEOREM Compiles == Spec => []FilterCompiles
  <1>1. Init => FilterCompiles
    BY DEF Init, FilterCompiles
  <1> QED
    BY <1>1, InvInit, InvStep, CompilesStep, PTL DEF Spec

-----------------------------------------------------------------------------
(***************************************************************************)
(* FilterExact.                                                            *)
(***************************************************************************)

\* A set of natural numbers that is not empty has a least element.
LEMMA Least ==
  ASSUME NEW T, T \subseteq Nat, T # {}
  PROVE  \E n \in T : \A m \in T : n <= m
  <1> DEFINE R == {ss \in Nat \X Nat : ss[1] < ss[2]}
  <1>1. IsWellFoundedOn(R, Nat)
    BY NatLessThanWellFounded DEF OpToRel
  <1>2. \A m, n \in T : m < n => <<m, n>> \in R
    OBVIOUS
  <1> HIDE DEF R
  <1>3. \E n \in T : \A m \in T : ~(<<m, n>> \in R)
    BY <1>1, WFMin
  <1>4. PICK n \in T : \A m \in T : ~(m < n)
    BY <1>2, <1>3
  <1>5. \A m \in T : m \in Nat /\ n \in Nat
    OBVIOUS
  <1> QED
    BY <1>4, <1>5

\* Induction, for a set of natural numbers.
LEMMA SetInduction ==
  ASSUME NEW T, 0 \in T, \A n \in Nat : n \in T => n + 1 \in T
  PROVE  \A n \in Nat : n \in T
  <1> DEFINE U == {n \in Nat : n \notin T}
  <1> SUFFICES ASSUME U # {} PROVE FALSE
    OBVIOUS
  <1>1. U \subseteq Nat
    OBVIOUS
  <1>2. PICK n \in U : \A m \in U : n <= m
    <2> HIDE DEF U
    <2> QED
      BY <1>1, Least
  <1>3. n \in Nat /\ n # 0 /\ n - 1 \in Nat /\ n - 1 \notin U /\ n - 1 + 1 = n
    BY <1>2
  <1> QED
    BY <1>2, <1>3

\* What one more token changes in the number of the results.
LEMMA TokensNext ==
  ASSUME NEW e, NEW ftypes, NEW n \in Nat
  PROVE  Cardinality(TokensOf(e, ftypes, n + 1)) =
           Cardinality(TokensOf(e, ftypes, n)) + IF e[n + 1].ftype \in ftypes THEN 1 ELSE 0
  <1>1. IsFiniteSet(TokensOf(e, ftypes, n)) /\ Cardinality(TokensOf(e, ftypes, n)) \in Nat
    BY TokensFinite
  <1>2. n + 1 \notin TokensOf(e, ftypes, n)
    BY DEF TokensOf
  <1>3. CASE e[n + 1].ftype \in ftypes
    <2>1. TokensOf(e, ftypes, n + 1) = TokensOf(e, ftypes, n) \cup {n + 1}
      BY <1>3 DEF TokensOf
    <2> QED
      BY <1>1, <1>2, <1>3, <2>1, FS_AddElement
  <1>4. CASE e[n + 1].ftype \notin ftypes
    <2>1. TokensOf(e, ftypes, n + 1) = TokensOf(e, ftypes, n)
      BY <1>4 DEF TokensOf
    <2> QED
      BY <1>1, <1>4, <2>1
  <1> QED
    BY <1>3, <1>4

LEMMA ResultsNext ==
  ASSUME NEW e, NEW n \in Nat, NEW i, i = n + 1
  PROVE  /\ Results(e, n) \in Int /\ Results(e, i) \in Int
         /\ e[i].ftype \notin {"eq", "and", "or"} => Results(e, i) = Results(e, n)
         /\ e[i].ftype = "eq" => Results(e, i) = Results(e, n) + 1
         /\ IsBoolOp(e[i]) => Results(e, i) = Results(e, n) - 1
  <1>1. /\ Cardinality(TokensOf(e, {"eq"}, n)) \in Nat
        /\ Cardinality(TokensOf(e, {"and", "or"}, n)) \in Nat
    BY TokensFinite
  <1>2. /\ Cardinality(TokensOf(e, {"eq"}, i)) =
             Cardinality(TokensOf(e, {"eq"}, n)) + IF e[i].ftype \in {"eq"} THEN 1 ELSE 0
        /\ Cardinality(TokensOf(e, {"and", "or"}, i)) =
             Cardinality(TokensOf(e, {"and", "or"}, n))
               + IF e[i].ftype \in {"and", "or"} THEN 1 ELSE 0
    BY TokensNext
  <1>3. PICK a, b : /\ a = Cardinality(TokensOf(e, {"eq"}, n))
                    /\ b = Cardinality(TokensOf(e, {"and", "or"}, n))
    OBVIOUS
  <1>4. /\ Results(e, n) = a - b
        /\ Results(e, i) = (a + IF e[i].ftype = "eq" THEN 1 ELSE 0)
                             - (b + IF IsBoolOp(e[i]) THEN 1 ELSE 0)
    BY <1>2, <1>3 DEF Results, IsBoolOp
  <1>5. a \in Int /\ b \in Int
    BY <1>1, <1>3
  <1>6. IsBoolOp(e[i]) <=> e[i].ftype \in {"and", "or"}
    BY DEF IsBoolOp
  <1> QED
    BY <1>4, <1>5, <1>6

LEMMA NoResults == ASSUME NEW e PROVE Results(e, 0) = 0
  <1>1. \A ftypes : TokensOf(e, ftypes, 0) = {}
    BY DEF TokensOf
  <1> QED
    BY <1>1, FS_EmptySet DEF Results

-----------------------------------------------------------------------------
(***************************************************************************)
(* An expression of comparisons with numbers whose connectives have a      *)
(* comparison as their right operand: the neighbours of a token.           *)
(***************************************************************************)
Comparisons(e) ==
  /\ Postfix(e) /\ e[1].ftype # "fct"
  /\ \A i \in DOMAIN e : e[i].ftype # "str" /\ (IsBoolOp(e[i]) => ~IsBoolOp(e[i - 1]))

IsResult(e, i) == e[i].ftype \in {"eq", "and", "or"}

LEMMA Neighbours ==
  ASSUME NEW e, Comparisons(e), NEW i \in 1..Len(e)
  PROVE  /\ Len(e) \in Nat /\ DOMAIN e = 1..Len(e)
         /\ e[i].ftype = "key" \/ e[i].ftype = "int" \/ IsResult(e, i)
         /\ i = 1 => e[i].ftype = "key"
         /\ e[i].ftype = "key" => /\ i + 1 \in 1..Len(e) /\ e[i + 1].ftype = "int"
                                  /\ i > 1 => IsResult(e, i - 1)
         /\ e[i].ftype = "int" => /\ i - 1 \in 1..Len(e) /\ e[i - 1].ftype = "key"
                                  /\ i + 1 \in 1..Len(e) /\ e[i + 1].ftype = "eq"
         /\ e[i].ftype = "eq" => /\ i > 2 /\ e[i - 1].ftype = "int" /\ e[i - 2].ftype = "key"
                                 /\ i > 3 => IsResult(e, i - 3)
         /\ IsBoolOp(e[i]) => /\ i > 4 /\ e[i - 1].ftype = "eq" /\ IsResult(e, i - 4)
                              /\ Results(e, i - 1) >= 2
  <1>1. Postfix(e) /\ Len(e) \in Nat /\ DOMAIN e = 1..Len(e)
    BY DEF Comparisons, Postfix
  <1>2. \A j \in 1..Len(e) : e[j].ftype \in {"key", "int", "eq", "and", "or"}
    <2> SUFFICES ASSUME NEW j \in 1..Len(e) PROVE e[j].ftype \in {"key", "int", "eq", "and", "or"}
      OBVIOUS
    <2>1. e[j].ftype \in {"key", "int", "str", "eq", "and", "or", "fct"}
      BY <1>1 DEF Postfix
    <2>2. e[j].ftype # "str"
      BY <1>1 DEF Comparisons
    <2>3. e[j].ftype # "fct"
      <3>1. e[j].ftype = "fct" => Len(e) = 1
        BY <1>1 DEF Postfix
      <3>2. Len(e) = 1 => j = 1
        BY <1>1
      <3> QED
        BY <3>1, <3>2 DEF Comparisons
    <2> QED
      BY <2>1, <2>2, <2>3
  <1>3. \A j \in 1..Len(e) : e[j].ftype = "key" => j + 1 \in 1..Len(e) /\ e[j + 1].ftype = "int"
    BY <1>1, <1>2 DEF Postfix
  <1>4. \A j \in 1..Len(e) : e[j].ftype = "int" =>
          /\ j - 1 \in 1..Len(e) /\ e[j - 1].ftype = "key"
          /\ j + 1 \in 1..Len(e) /\ e[j + 1].ftype = "eq"
    BY <1>1 DEF Postfix
  <1>5. \A j \in 1..Len(e) : e[j].ftype = "eq" => j - 1 \in 1..Len(e) /\ e[j - 1].ftype = "int"
    BY <1>1, <1>2 DEF Postfix
  <1>6. \A j \in 1..Len(e) : IsBoolOp(e[j]) => /\ Results(e, j - 1) >= 2
                                              /\ j > 4 /\ IsResult(e, j - 4) /\ ~IsBoolOp(e[j - 1])
    <2> SUFFICES ASSUME NEW j \in 1..Len(e), IsBoolOp(e[j])
                 PROVE  /\ Results(e, j - 1) >= 2
                        /\ j > 4 /\ IsResult(e, j - 4) /\ ~IsBoolOp(e[j - 1])
      OBVIOUS
    <2>1. Results(e, j - 1) >= 2 /\ ~IsBoolOp(e[j - 1])
      BY <1>1 DEF Postfix, Comparisons
    <2>2. j > 4 /\ e[j - 4].ftype \in {"eq", "and", "or"}
      BY <1>1, <2>1, OperandsInPlace
    <2> QED
      BY <2>1, <2>2 DEF IsResult
  <1>7. ASSUME NEW j \in 1..Len(e), e[j].ftype = "key", j > 1 PROVE IsResult(e, j - 1)
    <2>1. j - 1 \in 1..Len(e) /\ j - 1 + 1 = j
      BY <1>1, <1>7
    <2>2. e[j - 1].ftype # "key" /\ e[j - 1].ftype # "int"
      BY <1>3, <1>4, <1>7, <2>1
    <2> QED
      BY <1>2, <2>1, <2>2 DEF IsResult
  <1>8. i = 1 => e[i].ftype = "key"
    <2>1. i = 1 => ~(i - 1 \in 1..Len(e)) /\ ~(i > 4)
      OBVIOUS
    <2> QED
      BY <1>2, <1>4, <1>5, <1>6, <2>1 DEF IsBoolOp
  <1>9. e[i].ftype = "eq" => /\ i > 2 /\ e[i - 1].ftype = "int" /\ e[i - 2].ftype = "key"
                             /\ i > 3 => IsResult(e, i - 3)
    <2> SUFFICES ASSUME e[i].ftype = "eq"
                 PROVE  /\ i > 2 /\ e[i - 1].ftype = "int" /\ e[i - 2].ftype = "key"
                        /\ i > 3 => IsResult(e, i - 3)
      OBVIOUS
    <2>1. i - 1 \in 1..Len(e) /\ e[i - 1].ftype = "int"
      BY <1>5
    <2>2. i - 1 - 1 \in 1..Len(e) /\ e[i - 1 - 1].ftype = "key"
      BY <1>4, <2>1
    <2>3. i - 1 - 1 = i - 2 /\ i - 2 - 1 = i - 3 /\ i > 2 /\ (i > 3 => i - 2 > 1)
      BY <1>1, <2>2
    <2> QED
      BY <1>7, <2>1, <2>2, <2>3
  <1>10. IsBoolOp(e[i]) => e[i - 1].ftype = "eq"
    <2> SUFFICES ASSUME IsBoolOp(e[i]) PROVE e[i - 1].ftype = "eq"
      OBVIOUS
    <2>1. i - 1 \in 1..Len(e) /\ i - 1 + 1 = i /\ ~IsBoolOp(e[i - 1])
      BY <1>1, <1>6
    <2>2. e[i].ftype # "int" /\ e[i].ftype # "eq"
      BY DEF IsBoolOp
    <2>3. e[i - 1].ftype # "key" /\ e[i - 1].ftype # "int"
      BY <1>3, <1>4, <2>1, <2>2
    <2> QED
      BY <1>2, <2>1, <2>3 DEF IsBoolOp
  <1> QED
    BY <1>1, <1>2, <1>3, <1>4, <1>6, <1>7, <1>8, <1>9, <1>10 DEF IsResult

-----------------------------------------------------------------------------
(***************************************************************************)
(* What an expression means: the stack of values, token by token.          *)
(***************************************************************************)
\* The recursive function exists.
LEMMA StackIs ==
  ASSUME NEW e, Len(e) \in Nat, NEW chain
  PROVE  /\ Stack(e, chain)[0] = <<>>
         /\ \A n \in 1..Len(e) :
              Stack(e, chain)[n] = Evaluated(Stack(e, chain)[n - 1], e[n], chain)
  <1> DEFINE Is(f, m) == f = [n \in 0..m |-> IF n = 0 THEN <<>>
                                             ELSE Evaluated(f[n - 1], e[n], chain)]
             T == {m \in Nat : \E f : Is(f, m)}
  <1>1. 0 \in T
    <2>1. Is([n \in 0..0 |-> <<>>], 0)
      OBVIOUS
    <2> QED
      BY <2>1
  <1>2. ASSUME NEW m \in Nat, m \in T PROVE m + 1 \in T
    <2>1. PICK f : Is(f, m)
      BY <1>2
    <2> DEFINE g == [n \in 0..(m + 1) |-> IF n = m + 1 THEN Evaluated(f[m], e[m + 1], chain)
                                          ELSE f[n]]
    <2>2. ASSUME NEW n \in 0..(m + 1)
          PROVE  g[n] = IF n = 0 THEN <<>> ELSE Evaluated(g[n - 1], e[n], chain)
      <3>1. CASE n = m + 1
        <4>1. n - 1 = m /\ m \in 0..(m + 1) /\ m # m + 1 /\ n # 0
          BY <3>1
        <4>2. g[m] = f[m] /\ g[n] = Evaluated(f[m], e[m + 1], chain)
          BY <3>1, <4>1
        <4> QED
          BY <3>1, <4>1, <4>2
      <3>2. CASE n = 0
        <4>1. 0 \in 0..m /\ n # m + 1
          BY <3>2
        <4>2. f[0] = <<>>
          BY <2>1, <4>1
        <4> QED
          BY <3>2, <4>1, <4>2
      <3>3. CASE n # m + 1 /\ n # 0
        <4>1. n \in 0..m /\ n - 1 \in 0..(m + 1) /\ n - 1 # m + 1
          BY <3>3
        <4>2. f[n] = Evaluated(f[n - 1], e[n], chain)
          BY <2>1, <3>3, <4>1
        <4>3. g[n] = f[n] /\ g[n - 1] = f[n - 1]
          BY <3>3, <4>1
        <4> QED
          BY <3>3, <4>2, <4>3
      <3> QED
        BY <3>1, <3>2, <3>3
    <2>3. Is(g, m + 1)
      <3>1. g = [n \in 0..(m + 1) |-> g[n]]
        OBVIOUS
      <3> HIDE DEF g
      <3> QED
        BY <2>2, <3>1
    <2>4. \E h : Is(h, m + 1)
      <3> HIDE DEF g, Is
      <3> QED
        BY <2>3
    <2> QED
      BY <2>4
  <1>3. \E f : Is(f, Len(e))
    <2>1. \A m \in Nat : m \in T
      <3> HIDE DEF T
      <3> QED
        BY <1>1, <1>2, SetInduction
    <2> QED
      BY <2>1
  <1>4. Stack(e, chain) = CHOOSE f : Is(f, Len(e))
    BY DEF Stack
  <1>5. Is(Stack(e, chain), Len(e))
    <2> HIDE DEF Is
    <2> QED
      BY <1>3, <1>4
  <1>6. 0 \in 0..Len(e) /\ \A n \in 1..Len(e) : n \in 0..Len(e) /\ n # 0
    OBVIOUS
  <1>7. PICK f : f = Stack(e, chain)
    OBVIOUS
  <1> QED
    BY <1>5, <1>6, <1>7

\* What Reduce makes of a stack with at least two values.
Reduced(s, v) == Append(SubSeq(s, 1, Len(s) - 2), v)
LEMMA ReduceAny ==
  ASSUME NEW s, IsSequence(s), Len(s) >= 2, NEW v, NEW r, r = Reduced(s, v)
  PROVE  /\ IsSequence(r) /\ Len(r) = Len(s) - 1 /\ r[Len(r)] = v
         /\ \A i \in 1..(Len(s) - 2) : r[i] = s[i]
  <1> DEFINE n == Len(s) - 2
             S == {s[i] : i \in 1..Len(s)}
             t == SubSeq(s, 1, n)
  <1>1. n \in Nat /\ 1 \in Int /\ n \in Int
    BY DEF IsSequence
  <1>2. \A i \in 1..n : s[i] \in S
    BY DEF IsSequence
  <1> HIDE DEF S, n
  <1>3. /\ t \in Seq(S) /\ Len(t) = IF 1 <= n THEN n - 1 + 1 ELSE 0
        /\ \A i \in 1..(n - 1 + 1) : t[i] = s[1 + i - 1]
    BY <1>1, <1>2, SubSeqProperties
  <1> HIDE DEF t
  <1>4. IsSequence(t) /\ Len(t) = n
    BY <1>1, <1>3, SeqIs
  <1>5. ASSUME NEW i \in 1..n PROVE t[i] = s[i]
    <2>1. i \in 1..(n - 1 + 1) /\ 1 + i - 1 = i
      BY <1>1
    <2> QED
      BY <1>3, <2>1
  <1>6. r = Append(t, v)
    BY DEF t, n, Reduced
  <1>7. /\ IsSequence(r) /\ Len(r) = n + 1 /\ r[n + 1] = v
        /\ \A i \in 1..n : r[i] = t[i]
    <2>1. /\ IsSequence(Append(t, v)) /\ Len(Append(t, v)) = Len(t) + 1
          /\ \A i \in 1..Len(t) : Append(t, v)[i] = t[i]
          /\ Append(t, v)[Len(t) + 1] = v
      BY <1>4, AppendAny
    <2> QED
      BY <1>4, <1>6, <2>1
  <1> QED
    BY <1>1, <1>5, <1>7 DEF n, IsSequence

\* The values that wait for their comparison.
Pending(e, i) == CASE e[i].ftype = "key" -> 1 [] e[i].ftype = "int" -> 2 [] OTHER -> 0

\* How each token changes the stack, and how many values it leaves.
LEMMA StackStep ==
  ASSUME NEW e, Comparisons(e), NEW chain, NEW i \in 1..Len(e),
         NEW s, s = Stack(e, chain)[i - 1], NEW r, r = Stack(e, chain)[i],
         IsSequence(s), Results(e, i - 1) >= 0,
         Len(s) = Results(e, i - 1) + IF i = 1 THEN 0 ELSE Pending(e, i - 1)
  PROVE  /\ IsSequence(r) /\ Results(e, i) >= 0
         /\ Len(r) = Results(e, i) + Pending(e, i) /\ Len(r) > 0
         /\ e[i].ftype = "key" => r = Append(s, Property(chain, e[i].value))
         /\ e[i].ftype = "int" => r = Append(s, e[i].value)
         /\ IsResult(e, i) =>
              Len(s) >= 2 /\ r = Reduced(s, Result(e[i].ftype, s[Len(s) - 1], s[Len(s)]))
  <1>1. Len(e) \in Nat
    BY Neighbours
  <1>2. i - 1 \in Nat /\ i = i - 1 + 1 /\ i \in Nat /\ Len(s) \in Nat
    BY <1>1 DEF IsSequence
  <1>3. /\ Results(e, i - 1) \in Int /\ Results(e, i) \in Int
        /\ e[i].ftype \notin {"eq", "and", "or"} => Results(e, i) = Results(e, i - 1)
        /\ e[i].ftype = "eq" => Results(e, i) = Results(e, i - 1) + 1
        /\ IsBoolOp(e[i]) => Results(e, i) = Results(e, i - 1) - 1
    BY <1>2, ResultsNext
  <1>4. r = Evaluated(s, e[i], chain)
    BY <1>1, StackIs
  <1>5. CASE e[i].ftype = "key"
    <2>1. r = Append(s, Property(chain, e[i].value))
      BY <1>4, <1>5 DEF Evaluated
    <2>2. i > 1 => IsResult(e, i - 1)
      BY <1>5, Neighbours
    <2>3. Len(s) = Results(e, i - 1)
      BY <1>2, <1>3, <2>2 DEF IsResult, Pending
    <2>4. IsSequence(r) /\ Len(r) = Len(s) + 1
      BY <2>1, AppendAny
    <2>5. Pending(e, i) = 1
      BY <1>5 DEF Pending
    <2> QED
      BY <1>2, <1>3, <1>5, <2>1, <2>3, <2>4, <2>5 DEF IsResult
  <1>6. CASE e[i].ftype = "int"
    <2>1. r = Append(s, e[i].value)
      BY <1>4, <1>6 DEF Evaluated
    <2>2. i - 1 \in 1..Len(e) /\ e[i - 1].ftype = "key"
      <3>1. e[i].ftype = "int" => i - 1 \in 1..Len(e) /\ e[i - 1].ftype = "key"
        BY Neighbours
      <3> QED
        BY <1>6, <3>1
    <2>3. Len(s) = Results(e, i - 1) + 1
      <3>1. i # 1
        BY <2>2
      <3> QED
        BY <2>2, <3>1 DEF Pending
    <2>4. IsSequence(r) /\ Len(r) = Len(s) + 1
      BY <2>1, AppendAny
    <2>5. Pending(e, i) = 2
      BY <1>6 DEF Pending
    <2> QED
      BY <1>2, <1>3, <1>6, <2>1, <2>3, <2>4, <2>5 DEF IsResult
  <1>7. CASE e[i].ftype = "eq"
    <2> DEFINE v == Result(e[i].ftype, s[Len(s) - 1], s[Len(s)])
    <2>1. r = Reduced(s, v)
      BY <1>4, <1>7 DEF Evaluated, Reduced
    <2>2. i > 2 /\ e[i - 1].ftype = "int"
      BY <1>7, Neighbours
    <2>3. Len(s) = Results(e, i - 1) + 2
      <3>1. i # 1
        BY <2>2
      <3> QED
        BY <2>2, <3>1 DEF Pending
    <2>4. Len(s) >= 2
      BY <1>2, <1>3, <2>3
    <2>5. IsSequence(r) /\ Len(r) = Len(s) - 1
      <3> HIDE DEF v
      <3> QED
        BY <2>1, <2>4, ReduceAny
    <2>6. Pending(e, i) = 0
      BY <1>7 DEF Pending
    <2>7. Results(e, i) >= 0 /\ Len(r) = Results(e, i) + Pending(e, i) /\ Len(r) > 0
      BY <1>2, <1>3, <1>7, <2>3, <2>5, <2>6
    <2> QED
      BY <1>7, <2>1, <2>4, <2>5, <2>7
  <1>8. CASE IsBoolOp(e[i])
    <2>1. i > 4 /\ e[i - 1].ftype = "eq" /\ Results(e, i - 1) >= 2
      BY <1>8, Neighbours
    <2>2. Len(s) = Results(e, i - 1)
      <3>1. i # 1 /\ Pending(e, i - 1) = 0
        BY <2>1 DEF Pending
      <3> QED
        BY <1>3, <3>1
    <2>3. r = Reduced(s, Result(e[i].ftype, s[Len(s) - 1], s[Len(s)]))
      BY <1>4, <1>8 DEF Evaluated, Reduced, IsBoolOp
    <2>4. IsSequence(r) /\ Len(r) = Len(s) - 1
      <3>1. Len(s) >= 2
        BY <2>1, <2>2
      <3> QED
        BY <2>3, <3>1, ReduceAny
    <2>5. Pending(e, i) = 0
      BY <1>8 DEF Pending, IsBoolOp
    <2>6. Results(e, i) >= 0 /\ Len(r) = Results(e, i) + Pending(e, i) /\ Len(r) > 0 /\ Len(s) >= 2
      BY <1>2, <1>3, <1>8, <2>1, <2>2, <2>4, <2>5
    <2>7. e[i].ftype # "key" /\ e[i].ftype # "int" /\ e[i].ftype # "eq"
      BY <1>8 DEF IsBoolOp
    <2> QED
      BY <2>3, <2>4, <2>6, <2>7
  <1> QED
    <2>1. e[i].ftype = "key" \/ e[i].ftype = "int" \/ IsResult(e, i)
      BY Neighbours
    <2> QED
      BY <1>5, <1>6, <1>7, <1>8, <2>1 DEF IsResult, IsBoolOp

LEMMA StackSound ==
  ASSUME NEW e, Comparisons(e), NEW chain
  PROVE  \A n \in Nat : n <= Len(e) =>
           /\ IsSequence(Stack(e, chain)[n]) /\ Results(e, n) >= 0
           /\ Len(Stack(e, chain)[n]) = Results(e, n) + IF n = 0 THEN 0 ELSE Pending(e, n)
  <1> DEFINE Sound(n) ==
               /\ IsSequence(Stack(e, chain)[n]) /\ Results(e, n) >= 0
               /\ Len(Stack(e, chain)[n]) = Results(e, n) + IF n = 0 THEN 0 ELSE Pending(e, n)
             T == {n \in Nat : n <= Len(e) => Sound(n)}
  <1>1. Len(e) \in Nat
    BY DEF Comparisons, Postfix
  <1>2. 0 \in T
    <2>1. Stack(e, chain)[0] = <<>> /\ Results(e, 0) = 0
      BY <1>1, StackIs, NoResults
    <2>2. Len(<<>>) = 0 /\ IsSequence(<<>>)
      BY DEF IsSequence
    <2>3. Sound(0)
      BY <2>1, <2>2
    <2> QED
      BY <2>3
  <1>3. ASSUME NEW n \in Nat, n \in T PROVE n + 1 \in T
    <2>1. ASSUME NEW i \in Nat, i = n + 1, i <= Len(e) PROVE Sound(i)
      <3>1. i \in 1..Len(e) /\ i - 1 = n /\ n <= Len(e) /\ (n = 0 <=> i = 1) /\ i # 0
        BY <1>1, <2>1
      <3>2. Sound(n)
        BY <1>3, <3>1
      <3>3. PICK s, r : s = Stack(e, chain)[i - 1] /\ r = Stack(e, chain)[i]
        OBVIOUS
      <3>4. /\ IsSequence(s) /\ Results(e, i - 1) >= 0
            /\ Len(s) = Results(e, i - 1) + IF i = 1 THEN 0 ELSE Pending(e, i - 1)
        BY <3>1, <3>2, <3>3
      <3>5. IsSequence(r) /\ Results(e, i) >= 0 /\ Len(r) = Results(e, i) + Pending(e, i)
        <4> HIDE DEF T, Sound
        <4> QED
          BY <3>1, <3>3, <3>4, StackStep
      <3> QED
        BY <3>1, <3>3, <3>5
    <2> HIDE DEF Sound
    <2> QED
      BY <2>1
  <1>4. \A n \in Nat : n \in T
    <2> HIDE DEF T
    <2> QED
      BY <1>2, <1>3, SetInduction
  <1> QED
    BY <1>4

\* The value of each token, from the values of its operands; and the last one is
\* the value of the expression.
LEMMA Values ==
  ASSUME NEW e, Comparisons(e), NEW chain, NEW i \in 1..Len(e)
  PROVE  /\ e[i].ftype = "key" => Value(e, chain, i) = Property(chain, e[i].value)
         /\ e[i].ftype = "int" => Value(e, chain, i) = e[i].value
         /\ IsResult(e, i) =>
              LET left == IF e[i].ftype = "eq" THEN i - 2 ELSE i - 4
              IN Value(e, chain, i) =
                   Result(e[i].ftype, Value(e, chain, left), Value(e, chain, i - 1))
  <1> DEFINE st == [n \in Nat |-> Stack(e, chain)[n]]
             Sound(n) == /\ IsSequence(st[n]) /\ Results(e, n) >= 0
                         /\ Len(st[n]) = Results(e, n) + IF n = 0 THEN 0 ELSE Pending(e, n)
  <1>1. Len(e) \in Nat
    BY DEF Comparisons, Postfix
  <1>2. \A n \in Nat : n <= Len(e) => Sound(n)
    BY StackSound
  <1>3. \A n \in 1..Len(e) : n \in Nat /\ Value(e, chain, n) = st[n][Len(st[n])]
    BY DEF Value
  <1>4. ASSUME NEW n \in 1..Len(e)
        PROVE  /\ e[n].ftype = "key" => st[n] = Append(st[n - 1], Property(chain, e[n].value))
               /\ e[n].ftype = "int" => st[n] = Append(st[n - 1], e[n].value)
               /\ IsResult(e, n) =>
                    /\ Len(st[n - 1]) >= 2
                    /\ st[n] = Reduced(st[n - 1], Result(e[n].ftype, st[n - 1][Len(st[n - 1]) - 1],
                                                         st[n - 1][Len(st[n - 1])]))
               /\ IsSequence(st[n - 1])
    <2>1. PICK s, r : s = Stack(e, chain)[n - 1] /\ r = Stack(e, chain)[n]
      OBVIOUS
    <2>2. n - 1 \in Nat /\ n - 1 <= Len(e) /\ n \in Nat /\ (n = 1 <=> n - 1 = 0)
      BY <1>1
    <2>3. st[n - 1] = s /\ st[n] = r
      BY <2>1, <2>2
    <2>4. /\ IsSequence(s) /\ Results(e, n - 1) >= 0
          /\ Len(s) = Results(e, n - 1) + IF n = 1 THEN 0 ELSE Pending(e, n - 1)
      BY <1>2, <2>2, <2>3
    <2> HIDE DEF st, Sound
    <2>5. /\ e[n].ftype = "key" => r = Append(s, Property(chain, e[n].value))
          /\ e[n].ftype = "int" => r = Append(s, e[n].value)
          /\ IsResult(e, n) =>
               Len(s) >= 2 /\ r = Reduced(s, Result(e[n].ftype, s[Len(s) - 1], s[Len(s)]))
      <3>1. PICK q : q = IF n = 1 THEN 0 ELSE Pending(e, n - 1)
        OBVIOUS
      <3>2. Len(s) = Results(e, n - 1) + q
        BY <2>4, <3>1
      <3> QED
        BY <2>1, <2>4, <3>1, <3>2, StackStep, SMTT(60)
    <2> QED
      BY <2>3, <2>4, <2>5
  <1> HIDE DEF st, Sound
  <1>5. \A n \in 1..Len(e) :
          /\ e[n].ftype = "key" => Value(e, chain, n) = Property(chain, e[n].value)
          /\ e[n].ftype = "int" => Value(e, chain, n) = e[n].value
          /\ e[n].ftype = "key" \/ e[n].ftype = "int" =>
               /\ IsSequence(st[n]) /\ Len(st[n]) = Len(st[n - 1]) + 1
               /\ \A k \in 1..Len(st[n - 1]) : st[n][k] = st[n - 1][k]
    <2> SUFFICES ASSUME NEW n \in 1..Len(e), e[n].ftype = "key" \/ e[n].ftype = "int"
                 PROVE  /\ e[n].ftype = "key" => Value(e, chain, n) = Property(chain, e[n].value)
                        /\ e[n].ftype = "int" => Value(e, chain, n) = e[n].value
                        /\ IsSequence(st[n]) /\ Len(st[n]) = Len(st[n - 1]) + 1
                        /\ \A k \in 1..Len(st[n - 1]) : st[n][k] = st[n - 1][k]
      OBVIOUS
    <2>1. PICK v : /\ st[n] = Append(st[n - 1], v)
                   /\ e[n].ftype = "key" => v = Property(chain, e[n].value)
                   /\ e[n].ftype = "int" => v = e[n].value
      BY <1>4
    <2>2. IsSequence(st[n - 1])
      BY <1>4
    <2>3. PICK s, r : s = st[n - 1] /\ r = st[n]
      OBVIOUS
    <2>4. r = Append(s, v) /\ IsSequence(s)
      BY <2>1, <2>2, <2>3
    <2>5. /\ IsSequence(r) /\ Len(r) = Len(s) + 1 /\ r[Len(s) + 1] = v
          /\ \A k \in 1..Len(s) : r[k] = s[k]
      BY <2>4, AppendAny
    <2>6. Value(e, chain, n) = r[Len(r)]
      BY <1>3, <2>3
    <2> QED
      BY <2>1, <2>3, <2>5, <2>6
  <1>6. ASSUME NEW n \in 1..Len(e), IsResult(e, n)
        PROVE  /\ Len(st[n - 1]) >= 2 /\ Len(st[n]) = Len(st[n - 1]) - 1
               /\ \A k \in 1..(Len(st[n - 1]) - 2) : st[n][k] = st[n - 1][k]
               /\ Value(e, chain, n) = Result(e[n].ftype, st[n - 1][Len(st[n - 1]) - 1],
                                              st[n - 1][Len(st[n - 1])])
    <2>1. PICK s, r : s = st[n - 1] /\ r = st[n]
      OBVIOUS
    <2>2. PICK v : v = Result(e[n].ftype, s[Len(s) - 1], s[Len(s)])
      OBVIOUS
    <2>3. Len(s) >= 2 /\ r = Reduced(s, v) /\ IsSequence(s)
      BY <1>4, <1>6, <2>1, <2>2
    <2>4. /\ Len(r) = Len(s) - 1 /\ r[Len(r)] = v
          /\ \A k \in 1..(Len(s) - 2) : r[k] = s[k]
      BY <2>3, ReduceAny
    <2>5. Value(e, chain, n) = r[Len(r)]
      BY <1>3, <2>1
    <2> QED
      BY <2>1, <2>2, <2>3, <2>4, <2>5
  <1>7. CASE e[i].ftype = "eq"
    <2>1. /\ i > 2 /\ e[i - 1].ftype = "int" /\ e[i - 2].ftype = "key"
      BY <1>7, Neighbours
    <2>2. i - 1 \in 1..Len(e) /\ i - 2 \in 1..Len(e) /\ i - 1 - 1 = i - 2
      BY <1>1, <2>1
    <2>3. PICK s, r : s = st[i - 2] /\ r = st[i - 1]
      OBVIOUS
    <2>4. /\ IsSequence(s) /\ Len(s) \in Nat /\ Len(r) = Len(s) + 1 /\ Len(r) >= 2
          /\ \A k \in 1..Len(s) : r[k] = s[k]
      <3>1. IsSequence(s) /\ Len(r) = Len(s) + 1 /\ \A k \in 1..Len(s) : r[k] = s[k]
        BY <1>5, <2>1, <2>2, <2>3
      <3>2. Len(r) >= 2
        BY <1>6, <1>7, <2>3 DEF IsResult
      <3> QED
        BY <3>1, <3>2 DEF IsSequence
    <2>5. r[Len(r) - 1] = s[Len(s)]
      <3>1. Len(r) - 1 = Len(s) /\ Len(s) \in 1..Len(s)
        BY <2>4
      <3> QED
        BY <2>4, <3>1
    <2>6. Value(e, chain, i - 2) = s[Len(s)] /\ Value(e, chain, i - 1) = r[Len(r)]
      BY <1>3, <2>2, <2>3
    <2>7. Value(e, chain, i) = Result(e[i].ftype, r[Len(r) - 1], r[Len(r)])
      BY <1>6, <1>7, <2>3 DEF IsResult
    <2> QED
      BY <1>7, <2>5, <2>6, <2>7
  <1>8. CASE IsBoolOp(e[i])
    <2>1. /\ i > 4 /\ e[i - 1].ftype = "eq"
      BY <1>8, Neighbours
    <2>2. i - 1 \in 1..Len(e) /\ i - 2 \in 1..Len(e) /\ i - 3 \in 1..Len(e) /\ i - 4 \in 1..Len(e)
      BY <1>1, <2>1
    <2>3. i - 1 - 1 = i - 2 /\ i - 1 - 2 = i - 3 /\ i - 2 - 1 = i - 3 /\ i - 3 - 1 = i - 4
      BY <1>1
    <2>4. e[i - 2].ftype = "int" /\ e[i - 3].ftype = "key"
      <3>1. e[i - 1 - 1].ftype = "int" /\ e[i - 1 - 2].ftype = "key"
        BY <2>1, <2>2, Neighbours
      <3> QED
        BY <2>3, <3>1
    <2>5. PICK s, t, u, r : s = st[i - 4] /\ t = st[i - 3] /\ u = st[i - 2] /\ r = st[i - 1]
      OBVIOUS
    <2>6. IsSequence(t) /\ Len(t) = Len(s) + 1 /\ \A k \in 1..Len(s) : t[k] = s[k]
      BY <1>5, <2>2, <2>3, <2>4, <2>5
    <2>7. IsSequence(u) /\ Len(u) = Len(t) + 1 /\ \A k \in 1..Len(t) : u[k] = t[k]
      BY <1>5, <2>2, <2>3, <2>4, <2>5
    <2>8. Len(r) = Len(u) - 1 /\ \A k \in 1..(Len(u) - 2) : r[k] = u[k]
      <3>1. IsResult(e, i - 1)
        BY <2>1 DEF IsResult
      <3>2. /\ Len(st[i - 1]) = Len(st[i - 1 - 1]) - 1
            /\ \A k \in 1..(Len(st[i - 1 - 1]) - 2) : st[i - 1][k] = st[i - 1 - 1][k]
        BY <1>6, <2>2, <3>1
      <3> QED
        BY <2>3, <2>5, <3>2
    <2>9. Len(r) >= 2 /\ Value(e, chain, i) = Result(e[i].ftype, r[Len(r) - 1], r[Len(r)])
      BY <1>6, <1>8, <2>5 DEF IsResult, IsBoolOp
    <2>10. Len(t) \in Nat /\ Len(u) \in Nat /\ Len(s) \in Nat
      <3>1. IsSequence(s)
        BY <1>4, <2>2, <2>3, <2>5
      <3> QED
        BY <2>6, <2>7, <3>1 DEF IsSequence
    <2>11. /\ Len(r) - 1 = Len(s) /\ Len(s) \in 1..Len(s) /\ Len(s) \in 1..Len(t)
           /\ Len(s) \in 1..(Len(u) - 2)
      BY <2>6, <2>7, <2>8, <2>9, <2>10
    <2>12. r[Len(r) - 1] = s[Len(s)]
      BY <2>6, <2>7, <2>8, <2>11
    <2>13. Value(e, chain, i - 4) = s[Len(s)] /\ Value(e, chain, i - 1) = r[Len(r)]
      BY <1>3, <2>2, <2>5
    <2>14. e[i].ftype # "eq"
      BY <1>8 DEF IsBoolOp
    <2> QED
      BY <1>8, <2>9, <2>12, <2>13, <2>14 DEF IsBoolOp
  <1> QED
    <2>1. e[i].ftype = "key" \/ e[i].ftype = "int" \/ IsResult(e, i)
      BY Neighbours DEF IsResult
    <2>2. IsResult(e, i) <=> e[i].ftype = "eq" \/ IsBoolOp(e[i])
      BY DEF IsResult, IsBoolOp
    <2> QED
      BY <1>5, <1>7, <1>8, <2>1, <2>2 DEF IsBoolOp, IsResult

LEMMA LastValue ==
  ASSUME NEW e, Comparisons(e), NEW chain
  PROVE  Value(e, chain, Len(e)) = Stack(e, chain)[Len(e)][1]
  <1>1. Len(e) \in Nat /\ Len(e) # 0 /\ Results(e, Len(e)) = 1 /\ e[Len(e)].ftype \in {"eq", "and", "or", "fct"}
    BY LastIsResult DEF Comparisons, Postfix
  <1>2. Pending(e, Len(e)) = 0
    BY <1>1 DEF Pending
  <1>3. Len(Stack(e, chain)[Len(e)]) = Results(e, Len(e)) + Pending(e, Len(e))
    BY <1>1, StackSound
  <1>4. Len(Stack(e, chain)[Len(e)]) = 1
    BY <1>1, <1>2, <1>3
  <1> QED
    BY <1>4 DEF Value

-----------------------------------------------------------------------------
(***************************************************************************)
(* The names, and the code.                                                *)
(***************************************************************************)
\* One more name.
LEMMA NamesNext ==
  ASSUME NEW e, NEW i \in Nat \ {0}
  PROVE  /\ KeysBefore(e, 1) = {} /\ NamesBefore(e, 1) = {}
         /\ KeysBefore(e, i + 1) = KeysBefore(e, i) \cup IF e[i].ftype = "key" THEN {i} ELSE {}
         /\ NamesBefore(e, i + 1) = NamesBefore(e, i) \cup {Name(e, i)}
                                       \cup IF e[i].ftype = "key" THEN {PlistAlloc} ELSE {}
  <1>1. 1..(1 - 1) = {} /\ i + 1 - 1 = i /\ 1..i = 1..(i - 1) \cup {i} /\ i \notin 1..(i - 1)
    OBVIOUS
  <1>2. KeysBefore(e, 1) = {} /\ NamesBefore(e, 1) = {}
    BY <1>1 DEF KeysBefore, NamesBefore
  <1>3. KeysBefore(e, i + 1) = KeysBefore(e, i) \cup IF e[i].ftype = "key" THEN {i} ELSE {}
    BY <1>1 DEF KeysBefore
  <1>4. {Name(e, j) : j \in 1..(i + 1 - 1)} = {Name(e, j) : j \in 1..(i - 1)} \cup {Name(e, i)}
    BY <1>1
  <1>5. KeysBefore(e, i + 1) = {} <=> KeysBefore(e, i) = {} /\ e[i].ftype # "key"
    BY <1>3
  <1> QED
    BY <1>2, <1>3, <1>4, <1>5 DEF NamesBefore

\* The tokens' names tell their kinds and their values.
LEMMA NameIs ==
  ASSUME NEW e, Postfix(e), NEW i \in 1..Len(e), e[i].ftype # "fct"
  PROVE  /\ e[i].ftype = "key" => Name(e, i) = <<"pitem", e[i].value>>
         /\ e[i].ftype \in {"int", "str"} => Name(e, i) = <<"int", e[i].value>>
         /\ IsResult(e, i) => Name(e, i) = <<"cmp", i - 1>>
         /\ Name(e, i) # PlistAlloc
  <1>1. e[i].ftype \in {"key", "int", "str"} \/ IsResult(e, i)
    BY DEF Postfix, IsResult
  <1>2. /\ e[i].ftype = "key" => Name(e, i) = <<"pitem", e[i].value>>
        /\ e[i].ftype \in {"int", "str"} => Name(e, i) = <<"int", e[i].value>>
        /\ IsResult(e, i) => Name(e, i) = <<"cmp", i - 1>>
    BY DEF Name, IsResult
  <1>3. \A kind, v : <<kind, v>> # PlistAlloc
    BY DEF PlistAlloc
  <1> QED
    BY <1>1, <1>2, <1>3

\* Where the stack keeps the number of each token.
LEMMA PushNumbers ==
  ASSUME Inv, NEW ftypes, Visiting(ftypes), Push, opd_cnt = Visited,
         \A j \in 1..Visited : expr_stack[j].opd_num = Visited - j
  PROVE  \A j \in 1..(Visited + 1) : expr_stack'[j].opd_num = Visited + 1 - j
  <1> DEFINE e == [ftype |-> Tok.ftype, opd_num |-> opd_cnt]
  <1>1. IsSequence(expr_stack) /\ Visited \in Nat
    BY DEF Inv, IsSequence, Visited
  <1>2. expr_stack' = <<e>> \o expr_stack
    BY DEF Push
  <1> HIDE DEF e
  <1>3. expr_stack'[1] = e /\ \A i \in 1..Visited : expr_stack'[i + 1] = expr_stack[i]
    BY <1>1, <1>2, PushAny DEF Visited
  <1>4. e.opd_num = Visited
    BY DEF e
  <1> SUFFICES ASSUME NEW j \in 1..(Visited + 1) PROVE expr_stack'[j].opd_num = Visited + 1 - j
    OBVIOUS
  <1>5. CASE j = 1
    BY <1>1, <1>3, <1>4, <1>5
  <1>6. CASE j # 1
    <2>1. j - 1 \in 1..Visited /\ j - 1 + 1 = j /\ Visited - (j - 1) = Visited + 1 - j
      BY <1>1, <1>6
    <2>2. expr_stack'[j] = expr_stack[j - 1]
      BY <1>3, <2>1
    <2> QED
      BY <2>1, <2>2
  <1> QED
    BY <1>5, <1>6

Compilable(e, i) ==
  /\ e[i].ftype = "eq" => e[i - 1].ftype # "str"
  /\ IsBoolOp(e[i]) => ~IsBoolOp(e[i - 1])

\* The appended instruction is that of the visited token.
LEMMA CodeNext ==
  ASSUME Inv, CodeInv, NEW ftypes, Visiting(ftypes), Push,
         NEW instr, code' = Append(code, instr), UNCHANGED expr,
         instr = Instruction(expr, Visited + 1), Compilable(expr, Visited + 1)
  PROVE  \A i \in DOMAIN code' : code'[i] = Instruction(expr, i) /\ Compilable(expr, i)
  <1>1. phase = "visit" /\ Len(code) = Visited /\ IsSequence(code) /\ Len(code) \in Nat
    BY DEF Visiting, Inv, StackInv, IsSequence
  <1>2. /\ IsSequence(code') /\ Len(code') = Visited + 1
        /\ \A i \in 1..Visited : code'[i] = code[i]
        /\ code'[Visited + 1] = instr
    BY <1>1, AppendAny
  <1>3. DOMAIN code = 1..Visited /\ DOMAIN code' = 1..(Visited + 1)
    <2>1. ASSUME NEW s, IsSequence(s) PROVE DOMAIN s = 1..Len(s)
      BY <2>1 DEF IsSequence
    <2> QED
      BY <1>1, <1>2, <2>1
  <1>4. \A i \in 1..Visited : code[i] = Instruction(expr, i) /\ Compilable(expr, i)
    BY <1>1, <1>3 DEF CodeInv, Compilable
  <1> SUFFICES ASSUME NEW i \in 1..(Visited + 1)
               PROVE  code'[i] = Instruction(expr, i) /\ Compilable(expr, i)
    BY <1>3
  <1>5. CASE i = Visited + 1
    BY <1>2, <1>5
  <1>6. CASE i # Visited + 1
    <2>1. i \in 1..Visited
      BY <1>1, <1>6
    <2> QED
      BY <1>2, <1>4, <2>1
  <1> QED
    BY <1>5, <1>6

\* A visit that names its value as Name does and emits what Instruction says.
LEMMA GenerateCode ==
  ASSUME Inv, CodeInv, NEW ftypes, Visiting(ftypes), Push, expr[1].ftype # "fct",
         Generate(Name(expr, Visited + 1), Instruction(expr, Visited + 1)),
         Compilable(expr, Visited + 1)
  PROVE  CodeInv'
  <1> DEFINE i == Visited + 1
             name == Name(expr, i)
             instr == Instruction(expr, i)
  <1>1. /\ IsSequence(expr_stack') /\ Visited \in Nat /\ Len(expr_stack') = i
        /\ phase = "visit" /\ Tok = expr[i]
    <2>1. UNCHANGED expr
      BY DEF Generate, GenerateWith
    <2> QED
      BY <2>1, PushStep DEF Visiting, Tok
  <1>2. /\ gen_vals_' = Written(gen_vals_, opd_cnt, name)
        /\ alloc_stack' = alloc_stack \cup ({name} \cup IF Tok.ftype = "key" THEN {PlistAlloc} ELSE {})
        /\ opd_cnt' = opd_cnt + 1
        /\ code' = Append(code, instr) /\ UNCHANGED expr /\ UNCHANGED phase
    BY DEF Generate, GenerateWith
  <1>3. /\ opd_cnt = Visited
        /\ \A j \in 1..Visited : expr_stack[j].opd_num = Visited - j
        /\ DOMAIN gen_vals_ = 0..(Visited - 1)
        /\ \A n \in DOMAIN gen_vals_ : gen_vals_[n] = Name(expr, n + 1)
        /\ alloc_stack = NamesBefore(expr, i)
    BY <1>1 DEF CodeInv
  <1>4. \A j \in DOMAIN code' : code'[j] = Instruction(expr, j) /\ Compilable(expr, j)
    BY <1>2, CodeNext
  <1>5. \A j \in 1..(Visited + 1) : expr_stack'[j].opd_num = Visited + 1 - j
    <2>1. opd_cnt = Visited /\ \A j \in 1..Visited : expr_stack[j].opd_num = Visited - j
      BY <1>3
    <2> QED
      BY <2>1, PushNumbers
  <1>6. /\ DOMAIN gen_vals_' = 0..(i - 1)
        /\ \A n \in DOMAIN gen_vals_' : gen_vals_'[n] = Name(expr, n + 1)
    <2> HIDE DEF instr
    <2>1. /\ DOMAIN gen_vals_' = DOMAIN gen_vals_ \cup {Visited}
          /\ \A n \in DOMAIN gen_vals_' :
               gen_vals_'[n] = IF n = Visited THEN name ELSE gen_vals_[n]
      BY <1>2, <1>3 DEF Written
    <2>2. 0..(i - 1) = 0..(Visited - 1) \cup {Visited}
      BY <1>1
    <2>3. \A n \in DOMAIN gen_vals_' : gen_vals_'[n] = Name(expr, n + 1)
      BY <1>3, <2>1
    <2> QED
      BY <1>3, <2>1, <2>2, <2>3
  <1>7. alloc_stack' = NamesBefore(expr, i + 1)
    <2>1. i \in Nat \ {0}
      BY <1>1
    <2>2. NamesBefore(expr, i + 1) = NamesBefore(expr, i) \cup {Name(expr, i)}
                                       \cup IF expr[i].ftype = "key" THEN {PlistAlloc} ELSE {}
      BY <2>1, NamesNext
    <2> QED
      BY <1>1, <1>2, <1>3, <2>2
  <1>8. Visited' = i
    BY <1>1 DEF Visited
  <1> HIDE DEF name, instr
  <1>9. \A n \in DOMAIN code' :
          /\ code'[n] = Instruction(expr', n)
          /\ expr'[n].ftype = "eq" => expr'[n - 1].ftype # "str"
          /\ IsBoolOp(expr'[n]) => ~IsBoolOp(expr'[n - 1])
    BY <1>2, <1>4 DEF Compilable
  <1>10. opd_cnt' = Visited'
    BY <1>2, <1>3, <1>8
  <1>11. ASSUME NEW j \in 1..Visited' PROVE expr_stack'[j].opd_num = Visited' - j
    <2>1. j \in 1..(Visited + 1) /\ Visited + 1 - j = Visited' - j
      BY <1>1, <1>8
    <2> QED
      BY <1>5, <2>1
  <1> QED
    BY <1>2, <1>6, <1>7, <1>8, <1>9, <1>10, <1>11 DEF CodeInv

\* What the instructions are, without their case distinction.
LEMMA InstructionIs ==
  ASSUME NEW e, NEW i
  PROVE  /\ e[i].ftype \in {"int", "str"} =>
              Instruction(e, i) = [ftype |-> "int", name |-> Name(e, i), value |-> e[i].value,
                                   store |-> Name(e, i) \notin NamesBefore(e, i)]
         /\ e[i].ftype = "key" =>
              Instruction(e, i) = [ftype |-> "key", name |-> Name(e, i), value |-> e[i].value,
                                   store |-> Name(e, i) \notin NamesBefore(e, i),
                                   first |-> KeysBefore(e, i) = {}]
         /\ e[i].ftype = "eq" =>
              Instruction(e, i) = [ftype |-> "eq", name |-> Name(e, i),
                                   store |-> Name(e, i) \notin NamesBefore(e, i),
                                   root |-> i = Len(e),
                                   lhs |-> Name(e, i - 2), rhs |-> Name(e, i - 1)]
         /\ IsBoolOp(e[i]) =>
              Instruction(e, i) = [ftype |-> e[i].ftype, name |-> Name(e, i), store |-> TRUE,
                                   root |-> i = Len(e),
                                   lhs |-> Name(e, i - 4), rhs |-> Name(e, i - 1)]
         /\ e[i].ftype = "fct" => Instruction(e, i) = [ftype |-> "fct", value |-> e[i].value]
  BY DEF Instruction, IsBoolOp

LEMMA ConnectiveIs ==
  ASSUME NEW e, NEW i, IsBoolOp(e[i])
  PROVE  Instruction(e, i) =
           [ftype |-> e[i].ftype, name |-> Name(e, i), store |-> TRUE, root |-> i = Len(e),
            lhs |-> Name(e, i - 4), rhs |-> Name(e, i - 1)]
  BY DEF Instruction, IsBoolOp

\* The memory of the set is in use once a key was visited.
LEMMA PlistIsNew ==
  ASSUME NEW e, NEW i, \A j \in 1..(i - 1) : Name(e, j) # PlistAlloc
  PROVE  PlistAlloc \in NamesBefore(e, i) <=> KeysBefore(e, i) # {}
  <1>1. PlistAlloc \notin {Name(e, j) : j \in 1..(i - 1)}
    OBVIOUS
  <1> QED
    BY <1>1 DEF NamesBefore

LEMMA FirstToken ==
  ASSUME Inv, NEW ftypes, Visiting(ftypes), "fct" \notin ftypes
  PROVE  /\ expr[1].ftype # "fct" /\ Visited \in Nat /\ Visited + 1 \in 1..Len(expr)
         /\ Postfix(expr) /\ Tok = expr[Visited + 1] /\ Tok.ftype \in ftypes
  <1>1. Postfix(expr) /\ Len(expr) \in Nat
    BY ExprFacts DEF Inv
  <1>2. Visited \in Nat /\ Visited < Len(expr) /\ Tok.ftype \in ftypes
    BY DEF Inv, IsSequence, Visited, Visiting, Tok
  <1>3. Visited + 1 \in 1..Len(expr)
    BY <1>1, <1>2
  <1>4. expr[1].ftype # "fct"
    <2>1. ASSUME expr[1].ftype = "fct" PROVE FALSE
      <3>1. 1 \in 1..Len(expr)
        BY <1>1, <1>3
      <3>2. Len(expr) = 1
        BY <1>1, <2>1, <3>1 DEF Postfix
      <3>3. Visited + 1 = 1
        BY <1>2, <3>2
      <3> QED
        BY <1>2, <2>1, <3>3 DEF Tok
    <2> QED
      BY <2>1
  <1> QED
    BY <1>1, <1>2, <1>3, <1>4 DEF Tok

LEMMA CodeVisit ==
  ASSUME Inv, CodeInv, Visit
  PROVE  CodeInv'
  <1>1. ASSUME Abort PROVE CodeInv'
    BY <1>1 DEF Abort, CodeInv
  <1>2. ASSUME NEW ftypes, Visiting(ftypes), "fct" \notin ftypes
        PROVE  alloc_stack = NamesBefore(expr, Visited + 1)
    BY <1>2, FirstToken DEF CodeInv, Visiting
  <1>3. ASSUME NEW ftype \in {"int", "str"}, VisitOperand(ftype) PROVE CodeInv'
    <2> DEFINE name == <<"int", Tok.value>>
    <2>1. /\ Visiting({ftype}) /\ Push
          /\ Generate(name, [ftype |-> "int", name |-> name, value |-> Tok.value,
                             store |-> IsNew(name)])
      BY <1>3 DEF VisitOperand
    <2>2. /\ expr[1].ftype # "fct" /\ Tok = expr[Visited + 1] /\ Tok.ftype \in {"int", "str"}
      BY <2>1, FirstToken
    <2>3. name = Name(expr, Visited + 1)
      BY <2>2 DEF Name
    <2>4. Instruction(expr, Visited + 1) =
            [ftype |-> "int", name |-> name, value |-> Tok.value, store |-> IsNew(name)]
      <3>1. IsNew(name) = (name \notin NamesBefore(expr, Visited + 1))
        BY <1>2, <2>1 DEF IsNew
      <3> HIDE DEF name
      <3> QED
        BY <2>2, <2>3, <3>1, InstructionIs
    <2>5. Compilable(expr, Visited + 1)
      BY <2>2 DEF Compilable, IsBoolOp
    <2> HIDE DEF name
    <2> QED
      BY <2>1, <2>2, <2>3, <2>4, <2>5, GenerateCode
  <1>4. CASE VisitKey
    <2> DEFINE name == <<"pitem", Tok.value>>
    <2>1. /\ Visiting({"key"}) /\ Push
          /\ Generate(name, [ftype |-> "key", name |-> name, value |-> Tok.value,
                             store |-> IsNew(name), first |-> IsNew(PlistAlloc)])
      BY <1>4 DEF VisitKey
    <2>2. /\ expr[1].ftype # "fct" /\ Tok = expr[Visited + 1] /\ Tok.ftype = "key"
          /\ Visited \in Nat /\ Visited + 1 \in 1..Len(expr) /\ Postfix(expr)
      BY <2>1, FirstToken
    <2>3. name = Name(expr, Visited + 1)
      BY <2>2 DEF Name
    <2>4. IsNew(PlistAlloc) = (KeysBefore(expr, Visited + 1) = {})
      <3>1. ASSUME NEW j \in 1..((Visited + 1) - 1) PROVE Name(expr, j) # PlistAlloc
        <4>1. j \in 1..Len(expr) /\ Len(expr) # 1
          BY <2>2 DEF Postfix
        <4>2. expr[j].ftype # "fct"
          BY <2>2, <4>1 DEF Postfix
        <4> QED
          BY <2>2, <4>1, <4>2, NameIs
      <3>2. PlistAlloc \in NamesBefore(expr, Visited + 1) <=> KeysBefore(expr, Visited + 1) # {}
        BY <3>1, PlistIsNew
      <3> QED
        BY <1>2, <2>1, <3>2 DEF IsNew
    <2>5. Instruction(expr, Visited + 1) =
            [ftype |-> "key", name |-> name, value |-> Tok.value,
             store |-> IsNew(name), first |-> IsNew(PlistAlloc)]
      <3>1. IsNew(name) = (name \notin NamesBefore(expr, Visited + 1))
        BY <1>2, <2>1 DEF IsNew
      <3> HIDE DEF name
      <3> QED
        BY <2>2, <2>3, <2>4, <3>1, InstructionIs
    <2>6. Compilable(expr, Visited + 1)
      BY <2>2 DEF Compilable, IsBoolOp
    <2> HIDE DEF name
    <2> QED
      BY <2>1, <2>2, <2>3, <2>5, <2>6, GenerateCode
  <1>5. CASE VisitEq
    <2> DEFINE name == <<"cmp", opd_cnt>>
               instr == [ftype |-> "eq", name |-> name, store |-> IsNew(name), root |-> IsRoot,
                         lhs |-> gen_vals_[OpdOf(2)], rhs |-> gen_vals_[OpdOf(1)]]
    <2>1. /\ Visiting({"eq"}) /\ Push
          /\ IF expr_stack'[2].ftype = "int" THEN Generate(name, instr) ELSE Abort
      BY <1>5 DEF VisitEq, VisitEqAs
    <2>2. /\ expr[1].ftype # "fct" /\ Tok = expr[Visited + 1] /\ Tok.ftype = "eq"
          /\ Visited \in Nat /\ Visited + 1 \in 1..Len(expr) /\ Postfix(expr)
      BY <2>1, FirstToken
    <2>3. CASE expr_stack'[2].ftype = "int"
      <3>1. Generate(name, instr) /\ UNCHANGED expr
        BY <2>1, <2>3 DEF Generate, GenerateWith
      <3>2. /\ opd_cnt = Visited
            /\ \A j \in 1..Visited : expr_stack[j].opd_num = Visited - j
            /\ DOMAIN gen_vals_ = 0..(Visited - 1)
            /\ \A n \in DOMAIN gen_vals_ : gen_vals_[n] = Name(expr, n + 1)
        BY <2>1, <2>2 DEF CodeInv, Visiting
      <3>3. \A j \in 1..(Visited + 1) : expr_stack'[j].opd_num = Visited + 1 - j
        BY <2>1, <3>2, PushNumbers
      <3>4. /\ Len(expr_stack') = Visited + 1
            /\ \A j \in 1..(Visited + 1) : expr_stack'[j].ftype = expr[Visited + 1 + 1 - j].ftype
        <4> HIDE DEF name, instr
        <4> QED
          BY <2>1, <3>1, PushStep
      <3>5. Visited - 1 \in Nat /\ Visited + 1 > 2
        <4>1. (Visited + 1) - 1 \in 1..Len(expr) /\ expr[(Visited + 1) - 1].ftype \in {"int", "str"}
          BY <2>2 DEF Postfix
        <4>2. (Visited + 1) - 1 = Visited
          BY <2>2
        <4>3. Visited \in 1..Len(expr) /\ expr[Visited].ftype \in {"int", "str"}
          BY <4>1, <4>2
        <4>4. Visited - 1 \in 1..Len(expr)
          BY <2>2, <4>3 DEF Postfix
        <4> QED
          BY <2>2, <4>4
      <3>6. expr[Visited].ftype = "int"
        <4>1. 2 \in 1..(Visited + 1) /\ Visited + 1 + 1 - 2 = Visited
          BY <2>2, <3>5
        <4> QED
          BY <2>3, <3>4, <4>1
      <3>7. gen_vals_[OpdOf(2)] = Name(expr, (Visited + 1) - 2)
        <4>1. 3 \in 1..(Visited + 1) /\ 2 + 1 = 3 /\ (Visited + 1) - 3 \in 0..(Visited - 1)
              /\ (Visited + 1) - 3 + 1 = (Visited + 1) - 2
          BY <2>2, <3>5
        <4>2. OpdOf(2) = (Visited + 1) - 3
          BY <2>2, <3>3, <4>1 DEF OpdOf
        <4> QED
          BY <3>2, <4>1, <4>2
      <3>8. gen_vals_[OpdOf(1)] = Name(expr, (Visited + 1) - 1)
        <4>1. 2 \in 1..(Visited + 1) /\ 1 + 1 = 2 /\ (Visited + 1) - 2 \in 0..(Visited - 1)
              /\ (Visited + 1) - 2 + 1 = (Visited + 1) - 1
          BY <2>2, <3>5
        <4>2. OpdOf(1) = (Visited + 1) - 2
          BY <2>2, <3>3, <4>1 DEF OpdOf
        <4> QED
          BY <3>2, <4>1, <4>2
      <3>9. name = Name(expr, Visited + 1)
        <4>1. (Visited + 1) - 1 = Visited
          BY <2>2
        <4> QED
          BY <2>2, <3>2, <4>1 DEF Name
      <3>10. instr = Instruction(expr, Visited + 1)
        <4>1. IsNew(name) = (name \notin NamesBefore(expr, Visited + 1))
          BY <1>2, <2>1 DEF IsNew
        <4> HIDE DEF name
        <4> QED
          BY <2>2, <3>7, <3>8, <3>9, <4>1, InstructionIs DEF IsRoot
      <3>11. Compilable(expr, Visited + 1)
        <4>1. (Visited + 1) - 1 = Visited
          BY <2>2
        <4> QED
          BY <2>2, <3>6, <4>1 DEF Compilable, IsBoolOp
      <3> HIDE DEF name, instr
      <3> QED
        BY <2>1, <2>2, <3>1, <3>9, <3>10, <3>11, GenerateCode
    <2> HIDE DEF name, instr
    <2> QED
      BY <1>1, <2>1, <2>3
  <1>6. ASSUME NEW ftype \in {"and", "or"}, VisitBoolOp(ftype, 4) PROVE CodeInv'
    <2> DEFINE name == <<"cmp", opd_cnt>>
               instr == [ftype |-> Tok.ftype, name |-> name, store |-> TRUE, root |-> IsRoot,
                         lhs |-> gen_vals_[OpdOf(4)], rhs |-> gen_vals_[OpdOf(1)]]
               found == /\ ~IsBoolOp(expr_stack'[2]) /\ 4 < Len(expr_stack')
                        /\ expr_stack'[4 + 1].ftype \in {"eq", "and", "or"}
    <2>1. /\ Visiting({ftype}) /\ Push
          /\ IF found THEN Generate(name, instr) ELSE Abort
      BY <1>6 DEF VisitBoolOp
    <2>2. /\ expr[1].ftype # "fct" /\ Tok = expr[Visited + 1] /\ Tok.ftype \in {"and", "or"}
          /\ Visited \in Nat /\ Visited + 1 \in 1..Len(expr) /\ Postfix(expr)
      BY <2>1, FirstToken
    <2>3. CASE found
      <3>1. Generate(name, instr) /\ UNCHANGED expr
        BY <2>1, <2>3 DEF Generate, GenerateWith
      <3>2. /\ opd_cnt = Visited
            /\ \A j \in 1..Visited : expr_stack[j].opd_num = Visited - j
            /\ DOMAIN gen_vals_ = 0..(Visited - 1)
            /\ \A n \in DOMAIN gen_vals_ : gen_vals_[n] = Name(expr, n + 1)
        BY <2>1, <2>2 DEF CodeInv, Visiting
      <3>3. \A j \in 1..(Visited + 1) : expr_stack'[j].opd_num = Visited + 1 - j
        BY <2>1, <3>2, PushNumbers
      <3>4. /\ Len(expr_stack') = Visited + 1
            /\ \A j \in 1..(Visited + 1) : expr_stack'[j].ftype = expr[Visited + 1 + 1 - j].ftype
        <4> HIDE DEF name, instr
        <4> QED
          BY <2>1, <3>1, PushStep
      <3>5. Visited + 1 > 4
        BY <2>2, <2>3, <3>4
      <3>6. ~IsBoolOp(expr[Visited])
        <4>1. 2 \in 1..(Visited + 1) /\ Visited + 1 + 1 - 2 = Visited
          BY <2>2, <3>5
        <4> QED
          BY <2>3, <3>4, <4>1 DEF IsBoolOp
      <3>7. gen_vals_[OpdOf(4)] = Name(expr, (Visited + 1) - 4)
        <4>1. 5 \in 1..(Visited + 1) /\ 4 + 1 = 5 /\ (Visited + 1) - 5 \in 0..(Visited - 1)
              /\ (Visited + 1) - 5 + 1 = (Visited + 1) - 4
          BY <2>2, <3>5
        <4>2. OpdOf(4) = (Visited + 1) - 5
          BY <2>2, <3>3, <4>1 DEF OpdOf
        <4> QED
          BY <3>2, <4>1, <4>2
      <3>8. gen_vals_[OpdOf(1)] = Name(expr, (Visited + 1) - 1)
        <4>1. 2 \in 1..(Visited + 1) /\ 1 + 1 = 2 /\ (Visited + 1) - 2 \in 0..(Visited - 1)
              /\ (Visited + 1) - 2 + 1 = (Visited + 1) - 1
          BY <2>2, <3>5
        <4>2. OpdOf(1) = (Visited + 1) - 2
          BY <2>2, <3>3, <4>1 DEF OpdOf
        <4> QED
          BY <3>2, <4>1, <4>2
      <3>9. name = Name(expr, Visited + 1)
        <4>1. (Visited + 1) - 1 = Visited
          BY <2>2
        <4> QED
          BY <2>2, <3>2, <4>1 DEF Name
      <3>10. instr = Instruction(expr, Visited + 1)
        <4>1. Instruction(expr, Visited + 1) =
                [ftype |-> expr[Visited + 1].ftype, name |-> Name(expr, Visited + 1), store |-> TRUE,
                 root |-> Visited + 1 = Len(expr),
                 lhs |-> Name(expr, (Visited + 1) - 4), rhs |-> Name(expr, (Visited + 1) - 1)]
          <5>1. IsBoolOp(expr[Visited + 1])
            BY <2>2 DEF IsBoolOp
          <5> QED
            BY <5>1, ConnectiveIs
        <4> HIDE DEF name
        <4> QED
          BY <2>2, <3>7, <3>8, <3>9, <4>1 DEF IsRoot
      <3>11. Compilable(expr, Visited + 1)
        <4>1. (Visited + 1) - 1 = Visited
          BY <2>2
        <4> QED
          BY <2>2, <3>6, <4>1 DEF Compilable
      <3> HIDE DEF name, instr
      <3> QED
        BY <2>1, <2>2, <3>1, <3>9, <3>10, <3>11, GenerateCode
    <2> HIDE DEF name, instr, found
    <2> QED
      BY <1>1, <2>1, <2>3
  <1>7. CASE VisitFct
    <2> DEFINE instr == [ftype |-> "fct", value |-> Tok.value]
    <2>1. /\ Visiting({"fct"}) /\ Push /\ code' = Append(code, instr) /\ UNCHANGED <<expr, phase>>
      BY <1>7 DEF VisitFct
    <2>2. /\ Postfix(expr) /\ Len(expr) \in Nat
          /\ Visited \in Nat /\ Visited < Len(expr) /\ Tok.ftype = "fct" /\ Tok = expr[Visited + 1]
      BY <2>1, ExprFacts DEF Inv, IsSequence, Visited, Visiting, Tok
    <2>3. Visited + 1 \in 1..Len(expr)
      BY <2>2
    <2>4. Len(expr) = 1
      BY <2>2, <2>3 DEF Postfix
    <2>5. expr[1].ftype = "fct"
      <3>1. Visited + 1 = 1
        BY <2>2, <2>4
      <3> QED
        BY <2>2, <3>1
    <2>6. instr = Instruction(expr, Visited + 1) /\ Compilable(expr, Visited + 1)
      BY <2>2, InstructionIs DEF Compilable, IsBoolOp
    <2> HIDE DEF instr
    <2>7. \A j \in DOMAIN code' : code'[j] = Instruction(expr, j) /\ Compilable(expr, j)
      BY <2>1, <2>6, CodeNext
    <2> QED
      BY <2>1, <2>5, <2>7 DEF CodeInv, Compilable
  <1> QED
    BY <1>3, <1>4, <1>5, <1>6, <1>7 DEF Visit, VisitNumber, VisitStr, VisitAnd, VisitOr

-----------------------------------------------------------------------------
(***************************************************************************)
(* The execution: every value that an operand is loaded from is that of    *)
(* the token, and the search finds the keys in the order of the sets.      *)
(***************************************************************************)
LEMMA Compiled ==
  ASSUME Inv, CodeInv, phase # "aborted", Visited = Len(expr)
  PROVE  /\ DOMAIN code = 1..Len(expr) /\ \A i \in 1..Len(expr) : code[i] = Instruction(expr, i)
         /\ Postfix(expr) /\ Len(expr) \in Nat /\ DOMAIN expr = 1..Len(expr)
         /\ expr[1].ftype # "fct" => Comparisons(expr)
  <1>1. DOMAIN code = 1..Len(expr) /\ Len(expr) \in Nat /\ Len(expr) > 0
    BY CodeFacts
  <1>2. Postfix(expr) /\ DOMAIN expr = 1..Len(expr)
    BY ExprFacts DEF Inv
  <1>3. \A i \in 1..Len(expr) :
          /\ code[i] = Instruction(expr, i)
          /\ expr[i].ftype = "eq" => expr[i - 1].ftype # "str"
          /\ IsBoolOp(expr[i]) => ~IsBoolOp(expr[i - 1])
    BY <1>1 DEF CodeInv
  <1>4. ASSUME NEW i \in 1..Len(expr), expr[i].ftype = "str" PROVE FALSE
    <2>1. i + 1 \in 1..Len(expr) /\ expr[i + 1].ftype = "eq"
      BY <1>2, <1>4 DEF Postfix
    <2>2. expr[(i + 1) - 1].ftype # "str" /\ (i + 1) - 1 = i
      BY <1>1, <1>3, <2>1
    <2> QED
      BY <1>4, <2>2
  <1> QED
    BY <1>1, <1>2, <1>3, <1>4 DEF Comparisons

\* Tokens of the same name have the same value, and a result has a name of its own.
LEMMA SameName ==
  ASSUME NEW e, Comparisons(e), NEW chain, NEW i \in 1..Len(e)
  PROVE  /\ \A j \in 1..Len(e) :
              Name(e, j) = Name(e, i) => Value(e, chain, j) = Value(e, chain, i)
         /\ IsResult(e, i) => Name(e, i) \notin NamesBefore(e, i)
         /\ Name(e, i) # PlistAlloc
  <1>1. Postfix(e) /\ Len(e) \in Nat
    BY DEF Comparisons, Postfix
  <1>2. ASSUME NEW j \in 1..Len(e)
        PROVE  /\ e[j].ftype = "key" \/ e[j].ftype = "int" \/ IsResult(e, j)
               /\ e[j].ftype = "key" => Name(e, j) = <<"pitem", e[j].value>>
               /\ e[j].ftype = "int" => Name(e, j) = <<"int", e[j].value>>
               /\ IsResult(e, j) => Name(e, j) = <<"cmp", j - 1>>
               /\ Name(e, j) # PlistAlloc
               /\ e[j].ftype = "key" => Value(e, chain, j) = Property(chain, e[j].value)
               /\ e[j].ftype = "int" => Value(e, chain, j) = e[j].value
    <2>1. e[j].ftype = "key" \/ e[j].ftype = "int" \/ IsResult(e, j)
      BY Neighbours DEF IsResult
    <2>2. e[j].ftype # "fct"
      BY <2>1 DEF IsResult
    <2> QED
      BY <1>1, <2>1, <2>2, NameIs, Values
  <1>3. ASSUME NEW j \in 1..Len(e), Name(e, j) = Name(e, i)
        PROVE  Value(e, chain, j) = Value(e, chain, i)
    <2>1. CASE e[i].ftype = "key"
      <3>1. e[j].ftype = "key" /\ e[j].value = e[i].value
        BY <1>2, <1>3, <2>1
      <3> QED
        BY <1>2, <2>1, <3>1
    <2>2. CASE e[i].ftype = "int"
      <3>1. e[j].ftype = "int" /\ e[j].value = e[i].value
        BY <1>2, <1>3, <2>2
      <3> QED
        BY <1>2, <2>2, <3>1
    <2>3. CASE IsResult(e, i)
      <3>1. j - 1 = i - 1
        BY <1>2, <1>3, <2>3
      <3>2. j = i
        BY <1>1, <3>1
      <3> QED
        BY <3>2
    <2> QED
      BY <1>2, <2>1, <2>2, <2>3
  <1>4. ASSUME IsResult(e, i) PROVE Name(e, i) \notin NamesBefore(e, i)
    <2>1. ASSUME NEW j \in 1..(i - 1) PROVE Name(e, j) # Name(e, i)
      <3>1. j \in 1..Len(e) /\ j - 1 # i - 1
        BY <1>1
      <3> QED
        BY <1>2, <1>4, <3>1
    <2>2. Name(e, i) # PlistAlloc
      BY <1>2
    <2> QED
      BY <2>1, <2>2 DEF NamesBefore
  <1> QED
    BY <1>2, <1>3, <1>4

\* A store of token i's value, which is left out if the name has one already.
Holding(e, chain, n, m) ==
  \A j \in 1..n : Name(e, j) \in DOMAIN m /\ m[Name(e, j)] = Value(e, chain, j)
AfterStore(e, chain, i, m) ==
  IF Name(e, i) \notin NamesBefore(e, i) THEN Written(m, Name(e, i), Value(e, chain, i)) ELSE m

LEMMA StoreStep ==
  ASSUME NEW e, Comparisons(e), NEW chain, NEW i \in 1..Len(e), NEW m,
         Holding(e, chain, i - 1, m), NEW m2, m2 = AfterStore(e, chain, i, m)
  PROVE  /\ Holding(e, chain, i, m2)
         /\ PlistAlloc \in DOMAIN m => PlistAlloc \in DOMAIN m2 /\ m2[PlistAlloc] = m[PlistAlloc]
  <1>1. Len(e) \in Nat /\ Name(e, i) # PlistAlloc
    <2>1. Len(e) \in Nat
      BY DEF Comparisons, Postfix
    <2> QED
      BY <2>1, SameName
  <1>0. \A j \in 1..(i - 1) : Name(e, j) \in DOMAIN m /\ m[Name(e, j)] = Value(e, chain, j)
    BY DEF Holding
  <1>2. PICK name, v : name = Name(e, i) /\ v = Value(e, chain, i)
    OBVIOUS
  <1>3. CASE name \notin NamesBefore(e, i)
    <2>1. m2 = Written(m, name, v)
      BY <1>2, <1>3 DEF AfterStore
    <2>2. /\ DOMAIN m2 = DOMAIN m \cup {name} /\ m2[name] = v
          /\ \A n \in DOMAIN m : n # name => m2[n] = m[n]
      BY <2>1 DEF Written
    <2>3. ASSUME NEW j \in 1..i
          PROVE  Name(e, j) \in DOMAIN m2 /\ m2[Name(e, j)] = Value(e, chain, j)
      <3>1. CASE j = i
        BY <1>2, <2>2, <3>1
      <3>2. CASE j # i
        <4>1. j \in 1..(i - 1)
          BY <1>1, <3>2
        <4>2. Name(e, j) # name
          BY <1>3, <4>1 DEF NamesBefore
        <4> QED
          BY <1>0, <2>2, <4>1, <4>2
      <3> QED
        BY <3>1, <3>2
    <2> QED
      BY <1>1, <1>2, <2>2, <2>3 DEF Holding
  <1>4. CASE name \in NamesBefore(e, i)
    <2>1. m2 = m
      BY <1>2, <1>4 DEF AfterStore
    <2>2. PICK j \in 1..(i - 1) : Name(e, j) = name
      BY <1>1, <1>2, <1>4 DEF NamesBefore
    <2>3. Value(e, chain, j) = v
      <3>1. j \in 1..Len(e)
        BY <1>1
      <3> QED
        BY <1>2, <2>2, <3>1, SameName
    <2>4. ASSUME NEW k \in 1..i
          PROVE  Name(e, k) \in DOMAIN m2 /\ m2[Name(e, k)] = Value(e, chain, k)
      <3>1. CASE k = i
        BY <1>0, <1>2, <2>1, <2>2, <2>3, <3>1
      <3>2. CASE k # i
        <4>1. k \in 1..(i - 1)
          BY <1>1, <3>2
        <4> QED
          BY <1>0, <2>1, <4>1
      <3> QED
        BY <3>1, <3>2
    <2> QED
      BY <2>1, <2>4 DEF Holding
  <1> QED
    BY <1>3, <1>4

\* At most one set of a chain has a key.
LEMMA SetIs ==
  ASSUME NEW chain, IsChain(chain), NEW key, NEW s \in SetsOf(chain, key)
  PROVE  /\ SetsOf(chain, key) = {s} /\ s \in Nat /\ s \in DOMAIN chain
         /\ key \in DOMAIN chain[s]
         /\ Property(chain, key) = chain[s][key]
  <1>1. s \in DOMAIN chain /\ key \in DOMAIN chain[s]
    BY DEF SetsOf
  <1>2. s \in Nat
    BY <1>1 DEF IsChain
  <1>3. \A t \in SetsOf(chain, key) : t = s
    <2> SUFFICES ASSUME NEW t \in SetsOf(chain, key), t # s PROVE FALSE
      OBVIOUS
    <2>1. t \in DOMAIN chain /\ key \in DOMAIN chain[t]
      BY DEF SetsOf
    <2>2. DOMAIN chain[s] \cap DOMAIN chain[t] = {}
      BY <1>1, <2>1 DEF IsChain
    <2> QED
      BY <1>1, <2>1, <2>2
  <1>4. SetsOf(chain, key) = {s}
    BY <1>3
  <1>5. (CHOOSE t \in SetsOf(chain, key) : TRUE) = s
    BY <1>3
  <1> QED
    BY <1>1, <1>2, <1>4, <1>5 DEF Property

\* The last one of a set of keys.
LastKey(keys, j) == j \in keys /\ \A i \in keys : i <= j

LEMMA KeysFinite ==
  ASSUME NEW e, NEW n \in Nat, KeysBefore(e, n) # {}
  PROVE  \E j : LastKey(KeysBefore(e, n), j)
  <1> DEFINE T == {n - i : i \in KeysBefore(e, n)}
  <1>1. \A i \in KeysBefore(e, n) : i \in Nat /\ n - i \in Nat
    BY DEF KeysBefore
  <1>2. T \subseteq Nat /\ T # {}
    BY <1>1
  <1>3. PICK t \in T : \A u \in T : t <= u
    <2> HIDE DEF T
    <2> QED
      BY <1>2, Least
  <1>4. PICK j \in KeysBefore(e, n) : t = n - j
    BY <1>3
  <1>5. ASSUME NEW i \in KeysBefore(e, n) PROVE i <= j
    <2>1. n - i \in T
      OBVIOUS
    <2>2. t <= n - i
      BY <1>3, <2>1
    <2> QED
      BY <1>1, <1>4, <2>2
  <1> QED
    BY <1>5 DEF LastKey

\* The next key, if its set is not before that of the last one.
LEMMA OrderNext ==
  ASSUME IsChain(props), NEW n \in Nat \ {0}, expr[n].ftype = "key",
         InOrder(KeysBefore(expr, n)),
         NEW s \in SetsOf(props, expr[n].value),
         \A j : LastKey(KeysBefore(expr, n), j) => \E p \in SetsOf(props, expr[j].value) : p <= s
  PROVE  InOrder(KeysBefore(expr, n + 1))
  <1>1. KeysBefore(expr, n + 1) = KeysBefore(expr, n) \cup {n}
    BY NamesNext
  <1>2. \A i \in KeysBefore(expr, n) : i \in Nat /\ i < n
    BY DEF KeysBefore
  <1>3. SetsOf(props, expr[n].value) = {s} /\ s \in Nat
    BY SetIs
  <1>4. ASSUME NEW i \in KeysBefore(expr, n), NEW t \in SetsOf(props, expr[i].value)
        PROVE  t <= s
    <2>1. PICK j : LastKey(KeysBefore(expr, n), j)
      BY KeysFinite
    <2>2. PICK p \in SetsOf(props, expr[j].value) : p <= s
      BY <2>1
    <2>3. j \in KeysBefore(expr, n) /\ i <= j
      BY <2>1 DEF LastKey
    <2>4. t \in Nat /\ p \in Nat /\ SetsOf(props, expr[j].value) = {p}
          /\ SetsOf(props, expr[i].value) = {t}
      BY SetIs
    <2>5. CASE i = j
      BY <2>2, <2>4, <2>5
    <2>6. CASE i # j
      <3>1. i < j
        BY <1>2, <2>3, <2>6
      <3>2. t <= p
        BY <2>3, <3>1 DEF InOrder
      <3> QED
        BY <1>3, <2>2, <2>4, <3>2
    <2> QED
      BY <2>5, <2>6
  <1> SUFFICES ASSUME NEW i \in KeysBefore(expr, n + 1), NEW j \in KeysBefore(expr, n + 1)
               PROVE  /\ SetsOf(props, expr[i].value) # {}
                      /\ i < j => \A t \in SetsOf(props, expr[i].value),
                                     u \in SetsOf(props, expr[j].value) : t <= u
    BY DEF InOrder
  <1>5. CASE i \in KeysBefore(expr, n) /\ j \in KeysBefore(expr, n)
    BY <1>5 DEF InOrder
  <1>6. CASE i \in KeysBefore(expr, n) /\ j = n
    <2>1. SetsOf(props, expr[i].value) # {}
      BY <1>6 DEF InOrder
    <2> QED
      BY <1>3, <1>4, <1>6, <2>1
  <1>7. CASE i = n
    <2>1. ~(i < j)
      BY <1>1, <1>2, <1>7
    <2> QED
      BY <1>7, <2>1
  <1> QED
    BY <1>1, <1>5, <1>6, <1>7

\* And none is in order if it is.
LEMMA OutOfOrder ==
  ASSUME IsChain(props), NEW n, n \in KeyTokens, DOMAIN expr = 1..Len(expr),
         \/ SetsOf(props, expr[n].value) = {}
         \/ \E j \in KeysBefore(expr, n), s \in SetsOf(props, expr[n].value) :
              \E p \in SetsOf(props, expr[j].value) : ~(p <= s)
  PROVE  ~InChainOrder
  <1> SUFFICES ASSUME InChainOrder PROVE FALSE
    OBVIOUS
  <1>1. SetsOf(props, expr[n].value) # {}
    BY DEF InChainOrder, InOrder
  <1>2. PICK j \in KeysBefore(expr, n) : \E s \in SetsOf(props, expr[n].value) :
          \E p \in SetsOf(props, expr[j].value) : ~(p <= s)
    BY <1>1
  <1>3. n \in 1..Len(expr)
    BY DEF KeyTokens
  <1>4. j \in KeyTokens /\ j < n
    BY <1>3 DEF KeysBefore, KeyTokens
  <1> QED
    BY <1>2, <1>4 DEF InChainOrder, InOrder

LEMMA ExecutionFacts ==
  ASSUME Inv, CodeInv, ExecutionInv, phase = "execute", code[pc].ftype # "fct"
  PROVE  /\ Comparisons(expr) /\ pc \in 1..Len(expr) /\ Len(expr) \in Nat
         /\ pc \in Nat \ {0} /\ DOMAIN expr = 1..Len(expr)
         /\ Instr = Instruction(expr, pc)
         /\ props \in Chains /\ IsChain(props)
         /\ \A i \in 1..(pc - 1) :
              Name(expr, i) \in DOMAIN mem /\ mem[Name(expr, i)] = Value(expr, props, i)
         /\ InOrder(KeysBefore(expr, pc))
         /\ \A j : LastKey(KeysBefore(expr, pc), j) =>
              PlistAlloc \in DOMAIN mem /\ mem[PlistAlloc] \in SetsOf(props, expr[j].value)
  <1>1. pc \in DOMAIN code /\ Visited = Len(expr) /\ phase # "aborted"
    BY DEF Inv, StackInv
  <1>2. /\ DOMAIN code = 1..Len(expr) /\ \A i \in 1..Len(expr) : code[i] = Instruction(expr, i)
        /\ Postfix(expr) /\ Len(expr) \in Nat /\ DOMAIN expr = 1..Len(expr)
        /\ expr[1].ftype # "fct" => Comparisons(expr)
    BY <1>1, Compiled
  <1>3. Comparisons(expr)
    <2>1. ASSUME expr[1].ftype = "fct" PROVE FALSE
      <3>1. 1 \in 1..Len(expr)
        BY <1>1, <1>2
      <3>2. Len(expr) = 1
        BY <1>2, <2>1, <3>1 DEF Postfix
      <3>3. pc = 1
        BY <1>1, <1>2, <3>2
      <3>4. code[pc].ftype = "fct"
        BY <1>2, <2>1, <3>1, <3>3, InstructionIs
      <3> QED
        BY <3>4
    <2> QED
      BY <1>2, <2>1
  <1>4. props \in Chains /\ IsChain(props)
    BY ChainsAssumption DEF ExecutionInv
  <1>5. \A j : LastKey(KeysBefore(expr, pc), j) =>
          PlistAlloc \in DOMAIN mem /\ mem[PlistAlloc] \in SetsOf(props, expr[j].value)
    BY DEF ExecutionInv, LastKey
  <1> QED
    BY <1>1, <1>2, <1>3, <1>4, <1>5 DEF ExecutionInv, Instr

LEMMA NoKeyNext ==
  ASSUME NEW e, NEW i \in Nat \ {0}, e[i].ftype # "key"
  PROVE  KeysBefore(e, i + 1) = KeysBefore(e, i)
  <1>1. KeysBefore(e, i + 1) = KeysBefore(e, i) \cup IF e[i].ftype = "key" THEN {i} ELSE {}
    BY NamesNext
  <1> QED
    BY <1>1

\* The next instruction finds what this one leaves.
LEMMA NextInstruction ==
  ASSUME props \in Chains, pc \in Nat \ {0}, Continue, phase = "execute",
         \A i \in 1..pc :
           Name(expr, i) \in DOMAIN mem' /\ mem'[Name(expr, i)] = Value(expr, props, i),
         InOrder(KeysBefore(expr, pc + 1)),
         \A j : LastKey(KeysBefore(expr, pc + 1), j) =>
           PlistAlloc \in DOMAIN mem' /\ mem'[PlistAlloc] \in SetsOf(props, expr[j].value)
  PROVE  ExecutionInv' /\ FilterExact'
  <1>1. pc' = pc + 1 /\ UNCHANGED <<expr, props, phase>> /\ (pc + 1) - 1 = pc
    BY DEF Continue
  <1>2. FilterExact'
    BY <1>1 DEF FilterExact
  <1>4. PICK at, ex, ps, me : at = pc' /\ ex = expr' /\ ps = props' /\ me = mem'
    OBVIOUS
  <1>5. /\ ps \in Chains
        /\ \A i \in 1..(at - 1) : Name(ex, i) \in DOMAIN me /\ me[Name(ex, i)] = Value(ex, ps, i)
        /\ \A j \in KeysBefore(ex, at) :
              (\A i \in KeysBefore(ex, at) : i <= j) =>
                 PlistAlloc \in DOMAIN me /\ me[PlistAlloc] \in SetsOf(ps, ex[j].value)
    BY <1>1, <1>4 DEF LastKey
  <1>6. InOrder(KeysBefore(expr, pc))'
    BY <1>1 DEF InOrder
  <1> QED
    BY <1>2, <1>4, <1>5, <1>6 DEF ExecutionInv

LEMMA LeaveExact ==
  ASSUME NEW cond, Leave(IF cond THEN "next" ELSE "end"), cond <=> Holds /\ InChainOrder
  PROVE  ExecutionInv' /\ FilterExact'
  <1>1. phase' = "done" /\ branch' = (IF cond THEN "next" ELSE "end") /\ UNCHANGED <<expr, props>>
    BY DEF Leave
  <1>2. ExecutionInv'
    BY <1>1 DEF ExecutionInv
  <1>3. Holds' = Holds /\ (InChainOrder' <=> InChainOrder)
    BY <1>1 DEF Holds, InChainOrder, InOrder, KeyTokens
  <1>4. branch' = "next" <=> cond
    BY <1>1
  <1> QED
    BY <1>2, <1>3, <1>4 DEF FilterExact

LEMMA LoadExact ==
  ASSUME Inv, CodeInv, ExecutionInv, LoadNumber
  PROVE  ExecutionInv' /\ FilterExact'
  <1>1. phase = "execute" /\ Instr.ftype = "int" /\ mem' = Stored(Instr.value) /\ Continue
    BY DEF LoadNumber, Executing, Instr
  <1>2. /\ Comparisons(expr) /\ pc \in 1..Len(expr) /\ Len(expr) \in Nat
        /\ pc \in Nat \ {0} /\ Instr = Instruction(expr, pc) /\ props \in Chains
        /\ \A i \in 1..(pc - 1) :
              Name(expr, i) \in DOMAIN mem /\ mem[Name(expr, i)] = Value(expr, props, i)
        /\ InOrder(KeysBefore(expr, pc))
        /\ \A j : LastKey(KeysBefore(expr, pc), j) =>
              PlistAlloc \in DOMAIN mem /\ mem[PlistAlloc] \in SetsOf(props, expr[j].value)
    BY <1>1, ExecutionFacts DEF Instr
  <1>3. expr[pc].ftype = "int"
    <2>1. expr[pc].ftype = "key" \/ expr[pc].ftype = "int" \/ IsResult(expr, pc)
      BY <1>2, Neighbours DEF IsResult
    <2>2. expr[pc].ftype = "key" => Instr.ftype = "key"
      BY <1>2, InstructionIs
    <2>3. IsResult(expr, pc) => Instr.ftype = expr[pc].ftype
      BY <1>2, InstructionIs DEF IsResult, IsBoolOp
    <2> QED
      BY <1>1, <2>1, <2>2, <2>3 DEF IsResult
  <1>4. /\ Instr.name = Name(expr, pc)
        /\ Instr.store = (Name(expr, pc) \notin NamesBefore(expr, pc))
        /\ Instr.value = Value(expr, props, pc)
    <2>1. Instr = [ftype |-> "int", name |-> Name(expr, pc), value |-> expr[pc].value,
                   store |-> Name(expr, pc) \notin NamesBefore(expr, pc)]
      BY <1>2, <1>3, InstructionIs
    <2>2. Value(expr, props, pc) = expr[pc].value
      BY <1>2, <1>3, Values
    <2> QED
      BY <2>1, <2>2
  <1>5. mem' = IF Name(expr, pc) \notin NamesBefore(expr, pc)
               THEN Written(mem, Name(expr, pc), Value(expr, props, pc)) ELSE mem
    BY <1>1, <1>4 DEF Stored
  <1>6. /\ \A i \in 1..pc :
              Name(expr, i) \in DOMAIN mem' /\ mem'[Name(expr, i)] = Value(expr, props, i)
        /\ PlistAlloc \in DOMAIN mem =>
              PlistAlloc \in DOMAIN mem' /\ mem'[PlistAlloc] = mem[PlistAlloc]
    <2>1. PICK m2 : m2 = mem'
      OBVIOUS
    <2>2. Comparisons(expr) /\ pc \in 1..Len(expr)
      BY <1>2
    <2>3. \A i \in 1..(pc - 1) :
            Name(expr, i) \in DOMAIN mem /\ mem[Name(expr, i)] = Value(expr, props, i)
      BY <1>2
    <2>4. m2 = AfterStore(expr, props, pc, mem)
      BY <1>5, <2>1 DEF AfterStore
    <2>5. Holding(expr, props, pc - 1, mem)
      BY <2>3 DEF Holding
    <2>6. /\ Holding(expr, props, pc, m2)
          /\ PlistAlloc \in DOMAIN mem => PlistAlloc \in DOMAIN m2 /\ m2[PlistAlloc] = mem[PlistAlloc]
      BY <2>2, <2>4, <2>5, StoreStep
    <2> QED
      BY <2>1, <2>6 DEF Holding
  <1>7. KeysBefore(expr, pc + 1) = KeysBefore(expr, pc)
    BY <1>2, <1>3, NoKeyNext
  <1> QED
    BY <1>1, <1>2, <1>6, <1>7, NextInstruction

LEMMA EvaluateExact ==
  ASSUME Inv, CodeInv, ExecutionInv, Evaluate
  PROVE  ExecutionInv' /\ FilterExact'
  <1>1. /\ phase = "execute" /\ Instr.ftype \in {"eq", "and", "or"}
        /\ mem' = Stored(Result(Instr.ftype, mem[Instr.lhs], mem[Instr.rhs]))
        /\ IF Instr.root THEN Leave(IF mem'[Instr.name] THEN "next" ELSE "end") ELSE Continue
    BY Zenon DEF Evaluate, Executing, Instr
  <1>2. /\ Comparisons(expr) /\ pc \in 1..Len(expr) /\ Len(expr) \in Nat
        /\ pc \in Nat \ {0} /\ Instr = Instruction(expr, pc) /\ props \in Chains
        /\ DOMAIN expr = 1..Len(expr)
        /\ \A i \in 1..(pc - 1) :
              Name(expr, i) \in DOMAIN mem /\ mem[Name(expr, i)] = Value(expr, props, i)
        /\ InOrder(KeysBefore(expr, pc))
        /\ \A j : LastKey(KeysBefore(expr, pc), j) =>
              PlistAlloc \in DOMAIN mem /\ mem[PlistAlloc] \in SetsOf(props, expr[j].value)
    BY <1>1, ExecutionFacts DEF Instr
  <1>3. IsResult(expr, pc)
    <2>1. expr[pc].ftype = "key" \/ expr[pc].ftype = "int" \/ IsResult(expr, pc)
      BY <1>2, Neighbours DEF IsResult
    <2>2. expr[pc].ftype = "key" => Instr.ftype = "key"
      BY <1>2, InstructionIs
    <2>3. expr[pc].ftype = "int" => Instr.ftype = "int"
      BY <1>2, InstructionIs
    <2> QED
      BY <1>1, <2>1, <2>2, <2>3
  <1> DEFINE left == IF expr[pc].ftype = "eq" THEN pc - 2 ELSE pc - 4
  <1>4. /\ Instr.ftype = expr[pc].ftype /\ Instr.name = Name(expr, pc)
        /\ Instr.store <=> Name(expr, pc) \notin NamesBefore(expr, pc)
        /\ Instr.root <=> pc = Len(expr)
        /\ Instr.lhs = Name(expr, left) /\ Instr.rhs = Name(expr, pc - 1)
    <2>1. Name(expr, pc) \notin NamesBefore(expr, pc)
      BY <1>2, <1>3, SameName
    <2>2. CASE expr[pc].ftype = "eq"
      <3>1. Instr = [ftype |-> "eq", name |-> Name(expr, pc),
                     store |-> Name(expr, pc) \notin NamesBefore(expr, pc),
                     root |-> pc = Len(expr),
                     lhs |-> Name(expr, pc - 2), rhs |-> Name(expr, pc - 1)]
        BY <1>2, <2>2, InstructionIs
      <3> QED
        BY <2>2, <3>1
    <2>3. CASE IsBoolOp(expr[pc])
      <3>1. Instr = [ftype |-> expr[pc].ftype, name |-> Name(expr, pc), store |-> TRUE,
                     root |-> pc = Len(expr),
                     lhs |-> Name(expr, pc - 4), rhs |-> Name(expr, pc - 1)]
        <4>1. Instr = Instruction(expr, pc)
          BY <1>2
        <4> QED
          BY <2>3, <4>1, ConnectiveIs
      <3>2. expr[pc].ftype # "eq"
        BY <2>3 DEF IsBoolOp
      <3> QED
        BY <2>1, <3>1, <3>2
    <2> QED
      BY <1>3, <2>2, <2>3 DEF IsResult, IsBoolOp
  <1>5. left \in 1..(pc - 1) /\ pc - 1 \in 1..(pc - 1)
    <2>1. /\ expr[pc].ftype = "eq" => pc > 2
          /\ IsBoolOp(expr[pc]) => pc > 4
      BY <1>2, Neighbours
    <2>2. expr[pc].ftype = "eq" \/ IsBoolOp(expr[pc])
      BY <1>3 DEF IsResult, IsBoolOp
    <2> QED
      BY <1>2, <2>1, <2>2
  <1>6. Value(expr, props, pc) = Result(Instr.ftype, mem[Instr.lhs], mem[Instr.rhs])
    <2>1. Value(expr, props, pc) =
            Result(expr[pc].ftype, Value(expr, props, left), Value(expr, props, pc - 1))
      BY <1>2, <1>3, Values
    <2> HIDE DEF left
    <2> QED
      BY <1>2, <1>4, <1>5, <2>1
  <1>7. mem' = IF Name(expr, pc) \notin NamesBefore(expr, pc)
               THEN Written(mem, Name(expr, pc), Value(expr, props, pc)) ELSE mem
    BY <1>1, <1>4, <1>6 DEF Stored
  <1>8. /\ \A i \in 1..pc :
              Name(expr, i) \in DOMAIN mem' /\ mem'[Name(expr, i)] = Value(expr, props, i)
        /\ PlistAlloc \in DOMAIN mem =>
              PlistAlloc \in DOMAIN mem' /\ mem'[PlistAlloc] = mem[PlistAlloc]
    <2>1. PICK m2 : m2 = mem'
      OBVIOUS
    <2>2. Comparisons(expr) /\ pc \in 1..Len(expr)
      BY <1>2
    <2>3. \A i \in 1..(pc - 1) :
            Name(expr, i) \in DOMAIN mem /\ mem[Name(expr, i)] = Value(expr, props, i)
      BY <1>2
    <2>4. m2 = AfterStore(expr, props, pc, mem)
      BY <1>7, <2>1 DEF AfterStore
    <2>5. Holding(expr, props, pc - 1, mem)
      BY <2>3 DEF Holding
    <2>6. /\ Holding(expr, props, pc, m2)
          /\ PlistAlloc \in DOMAIN mem => PlistAlloc \in DOMAIN m2 /\ m2[PlistAlloc] = mem[PlistAlloc]
      BY <2>2, <2>4, <2>5, StoreStep
    <2> QED
      BY <2>1, <2>6 DEF Holding
  <1>9. KeysBefore(expr, pc + 1) = KeysBefore(expr, pc)
    <2>1. expr[pc].ftype # "key"
      BY <1>3 DEF IsResult
    <2> QED
      BY <1>2, <2>1, NoKeyNext
  <1>10. CASE ~Instr.root
    BY <1>1, <1>2, <1>8, <1>9, <1>10, NextInstruction
  <1>11. CASE Instr.root
    <2>1. pc = Len(expr) /\ Leave(IF mem'[Instr.name] THEN "next" ELSE "end")
      BY <1>1, <1>4, <1>11
    <2>2. mem'[Instr.name] = Holds
      <3>1. mem'[Instr.name] = Value(expr, props, Len(expr))
        BY <1>2, <1>4, <1>8, <2>1
      <3> QED
        BY <1>2, <3>1, LastValue DEF Holds
    <2>3. InChainOrder
      <3>1. KeyTokens = KeysBefore(expr, pc)
        <4>1. pc = Len(expr) /\ Len(expr) \in Nat /\ DOMAIN expr = 1..Len(expr)
          BY <1>2, <2>1
        <4>2. ASSUME NEW i \in 1..Len(expr), expr[i].ftype = "key" PROVE i \in 1..(pc - 1)
          <5>1. i # pc
            BY <1>3, <4>2 DEF IsResult
          <5> QED
            BY <4>1, <5>1
        <4>3. 1..(pc - 1) \subseteq 1..Len(expr)
          BY <4>1
        <4> QED
          BY <4>1, <4>2, <4>3 DEF KeyTokens, KeysBefore
      <3> QED
        BY <1>2, <3>1 DEF InChainOrder
    <2> QED
      BY <2>1, <2>2, <2>3, LeaveExact
  <1> QED
    BY <1>10, <1>11

LEMMA SearchExact ==
  ASSUME Inv, CodeInv, ExecutionInv, SearchKey
  PROVE  ExecutionInv' /\ FilterExact'
  <1> DEFINE from == IF Instr.first THEN 1 ELSE mem[PlistAlloc]
             found == {s \in DOMAIN props : s >= from /\ Instr.value \in DOMAIN props[s]}
  <1>1. phase = "execute" /\ Instr.ftype = "key"
    BY DEF SearchKey, SearchFrom, Executing, Instr
  <1>2. IF found = {} THEN Leave("end")
        ELSE \E s \in found : /\ mem' = Written(Stored(props[s][Instr.value]), PlistAlloc, s)
                              /\ Continue
    <2>1. IF found = {} THEN Leave("end") /\ UNCHANGED mem
          ELSE LET s == CHOOSE s \in found : \A t \in found : s <= t
               IN /\ mem' = Written(Stored(props[s][Instr.value]), PlistAlloc, s)
                  /\ Continue
      BY Zenon DEF SearchKey, SearchFrom
    <2>2. CASE found # {}
      <3>1. found \subseteq Nat
        <4>1. DOMAIN props \subseteq Nat
          BY <1>1, ExecutionFacts DEF Instr, IsChain
        <4> QED
          BY <4>1
      <3>2. \E s \in found : \A t \in found : s <= t
        <4> HIDE DEF found
        <4> QED
          BY <2>2, <3>1, Least
      <3> HIDE DEF found
      <3>3. (CHOOSE s \in found : \A t \in found : s <= t) \in found
        BY <3>2
      <3> QED
        BY <2>1, <2>2, <3>3
    <2> HIDE DEF found
    <2> QED
      BY <2>1, <2>2
  <1>3. /\ Comparisons(expr) /\ pc \in 1..Len(expr) /\ Len(expr) \in Nat
        /\ pc \in Nat \ {0} /\ Instr = Instruction(expr, pc) /\ props \in Chains
        /\ DOMAIN expr = 1..Len(expr) /\ IsChain(props)
        /\ Holding(expr, props, pc - 1, mem)
        /\ InOrder(KeysBefore(expr, pc))
        /\ \A j : LastKey(KeysBefore(expr, pc), j) =>
              PlistAlloc \in DOMAIN mem /\ mem[PlistAlloc] \in SetsOf(props, expr[j].value)
    BY <1>1, ExecutionFacts DEF Instr, Holding
  <1>4. expr[pc].ftype = "key"
    <2>1. expr[pc].ftype = "key" \/ expr[pc].ftype = "int" \/ IsResult(expr, pc)
      BY <1>3, Neighbours DEF IsResult
    <2>2. expr[pc].ftype = "int" => Instr.ftype = "int"
      BY <1>3, InstructionIs
    <2>3. IsResult(expr, pc) => Instr.ftype = expr[pc].ftype
      BY <1>3, InstructionIs DEF IsResult, IsBoolOp
    <2> QED
      BY <1>1, <2>1, <2>2, <2>3 DEF IsResult
  <1>5. /\ Instr.name = Name(expr, pc) /\ Instr.value = expr[pc].value
        /\ Instr.store <=> Name(expr, pc) \notin NamesBefore(expr, pc)
        /\ Instr.first <=> KeysBefore(expr, pc) = {}
    <2>1. Instr = [ftype |-> "key", name |-> Name(expr, pc), value |-> expr[pc].value,
                   store |-> Name(expr, pc) \notin NamesBefore(expr, pc),
                   first |-> KeysBefore(expr, pc) = {}]
      BY <1>3, <1>4, InstructionIs
    <2> QED
      BY <2>1
  <1>6. Value(expr, props, pc) = Property(props, expr[pc].value)
    BY <1>3, <1>4, Values
  <1>7. SetsOf(props, expr[pc].value) \subseteq Nat
    BY <1>3 DEF SetsOf, IsChain
  \* Where the search begins: at the set of the last key.
  <1>8. \A s \in SetsOf(props, expr[pc].value) :
          s \in found \/ \E j \in KeysBefore(expr, pc) : \E p \in SetsOf(props, expr[j].value) : ~(p <= s)
    <2> SUFFICES ASSUME NEW s \in SetsOf(props, expr[pc].value), s \notin found
                 PROVE  \E j \in KeysBefore(expr, pc) :
                          \E p \in SetsOf(props, expr[j].value) : ~(p <= s)
      OBVIOUS
    <2>1. s \in DOMAIN props /\ expr[pc].value \in DOMAIN props[s] /\ s \in Nat /\ s >= 1
      BY <1>3 DEF SetsOf, IsChain
    <2>2. ~(s >= from)
      BY <1>5, <2>1
    <2>3. ~Instr.first
      BY <2>1, <2>2
    <2>4. PICK j : LastKey(KeysBefore(expr, pc), j)
      BY <1>3, <1>5, <2>3, KeysFinite
    <2>5. mem[PlistAlloc] \in SetsOf(props, expr[j].value) /\ j \in KeysBefore(expr, pc)
      BY <1>3, <2>4 DEF LastKey
    <2>6. mem[PlistAlloc] \in Nat
      BY <1>3, <2>5 DEF SetsOf, IsChain
    <2>7. ~(mem[PlistAlloc] <= s)
      BY <2>1, <2>2, <2>3, <2>6
    <2> QED
      BY <2>5, <2>7
  <1>9. ASSUME NEW s \in found
        PROVE  /\ s \in SetsOf(props, expr[pc].value)
               /\ \A j : LastKey(KeysBefore(expr, pc), j) =>
                     \E p \in SetsOf(props, expr[j].value) : p <= s
    <2>1. s \in SetsOf(props, expr[pc].value) /\ s >= from
      BY <1>5 DEF SetsOf
    <2>2. ASSUME NEW j, LastKey(KeysBefore(expr, pc), j)
          PROVE  \E p \in SetsOf(props, expr[j].value) : p <= s
      <3>1. mem[PlistAlloc] \in SetsOf(props, expr[j].value) /\ ~Instr.first
        BY <1>3, <1>5, <2>2 DEF LastKey
      <3>2. mem[PlistAlloc] \in Nat /\ s \in Nat
        BY <1>3, <1>7, <2>1, <3>1 DEF SetsOf, IsChain
      <3>3. mem[PlistAlloc] <= s
        BY <2>1, <3>1, <3>2
      <3> QED
        BY <3>1, <3>3
    <2> QED
      BY <2>1, <2>2
  <1> HIDE DEF from, found
  <1>10. CASE found = {}
    <2>1. ~InChainOrder
      <3>1. pc \in KeyTokens
        BY <1>3, <1>4 DEF KeyTokens
      <3>2. \/ SetsOf(props, expr[pc].value) = {}
            \/ \E j \in KeysBefore(expr, pc), s \in SetsOf(props, expr[pc].value) :
                 \E p \in SetsOf(props, expr[j].value) : ~(p <= s)
        BY <1>8, <1>10
      <3> QED
        BY <1>3, <3>1, <3>2, OutOfOrder
    <2>2. Leave(IF FALSE THEN "next" ELSE "end")
      BY <1>2, <1>10
    <2> QED
      BY <2>1, <2>2, LeaveExact
  <1>11. ASSUME NEW s \in found, Continue,
                mem' = Written(Stored(props[s][Instr.value]), PlistAlloc, s)
         PROVE  ExecutionInv' /\ FilterExact'
    <2>1. /\ SetsOf(props, expr[pc].value) = {s} /\ s \in SetsOf(props, expr[pc].value)
          /\ Property(props, expr[pc].value) = props[s][expr[pc].value]
      BY <1>3, <1>9, SetIs
    <2>2. PICK m2 : m2 = Stored(props[s][Instr.value])
      OBVIOUS
    <2>3. m2 = AfterStore(expr, props, pc, mem)
      BY <1>5, <1>6, <2>1, <2>2 DEF Stored, AfterStore
    <2>4. Holding(expr, props, pc, m2)
      BY <1>3, <2>3, StoreStep
    <2>5. /\ DOMAIN mem' = DOMAIN m2 \cup {PlistAlloc} /\ mem'[PlistAlloc] = s
          /\ \A n \in DOMAIN m2 : n # PlistAlloc => mem'[n] = m2[n]
      BY <1>11, <2>2 DEF Written
    <2>6. ASSUME NEW i \in 1..pc
          PROVE  Name(expr, i) \in DOMAIN mem' /\ mem'[Name(expr, i)] = Value(expr, props, i)
      <3>1. i \in 1..Len(expr)
        BY <1>3
      <3>2. Name(expr, i) # PlistAlloc
        BY <1>3, <3>1, SameName
      <3>3. Name(expr, i) \in DOMAIN m2 /\ m2[Name(expr, i)] = Value(expr, props, i)
        BY <2>4 DEF Holding
      <3> QED
        BY <2>5, <3>2, <3>3
    <2>7. InOrder(KeysBefore(expr, pc + 1))
      BY <1>3, <1>4, <1>9, OrderNext
    <2>8. ASSUME NEW j, LastKey(KeysBefore(expr, pc + 1), j)
          PROVE  PlistAlloc \in DOMAIN mem' /\ mem'[PlistAlloc] \in SetsOf(props, expr[j].value)
      <3>1. KeysBefore(expr, pc + 1) = KeysBefore(expr, pc) \cup {pc}
        BY <1>3, <1>4, NamesNext
      <3>2. \A i \in KeysBefore(expr, pc) : i \in Nat /\ i < pc
        BY <1>3 DEF KeysBefore
      <3>3. pc <= j /\ (j = pc \/ j \in KeysBefore(expr, pc))
        BY <2>8, <3>1 DEF LastKey
      <3>4. j = pc
        BY <1>3, <3>2, <3>3
      <3> QED
        BY <2>1, <2>5, <3>4
    <2> QED
      BY <1>1, <1>3, <1>11, <2>6, <2>7, <2>8, NextInstruction
  <1> QED
    BY <1>2, <1>10, <1>11

LEMMA FctExact ==
  ASSUME Inv, CodeInv, CallFct
  PROVE  ExecutionInv' /\ FilterExact'
  <1>1. phase = "execute" /\ Instr.ftype = "fct" /\ Leave(IF Instr.value THEN "next" ELSE "end")
    BY DEF CallFct, Executing, Instr
  <1>2. pc \in DOMAIN code /\ Visited = Len(expr)
    BY <1>1 DEF Inv, StackInv
  <1>3. /\ DOMAIN code = 1..Len(expr) /\ \A i \in 1..Len(expr) : code[i] = Instruction(expr, i)
        /\ Postfix(expr) /\ Len(expr) \in Nat /\ DOMAIN expr = 1..Len(expr)
        /\ expr[1].ftype # "fct" => Comparisons(expr)
    BY <1>1, <1>2, Compiled
  <1>4. expr[pc].ftype = "fct"
    <2>1. expr[pc].ftype \in {"key", "int", "str", "eq", "and", "or", "fct"}
      BY <1>2, <1>3 DEF Postfix
    <2>2. Instr = Instruction(expr, pc)
      BY <1>2, <1>3 DEF Instr
    <2> QED
      BY <1>1, <2>1, <2>2, InstructionIs DEF IsBoolOp
  <1>5. Len(expr) = 1 /\ pc = 1 /\ expr[1].ftype = "fct"
    <2>1. Len(expr) = 1
      BY <1>2, <1>3, <1>4 DEF Postfix
    <2> QED
      BY <1>2, <1>3, <1>4, <2>1
  <1>6. Instr.value = expr[1].value
    BY <1>2, <1>3, <1>5, InstructionIs DEF Instr
  <1>7. Holds = expr[1].value
    <2>1. /\ Stack(expr, props)[0] = <<>>
          /\ \A n \in 1..Len(expr) :
               Stack(expr, props)[n] = Evaluated(Stack(expr, props)[n - 1], expr[n], props)
      BY <1>3, StackIs
    <2>2. 1 \in 1..Len(expr) /\ 1 - 1 = 0
      BY <1>5
    <2>3. Stack(expr, props)[1] = Evaluated(<<>>, expr[1], props)
      BY <2>1, <2>2
    <2>4. Evaluated(<<>>, expr[1], props) = Append(<<>>, expr[1].value)
      BY <1>5 DEF Evaluated
    <2> QED
      BY <1>5, <2>3, <2>4 DEF Holds
  <1>8. InChainOrder
    <2>1. KeyTokens = {}
      BY <1>3, <1>5 DEF KeyTokens
    <2> QED
      BY <2>1 DEF InChainOrder, InOrder
  <1> QED
    BY <1>1, <1>6, <1>7, <1>8, LeaveExact

\* The parts of the invariant that the theorem needs beyond Inv.
ExactInv == CodeInv /\ ExecutionInv /\ FilterExact

LEMMA ExactInit == Init => ExactInv
  <1> SUFFICES ASSUME Init PROVE ExactInv
    OBVIOUS
  <1>1. /\ phase = "visit" /\ expr_stack = <<>> /\ opd_cnt = 0 /\ gen_vals_ = <<>>
        /\ alloc_stack = {} /\ code = <<>>
    BY DEF Init
  <1>2. Visited = 0 /\ DOMAIN code = {} /\ DOMAIN gen_vals_ = {} /\ 0..(0 - 1) = {} /\ 1..0 = {}
    BY <1>1 DEF Visited
  <1>3. alloc_stack = NamesBefore(expr, 0 + 1)
    BY <1>1, NamesNext
  <1>4. CodeInv
    BY <1>1, <1>2, <1>3 DEF CodeInv
  <1> QED
    BY <1>1, <1>4 DEF ExactInv, ExecutionInv, FilterExact

LEMMA ExactStep == Inv /\ ExactInv /\ [Next]_vars => ExactInv'
  <1> SUFFICES ASSUME Inv, ExactInv, [Next]_vars PROVE ExactInv'
    OBVIOUS
  <1>1. CodeInv /\ ExecutionInv /\ FilterExact
    BY DEF ExactInv
  <1>2. CASE Visit
    <2>1. CodeInv'
      BY <1>1, <1>2, CodeVisit
    <2>2. phase' \in {"visit", "aborted"}
      BY <1>2 DEF Visit, VisitNumber, VisitStr, VisitOperand, VisitKey, VisitEq, VisitEqAs, VisitAnd,
                  VisitOr, VisitBoolOp, VisitFct, Generate, GenerateWith, Abort, Visiting
    <2> QED
      BY <2>1, <2>2 DEF ExactInv, ExecutionInv, FilterExact
  <1>3. ASSUME UNCHANGED <<expr, visitor>>, phase # "aborted" PROVE CodeInv'
    BY <1>1, <1>3 DEF CodeInv, visitor, Visited
  <1>4. CASE Call
    <2>1. /\ UNCHANGED <<expr, visitor>> /\ phase \in {"visit", "done"} /\ phase' = "execute"
          /\ pc' = 1 /\ props' \in Chains
      BY <1>4 DEF Call
    <2>2. KeysBefore(expr', 1) = {} /\ 1..(1 - 1) = {}
      BY DEF KeysBefore
    <2>3. ExecutionInv'
      BY <2>1, <2>2 DEF ExecutionInv, InOrder
    <2> QED
      BY <1>3, <2>1, <2>3 DEF ExactInv, FilterExact
  <1>5. CASE Execute
    <2>1. phase = "execute" /\ UNCHANGED <<expr, visitor>>
      BY <1>5, Zenon DEF Execute, LoadNumber, SearchKey, SearchFrom, Evaluate, CallFct, Leave, Continue,
                         Executing
    <2>2. ExecutionInv' /\ FilterExact'
      BY <1>1, <1>5, LoadExact, SearchExact, EvaluateExact, FctExact DEF Execute
    <2> QED
      BY <1>3, <2>1, <2>2 DEF ExactInv
  <1>6. CASE UNCHANGED vars
    <2>0. UNCHANGED <<expr, props, phase, pc, mem, branch>>
      BY <1>6 DEF vars, execution
    <2>1. ExecutionInv' /\ FilterExact'
      <3>1. InOrder(KeysBefore(expr, pc)) => InOrder(KeysBefore(expr, pc))'
        BY <2>0 DEF InOrder
      <3>2. FilterExact'
        BY <1>1, <2>0 DEF FilterExact, Holds, InOrder, InChainOrder, KeyTokens
      <3>3. ExecutionInv'
        BY <1>1, <2>0, <3>1 DEF ExecutionInv
      <3> QED
        BY <3>2, <3>3
    <2>2. CodeInv'
      BY <1>1, <1>6 DEF vars, CodeInv, visitor, Visited
    <2> QED
      BY <2>1, <2>2 DEF ExactInv
  <1> QED
    BY <1>2, <1>4, <1>5, <1>6 DEF Next

\* What the visitor has put where, on the operand stack and in the code, which is
\* a function of the expression; and what the memory holds in front of each
\* instruction.
THEOREM FilterState == Spec => []FilterInv
  BY InvInit, InvStep, ExactInit, ExactStep, PTL DEF Spec, Inv, ExactInv, FilterInv

\* The code that a filter is compiled to lets a node pass exactly if the
\* expression holds of it and the search finds its keys in the order of the
\* chain: whatever the expression, its depth and its keys.
THEOREM Exact == Spec => []FilterExact
  BY InvInit, InvStep, ExactInit, ExactStep, PTL DEF Spec, ExactInv
=============================================================================
