-------------------------- MODULE FilterExpression --------------------------
(***************************************************************************)
(* Compilation of a filter expression by fep_visitor                       *)
(* (filter_expression.cpp), and the code it emits.  accept visits an       *)
(* expression in postfix order; a visit pushes its token in front of       *)
(* expr_stack, from which nothing is removed, and finds its operands by    *)
(* their distance from the front.  alloc names the memory of a value and   *)
(* emits the store to it only when the name is new.                        *)
(*                                                                         *)
(* The blocks are executed in the order of the visits and leave only to    *)
(* next_, where the filter lets a tuple pass, or to end_.  The properties  *)
(* of a node are a chain of property sets (external).                      *)
(***************************************************************************)
EXTENDS Integers, SequencesExt

CONSTANTS
  Exprs,   \* expressions: sequences of tokens in postfix order
  Chains,  \* sequences of property sets: functions from keys to numbers
  Null

\* Tokens.  A comparison is a key, its operand and "eq".
Token(ftype, value) == [ftype |-> ftype, value |-> value]
Key(key) == Token("key", key)
Number(value) == Token("int", value)
Str(value) == Token("str", value)
EQ(key, operand) == <<Key(key), operand, Token("eq", Null)>>
AND(left, right) == left \o right \o <<Token("and", Null)>>
OR(left, right) == left \o right \o <<Token("or", Null)>>
Fct(result) == <<Token("fct", result)>>
IsBoolOp(token) == token.ftype \in {"and", "or"}
Result(ftype, lhs, rhs) ==
  CASE ftype = "eq" -> lhs = rhs [] ftype = "and" -> lhs /\ rhs [] ftype = "or" -> lhs \/ rhs

\* Those of the first n tokens that have one of the types.
TokensOf(e, ftypes, n) == {i \in 1..n : e[i].ftype \in ftypes}

\* The results that the first n tokens leave: of two, a connective leaves one.
Results(e, n) ==
  Cardinality(TokensOf(e, {"eq"}, n)) - Cardinality(TokensOf(e, {"and", "or"}, n))

\* accept visits a comparison's key and operand before it, and both operands of
\* a connective; the root's result is the only one that is left.  A function is
\* an expression of its own, as in the repository's programs.
Postfix(e) ==
  /\ Len(e) \in Nat \ {0} /\ DOMAIN e = 1..Len(e)
  /\ \A i \in 1..Len(e) :
       /\ e[i].ftype \in {"key", "int", "str", "eq", "and", "or", "fct"}
       /\ e[i].ftype = "key" => i + 1 \in DOMAIN e /\ e[i + 1].ftype \in {"int", "str"}
       /\ e[i].ftype \in {"int", "str"} =>
            /\ i - 1 \in DOMAIN e /\ e[i - 1].ftype = "key"
            /\ i + 1 \in DOMAIN e /\ e[i + 1].ftype = "eq"
       /\ e[i].ftype = "eq" => i - 1 \in DOMAIN e /\ e[i - 1].ftype \in {"int", "str"}
       /\ e[i].ftype = "fct" => Len(e) = 1 /\ e[i].value \in BOOLEAN
       /\ IsBoolOp(e[i]) => Results(e, i - 1) >= 2
  /\ e[1].ftype # "fct" => Results(e, Len(e)) = 1

\* A node has one value of a property, in one of its property sets.
IsChain(chain) ==
  /\ Len(chain) \in Nat /\ DOMAIN chain = 1..Len(chain)
  /\ \A s, t \in DOMAIN chain : s # t => DOMAIN chain[s] \cap DOMAIN chain[t] = {}

ASSUME ExprsAssumption == \A e \in Exprs : Postfix(e)
ASSUME ChainsAssumption == \A chain \in Chains : IsChain(chain)
PlistAlloc == <<"roi_plist_alloc">>

\* The memory m after a store to name.
Written(m, name, value) ==
  [n \in DOMAIN m \cup {name} |-> IF n = name THEN value ELSE m[n]]

VARIABLES
  expr,         \* the expression
  phase,        \* "visit", "execute", "done", or "aborted": undefined behaviour
  expr_stack,   \* the visited tokens, the last one first, each with its opd_num
  opd_cnt,
  gen_vals_,    \* by opd_num: the name of the memory of the value
  alloc_stack,  \* the names in use
  code,         \* per visit: the instruction that its blocks amount to
  props,        \* the chain of the node at hand
  pc,           \* the next instruction
  mem,          \* the memory, by name
  branch        \* the block that was reached in the end

visitor == <<expr_stack, opd_cnt, gen_vals_, alloc_stack, code>>
execution == <<pc, mem, branch>>
vars == <<expr, props, phase, visitor, execution>>

Init ==
  /\ expr \in Exprs /\ props = <<>>
  /\ phase = "visit"
  /\ expr_stack = <<>> /\ opd_cnt = 0 /\ gen_vals_ = <<>> /\ alloc_stack = {}
  /\ code = <<>>
  /\ pc = 1 /\ mem = <<>> /\ branch = Null

-----------------------------------------------------------------------------
(***************************************************************************)
(* The visits.                                                             *)
(***************************************************************************)
Visited == Len(expr_stack)
Visiting(ftypes) ==
  phase = "visit" /\ Visited < Len(expr) /\ expr[Visited + 1].ftype \in ftypes
Tok == expr[Visited + 1]
IsRoot == Visited + 1 = Len(expr)  \* rank = 0

\* (Mutant: the token is put behind the others.)
PushBehind == expr_stack' = Append(expr_stack, [ftype |-> Tok.ftype, opd_num |-> opd_cnt])

Push == expr_stack' = <<[ftype |-> Tok.ftype, opd_num |-> opd_cnt]>> \o expr_stack
IsNew(name) == name \notin alloc_stack
OpdOf(it) == expr_stack'[it + 1].opd_num

\* alloc: the visited token's value is in the memory called name.
GenerateWith(names, name, instr) ==
  /\ gen_vals_' = Written(gen_vals_, opd_cnt, name)
  /\ alloc_stack' = alloc_stack \cup names
  /\ code' = Append(code, instr)
  /\ opd_cnt' = opd_cnt + 1
  /\ UNCHANGED <<expr, props, phase, execution>>

\* (Mutant: the name is not entered.)
GenerateUnnamed(name, instr) == GenerateWith({}, name, instr)

Generate(name, instr) ==
  GenerateWith({name} \cup IF Tok.ftype = "key" THEN {PlistAlloc} ELSE {}, name, instr)

Abort ==
  /\ phase' = "aborted"
  /\ UNCHANGED <<expr, props, opd_cnt, gen_vals_, alloc_stack, code, execution>>

VisitOperand(ftype) ==
  /\ Visiting({ftype})
  /\ Push
  /\ LET name == <<"int", Tok.value>>
     IN Generate(name, [ftype |-> "int", name |-> name, value |-> Tok.value,
                        store |-> IsNew(name)])
VisitNumber == VisitOperand("int")
VisitStr == VisitOperand("str")

\* The search begins with the first property set only if it is the first.
VisitKey ==
  /\ Visiting({"key"})
  /\ Push
  /\ LET name == <<"pitem", Tok.value>>
     IN Generate(name, [ftype |-> "key", name |-> name, value |-> Tok.value,
                        store |-> IsNew(name), first |-> IsNew(PlistAlloc)])

\* No case for a string: its result has no memory, and the branch or the node
\* above loads from a null pointer.
VisitEqAs(name) ==
  /\ Visiting({"eq"})
  /\ Push
  /\ IF expr_stack'[2].ftype = "int"
     THEN Generate(name, [ftype |-> "eq", name |-> name, store |-> IsNew(name), root |-> IsRoot,
                          lhs |-> gen_vals_[OpdOf(2)], rhs |-> gen_vals_[OpdOf(1)]])
     ELSE Abort

\* (Mutant: the memory of a result is not named after the operand.)
VisitEqUnnumbered == VisitEqAs(<<"cmp", 0>>)

VisitEq == VisitEqAs(<<"cmp", opd_cnt>>)

\* The left operand is 2^(2 + offset) tokens from the front, where offset counts
\* the and/or nodes from the right operand on towards the front.  If the right
\* operand is one, so is the token in front of it, and the count runs out of
\* the stack.
VisitBoolOp(ftype, distance) ==
  /\ Visiting({ftype})
  /\ Push
  /\ LET name == <<"cmp", opd_cnt>>
     IN IF ~IsBoolOp(expr_stack'[2]) /\ distance < Len(expr_stack')
           /\ expr_stack'[distance + 1].ftype \in {"eq", "and", "or"}
        THEN Generate(name, [ftype |-> Tok.ftype, name |-> name, store |-> TRUE, root |-> IsRoot,
                             lhs |-> gen_vals_[OpdOf(distance)], rhs |-> gen_vals_[OpdOf(1)]])
        ELSE Abort

\* (Mutant: the tokens of a comparison are counted as two.)
VisitAndShort == VisitBoolOp("and", 3)

VisitAnd == VisitBoolOp("and", 4)
VisitOr == VisitBoolOp("or", 4)

\* The result is branched on at once.
VisitFct ==
  /\ Visiting({"fct"})
  /\ Push
  /\ code' = Append(code, [ftype |-> "fct", value |-> Tok.value])
  /\ UNCHANGED <<expr, props, phase, opd_cnt, gen_vals_, alloc_stack, execution>>

Visit ==
  \/ VisitNumber \/ VisitStr \/ VisitKey \/ VisitFct
  \/ VisitEq \/ VisitAnd \/ VisitOr

-----------------------------------------------------------------------------
(***************************************************************************)
(* Execution, for any number of nodes.                                     *)
(***************************************************************************)
Call ==
  /\ phase \in {"visit", "done"} /\ Visited = Len(expr)
  /\ phase' = "execute" /\ pc' = 1 /\ mem' = <<>> /\ branch' = Null
  /\ props' \in Chains
  /\ UNCHANGED <<expr, visitor>>

Executing(ftypes) == phase = "execute" /\ code[pc].ftype \in ftypes
Instr == code[pc]
Stored(value) == IF Instr.store THEN Written(mem, Instr.name, value) ELSE mem
Leave(block) ==
  phase' = "done" /\ branch' = block /\ UNCHANGED <<expr, props, visitor, pc>>
Continue == pc' = pc + 1 /\ UNCHANGED <<expr, props, phase, visitor, branch>>

LoadNumber ==
  /\ Executing({"int"})
  /\ mem' = Stored(Instr.value)
  /\ Continue

\* The search resumes at the property set where the previous one has ended; a
\* key that it does not find makes the whole filter false.
SearchFrom(plist_id) ==
  /\ Executing({"key"})
  /\ LET found == {s \in DOMAIN props : s >= plist_id /\ Instr.value \in DOMAIN props[s]}
     IN IF found = {} THEN Leave("end") /\ UNCHANGED mem
        ELSE LET s == CHOOSE s \in found : \A t \in found : s <= t
             IN /\ mem' = Written(Stored(props[s][Instr.value]), PlistAlloc, s)
                /\ Continue

SearchKey == SearchFrom(IF Instr.first THEN 1 ELSE mem[PlistAlloc])

Evaluate ==
  /\ Executing({"eq", "and", "or"})
  /\ mem' = Stored(Result(Instr.ftype, mem[Instr.lhs], mem[Instr.rhs]))
  /\ IF Instr.root THEN Leave(IF mem'[Instr.name] THEN "next" ELSE "end") ELSE Continue

CallFct ==
  /\ Executing({"fct"})
  /\ Leave(IF Instr.value THEN "next" ELSE "end")
  /\ UNCHANGED mem

Execute == LoadNumber \/ SearchKey \/ Evaluate \/ CallFct

Next == Visit \/ Call \/ Execute

Spec == Init /\ [][Next]_vars
-----------------------------------------------------------------------------
(***************************************************************************)
(* What an expression means, and where the emitted code agrees.            *)
(***************************************************************************)
SetsOf(chain, key) == {s \in DOMAIN chain : key \in DOMAIN chain[s]}
Property(chain, key) ==
  IF SetsOf(chain, key) = {} THEN Null ELSE chain[CHOOSE s \in SetsOf(chain, key) : TRUE][key]

\* The stack of values, st, after token t.
Evaluated(st, t, chain) ==
  LET n == Len(st)
  IN CASE t.ftype = "key" -> Append(st, Property(chain, t.value))
       [] t.ftype \in {"int", "str", "fct"} -> Append(st, t.value)
       [] t.ftype \in {"eq", "and", "or"} ->
            Append(SubSeq(st, 1, n - 2), Result(t.ftype, st[n - 1], st[n]))
Stack(e, chain) ==
  LET stack[n \in 0..Len(e)] ==
        IF n = 0 THEN <<>> ELSE Evaluated(stack[n - 1], e[n], chain)
  IN stack
Holds == Stack(expr, props)[Len(expr)][1]

\* Types; and the memory of every generated value was allocated by alloc, which
\* would otherwise allocate and store it again.
TypeOK ==
  /\ phase \in {"visit", "execute", "done", "aborted"}
  /\ Len(expr_stack) <= Len(expr) /\ Len(code) <= Len(expr_stack)
  /\ DOMAIN gen_vals_ \subseteq 0..(opd_cnt - 1)
  /\ \A n \in DOMAIN gen_vals_ : gen_vals_[n] \in alloc_stack
  /\ pc \in 1..(Len(expr) + 1)
  /\ branch \in {Null, "next", "end"}

\* Comparisons with numbers, the right operand of a connective a comparison.
LeftNested ==
  \A i \in DOMAIN expr :
    expr[i].ftype # "str" /\ (IsBoolOp(expr[i]) => ~IsBoolOp(expr[i - 1]))

\* Such an expression is compiled, however deep it is: operands that are looked up
\* by their position are there and are values of comparisons.
FilterCompiles == LeftNested => phase # "aborted"

KeyTokens == {i \in DOMAIN expr : expr[i].ftype = "key"}

\* Every one of the keys is in the chain, none in a set before that of a key
\* visited earlier.
InOrder(keys) ==
  \A i, j \in keys :
    /\ SetsOf(props, expr[i].value) # {}
    /\ i < j => \A s \in SetsOf(props, expr[i].value), t \in SetsOf(props, expr[j].value) : s <= t
InChainOrder == InOrder(KeyTokens)

\* The emitted code lets a node pass exactly if the expression holds of it and the
\* search, which never goes back, finds all keys: it never lets one pass of
\* which the expression is false, and misses none for another reason.
FilterExact ==
  phase = "done" => (branch = "next" <=> Holds /\ InChainOrder)
-----------------------------------------------------------------------------
(***************************************************************************)
(* Why these properties hold: an inductive invariant.                      *)
(***************************************************************************)

\* expr_stack holds the visited tokens, the last one in front, and code their
\* instructions in the order of the visits; only the last of them leaves for
\* good, and it does.
StackInv ==
  /\ expr \in Exprs
  /\ Visited <= Len(expr)
  /\ \A j \in 1..Visited : expr_stack[j].ftype = expr[Visited + 1 - j].ftype
  /\ phase # "aborted" => Len(code) = Visited
  /\ \A i \in DOMAIN code :
       /\ code[i].ftype = IF expr[i].ftype = "str" THEN "int" ELSE expr[i].ftype
       /\ code[i].ftype \in {"eq", "and", "or"} => code[i].root = (i = Len(expr))
  /\ phase \in {"execute", "done"} => Visited = Len(expr)
  /\ phase = "execute" => pc \in DOMAIN code

\* The memory of the value of token i, and the instruction that is emitted for it.
Name(e, i) ==
  CASE e[i].ftype = "key"           -> <<"pitem", e[i].value>>
    [] e[i].ftype \in {"int", "str"} -> <<"int", e[i].value>>
    [] OTHER                        -> <<"cmp", i - 1>>
KeysBefore(e, i) == {j \in 1..(i - 1) : e[j].ftype = "key"}
NamesBefore(e, i) ==
  {Name(e, j) : j \in 1..(i - 1)} \cup IF KeysBefore(e, i) = {} THEN {} ELSE {PlistAlloc}
Instruction(e, i) ==
  LET New == Name(e, i) \notin NamesBefore(e, i)
      Compare(left, store) ==
        [ftype |-> e[i].ftype, name |-> Name(e, i), store |-> store, root |-> i = Len(e),
         lhs |-> Name(e, i - left), rhs |-> Name(e, i - 1)]
  IN CASE e[i].ftype \in {"int", "str"} ->
            [ftype |-> "int", name |-> Name(e, i), value |-> e[i].value, store |-> New]
       [] e[i].ftype = "key" ->
            [ftype |-> "key", name |-> Name(e, i), value |-> e[i].value, store |-> New,
             first |-> KeysBefore(e, i) = {}]
       [] e[i].ftype = "eq" -> Compare(2, New)
       [] IsBoolOp(e[i]) -> Compare(4, TRUE)
       [] e[i].ftype = "fct" -> [ftype |-> "fct", value |-> e[i].value]

\* The code is a function of the expression: every operand is the memory of the
\* value that the expression means.
CodeInv ==
  phase # "aborted" =>
    /\ \A i \in DOMAIN code :
         /\ code[i] = Instruction(expr, i)
         /\ expr[i].ftype = "eq" => expr[i - 1].ftype # "str"
         /\ IsBoolOp(expr[i]) => ~IsBoolOp(expr[i - 1])
    /\ expr[1].ftype # "fct" =>
         /\ opd_cnt = Visited
         /\ \A j \in 1..Visited : expr_stack[j].opd_num = Visited - j
         /\ DOMAIN gen_vals_ = 0..(Visited - 1)
         /\ \A n \in DOMAIN gen_vals_ : gen_vals_[n] = Name(expr, n + 1)
         /\ alloc_stack = NamesBefore(expr, Visited + 1)

\* In front of instruction pc, the memory holds the values of all tokens before
\* it; the search for the keys among them has found them, and has ended at the
\* set of the last one.
Value(e, chain, i) == LET st == Stack(e, chain)[i] IN st[Len(st)]
ExecutionInv ==
  phase = "execute" =>
    /\ props \in Chains
    /\ \A i \in 1..(pc - 1) : Name(expr, i) \in DOMAIN mem /\ mem[Name(expr, i)] = Value(expr, props, i)
    /\ InOrder(KeysBefore(expr, pc))
    /\ \A j \in KeysBefore(expr, pc) :
         (\A i \in KeysBefore(expr, pc) : i <= j) =>
            PlistAlloc \in DOMAIN mem /\ mem[PlistAlloc] \in SetsOf(props, expr[j].value)

FilterInv == StackInv /\ CodeInv /\ ExecutionInv
=============================================================================
