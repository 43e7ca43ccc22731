---------------------- MODULE ParallelJoinResultProofs ----------------------
(***************************************************************************)
(* What the threads of a parallel join put into the result set, for any    *)
(* number of chunks, threads, nodes and calls: every pair of tuples of one *)
(* thread's range, and, if the client empties rhs_input_ and every thread  *)
(* has a chunk, no pair twice.                                             *)
(***************************************************************************)
EXTENDS ParallelJoinProofs, WellFoundedInduction

\* The scan's next node is one it has left.
LEMMA NextIsLeft ==
  ASSUME TypeOK, NEW t \in Thread, th[t].left # {}
  PROVE  Next1(t) \in th[t].left
  <1> DEFINE S == th[t].left
  <1>1. S \subseteq Nat
    <2>1. th[t] \in ThreadState
      BY DEF TypeOK, Thread
    <2> QED
      BY <2>1, ParallelJoinAssumption DEF ThreadState, Node
  <1> DEFINE R == {ss \in Nat \X Nat : ss[1] < ss[2]}
  <1>r. IsWellFoundedOn(R, Nat)
    BY NatLessThanWellFounded DEF OpToRel
  <1>2. \E x \in S : \A y \in S : ~(<<y, x>> \in R)
    BY <1>1, <1>r, WFMin
  <1>p. ASSUME NEW x \in Nat, NEW y \in Nat, ~(<<y, x>> \in R) PROVE x <= y
    <2>1. ~(y < x)
      BY <1>p
    <2> QED
      BY <2>1
  <1> HIDE DEF R, S
  <1>3. \E x \in S : \A y \in S : x <= y
    BY <1>1, <1>2, <1>p
  <1>4. Min(S) \in S
    BY <1>3 DEF Min
  <1> QED
    BY <1>4 DEF Next1, S

\* A step of thread t: its record is replaced, every range stays.
LEMMA CompiledFrame ==
  ASSUME TypeOK, NEW t \in Thread, Compiled(t)
  PROVE  /\ UNCHANGED main /\ status = "ok" /\ Thread' = Thread
         /\ th'[t] \in ThreadState
         /\ \A u \in Thread : u # t => th'[u] = th[u]
         /\ \A u \in Thread : RangeOf(u)' = RangeOf(u)
  <1>1. PICK r \in ThreadState :
          /\ r.first = th[t].first /\ r.last = th[t].last
          /\ th' = [th EXCEPT ![t] = r]
    BY ThreadStep
  <1>2. /\ Thread' = Thread
        /\ \A u \in Thread : th'[u] = IF u = t THEN r ELSE th[u]
    BY <1>1 DEF Thread, TypeOK
  <1>3. UNCHANGED main /\ status = "ok"
    BY DEF Compiled, Materialize, BeginLhs, EnterJoin, JoinNext, LeaveJoin,
           Finish, At
  <1>4. ASSUME NEW u \in Thread PROVE RangeOf(u)' = RangeOf(u)
    <2>1. th'[u].first = th[u].first /\ th'[u].last = th[u].last
      BY <1>1, <1>2
    <2>2. num_chunks' = num_chunks
      BY <1>3 DEF main
    <2> QED
      BY <2>1, <2>2 DEF RangeOf, NodesOf, Stored
  <1> QED
    BY <1>1, <1>2, <1>3, <1>4

\* What a thread's step does to the record of the thread.
LEMMA StepTo ==
  ASSUME TypeOK, NEW t \in Thread, NEW r, Step(t, r)
  PROVE  th'[t] = r
  BY DEF Step, TypeOK, Thread

LEMMA FieldTypes ==
  ASSUME TypeOK, NEW t \in Thread
  PROVE  /\ th[t] \in ThreadState
         /\ th[t].at \in {"rhs", "lhs", "join", "done"}
         /\ th[t].left \subseteq Node
         /\ th[t].idx \in Nat /\ th[t].max \in Nat
  <1>1. th[t] \in ThreadState
    BY DEF TypeOK, Thread
  <1> QED
    BY <1>1 DEF ThreadState

\* A pair joined once more.
LEMMA OutPlus ==
  ASSUME TypeOK, NEW pair \in Lhs \X Rhs, out' = [out EXCEPT ![pair] = @ + 1]
  PROVE  /\ out'[pair] = out[pair] + 1
         /\ \A p \in Lhs \X Rhs : p # pair => out'[p] = out[p]
  BY DEF TypeOK

\* The pair a thread joins next is one of a left and a right tuple.
LEMMA PairType ==
  ASSUME TypeOK, NEW t \in Thread, OwnInv(t), JoinNext(t)
  PROVE  /\ th[t].lhs \in Lhs /\ rhs_input_[th[t].idx + 1] \in Rhs
         /\ th[t].idx + 1 \in 1..th[t].max /\ th[t].max <= Len(rhs_input_)
  <1>1. /\ th[t].lhs \in Lhs /\ th[t].idx < th[t].max /\ th[t].max <= Len(rhs_input_)
    BY DEF JoinNext, At, OwnInv
  <1>2. th[t].idx + 1 \in 1..Len(rhs_input_) /\ th[t].idx + 1 \in 1..th[t].max
    BY <1>1, FieldTypes DEF TypeOK
  <1>3. rhs_input_[th[t].idx + 1] \in Rhs
    BY <1>2 DEF TypeOK
  <1> QED
    BY <1>1, <1>2, <1>3

(***************************************************************************)
(* JoinsOwnRange.                                                          *)
(***************************************************************************)

\* Tuples are only added, to rhs_input_ at its end.
Grows ==
  /\ Len(rhs_input_) <= Len(rhs_input_')
  /\ \A i \in 1..Len(rhs_input_) : rhs_input_'[i] = rhs_input_[i]
  /\ \A p \in Lhs \X Rhs : out'[p] >= out[p]

LEMMA CompiledGrows ==
  ASSUME TypeOK, NEW t \in Thread, OwnInv(t), Compiled(t)
  PROVE  Grows
  <1>t. rhs_input_ \in Seq(Rhs) /\ Len(rhs_input_) \in Nat /\ out \in [Lhs \X Rhs -> Nat]
    BY DEF TypeOK
  <1>1. CASE Materialize(t)
    <2>1. CASE Next1(t) \in Rhs
      <3>1. rhs_input_' = Append(rhs_input_, Next1(t)) /\ out' = out
        BY <1>1, <2>1 DEF Materialize
      <3> QED
        BY <3>1, <2>1, <1>t, AppendProperties DEF Grows
    <2>2. CASE Next1(t) \notin Rhs
      BY <1>1, <2>2, <1>t DEF Materialize, Grows
    <2> QED
      BY <2>1, <2>2
  <1>2. CASE JoinNext(t)
    <2> DEFINE pair == <<th[t].lhs, rhs_input_[th[t].idx + 1]>>
    <2>1. pair \in Lhs \X Rhs
      BY <1>2, PairType
    <2>2. rhs_input_' = rhs_input_ /\ out' = [out EXCEPT ![pair] = @ + 1]
      BY <1>2 DEF JoinNext
    <2> HIDE DEF pair
    <2>3. \A p \in Lhs \X Rhs : out'[p] >= out[p]
      BY <2>1, <2>2, <1>t
    <2> QED
      BY <2>2, <2>3, <1>t DEF Grows
  <1>3. CASE BeginLhs(t) \/ EnterJoin(t) \/ LeaveJoin(t) \/ Finish(t)
    BY <1>3, <1>t DEF BeginLhs, EnterJoin, LeaveJoin, Finish, Grows
  <1> QED
    BY <1>1, <1>2, <1>3 DEF Compiled

LEMMA HoldsGrows ==
  ASSUME TypeOK, Grows, NEW n \in Nat, n <= Len(rhs_input_), NEW r, Holds(r, n)
  PROVE  Holds(r, n)'
  <1>1. PICK i \in 1..n : rhs_input_[i] = r
    BY DEF Holds
  <1>2. i \in 1..Len(rhs_input_)
    BY DEF TypeOK
  <1>3. rhs_input_'[i] = r
    BY <1>1, <1>2 DEF Grows
  <1> QED
    BY <1>3 DEF Holds

LEMMA HoldsMore ==
  ASSUME NEW m \in Nat, NEW n \in Nat, m <= n, NEW r, Holds(r, m)
  PROVE  Holds(r, n)
  BY DEF Holds

\* What a thread has, it keeps while the others go on.
LEMMA OwnKept ==
  ASSUME TypeOK, TypeOK', Grows, NEW u \in Thread, th'[u] = th[u],
         RangeOf(u)' = RangeOf(u), OwnInv(u)
  PROVE  OwnInv(u)'
  <1> DEFINE T == th[u]
             L == Lhs \cap RangeOf(u)
             R == Rhs \cap RangeOf(u)
  <1>t. /\ Len(rhs_input_) \in Nat /\ Len(rhs_input_') \in Nat /\ T.idx \in Nat /\ T.max \in Nat
        /\ out \in [Lhs \X Rhs -> Nat] /\ out' \in [Lhs \X Rhs -> Nat]
        /\ Len(rhs_input_) <= Len(rhs_input_') /\ rhs_input_ \in Seq(Rhs)
    BY FieldTypes DEF TypeOK, Grows
  <1>h. \A r : Holds(r, Len(rhs_input_)) => Holds(r, Len(rhs_input_))'
    <2> SUFFICES ASSUME NEW r, Holds(r, Len(rhs_input_)) PROVE Holds(r, Len(rhs_input_))'
      OBVIOUS
    <2>1. PICK i \in 1..Len(rhs_input_) : rhs_input_[i] = r
      BY DEF Holds
    <2>2. i \in 1..Len(rhs_input_') /\ rhs_input_'[i] = r
      BY <2>1, <1>t DEF Grows
    <2> QED
      BY <2>2 DEF Holds
  <1>o. \A l \in Lhs, r \in Rhs : out[<<l, r>>] >= 1 => out'[<<l, r>>] >= 1
    <2> SUFFICES ASSUME NEW l \in Lhs, NEW r \in Rhs, out[<<l, r>>] >= 1
                 PROVE  out'[<<l, r>>] >= 1
      OBVIOUS
    <2>1. <<l, r>> \in Lhs \X Rhs
      OBVIOUS
    <2>2. out'[<<l, r>>] >= out[<<l, r>>] /\ out'[<<l, r>>] \in Nat /\ out[<<l, r>>] \in Nat
      BY <2>1, <1>t DEF Grows
    <2> QED
      BY <2>2
  <1>1. T.at = "rhs" => \A r \in R \ T.left : Holds(r, Len(rhs_input_))'
    BY <1>h DEF OwnInv
  <1>2. T.at = "lhs" => \A r \in R : Holds(r, Len(rhs_input_))'
    BY <1>h DEF OwnInv
  <1>3. ASSUME T.at = "join"
        PROVE  /\ T.lhs \in Lhs
               /\ T.idx <= T.max /\ T.max <= Len(rhs_input_')
               /\ \A r \in R : Holds(r, T.max)'
               /\ \A i \in 1..T.idx : out'[<<T.lhs, rhs_input_'[i]>>] >= 1
    <2>1. /\ T.lhs \in Lhs /\ T.idx <= T.max /\ T.max <= Len(rhs_input_)
          /\ \A r \in R : Holds(r, T.max)
          /\ \A i \in 1..T.idx : out[<<T.lhs, rhs_input_[i]>>] >= 1
      BY <1>3 DEF OwnInv
    <2>2. \A r \in R : Holds(r, T.max)'
      <3> SUFFICES ASSUME NEW r \in R PROVE Holds(r, T.max)'
        OBVIOUS
      <3> DEFINE m == T.max
      <3>1. m \in Nat /\ m <= Len(rhs_input_) /\ Holds(r, m) /\ m' = m
        BY <2>1, <1>t
      <3>2. PICK i \in 1..m : rhs_input_[i] = r
        BY <3>1 DEF Holds
      <3>3. rhs_input_'[i] = r
        BY <3>1, <3>2, <1>t DEF Grows
      <3> QED
        BY <3>1, <3>2, <3>3 DEF Holds
    <2>3. ASSUME NEW i \in 1..T.idx PROVE out'[<<T.lhs, rhs_input_'[i]>>] >= 1
      <3>1. i \in 1..Len(rhs_input_)
        BY <2>1, <1>t
      <3>2. rhs_input_'[i] = rhs_input_[i] /\ rhs_input_[i] \in Rhs
        BY <3>1, <1>t DEF Grows
      <3> QED
        BY <3>2, <2>1, <1>o
    <2> QED
      BY <2>1, <2>2, <2>3, <1>t
  <1>4. T.at # "rhs" => \A l \in L \ T.left : \A r \in R :
          (T.at = "join" => l # T.lhs) => out'[<<l, r>>] >= 1
    BY <1>o DEF OwnInv
  <1>5. T.at = "done" => T.left = {}
    BY DEF OwnInv
  <1> QED
    BY <1>1, <1>2, <1>3, <1>4, <1>5 DEF OwnInv

\* A thread's own step.
LEMMA OwnStep ==
  ASSUME TypeOK, TypeOK', NEW t \in Thread, OwnInv(t), Compiled(t)
  PROVE  OwnInv(t)'
  <1> DEFINE T == th[t]
             U == th'[t]
             L == Lhs \cap RangeOf(t)
             R == Rhs \cap RangeOf(t)
             n == Next1(t)
  <1>t. /\ Len(rhs_input_) \in Nat /\ T.idx \in Nat /\ T.max \in Nat /\ T \in ThreadState
        /\ rhs_input_ \in Seq(Rhs) /\ out \in [Lhs \X Rhs -> Nat]
    BY FieldTypes DEF TypeOK
  <1>r. RangeOf(t)' = RangeOf(t)
    BY CompiledFrame
  <1>g. Grows
    BY CompiledGrows
  <1>1. CASE Materialize(t)
    <2>1. U = [T EXCEPT !.left = @ \ {n}] /\ T.at = "rhs"
      BY <1>1, StepTo DEF Materialize, At
    <2>2. U.at = "rhs" /\ U.left = T.left \ {n}
      BY <2>1, <1>t DEF ThreadState
    <2>3. ASSUME NEW r \in R \ U.left PROVE Holds(r, Len(rhs_input_))'
      <3>1. CASE r \notin T.left
        <4>1. Holds(r, Len(rhs_input_))
          BY <2>1, <3>1 DEF OwnInv
        <4>2. PICK i \in 1..Len(rhs_input_) : rhs_input_[i] = r
          BY <4>1 DEF Holds
        <4>3. i \in 1..Len(rhs_input_') /\ rhs_input_'[i] = r
          <5>1. Len(rhs_input_') \in Nat
            BY DEF TypeOK
          <5> QED
            BY <4>2, <5>1, <1>g, <1>t DEF Grows
        <4> QED
          BY <4>3 DEF Holds
      <3>2. CASE r \in T.left
        <4>1. r = n /\ r \in Rhs
          BY <2>2, <3>2
        <4>2. rhs_input_' = Append(rhs_input_, r)
          BY <1>1, <4>1 DEF Materialize
        <4>3. Len(rhs_input_') = Len(rhs_input_) + 1 /\ rhs_input_'[Len(rhs_input_) + 1] = r
          BY <4>1, <4>2, <1>t, AppendProperties
        <4>4. Len(rhs_input_) + 1 \in 1..Len(rhs_input_')
          BY <4>3, <1>t
        <4> QED
          BY <4>3, <4>4 DEF Holds
      <3> QED
        BY <3>1, <3>2
    <2> QED
      BY <2>2, <2>3, <1>r DEF OwnInv
  <1>2. CASE BeginLhs(t)
    <2>1. U = [T EXCEPT !.at = "lhs", !.left = RangeOf(t)] /\ T.at = "rhs" /\ T.left = {}
          /\ rhs_input_' = rhs_input_
      BY <1>2, StepTo DEF BeginLhs, At, RangeOf
    <2>2. U.at = "lhs" /\ U.left = RangeOf(t)
      BY <2>1, <1>t DEF ThreadState
    <2>3. \A r \in R : Holds(r, Len(rhs_input_))'
      BY <2>1 DEF OwnInv, Holds
    <2> QED
      BY <2>2, <2>3, <1>r DEF OwnInv
  <1>3. CASE EnterJoin(t)
    <2>1. T.at = "lhs" /\ rhs_input_' = rhs_input_ /\ out' = out
      BY <1>3 DEF EnterJoin, At
    <2>2. /\ \A r \in R : Holds(r, Len(rhs_input_))
          /\ \A l \in L \ T.left : \A r \in R : out[<<l, r>>] >= 1
      BY <2>1 DEF OwnInv
    <2>3. CASE n \in Lhs
      <3>1. U = [T EXCEPT !.left = @ \ {n}, !.at = "join", !.lhs = n, !.idx = 0,
                          !.max = Len(rhs_input_)]
        BY <1>3, <2>3, StepTo DEF EnterJoin
      <3>2. /\ U.at = "join" /\ U.left = T.left \ {n} /\ U.lhs = n /\ U.idx = 0
            /\ U.max = Len(rhs_input_)
        BY <3>1, <1>t DEF ThreadState
      <3>3. \A r \in R : Holds(r, th[t].max)'
        BY <2>1, <2>2, <3>2 DEF Holds
      <3>4. \A l \in L \ U.left : \A r \in R : l # n => out[<<l, r>>] >= 1
        BY <2>2, <3>2
      <3>5. 1..U.idx = {}
        BY <3>2
      <3> HIDE DEF n
      <3> QED
        BY <2>1, <2>3, <3>2, <3>3, <3>4, <3>5, <1>r, <1>t DEF OwnInv
    <2>4. CASE n \notin Lhs
      <3>1. U = [T EXCEPT !.left = @ \ {n}]
        BY <1>3, <2>4, StepTo DEF EnterJoin
      <3>2. U.at = "lhs" /\ U.left = T.left \ {n}
        BY <3>1, <2>1, <1>t DEF ThreadState
      <3>3. \A r \in R : Holds(r, Len(rhs_input_))'
        BY <2>1, <2>2 DEF Holds
      <3>4. \A l \in L \ U.left : \A r \in R : out[<<l, r>>] >= 1
        BY <2>2, <2>4, <3>2
      <3> HIDE DEF n
      <3> QED
        BY <2>1, <3>2, <3>3, <3>4, <1>r DEF OwnInv
    <2> QED
      BY <2>3, <2>4
  <1>4. CASE JoinNext(t)
    <2> DEFINE pair == <<T.lhs, rhs_input_[T.idx + 1]>>
    <2>1. /\ U = [T EXCEPT !.idx = @ + 1] /\ T.at = "join"
          /\ rhs_input_' = rhs_input_ /\ out' = [out EXCEPT ![pair] = @ + 1]
      BY <1>4, StepTo DEF JoinNext, At
    <2>2. /\ U.at = "join" /\ U.left = T.left /\ U.lhs = T.lhs /\ U.max = T.max
          /\ U.idx = T.idx + 1
      BY <2>1, <1>t DEF ThreadState
    <2>3. /\ T.lhs \in Lhs /\ T.idx + 1 \in 1..T.max /\ T.max <= Len(rhs_input_)
          /\ pair \in Lhs \X Rhs
      BY <1>4, PairType
    <2>4. /\ \A r \in R : Holds(r, T.max)
          /\ \A i \in 1..T.idx : out[<<T.lhs, rhs_input_[i]>>] >= 1
          /\ \A l \in L \ T.left : \A r \in R : l # T.lhs => out[<<l, r>>] >= 1
      BY <2>1 DEF OwnInv
    <2>5. /\ out'[pair] = out[pair] + 1 /\ out[pair] \in Nat
          /\ \A p \in Lhs \X Rhs : out'[p] >= out[p] /\ out'[p] \in Nat /\ out[p] \in Nat
      <3> HIDE DEF pair
      <3>1. out'[pair] = out[pair] + 1
        BY <2>1, <2>3, OutPlus
      <3>2. out' \in [Lhs \X Rhs -> Nat]
        BY DEF TypeOK
      <3> QED
        BY <3>1, <3>2, <2>3, <1>t, <1>g DEF Grows
    <2>6. ASSUME NEW i \in 1..U.idx PROVE out'[<<T.lhs, rhs_input_[i]>>] >= 1
      <3>1. CASE i = T.idx + 1
        BY <3>1, <2>5
      <3>2. CASE i # T.idx + 1
        <4>1. i \in 1..T.idx /\ i \in 1..Len(rhs_input_)
          BY <3>2, <2>2, <2>3, <1>t
        <4>2. <<T.lhs, rhs_input_[i]>> \in Lhs \X Rhs
          BY <4>1, <2>3, <1>t
        <4>3. out[<<T.lhs, rhs_input_[i]>>] >= 1
          BY <4>1, <2>4
        <4> QED
          BY <4>2, <4>3, <2>5
      <3> QED
        BY <3>1, <3>2
    <2>7. ASSUME NEW l \in L \ T.left, NEW r \in R, l # T.lhs PROVE out'[<<l, r>>] >= 1
      <3>1. <<l, r>> \in Lhs \X Rhs /\ out[<<l, r>>] >= 1
        BY <2>4, <2>7
      <3> QED
        BY <3>1, <2>5
    <2>8. \A r \in R : Holds(r, T.max)'
      BY <2>1, <2>4, <2>2 DEF Holds
    <2>9. U.idx <= U.max
      BY <2>2, <2>3, <1>t
    <2> HIDE DEF pair
    <2> QED
      BY <2>1, <2>2, <2>3, <2>6, <2>7, <2>8, <2>9, <1>r DEF OwnInv
  <1>5. CASE LeaveJoin(t)
    <2>1. /\ U = [T EXCEPT !.at = "lhs"] /\ T.at = "join" /\ T.idx = T.max
          /\ rhs_input_' = rhs_input_ /\ out' = out
      BY <1>5, StepTo DEF LeaveJoin, At
    <2>2. U.at = "lhs" /\ U.left = T.left
      BY <2>1, <1>t DEF ThreadState
    <2>3. /\ T.lhs \in Lhs /\ T.max <= Len(rhs_input_)
          /\ \A r \in R : Holds(r, T.max)
          /\ \A i \in 1..T.idx : out[<<T.lhs, rhs_input_[i]>>] >= 1
          /\ \A l \in L \ T.left : \A r \in R : l # T.lhs => out[<<l, r>>] >= 1
      BY <2>1 DEF OwnInv
    <2>4. \A r \in R : Holds(r, Len(rhs_input_))'
      BY <2>1, <2>3, <1>t, HoldsMore DEF Holds
    <2>5. ASSUME NEW r \in R PROVE out[<<T.lhs, r>>] >= 1
      <3>1. PICK i \in 1..T.max : rhs_input_[i] = r
        BY <2>3 DEF Holds
      <3> QED
        BY <3>1, <2>1, <2>3
    <2>6. \A l \in L \ T.left : \A r \in R : out[<<l, r>>] >= 1
      BY <2>3, <2>5
    <2> QED
      BY <2>1, <2>2, <2>4, <2>6, <1>r DEF OwnInv
  <1>6. CASE Finish(t)
    <2>1. /\ U = [T EXCEPT !.at = "done"] /\ T.at = "lhs" /\ T.left = {}
          /\ rhs_input_' = rhs_input_ /\ out' = out
      BY <1>6, StepTo DEF Finish, At
    <2>2. U.at = "done" /\ U.left = {}
      BY <2>1, <1>t DEF ThreadState
    <2>3. \A l \in L \ T.left : \A r \in R : out[<<l, r>>] >= 1
      BY <2>1 DEF OwnInv
    <2> QED
      BY <2>1, <2>2, <2>3, <1>r DEF OwnInv
  <1> QED
    BY <1>1, <1>2, <1>3, <1>4, <1>5, <1>6 DEF Compiled

\* A thread more, which has nothing of its range behind it.
LEMMA Spawned ==
  ASSUME TypeOK, Spawn
  PROVE  \E new \in Nat :
           /\ Thread' = Thread \cup {new} /\ new \notin Thread
           /\ \A t \in Thread : th'[t] = th[t] /\ RangeOf(t)' = RangeOf(t)
           /\ th'[new].at = "rhs" /\ th'[new].left = RangeOf(new)'
  <1> DEFINE end == IF IsLast THEN num_chunks ELSE (cur_start + chunksz - 1) % Word
             new == Len(th) + 1
  <1>1. /\ th' = Append(th, NewThread(cur_start, end)) /\ num_chunks' = num_chunks
        /\ th \in Seq(ThreadState) /\ Len(th) \in Nat /\ Thread = 1..Len(th)
        /\ end \in Nat /\ cur_start \in Nat
    BY ParallelJoinAssumption DEF Spawn, SpawnUpTo, TypeOK, Thread
  <1> HIDE DEF end
  <1>2. NewThread(cur_start, end) \in ThreadState
    BY <1>1, NewThreadType
  <1>3. /\ Len(th') = new /\ th' \in Seq(ThreadState)
        /\ \A t \in 1..Len(th) : th'[t] = th[t]
        /\ th'[new] = NewThread(cur_start, end)
    BY <1>1, <1>2, AppendProperties
  <1>4. Thread' = 1..new
    BY <1>3 DEF Thread
  <1>5. \A t \in Thread : th'[t] = th[t] /\ RangeOf(t)' = RangeOf(t)
    BY <1>1, <1>3 DEF RangeOf, NodesOf, Stored
  <1>6. /\ th'[new].at = "rhs" /\ th'[new].first = cur_start /\ th'[new].last = end
        /\ th'[new].left = NodesOf(cur_start, end)
    BY <1>3 DEF NewThread
  <1>7. th'[new].left = NodesOf(th'[new].first, th'[new].last)
    BY <1>6
  <1> HIDE DEF new
  <1>8. ASSUME NEW k, k = new PROVE th'[k].left = RangeOf(k)'
    BY <1>1, <1>7, <1>8 DEF RangeOf, NodesOf, Stored
  <1>9. new \in Nat /\ Thread' = Thread \cup {new} /\ new \notin Thread
    BY <1>1, <1>4 DEF new
  <1>10. PICK k : k = new
    OBVIOUS
  <1>11. /\ k \in Nat /\ Thread' = Thread \cup {k} /\ k \notin Thread
         /\ th'[k].at = "rhs" /\ th'[k].left = RangeOf(k)'
    BY <1>6, <1>8, <1>9, <1>10
  <1> QED
    BY <1>5, <1>11

LEMMA MatchStep == TypeOK /\ TypeOK' /\ MatchInv /\ [Next]_vars => MatchInv'
  <1> SUFFICES ASSUME TypeOK, TypeOK', MatchInv, [Next]_vars PROVE MatchInv'
    OBVIOUS
  <1>g. UNCHANGED <<rhs_input_, out>> => Grows
    BY DEF Grows, TypeOK
  <1>k. ASSUME UNCHANGED <<th, num_chunks, out>>, \A t \in Thread : th[t].at = "done"
        PROVE  MatchInv'
    BY <1>k DEF MatchInv, OwnInv, Thread, RangeOf, NodesOf, Stored
  <1>1. CASE ClearRhs
    <2>1. \A t \in Thread : th[t].at = "done"
      BY <1>1 DEF ClearRhs, MatchInv
    <2> QED
      BY <1>1, <1>k, <2>1 DEF ClearRhs, main
  <1>2. ASSUME NEW num \in ThreadNum, RunParallel(num) PROVE MatchInv'
    <2>1. Thread' = {}
      BY <1>2 DEF RunParallel, Thread
    <2> QED
      BY <2>1 DEF MatchInv
  <1>3. CASE Spawn
    <2>1. PICK new \in Nat :
            /\ Thread' = Thread \cup {new} /\ new \notin Thread
            /\ \A t \in Thread : th'[t] = th[t] /\ RangeOf(t)' = RangeOf(t)
            /\ th'[new].at = "rhs" /\ th'[new].left = RangeOf(new)'
      BY <1>3, Spawned
    <2>2. Grows /\ pc' = "loop"
      BY <1>3, <1>g DEF Spawn, SpawnUpTo
    <2>3. \A t \in Thread : OwnInv(t)'
      BY <2>1, <2>2, OwnKept DEF MatchInv
    <2>4. OwnInv(new)'
      BY <2>1 DEF OwnInv
    <2> QED
      BY <2>1, <2>2, <2>3, <2>4 DEF MatchInv
  <1>4. CASE JoinThreads
    BY <1>4, <1>k DEF JoinThreads
  <1>5. ASSUME NEW t \in Thread, Compiled(t) PROVE MatchInv'
    <2>1. /\ UNCHANGED main /\ Thread' = Thread /\ status = "ok"
          /\ \A u \in Thread : u # t => th'[u] = th[u]
          /\ \A u \in Thread : RangeOf(u)' = RangeOf(u)
      BY <1>5, CompiledFrame
    <2>2. OwnInv(t) /\ Grows
      BY <1>5, CompiledGrows DEF MatchInv
    <2>3. OwnInv(t)'
      BY <1>5, <2>2, OwnStep
    <2>4. ASSUME NEW u \in Thread, u # t PROVE OwnInv(u)'
      BY <2>1, <2>2, <2>4, OwnKept DEF MatchInv
    <2>5. th[t].at # "done"
      BY <1>5 DEF Compiled, Materialize, BeginLhs, EnterJoin, JoinNext, LeaveJoin,
                  Finish, At
    <2>6. pc' # "idle"
      BY <2>1, <2>5 DEF main, MatchInv
    <2> QED
      BY <2>1, <2>3, <2>4, <2>6 DEF MatchInv
  <1>6. CASE UNCHANGED vars
    <2>1. UNCHANGED <<pc, status, num_chunks, th, rhs_input_, out>>
      BY <1>6 DEF vars, main
    <2> QED
      BY <2>1 DEF MatchInv, OwnInv, Holds, Thread, RangeOf, NodesOf, Stored
  <1> QED
    BY <1>1, <1>2, <1>3, <1>4, <1>5, <1>6 DEF Next, Main

\* Once every thread is done, it has joined all it had left.
LEMMA MatchFollows == MatchInv => JoinsOwnRange
  BY DEF MatchInv, OwnInv, JoinsOwnRange, Returned

\* When a call has returned, each pair of a left and a right tuple of one
\* thread's range is in the result set, however the threads were scheduled and
\* whatever rhs_input_ held before.
THEOREM OwnRange == Spec => []JoinsOwnRange
  <1>1. Init => TypeOK /\ MatchInv
    BY InitInv DEF Init, MatchInv, Thread
  <1>2. TypeOK /\ MatchInv /\ [Next]_vars => TypeOK' /\ MatchInv'
    BY TypeStep, MatchStep
  <1> QED
    BY <1>1, <1>2, MatchFollows, PTL DEF Spec

-----------------------------------------------------------------------------
(***************************************************************************)
(* JoinedAtMostOnce.                                                       *)
(***************************************************************************)
Distinct == \A i, j \in 1..Len(rhs_input_) : rhs_input_[i] = rhs_input_[j] => i = j

\* What a thread adds to rhs_input_ is a node of its range that is not there.
LEMMA RhsStep ==
  ASSUME TypeOK, NEW t \in Thread, FreshInv(t), Compiled(t)
  PROVE  \A i \in 1..Len(rhs_input_') :
           \/ i \in 1..Len(rhs_input_) /\ rhs_input_'[i] = rhs_input_[i]
           \/ /\ i = Len(rhs_input_) + 1 /\ rhs_input_'[i] \in RangeOf(t)
              /\ \A j \in 1..Len(rhs_input_) : rhs_input_[j] # rhs_input_'[i]
  <1>1. CASE Materialize(t) /\ Next1(t) \in Rhs
    <2>1. th[t].at = "rhs" /\ th[t].left # {} /\ rhs_input_' = Append(rhs_input_, Next1(t))
      BY <1>1 DEF Materialize, At
    <2>2. Next1(t) \in th[t].left
      BY <2>1, NextIsLeft
    <2>3. /\ Next1(t) \in RangeOf(t)
          /\ \A j \in 1..Len(rhs_input_) : rhs_input_[j] # Next1(t)
      BY <2>1, <2>2 DEF FreshInv
    <2>4. /\ Len(rhs_input_) \in Nat /\ Len(rhs_input_') = Len(rhs_input_) + 1
          /\ \A i \in 1..Len(rhs_input_) : rhs_input_'[i] = rhs_input_[i]
          /\ rhs_input_'[Len(rhs_input_) + 1] = Next1(t)
      BY <1>1, <2>1, AppendProperties DEF TypeOK
    <2> QED
      BY <2>3, <2>4
  <1>2. CASE ~(Materialize(t) /\ Next1(t) \in Rhs)
    <2>1. rhs_input_' = rhs_input_
      BY <1>2 DEF Compiled, Materialize, BeginLhs, EnterJoin, JoinNext, LeaveJoin, Finish
    <2> QED
      BY <2>1
  <1> QED
    BY <1>1, <1>2

\* The pair a thread joins is of its range, and was never joined.
LEMMA OutStep ==
  ASSUME TypeOK, NEW t \in Thread, OwnInv(t), FreshInv(t), Distinct, Compiled(t),
         NEW l \in Lhs, NEW r \in Rhs, out'[<<l, r>>] # out[<<l, r>>]
  PROVE  /\ JoinNext(t) /\ l = th[t].lhs /\ r = rhs_input_[th[t].idx + 1]
         /\ l \in RangeOf(t) \ th[t].left
         /\ out[<<l, r>>] = 0 /\ out'[<<l, r>>] = 1
  <1> DEFINE pair == <<th[t].lhs, rhs_input_[th[t].idx + 1]>>
  <1>1. JoinNext(t)
    BY DEF Compiled, Materialize, BeginLhs, EnterJoin, LeaveJoin, Finish
  <1>2. out' = [out EXCEPT ![pair] = @ + 1] /\ th[t].at = "join"
    BY <1>1 DEF JoinNext, At
  <1>3. /\ pair \in Lhs \X Rhs
        /\ th[t].idx + 1 \in 1..th[t].max /\ th[t].max <= Len(rhs_input_)
    BY <1>1, PairType
  <1>4. <<l, r>> = pair /\ out'[pair] = out[pair] + 1
    <2> HIDE DEF pair
    <2>1. out'[pair] = out[pair] + 1 /\ \A p \in Lhs \X Rhs : p # pair => out'[p] = out[p]
      BY <1>2, <1>3, OutPlus
    <2> QED
      BY <2>1
  <1>5. ASSUME out[pair] > 0 PROVE FALSE
    <2>1. Holds(r, th[t].idx)
      BY <1>2, <1>4, <1>5 DEF FreshInv
    <2>2. PICK i \in 1..th[t].idx : rhs_input_[i] = rhs_input_[th[t].idx + 1]
      BY <2>1, <1>4 DEF Holds
    <2>3. /\ i \in 1..Len(rhs_input_) /\ th[t].idx + 1 \in 1..Len(rhs_input_)
          /\ i # th[t].idx + 1
      BY <1>3, FieldTypes DEF TypeOK
    <2> QED
      BY <2>2, <2>3 DEF Distinct
  <1>6. out[pair] \in Nat
    BY <1>3 DEF TypeOK
  <1>7. out[pair] = 0
    BY <1>5, <1>6
  <1> QED
    BY <1>1, <1>2, <1>4, <1>7 DEF FreshInv

LEMMA FreshKept ==
  ASSUME TypeOK, TypeOK', Grows, NEW u \in Thread, th'[u] = th[u],
         RangeOf(u)' = RangeOf(u), OwnInv(u), FreshInv(u),
         \A i \in 1..Len(rhs_input_') :
           i \in 1..Len(rhs_input_) \/ rhs_input_'[i] \notin RangeOf(u),
         \A l \in Lhs \cap RangeOf(u) : \A r \in Rhs : out'[<<l, r>>] = out[<<l, r>>]
  PROVE  FreshInv(u)'
  <1> DEFINE T == th[u]
  <1>1. T.left \subseteq RangeOf(u)
    BY DEF FreshInv
  <1>2. T.at = "rhs" => \A i \in 1..Len(rhs_input_') : rhs_input_'[i] \notin T.left
    BY <1>1 DEF FreshInv, Grows
  <1>3. \A l \in Lhs \cap RangeOf(u) : \A r \in Rhs :
          T.at = "rhs" \/ l \in T.left => out'[<<l, r>>] = 0
    BY DEF FreshInv
  <1>4. ASSUME T.at = "join"
        PROVE  /\ T.lhs \in RangeOf(u) \ T.left
               /\ \A r \in Rhs : out'[<<T.lhs, r>>] > 0 => Holds(r, th[u].idx)'
    <2>1. /\ T.lhs \in RangeOf(u) \ T.left /\ T.lhs \in Lhs
          /\ T.idx <= T.max /\ T.max <= Len(rhs_input_)
      BY <1>4 DEF FreshInv, OwnInv
    <2>2. ASSUME NEW r \in Rhs, out'[<<T.lhs, r>>] > 0 PROVE Holds(r, th[u].idx)'
      <3>1. Holds(r, T.idx)
        BY <1>4, <2>1, <2>2 DEF FreshInv
      <3>2. PICK i \in 1..T.idx : rhs_input_[i] = r
        BY <3>1 DEF Holds
      <3>3. i \in 1..Len(rhs_input_)
        BY <2>1, FieldTypes DEF TypeOK
      <3>4. rhs_input_'[i] = r
        BY <3>2, <3>3 DEF Grows
      <3> QED
        BY <3>4 DEF Holds
    <2> QED
      BY <2>1, <2>2
  <1> QED
    BY <1>1, <1>2, <1>3, <1>4 DEF FreshInv

LEMMA FreshStep ==
  ASSUME TypeOK, TypeOK', NEW t \in Thread, OwnInv(t), FreshInv(t), Distinct, Compiled(t)
  PROVE  FreshInv(t)'
  <1> DEFINE T == th[t]
             U == th'[t]
             n == Next1(t)
  <1>t. /\ Len(rhs_input_) \in Nat /\ T \in ThreadState /\ T.idx \in Nat
        /\ rhs_input_ \in Seq(Rhs) /\ out \in [Lhs \X Rhs -> Nat]
    BY FieldTypes DEF TypeOK
  <1>r. RangeOf(t)' = RangeOf(t)
    BY CompiledFrame
  <1>f. /\ T.left \subseteq RangeOf(t)
        /\ T.at = "rhs" => \A i \in 1..Len(rhs_input_) : rhs_input_[i] \notin T.left
        /\ \A l \in Lhs \cap RangeOf(t) : \A r \in Rhs :
             T.at = "rhs" \/ l \in T.left => out[<<l, r>>] = 0
    BY DEF FreshInv
  <1>1. CASE Materialize(t)
    <2>1. /\ U = [T EXCEPT !.left = @ \ {n}] /\ T.at = "rhs" /\ out' = out
          /\ rhs_input_' = IF n \in Rhs THEN Append(rhs_input_, n) ELSE rhs_input_
      BY <1>1, StepTo DEF Materialize, At
    <2>2. U.at = "rhs" /\ U.left = T.left \ {n}
      BY <2>1, <1>t DEF ThreadState
    <2>3. ASSUME NEW i \in 1..Len(rhs_input_') PROVE rhs_input_'[i] \notin U.left
      <3>1. CASE n \in Rhs
        <4>1. rhs_input_' = Append(rhs_input_, n)
          BY <2>1, <3>1
        <4> HIDE DEF n
        <4>2. /\ Len(rhs_input_') = Len(rhs_input_) + 1
              /\ \A j \in 1..Len(rhs_input_) : rhs_input_'[j] = rhs_input_[j]
              /\ rhs_input_'[Len(rhs_input_) + 1] = n
          BY <3>1, <4>1, <1>t, AppendProperties
        <4>3. CASE i = Len(rhs_input_) + 1
          BY <4>2, <4>3, <2>2
        <4>4. CASE i # Len(rhs_input_) + 1
          <5>1. i \in 1..Len(rhs_input_)
            BY <4>2, <4>4, <1>t
          <5> QED
            BY <4>2, <5>1, <2>1, <2>2, <1>f
        <4> QED
          BY <4>3, <4>4
      <3>2. CASE n \notin Rhs
        BY <2>1, <2>2, <3>2, <1>f
      <3> QED
        BY <3>1, <3>2
    <2> HIDE DEF n
    <2> QED
      BY <2>1, <2>2, <2>3, <1>f, <1>r DEF FreshInv
  <1>2. CASE BeginLhs(t)
    <2>1. U = [T EXCEPT !.at = "lhs", !.left = RangeOf(t)] /\ T.at = "rhs" /\ out' = out
      BY <1>2, StepTo DEF BeginLhs, At, RangeOf
    <2>2. U.at = "lhs" /\ U.left = RangeOf(t)
      BY <2>1, <1>t DEF ThreadState
    <2> QED
      BY <2>1, <2>2, <1>f, <1>r DEF FreshInv
  <1>3. CASE EnterJoin(t)
    <2>1. T.at = "lhs" /\ T.left # {} /\ rhs_input_' = rhs_input_ /\ out' = out
      BY <1>3 DEF EnterJoin, At
    <2>2. n \in T.left /\ n \in RangeOf(t)
      BY <2>1, <1>f, NextIsLeft
    <2>3. CASE n \in Lhs
      <3>1. U = [T EXCEPT !.left = @ \ {n}, !.at = "join", !.lhs = n, !.idx = 0,
                          !.max = Len(rhs_input_)]
        BY <1>3, <2>3, StepTo DEF EnterJoin
      <3>2. U.at = "join" /\ U.left = T.left \ {n} /\ U.lhs = n
        BY <3>1, <1>t DEF ThreadState
      <3>3. \A r \in Rhs : out[<<n, r>>] = 0
        BY <2>2, <2>3, <1>f
      <3>4. \A r \in Rhs : ~(out'[<<n, r>>] > 0)
        BY <2>1, <3>3
      <3> HIDE DEF n
      <3> QED
        BY <2>1, <2>2, <2>3, <3>2, <3>4, <1>f, <1>r DEF FreshInv
    <2>4. CASE n \notin Lhs
      <3>1. U = [T EXCEPT !.left = @ \ {n}]
        BY <1>3, <2>4, StepTo DEF EnterJoin
      <3>2. U.at = "lhs" /\ U.left = T.left \ {n}
        BY <3>1, <2>1, <1>t DEF ThreadState
      <3> HIDE DEF n
      <3> QED
        BY <2>1, <3>2, <1>f, <1>r DEF FreshInv
    <2> QED
      BY <2>3, <2>4
  <1>4. CASE JoinNext(t)
    <2>1. U = [T EXCEPT !.idx = @ + 1] /\ T.at = "join" /\ rhs_input_' = rhs_input_
      BY <1>4, StepTo DEF JoinNext, At
    <2>2. U.at = "join" /\ U.left = T.left /\ U.lhs = T.lhs /\ U.idx = T.idx + 1
      BY <2>1, <1>t DEF ThreadState
    <2>3. /\ T.lhs \in RangeOf(t) \ T.left
          /\ \A r \in Rhs : out[<<T.lhs, r>>] > 0 => Holds(r, T.idx)
      BY <2>1 DEF FreshInv
    <2>4. T.lhs \in Lhs
      BY <1>4, PairType
    <2>5. ASSUME NEW l \in Lhs \cap RangeOf(t), l \in T.left, NEW r \in Rhs
          PROVE  out'[<<l, r>>] = 0
      BY <2>5, OutStep, <1>f
    <2>6. ASSUME NEW r \in Rhs, out'[<<T.lhs, r>>] > 0 PROVE Holds(r, th[t].idx)'
      <3>1. CASE out'[<<T.lhs, r>>] # out[<<T.lhs, r>>]
        <4>1. r = rhs_input_[T.idx + 1]
          BY <3>1, <2>4, OutStep
        <4> QED
          BY <4>1, <2>1, <2>2, <1>t DEF Holds
      <3>2. CASE out'[<<T.lhs, r>>] = out[<<T.lhs, r>>]
        <4>1. PICK i \in 1..T.idx : rhs_input_[i] = r
          BY <2>3, <2>6, <3>2 DEF Holds
        <4>2. i \in 1..U.idx
          BY <2>2, <1>t
        <4> QED
          BY <4>1, <4>2, <2>1 DEF Holds
      <3> QED
        BY <3>1, <3>2
    <2> QED
      BY <2>2, <2>3, <2>5, <2>6, <1>f, <1>r DEF FreshInv
  <1>5. CASE LeaveJoin(t)
    <2>1. U = [T EXCEPT !.at = "lhs"] /\ out' = out
      BY <1>5, StepTo DEF LeaveJoin
    <2>2. U.at = "lhs" /\ U.left = T.left
      BY <2>1, <1>t DEF ThreadState
    <2> QED
      BY <2>1, <2>2, <1>f, <1>r DEF FreshInv
  <1>6. CASE Finish(t)
    <2>1. U = [T EXCEPT !.at = "done"] /\ out' = out
      BY <1>6, StepTo DEF Finish
    <2>2. U.at = "done" /\ U.left = T.left
      BY <2>1, <1>t DEF ThreadState
    <2> QED
      BY <2>1, <2>2, <1>f, <1>r DEF FreshInv
  <1> QED
    BY <1>1, <1>2, <1>3, <1>4, <1>5, <1>6 DEF Compiled

LEMMA OnceStep ==
  TypeOK /\ TypeOK' /\ RangesPartition /\ RangesPartition' /\ MatchInv /\ OnceInv
  /\ [Next]_vars => OnceInv'
  <1> SUFFICES ASSUME TypeOK, TypeOK', RangesPartition, RangesPartition', MatchInv, OnceInv,
                      [Next]_vars, cleared', thread_num' <= num_chunks'
               PROVE  /\ Distinct'
                      /\ \A i \in 1..Len(rhs_input_') :
                           \E t \in Thread' : rhs_input_'[i] \in RangeOf(t)'
                      /\ \A t \in Thread' : FreshInv(t)'
                      /\ \A l \in Lhs, r \in Rhs :
                           /\ out'[<<l, r>>] <= 1
                           /\ (\A t \in Thread' : l \notin RangeOf(t)') => out'[<<l, r>>] = 0
    BY DEF OnceInv, Distinct
  <1>o. ASSUME cleared, thread_num <= num_chunks
        PROVE  /\ Distinct
               /\ \A i \in 1..Len(rhs_input_) : \E t \in Thread : rhs_input_[i] \in RangeOf(t)
               /\ \A t \in Thread : FreshInv(t)
               /\ \A l \in Lhs, r \in Rhs :
                    /\ out[<<l, r>>] <= 1
                    /\ (\A t \in Thread : l \notin RangeOf(t)) => out[<<l, r>>] = 0
               /\ \A t, u \in Thread : t # u => RangeOf(t) \cap RangeOf(u) = {}
    BY <1>o DEF OnceInv, Distinct, RangesPartition
  <1>1. CASE ClearRhs
    <2>1. /\ rhs_input_' = <<>> /\ UNCHANGED <<main, th, out>> /\ Len(rhs_input_') = 0
          /\ \A t \in Thread : th[t].at = "done"
      BY <1>1 DEF ClearRhs, MatchInv
    <2>2. cleared /\ thread_num <= num_chunks /\ Thread' = Thread /\ num_chunks' = num_chunks
      BY <2>1 DEF main, Thread
    <2>3. \A t \in Thread : RangeOf(t)' = RangeOf(t)
      BY <2>1, <2>2 DEF RangeOf, NodesOf, Stored
    <2>4. \A t \in Thread : FreshInv(t)'
      BY <1>o, <2>1, <2>2, <2>3 DEF FreshInv
    <2>5. 1..Len(rhs_input_') = {}
      BY <2>1
    <2> QED
      BY <1>o, <2>1, <2>2, <2>3, <2>4, <2>5 DEF Distinct
  <1>2. ASSUME NEW num \in ThreadNum, RunParallel(num)
        PROVE  /\ Thread' = {} /\ 1..Len(rhs_input_') = {}
               /\ \A l \in Lhs, r \in Rhs : out'[<<l, r>>] = 0
    <2>1. th' = <<>> /\ out' = NoPairs /\ rhs_input_' = rhs_input_
      BY <1>2 DEF RunParallel
    <2>2. rhs_input_ = <<>>
      <3>1. cleared' = (rhs_input_ = <<>>)
        BY <1>2 DEF RunParallel
      <3> QED
        BY <3>1, Zenon
    <2>3. \A l \in Lhs, r \in Rhs : out'[<<l, r>>] = 0
      BY <2>1 DEF NoPairs
    <2> QED
      BY <2>1, <2>2, <2>3 DEF Thread
  <1>3. CASE Spawn
    <2>1. PICK new \in Nat :
            /\ Thread' = Thread \cup {new} /\ new \notin Thread
            /\ \A t \in Thread : th'[t] = th[t] /\ RangeOf(t)' = RangeOf(t)
            /\ th'[new].at = "rhs" /\ th'[new].left = RangeOf(new)'
      BY <1>3, Spawned
    <2>2. /\ UNCHANGED <<rhs_input_, out>> /\ cleared /\ thread_num <= num_chunks
      BY <1>3 DEF Spawn, SpawnUpTo
    <2>3. Grows
      BY <2>2 DEF Grows, TypeOK
    <2>4. \A t \in Thread : RangeOf(t)' \cap RangeOf(new)' = {}
      BY <2>1 DEF RangesPartition
    <2>5. ASSUME NEW t \in Thread PROVE FreshInv(t)'
      <3>1. OwnInv(t) /\ FreshInv(t)
        BY <1>o, <2>2 DEF MatchInv
      <3> QED
        BY <2>1, <2>2, <2>3, <3>1, FreshKept
    <2>6. FreshInv(new)'
      <3>1. \A i \in 1..Len(rhs_input_') : rhs_input_'[i] \notin RangeOf(new)'
        BY <1>o, <2>1, <2>2, <2>4
      <3>2. \A l \in Lhs \cap RangeOf(new)' : \A r \in Rhs : out'[<<l, r>>] = 0
        <4> SUFFICES ASSUME NEW l \in Lhs, l \in RangeOf(new)', NEW r \in Rhs
                     PROVE  out[<<l, r>>] = 0
          BY <2>2
        <4>1. \A t \in Thread : l \notin RangeOf(t)
          BY <2>1, <2>4
        <4> QED
          BY <1>o, <2>2, <4>1
      <3> QED
        BY <2>1, <3>1, <3>2 DEF FreshInv
    <2> QED
      BY <1>o, <2>1, <2>2, <2>5, <2>6 DEF Distinct
  <1>4. CASE JoinThreads \/ UNCHANGED vars
    <2>1. UNCHANGED <<cleared, thread_num, num_chunks, th, rhs_input_, out>>
      BY <1>4 DEF JoinThreads, vars, main
    <2> QED
      BY <1>o, <2>1 DEF Distinct, FreshInv, Holds, Thread, RangeOf, NodesOf, Stored
  <1>5. CASE \E t \in Thread : Compiled(t)
    <2>0. PICK t \in Thread : Compiled(t)
      BY <1>5
    <2>1. /\ UNCHANGED main /\ Thread' = Thread
          /\ \A u \in Thread : u # t => th'[u] = th[u]
          /\ \A u \in Thread : RangeOf(u)' = RangeOf(u)
      BY <2>0, CompiledFrame
    <2>2. cleared /\ thread_num <= num_chunks
      BY <2>1 DEF main
    <2>3. OwnInv(t) /\ FreshInv(t) /\ Distinct
      BY <1>o, <2>2 DEF MatchInv
    <2>4. Grows
      BY <2>0, <2>3, CompiledGrows
    <2>5. \A i \in 1..Len(rhs_input_') :
            \/ i \in 1..Len(rhs_input_) /\ rhs_input_'[i] = rhs_input_[i]
            \/ /\ i = Len(rhs_input_) + 1 /\ rhs_input_'[i] \in RangeOf(t)
               /\ \A j \in 1..Len(rhs_input_) : rhs_input_[j] # rhs_input_'[i]
      BY <2>0, <2>3, RhsStep
    <2>6. \A l \in Lhs, r \in Rhs : out'[<<l, r>>] # out[<<l, r>>] =>
            l \in RangeOf(t) /\ out'[<<l, r>>] = 1
      BY <2>0, <2>3, OutStep
    <2>7. Distinct'
      BY <2>3, <2>5 DEF Distinct
    <2>8. FreshInv(t)'
      BY <2>0, <2>3, FreshStep
    <2>9. ASSUME NEW u \in Thread, u # t PROVE FreshInv(u)'
      <3>1. RangeOf(t) \cap RangeOf(u) = {} /\ OwnInv(u) /\ FreshInv(u)
        BY <1>o, <2>2, <2>9 DEF MatchInv
      <3>2. \A i \in 1..Len(rhs_input_') :
              i \in 1..Len(rhs_input_) \/ rhs_input_'[i] \notin RangeOf(u)
        BY <2>5, <3>1
      <3>3. \A l \in Lhs \cap RangeOf(u) : \A r \in Rhs : out'[<<l, r>>] = out[<<l, r>>]
        BY <2>6, <3>1
      <3> QED
        BY <2>1, <2>4, <2>9, <3>1, <3>2, <3>3, FreshKept
    <2>10. \A i \in 1..Len(rhs_input_') : \E u \in Thread' : rhs_input_'[i] \in RangeOf(u)'
      <3> SUFFICES ASSUME NEW i \in 1..Len(rhs_input_')
                   PROVE  \E u \in Thread : rhs_input_'[i] \in RangeOf(u)
        BY <2>1
      <3> QED
        BY <1>o, <2>2, <2>5
    <2>11. \A l \in Lhs, r \in Rhs :
             /\ out'[<<l, r>>] <= 1
             /\ (\A u \in Thread : l \notin RangeOf(u)) => out'[<<l, r>>] = 0
      <3> SUFFICES ASSUME NEW l \in Lhs, NEW r \in Rhs
                   PROVE  /\ out'[<<l, r>>] <= 1
                          /\ (\A u \in Thread : l \notin RangeOf(u)) => out'[<<l, r>>] = 0
        OBVIOUS
      <3>1. CASE out'[<<l, r>>] = out[<<l, r>>]
        BY <1>o, <2>2, <3>1
      <3>2. CASE out'[<<l, r>>] # out[<<l, r>>]
        BY <2>6, <3>2
      <3> QED
        BY <3>1, <3>2
    <2> QED
      BY <2>1, <2>7, <2>8, <2>9, <2>10, <2>11
  <1> QED
    BY <1>1, <1>2, <1>3, <1>4, <1>5 DEF Next, Main, Distinct

LEMMA InitOnce == Init => TypeOK /\ PartitionInv /\ JoinInv
  <1> SUFFICES ASSUME Init PROVE JoinInv
    BY InitInv
  <1>1. Thread = {} /\ cleared = FALSE
    BY DEF Init, Thread
  <1> QED
    BY <1>1 DEF JoinInv, MatchInv, OnceInv, Init

LEMMA JoinStep ==
  TypeOK /\ PartitionInv /\ JoinInv /\ [Next]_vars => TypeOK' /\ PartitionInv' /\ JoinInv'
  <1> SUFFICES ASSUME TypeOK, PartitionInv, JoinInv, [Next]_vars
               PROVE  TypeOK' /\ PartitionInv' /\ JoinInv'
    OBVIOUS
  <1>1. TypeOK' /\ PartitionInv'
    BY TypeStep, PartitionStep
  <1>2. RangesPartition
    BY RangesFollow
  <1>3. TypeOK' /\ PartitionInv' => RangesPartition'
    BY RangesFollow, PTL
  <1>4. MatchInv'
    BY <1>1, MatchStep DEF JoinInv
  <1>5. OnceInv'
    BY <1>1, <1>2, <1>3, OnceStep DEF JoinInv
  <1> QED
    BY <1>1, <1>4, <1>5 DEF JoinInv

\* The two inductive invariants: what each thread has materialised and joined
\* of its own range, and what it has not.
THEOREM JoinState == Spec => []JoinInv
  BY InitOnce, JoinStep, PTL DEF Spec

LEMMA OnceFollows == TypeOK /\ OnceInv => JoinedAtMostOnce
  <1> SUFFICES ASSUME OnceInv, cleared, thread_num <= num_chunks, NEW p \in Lhs \X Rhs
               PROVE  out[p] <= 1
    BY DEF JoinedAtMostOnce
  <1>1. PICK l \in Lhs, r \in Rhs : p = <<l, r>>
    OBVIOUS
  <1> QED
    BY <1>1 DEF OnceInv

\* If the client has emptied rhs_input_ and no thread lacks a chunk, no pair is
\* joined twice, however the threads were scheduled.
THEOREM AtMostOnce == Spec => []JoinedAtMostOnce
  BY JoinState, Typing, OnceFollows, PTL DEF JoinInv
=============================================================================
