------------------------- MODULE ParallelJoinProofs -------------------------
(***************************************************************************)
(* Theorems about ParallelJoin, for any number of chunks, threads, nodes   *)
(* and calls: the ranges run_parallel gives its threads partition the node *)
(* list when there are no more threads than chunks.                        *)
(***************************************************************************)
EXTENDS ParallelJoin, SequenceTheorems, TLAPS

\* The integer division that sizes the ranges.
LEMMA DivBound ==
  ASSUME NEW c \in Nat, NEW n \in Nat, n > 0
  PROVE  /\ c \div n \in Nat
         /\ n * (c \div n) <= c
         /\ n <= c => c \div n >= 1
  BY SMT

\* One thread fewer to create leaves chunksz chunks fewer.
LEMMA OneLess ==
  ASSUME NEW k \in Nat, k > 0, NEW c \in Nat
  PROVE  k * c = (k - 1) * c + c /\ (k - 1) * c \in Nat
  BY SMT

LEMMA NodesOfType == \A first, last : NodesOf(first, last) \in SUBSET Node
  BY DEF NodesOf, Stored

LEMMA NewThreadType ==
  ASSUME NEW first \in Nat, NEW last \in Nat
  PROVE  NewThread(first, last) \in ThreadState
  BY NodesOfType DEF NewThread, ThreadState

\* A thread's step keeps its range and its type.
LEMMA ThreadStep ==
  ASSUME TypeOK, NEW t \in Thread, Compiled(t)
  PROVE  \E r \in ThreadState :
           /\ r.first = th[t].first /\ r.last = th[t].last
           /\ th' = [th EXCEPT ![t] = r]
  <1> DEFINE T == th[t]
  <1>t. T \in ThreadState
    BY DEF TypeOK, Thread
  <1>f. /\ T.at \in {"rhs", "lhs", "join", "done"} /\ T.first \in Nat /\ T.last \in Nat
        /\ T.left \in SUBSET Node /\ T.lhs \in Lhs \cup {Null}
        /\ T.idx \in Nat /\ T.max \in Nat
    BY <1>t DEF ThreadState
  <1>1. CASE Materialize(t)
    <2>1. [T EXCEPT !.left = @ \ {Next1(t)}] \in ThreadState
      BY <1>t, <1>f DEF ThreadState
    <2> QED
      BY <1>1, <2>1, <1>t DEF Materialize, Step, ThreadState
  <1>2. CASE BeginLhs(t)
    <2>1. [T EXCEPT !.at = "lhs", !.left = NodesOf(T.first, T.last)] \in ThreadState
      BY <1>t, <1>f, NodesOfType DEF ThreadState
    <2> QED
      BY <1>2, <2>1, <1>t DEF BeginLhs, Step, ThreadState
  <1>3. CASE EnterJoin(t)
    <2>1. CASE Next1(t) \in Lhs
      <3>1. Len(rhs_input_) \in Nat
        BY DEF TypeOK
      <3>2. [T EXCEPT !.left = @ \ {Next1(t)}, !.at = "join", !.lhs = Next1(t),
                      !.idx = 0, !.max = Len(rhs_input_)] \in ThreadState
        BY <1>t, <1>f, <2>1, <3>1 DEF ThreadState
      <3> QED
        BY <1>3, <2>1, <3>2, <1>t DEF EnterJoin, Step, ThreadState
    <2>2. CASE Next1(t) \notin Lhs
      <3>1. [T EXCEPT !.left = @ \ {Next1(t)}] \in ThreadState
        BY <1>t, <1>f DEF ThreadState
      <3> QED
        BY <1>3, <2>2, <3>1, <1>t DEF EnterJoin, Step, ThreadState
    <2> QED
      BY <2>1, <2>2
  <1>4. CASE JoinNext(t)
    <2>1. [T EXCEPT !.idx = @ + 1] \in ThreadState
      BY <1>t, <1>f DEF ThreadState
    <2> QED
      BY <1>4, <2>1, <1>t DEF JoinNext, Step, ThreadState
  <1>5. CASE LeaveJoin(t) \/ Finish(t)
    <2>1. /\ [T EXCEPT !.at = "lhs"] \in ThreadState
          /\ [T EXCEPT !.at = "done"] \in ThreadState
      BY <1>t, <1>f DEF ThreadState
    <2> QED
      BY <1>5, <2>1, <1>t DEF LeaveJoin, Finish, Step, ThreadState
  <1> QED
    BY <1>1, <1>2, <1>3, <1>4, <1>5 DEF Compiled

LEMMA InitInv == Init => TypeOK /\ PartitionInv
  <1> SUFFICES ASSUME Init PROVE TypeOK /\ PartitionInv
    OBVIOUS
  <1>1. <<>> \in Seq(ThreadState) /\ <<>> \in Seq(Rhs) /\ Len(<<>>) = 0
    OBVIOUS
  <1>2. TypeOK
    BY <1>1, ParallelJoinAssumption DEF Init, TypeOK, NoPairs
  <1>3. PartitionInv
    BY <1>1 DEF Init, PartitionInv, Thread
  <1> QED
    BY <1>2, <1>3

LEMMA TypeStep == TypeOK /\ [Next]_vars => TypeOK'
  <1> SUFFICES ASSUME TypeOK, [Next]_vars PROVE TypeOK'
    OBVIOUS
  <1>e. <<>> \in Seq(ThreadState) /\ <<>> \in Seq(Rhs)
    OBVIOUS
  <1>1. CASE ClearRhs
    BY <1>1, <1>e DEF ClearRhs, TypeOK, main
  <1>2. ASSUME NEW num \in ThreadNum, RunParallel(num) PROVE TypeOK'
    <2>1. num \in Nat /\ num_chunks \in Nat
      BY ParallelJoinAssumption DEF TypeOK
    <2>2. chunksz' \in Nat
      <3>1. CASE num = 0
        BY <1>2, <3>1 DEF RunParallel, TypeOK
      <3>2. CASE num > 0
        <4>1. num_chunks \div num \in Nat
          BY <2>1, <3>2, DivBound
        <4> QED
          BY <1>2, <3>2, <4>1, <2>1 DEF RunParallel
      <3> QED
        BY <3>1, <3>2, <2>1
    <2>3. /\ out' \in [Lhs \X Rhs -> Nat] /\ cleared' \in BOOLEAN
          /\ status' \in {"ok", "crashed"} /\ pc' \in {"idle", "loop"}
      BY <1>2 DEF RunParallel, NoPairs, TypeOK
    <2> QED
      BY <1>2, <1>e, <2>1, <2>2, <2>3 DEF RunParallel, TypeOK
  <1>3. CASE Spawn
    <2> DEFINE end == IF IsLast THEN num_chunks ELSE (cur_start + chunksz - 1) % Word
    <2>1. end \in Nat /\ cur_start + chunksz \in Nat
      BY ParallelJoinAssumption DEF TypeOK
    <2>2. NewThread(cur_start, end) \in ThreadState
      BY <2>1, NewThreadType DEF TypeOK
    <2>3. th' \in Seq(ThreadState)
      BY <1>3, <2>2, AppendProperties DEF Spawn, SpawnUpTo, TypeOK
    <2> QED
      BY <1>3, <2>1, <2>3 DEF Spawn, SpawnUpTo, TypeOK
  <1>4. CASE JoinThreads
    BY <1>4 DEF JoinThreads, TypeOK
  <1>5. ASSUME NEW t \in Thread, Compiled(t) PROVE TypeOK'
    <2>1. th' \in Seq(ThreadState)
      <3>1. PICK r \in ThreadState : th' = [th EXCEPT ![t] = r]
        BY <1>5, ThreadStep
      <3> QED
        BY <3>1, ExceptSeq DEF TypeOK, Thread
    <2>2. status' \in {"ok", "crashed"}
      BY <1>5 DEF Compiled, Materialize, BeginLhs, EnterJoin, JoinNext, LeaveJoin,
                  Finish, ReadsRhs, TypeOK
    <2>3. rhs_input_' \in Seq(Rhs)
      <3>1. CASE Materialize(t)
        <4>1. Next1(t) \in Rhs => Append(rhs_input_, Next1(t)) \in Seq(Rhs)
          BY AppendProperties DEF TypeOK
        <4> QED
          BY <3>1, <4>1 DEF Materialize, TypeOK
      <3>2. CASE ~Materialize(t)
        BY <1>5, <3>2 DEF Compiled, BeginLhs, EnterJoin, JoinNext, LeaveJoin,
           Finish, TypeOK
      <3> QED
        BY <3>1, <3>2
    <2>4. out' \in [Lhs \X Rhs -> Nat]
      <3>1. CASE JoinNext(t)
        <4> DEFINE pair == <<th[t].lhs, rhs_input_[th[t].idx + 1]>>
        <4>1. out' = [p \in Lhs \X Rhs |-> IF p = pair THEN out[p] + 1 ELSE out[p]]
          BY <3>1 DEF JoinNext, TypeOK
        <4> QED
          BY <4>1 DEF TypeOK
      <3>2. CASE ~JoinNext(t)
        BY <1>5, <3>2 DEF Compiled, Materialize, BeginLhs, EnterJoin, LeaveJoin,
           Finish, TypeOK
      <3> QED
        BY <3>1, <3>2
    <2>5. UNCHANGED main
      BY <1>5 DEF Compiled, Materialize, BeginLhs, EnterJoin, JoinNext, LeaveJoin, Finish
    <2> QED
      BY <2>1, <2>2, <2>3, <2>4, <2>5 DEF TypeOK, main
  <1>6. CASE UNCHANGED vars
    BY <1>6 DEF vars, main, TypeOK
  <1> QED
    BY <1>1, <1>2, <1>3, <1>4, <1>5, <1>6 DEF Next, Main

\* The variables of the parallel join keep their types.
THEOREM Typing == Spec => []TypeOK
  <1>1. Init => TypeOK
    BY InitInv
  <1> QED
    BY <1>1, TypeStep, PTL DEF Spec

-----------------------------------------------------------------------------
\* A step that leaves the ranges and the loop alone keeps the invariant.
LEMMA RangesKept ==
  ASSUME PartitionInv, Len(th') = Len(th), DOMAIN th' = DOMAIN th,
         \A t \in Thread : th'[t].first = th[t].first /\ th'[t].last = th[t].last,
         UNCHANGED <<num_chunks, thread_num, chunksz, cur_start>>,
         pc' = "idle" /\ status' = "ok" => Len(th) = thread_num
  PROVE  PartitionInv'
  <1>1. \A c : Covered(c) => Covered(c)'
    BY DEF Covered, Thread
  <1> QED
    BY <1>1 DEF PartitionInv, Thread

LEMMA PartitionStep == TypeOK /\ PartitionInv /\ [Next]_vars => PartitionInv'
  <1> SUFFICES ASSUME TypeOK, PartitionInv, [Next]_vars PROVE PartitionInv'
    OBVIOUS
  <1>t. /\ num_chunks \in Nat /\ chunksz \in Nat /\ cur_start \in Nat
        /\ thread_num \in Nat /\ th \in Seq(ThreadState) /\ Len(th) \in Nat
        /\ DOMAIN th = 1..Len(th)
    BY ParallelJoinAssumption DEF TypeOK
  <1>1. CASE ClearRhs
    BY <1>1, RangesKept DEF ClearRhs, main, PartitionInv
  <1>2. ASSUME NEW num \in ThreadNum, RunParallel(num) PROVE PartitionInv'
    <2>1. num \in Nat /\ th' = <<>> /\ thread_num' = num /\ cur_start' = 0
          /\ num_chunks' = num_chunks /\ Len(th') = 0 /\ Thread' = {}
      BY <1>2, ParallelJoinAssumption DEF RunParallel, Thread
    <2>2. CASE num = 0
      BY <1>2, <2>1, <2>2 DEF RunParallel, PartitionInv
    <2>3. CASE num > 0
      <3>1. pc' = "loop" /\ chunksz' = num_chunks \div num
        BY <1>2, <2>3, <2>1 DEF RunParallel
      <3>2. num * chunksz' <= num_chunks /\ (num <= num_chunks => chunksz' >= 1)
        BY <3>1, <2>1, <2>3, <1>t, DivBound
      <3>3. /\ Len(th') <= thread_num'
            /\ ~(pc' = "idle" /\ status' = "ok")
            /\ Len(th') < thread_num'
        BY <2>1, <2>3, <3>1
      <3>4. thread_num' <= num_chunks' =>
              /\ \A t, u \in Thread' : t < u => th'[t].last < th'[u].first
              /\ chunksz' >= 1
              /\ \A t \in Thread' : th'[t].last < cur_start'
        BY <2>1, <3>2
      <3>5. cur_start' + (thread_num' - Len(th')) * chunksz' <= num_chunks'
        <4>1. chunksz' \in Nat
          BY <3>1, <2>1, <2>3, <1>t
        <4>2. cur_start' + (thread_num' - Len(th')) * chunksz' = num * chunksz'
          BY <2>1, <4>1
        <4> QED
          BY <4>2, <2>1, <3>2
      <3>6. \A c \in 0..(cur_start' - 1) : Covered(c)'
        <4>1. 0..(cur_start' - 1) = {}
          BY <2>1
        <4> QED
          BY <4>1
      <3> QED
        BY <3>3, <3>4, <3>5, <3>6 DEF PartitionInv
    <2> QED
      BY <2>1, <2>2, <2>3
  <1>3. CASE Spawn
    <2> DEFINE end == IF IsLast THEN num_chunks ELSE (cur_start + chunksz - 1) % Word
    <2>1. /\ pc = "loop" /\ Len(th) < thread_num
          /\ th' = Append(th, NewThread(cur_start, end))
          /\ cur_start' = cur_start + chunksz
          /\ UNCHANGED <<num_chunks, pc, thread_num, chunksz>>
      BY <1>3 DEF Spawn, SpawnUpTo
    <2>2. end \in Nat
      BY <1>t, ParallelJoinAssumption
    <2>3. NewThread(cur_start, end) \in ThreadState
      BY <2>2, <1>t, NewThreadType
    <2>4. /\ Len(th') = Len(th) + 1 /\ Thread' = Thread \cup {Len(th) + 1}
          /\ \A t \in Thread : th'[t] = th[t]
          /\ th'[Len(th) + 1] = NewThread(cur_start, end)
          /\ \A t \in Thread : t \in Nat /\ t < Len(th) + 1
                               /\ th[t].first \in Nat /\ th[t].last \in Nat
      <3>1. \A t \in Thread : th[t] \in ThreadState
        BY <1>t DEF Thread
      <3>2. \A t \in Thread : th[t].first \in Nat /\ th[t].last \in Nat
        BY <3>1 DEF ThreadState
      <3> HIDE DEF end
      <3>3. /\ Len(th') = Len(th) + 1 /\ th' \in Seq(ThreadState)
            /\ \A t \in 1..Len(th) : th'[t] = th[t]
            /\ th'[Len(th) + 1] = NewThread(cur_start, end)
        BY <2>1, <2>3, <1>t, AppendProperties
      <3>4. Thread' = 1..(Len(th) + 1)
        BY <3>3 DEF Thread
      <3> QED
        BY <1>t, <3>2, <3>3, <3>4 DEF Thread
    <2> DEFINE last == th'[Len(th) + 1].last
    <2>5. th'[Len(th) + 1].first = cur_start /\ last = end
      BY <2>4 DEF NewThread
    <2>6. pc' = "loop" /\ Len(th') <= thread_num'
      BY <2>1, <2>4, <1>t
    <2>7. ASSUME thread_num <= num_chunks
          PROVE  /\ \A t, u \in Thread' : t < u => th'[t].last < th'[u].first
                 /\ Len(th') < thread_num =>
                      /\ chunksz >= 1
                      /\ cur_start' + (thread_num - Len(th')) * chunksz <= num_chunks
                      /\ \A t \in Thread' : th'[t].last < cur_start'
                      /\ \A c \in 0..(cur_start' - 1) : Covered(c)'
                 /\ Len(th') = thread_num =>
                      \A c \in 0..(num_chunks - 1) : Covered(c)'
      <3>1. /\ chunksz >= 1
            /\ cur_start + (thread_num - Len(th)) * chunksz <= num_chunks
            /\ \A t \in Thread : th[t].last < cur_start
            /\ \A c \in 0..(cur_start - 1) : Covered(c)
            /\ \A t, u \in Thread : t < u => th[t].last < th[u].first
        BY <2>7, <2>1 DEF PartitionInv
      <3>2. \A t, u \in Thread' : t < u => th'[t].last < th'[u].first
        BY <2>4, <2>5, <3>1
      <3>3. \A c : Covered(c) => Covered(c)'
        BY <2>4 DEF Covered
      <3>4. \A c \in Nat : cur_start <= c /\ c <= end => Covered(c)'
        <4>1. Len(th) + 1 \in Thread'
          BY <2>4
        <4> QED
          BY <4>1, <2>5 DEF Covered
      <3>5. ASSUME Len(th') < thread_num
            PROVE  /\ cur_start' + (thread_num - Len(th')) * chunksz <= num_chunks
                   /\ end = cur_start' - 1
        <4> DEFINE k == thread_num - Len(th)
        <4>1. k \in Nat /\ k > 0 /\ k - 1 = thread_num - Len(th') /\ ~IsLast
          BY <3>5, <2>4, <1>t DEF IsLast
        <4>2. k * chunksz = (k - 1) * chunksz + chunksz /\ (k - 1) * chunksz \in Nat
          BY <4>1, <1>t, OneLess
        <4>3. cur_start + (k * chunksz) <= num_chunks
          BY <3>1
        <4>4. cur_start + chunksz <= num_chunks
          BY <4>2, <4>3, <1>t
        <4>5. (cur_start + chunksz - 1) % Word = cur_start + chunksz - 1
          <5>1. num_chunks < Word /\ Word \in Nat
            BY ParallelJoinAssumption DEF TypeOK
          <5>2. cur_start + chunksz - 1 \in 0..(Word - 1)
            BY <5>1, <4>4, <3>1, <1>t
          <5> QED
            BY <5>1, <5>2
        <4>6. end = cur_start' - 1
          BY <4>1, <4>5, <2>1, <1>t
        <4>7. cur_start' + (k - 1) * chunksz <= num_chunks
          BY <4>2, <4>3, <2>1, <1>t
        <4> QED
          BY <4>1, <4>6, <4>7
      <3>6. ASSUME Len(th') < thread_num
            PROVE  /\ \A t \in Thread' : th'[t].last < cur_start'
                   /\ \A c \in 0..(cur_start' - 1) : Covered(c)'
        <4>1. end = cur_start' - 1 /\ cur_start' = cur_start + chunksz
          BY <3>5, <3>6, <2>1
        <4>2. \A t \in Thread : th'[t].last < cur_start'
          BY <3>1, <4>1, <2>4, <1>t
        <4>3. th'[Len(th) + 1].last < cur_start'
          BY <4>1, <2>5, <1>t
        <4>4. ASSUME NEW c \in 0..(cur_start' - 1) PROVE Covered(c)'
          <5>1. CASE c < cur_start
            BY <5>1, <3>1, <3>3, <1>t
          <5>2. CASE cur_start <= c
            <6>1. c \in Nat /\ c <= end
              BY <4>1, <1>t
            <6> QED
              BY <5>2, <6>1, <3>4
          <5> QED
            BY <5>1, <5>2, <1>t, <4>1
        <4> QED
          BY <2>4, <4>2, <4>3, <4>4
      <3>7. ASSUME Len(th') = thread_num, NEW c \in 0..(num_chunks - 1)
            PROVE  Covered(c)'
        <4>1. end = num_chunks
          BY <3>7, <2>4, <1>t DEF IsLast
        <4>2. CASE c < cur_start
          BY <4>2, <3>1, <3>3, <1>t
        <4>3. CASE cur_start <= c
          <5>1. c \in Nat /\ c <= end
            BY <4>1, <1>t
          <5> QED
            BY <4>3, <5>1, <3>4
        <4> QED
          BY <4>2, <4>3, <1>t
      <3> QED
        BY <3>1, <3>2, <3>5, <3>6, <3>7
    <2> HIDE DEF end, last
    <2> QED
      BY <2>1, <2>6, <2>7 DEF PartitionInv
  <1>4. CASE JoinThreads
    BY <1>4, RangesKept DEF JoinThreads
  <1>5. ASSUME NEW t \in Thread, Compiled(t) PROVE PartitionInv'
    <2>1. PICK r \in ThreadState :
            /\ r.first = th[t].first /\ r.last = th[t].last
            /\ th' = [th EXCEPT ![t] = r]
      BY <1>5, ThreadStep
    <2>2. /\ DOMAIN th' = DOMAIN th /\ Len(th') = Len(th)
          /\ \A u \in Thread : th'[u] = IF u = t THEN r ELSE th[u]
      BY <2>1, <1>t, ExceptSeq DEF Thread
    <2>3. UNCHANGED main /\ status = "ok"
      BY <1>5 DEF Compiled, Materialize, BeginLhs, EnterJoin, JoinNext, LeaveJoin,
                  Finish, At
    <2> QED
      BY <2>1, <2>2, <2>3, RangesKept DEF main, PartitionInv
  <1>6. CASE UNCHANGED vars
    BY <1>6, RangesKept DEF vars, main, PartitionInv
  <1> QED
    BY <1>1, <1>2, <1>3, <1>4, <1>5, <1>6 DEF Next, Main

\* Ranges of chunks in order are disjoint sets of nodes.
LEMMA RangesFollow == TypeOK /\ PartitionInv => RangesPartition
  <1> SUFFICES ASSUME TypeOK, PartitionInv, thread_num <= num_chunks
               PROVE  /\ \A t, u \in Thread : t # u => RangeOf(t) \cap RangeOf(u) = {}
                      /\ Len(th) = thread_num /\ thread_num > 0 =>
                           Stored \subseteq UNION {RangeOf(t) : t \in Thread}
    BY DEF RangesPartition
  <1>t. \A t \in Thread : /\ t \in Nat /\ th[t].first \in Nat /\ th[t].last \in Nat
    <2>1. \A t \in Thread : t \in Nat /\ th[t] \in ThreadState
      BY DEF TypeOK, Thread
    <2> QED
      BY <2>1 DEF ThreadState
  <1>c. \A n \in Node : ChunkOf(n) \in Nat
    <2>1. ASSUME NEW n \in Nat PROVE ChunkOf(n) \in Nat
      BY ParallelJoinAssumption, DivBound DEF ChunkOf
    <2> QED
      BY <2>1, ParallelJoinAssumption DEF Node
  <1>1. ASSUME NEW t \in Thread, NEW u \in Thread, t < u
        PROVE  RangeOf(t) \cap RangeOf(u) = {}
    <2>1. th[t].last < th[u].first
      BY <1>1 DEF PartitionInv
    <2> QED
      BY <2>1, <1>t, <1>c DEF RangeOf, NodesOf, Stored
  <1>2. ASSUME Len(th) = thread_num, thread_num > 0, NEW n \in Stored
        PROVE  \E t \in Thread : n \in RangeOf(t)
    <2>1. ChunkOf(n) \in 0..(num_chunks - 1)
      BY <1>2, <1>c DEF Stored, TypeOK
    <2>2. Covered(ChunkOf(n))
      BY <1>2, <2>1 DEF PartitionInv
    <2> QED
      BY <2>2 DEF Covered, RangeOf, NodesOf
  <1> QED
    BY <1>1, <1>2, <1>t

\* With no more threads than chunks, no node is in two threads' ranges and,
\* once every thread is created, each is in one.
THEOREM Partition == Spec => []RangesPartition
  BY RangesFollow, InitInv, TypeStep, PartitionStep, PTL DEF Spec
=============================================================================
