---------------------------- MODULE ParallelJoin ----------------------------
(***************************************************************************)
(* run_parallel of a plan with a join (query_engine.cpp, lines 221 to 249):*)
(* the chunks of the node list are divided among thread_num threads, and   *)
(* each calls the compiled code on its own range.  The code first executes *)
(* the right-hand pipeline, whose End operator materialises every tuple    *)
(* into the static joiner::rhs_input_, and then the left-hand one, which   *)
(* joins each of its tuples with what rhs_input_ holds when the join is    *)
(* entered.  materialize_rhs locks; get_mat_res_size and get_join_tp_at do *)
(* not, and no barrier separates the two pipelines of different threads    *)
(* (get_vec_begin's wait is commented out).                                *)
(*                                                                         *)
(* The plan is a cross join of two scans.  A node is a number, its chunk   *)
(* the quotient by ChunkSize; the chunked vector and its range iterator    *)
(* are external.  The wait for the compile thread is in QueryEngine.       *)
(***************************************************************************)
EXTENDS Integers, Sequences, FiniteSetsExt

CONSTANTS
  MaxChunks,  \* bound: chunks of the node list
  ChunkSize,  \* nodes per chunk
  Lhs, Rhs,   \* the nodes with the label of the left and the right scan
  Word,       \* 2^64: size_t wraps around here
  ThreadNum,  \* the values of thread_num the client passes
  MaxCall,    \* bound: number of run_parallel calls
  Null

Node == 0..(MaxChunks * ChunkSize - 1)

ASSUME ParallelJoinAssumption ==
  /\ MaxChunks \in Nat /\ ChunkSize \in Nat \ {0}
  /\ Lhs \subseteq Node /\ Rhs \subseteq Node
  /\ Word \in Nat /\ Word > MaxChunks
  /\ ThreadNum \subseteq Nat
  /\ MaxCall \in Nat
  /\ Null \notin Node

VARIABLES
  num_chunks,  \* of the graph's node list; nodes are not added meanwhile
  status,      \* "ok", or "crashed" once the behaviour is undefined
  calls,       \* number of run_parallel calls
  pc,          \* the client's thread: "idle", or "loop" inside run_parallel
  thread_num,
  chunksz,
  cur_start,   \* first chunk of the next thread
  th,          \* query_threads, in the order of their creation
  rhs_input_,  \* joiner::rhs_input_ of the join
  cleared,     \* rhs_input_ was empty when the call began
  out          \* out[<<l, r>>]: tuples (l, r) in the result set

main == <<num_chunks, calls, pc, thread_num, chunksz, cur_start, cleared>>
vars == <<status, main, th, rhs_input_, out>>

ChunkOf(n) == n \div ChunkSize
Stored == {n \in Node : ChunkOf(n) < num_chunks}
NodesOf(first, last) == {n \in Stored : first <= ChunkOf(n) /\ ChunkOf(n) <= last}
Thread == DOMAIN th
NoPairs == [p \in Lhs \X Rhs |-> 0]

Init ==
  /\ num_chunks \in 0..MaxChunks
  /\ status = "ok"
  /\ calls = 0
  /\ pc = "idle"
  /\ thread_num = 0 /\ chunksz = 0 /\ cur_start = 0
  /\ th = <<>>
  /\ rhs_input_ = <<>>
  /\ cleared = FALSE
  /\ out = NoPairs

-----------------------------------------------------------------------------
\* The client empties the static itself, as the benchmarks do.
ClearRhs ==
  /\ status = "ok" /\ pc = "idle"
  /\ rhs_input_' = <<>>
  /\ UNCHANGED <<status, main, th, out>>

\* Dividing the chunks by zero threads ends the process.
RunParallel(num) ==
  /\ status = "ok" /\ pc = "idle" /\ calls < MaxCall
  /\ calls' = calls + 1
  /\ thread_num' = num
  /\ IF num = 0
     THEN status' = "crashed" /\ UNCHANGED <<pc, chunksz>>
     ELSE pc' = "loop" /\ chunksz' = num_chunks \div num /\ UNCHANGED status
  /\ cur_start' = 0 /\ th' = <<>>
  /\ cleared' = (rhs_input_ = <<>>)
  /\ out' = NoPairs
  /\ UNCHANGED <<num_chunks, rhs_input_>>

\* The compiled code, called for the chunks from first to last.
NewThread(first, last) ==
  [at |-> "rhs", first |-> first, last |-> last, left |-> NodesOf(first, last),
   lhs |-> Null, idx |-> 0, max |-> 0]

SpawnUpTo(end) ==
  /\ status = "ok" /\ pc = "loop" /\ Len(th) < thread_num
  /\ th' = Append(th, NewThread(cur_start, end))
  /\ cur_start' = cur_start + chunksz
  /\ UNCHANGED <<num_chunks, status, calls, pc, thread_num, chunksz, cleared, rhs_input_, out>>

IsLast == Len(th) = thread_num - 1

\* (Mutants: the chunk at the end of a range is also the next one's first; the
\* last range ends like the others; the end is an int.)
SpawnOverlapping == SpawnUpTo(IF IsLast THEN num_chunks ELSE cur_start + chunksz)
SpawnAlike == SpawnUpTo((cur_start + chunksz - 1) % Word)

SpawnSigned == SpawnUpTo(IF IsLast THEN num_chunks ELSE cur_start + chunksz - 1)

\* One iteration of the loop that creates the threads.  With fewer chunks than
\* threads chunksz is 0 and the end of a range wraps around.
Spawn == SpawnUpTo(IF IsLast THEN num_chunks ELSE (cur_start + chunksz - 1) % Word)

\* Every thread is joined, the transaction committed.
JoinThreads ==
  /\ status = "ok" /\ pc = "loop" /\ Len(th) = thread_num
  /\ \A t \in Thread : th[t].at = "done"
  /\ pc' = "idle"
  /\ UNCHANGED <<num_chunks, status, calls, thread_num, chunksz, cur_start, cleared, th,
                 rhs_input_, out>>

-----------------------------------------------------------------------------
(***************************************************************************)
(* The compiled code, on thread t.                                         *)
(***************************************************************************)
At(t, at) == status = "ok" /\ th[t].at = at
Materialising(t) == th[t].at = "rhs" /\ th[t].left \cap Rhs # {}
Next1(t) == Min(th[t].left)
Step(t, r) == th' = [th EXCEPT ![t] = r]

\* A thread that reads rhs_input_ while another appends to it races with it.
ReadsRhs(t) ==
  status' \in IF \E u \in Thread \ {t} : Materialising(u) THEN {"ok", "crashed"}
              ELSE {"ok"}

\* The right-hand scan and the End operator: the next node, if it has the
\* label, is appended to rhs_input_ under the lock.
Materialize(t) ==
  /\ At(t, "rhs") /\ th[t].left # {}
  /\ rhs_input_' = IF Next1(t) \in Rhs THEN Append(rhs_input_, Next1(t))
                   ELSE rhs_input_
  /\ Step(t, [th[t] EXCEPT !.left = @ \ {Next1(t)}])
  /\ UNCHANGED <<status, main, out>>

\* The left-hand scan starts over on the same range.
BeginLhs(t) ==
  /\ At(t, "rhs") /\ th[t].left = {}
  /\ Step(t, [th[t] EXCEPT !.at = "lhs", !.left = NodesOf(th[t].first, th[t].last)])
  /\ UNCHANGED <<status, main, rhs_input_, out>>

\* (Mutant: the counter is not set back for the next tuple.)
EnterJoinKeepsIdx(t) ==
  /\ At(t, "lhs") /\ th[t].left # {}
  /\ IF Next1(t) \in Lhs
     THEN /\ Step(t, [th[t] EXCEPT !.left = @ \ {Next1(t)}, !.at = "join",
                                   !.lhs = Next1(t), !.max = Len(rhs_input_)])
          /\ ReadsRhs(t)
     ELSE /\ Step(t, [th[t] EXCEPT !.left = @ \ {Next1(t)}])
          /\ UNCHANGED status
  /\ UNCHANGED <<main, rhs_input_, out>>

\* The next node of the left-hand scan; a tuple enters the join, which sets
\* its counter and reads the size of rhs_input_.
EnterJoin(t) ==
  /\ At(t, "lhs") /\ th[t].left # {}
  /\ IF Next1(t) \in Lhs
     THEN /\ Step(t, [th[t] EXCEPT !.left = @ \ {Next1(t)}, !.at = "join",
                                   !.lhs = Next1(t), !.idx = 0,
                                   !.max = Len(rhs_input_)])
          /\ ReadsRhs(t)
     ELSE /\ Step(t, [th[t] EXCEPT !.left = @ \ {Next1(t)}])
          /\ UNCHANGED status
  /\ UNCHANGED <<main, rhs_input_, out>>

\* The loop over the materialised tuples: the joined tuple is collected under
\* the result set's lock.
JoinNext(t) ==
  /\ At(t, "join") /\ th[t].idx < th[t].max
  /\ LET pair == <<th[t].lhs, rhs_input_[th[t].idx + 1]>>
     IN out' = [out EXCEPT ![pair] = @ + 1]
  /\ Step(t, [th[t] EXCEPT !.idx = @ + 1])
  /\ ReadsRhs(t)
  /\ UNCHANGED <<main, rhs_input_>>

\* (Mutant: the loop ends only past the size.)
LeaveJoinPast(t) ==
  /\ At(t, "join") /\ th[t].idx > th[t].max
  /\ Step(t, [th[t] EXCEPT !.at = "lhs"])
  /\ UNCHANGED <<status, main, rhs_input_, out>>

LeaveJoin(t) ==
  /\ At(t, "join") /\ th[t].idx = th[t].max
  /\ Step(t, [th[t] EXCEPT !.at = "lhs"])
  /\ UNCHANGED <<status, main, rhs_input_, out>>

Finish(t) ==
  /\ At(t, "lhs") /\ th[t].left = {}
  /\ Step(t, [th[t] EXCEPT !.at = "done"])
  /\ UNCHANGED <<status, main, rhs_input_, out>>

-----------------------------------------------------------------------------
Compiled(t) ==
  \/ Materialize(t) \/ BeginLhs(t) \/ EnterJoin(t) \/ JoinNext(t)
  \/ LeaveJoin(t) \/ Finish(t)
Main == Spawn \/ JoinThreads
Next ==
  \/ ClearRhs
  \/ \E num \in ThreadNum : RunParallel(num)
  \/ Main
  \/ \E t \in Thread : Compiled(t)

\* Threads that can run are scheduled; the client need not call anything.
Fairness ==
  /\ WF_vars(Main)
  /\ \A t \in 1..Max(ThreadNum) : WF_vars(t \in Thread /\ Compiled(t))
Spec == Init /\ [][Next]_vars /\ Fairness
-----------------------------------------------------------------------------
ThreadState ==
  [at : {"rhs", "lhs", "join", "done"}, first : Nat, last : Nat,
   left : SUBSET Node, lhs : Lhs \cup {Null}, idx : Nat, max : Nat]

TypeOK ==
  /\ num_chunks \in 0..MaxChunks
  /\ status \in {"ok", "crashed"}
  /\ calls \in Nat
  /\ pc \in {"idle", "loop"}
  /\ thread_num \in Nat /\ chunksz \in Nat /\ cur_start \in Nat
  /\ th \in Seq(ThreadState)
  /\ rhs_input_ \in Seq(Rhs)
  /\ cleared \in BOOLEAN
  /\ out \in [Lhs \X Rhs -> Nat]

RangeOf(t) == NodesOf(th[t].first, th[t].last)
Returned == status = "ok" /\ pc = "idle" /\ calls > 0

\* With no more threads than chunks, the threads' ranges are disjoint, and
\* once all are created every node is in one.
RangesPartition ==
  thread_num <= num_chunks =>
    /\ \A t, u \in Thread : t # u => RangeOf(t) \cap RangeOf(u) = {}
    /\ Len(th) = thread_num /\ thread_num > 0 =>
         Stored \subseteq UNION {RangeOf(t) : t \in Thread}

\* ... and no pair of tuples is joined twice, whatever the threads' order, if
\* the client has emptied rhs_input_.
JoinedAtMostOnce ==
  cleared /\ thread_num <= num_chunks => \A p \in Lhs \X Rhs : out[p] <= 1

\* A thread joins all its left-hand tuples with all the right-hand tuples of
\* its own range (with one thread: everything).  It may miss those the other
\* threads have not yet materialised.
JoinsOwnRange ==
  Returned => \A t \in Thread : \A p \in (Lhs \X Rhs) \cap (RangeOf(t) \X RangeOf(t)) :
                out[p] >= 1

\* A call returns, unless the process crashes.
Returns == pc = "loop" ~> (pc = "idle" \/ status # "ok")
-----------------------------------------------------------------------------
(***************************************************************************)
(* Why RangesPartition holds: its inductive strengthening.                 *)
(***************************************************************************)
Covered(c) == \E t \in Thread : th[t].first <= c /\ c <= th[t].last

\* The ranges created so far are in order, and cover the chunks before
\* cur_start; what is left is enough for the threads still to come.
PartitionInv ==
  /\ Len(th) <= thread_num
  /\ pc = "idle" /\ status = "ok" => Len(th) = thread_num
  /\ thread_num <= num_chunks =>
       /\ \A t, u \in Thread : t < u => th[t].last < th[u].first
       /\ Len(th) < thread_num =>
            /\ chunksz >= 1
            /\ cur_start + (thread_num - Len(th)) * chunksz <= num_chunks
            /\ \A t \in Thread : th[t].last < cur_start
            /\ \A c \in 0..(cur_start - 1) : Covered(c)
       /\ Len(th) = thread_num /\ thread_num > 0 =>
            \A c \in 0..(num_chunks - 1) : Covered(c)

(***************************************************************************)
(* Why JoinsOwnRange and JoinedAtMostOnce hold.                            *)
(***************************************************************************)

\* r is among the first n materialised tuples.
Holds(r, n) == \E i \in 1..n : rhs_input_[i] = r

\* What a thread has materialised of its own range is in rhs_input_ until it
\* is done, and the left-hand tuples it has dealt with are joined with it.
OwnInv(t) ==
  LET T == th[t]
      L == Lhs \cap RangeOf(t)
      R == Rhs \cap RangeOf(t)
  IN /\ T.at = "rhs" => \A r \in R \ T.left : Holds(r, Len(rhs_input_))
     /\ T.at = "lhs" => \A r \in R : Holds(r, Len(rhs_input_))
     /\ T.at = "join" => /\ T.lhs \in Lhs
                         /\ T.idx <= T.max /\ T.max <= Len(rhs_input_)
                         /\ \A r \in R : Holds(r, T.max)
                         /\ \A i \in 1..T.idx : out[<<T.lhs, rhs_input_[i]>>] >= 1
     /\ T.at = "done" => T.left = {}
     /\ T.at # "rhs" => \A l \in L \ T.left : \A r \in R :
                          (T.at = "join" => l # T.lhs) => out[<<l, r>>] >= 1
MatchInv ==
  /\ pc = "idle" /\ status = "ok" => \A t \in Thread : th[t].at = "done"
  /\ \A t \in Thread : OwnInv(t)

\* A thread has not yet joined, nor materialised, the nodes it has left, and
\* the tuple it is joining it has joined with the tuples before its counter.
FreshInv(t) ==
  LET T == th[t]
  IN /\ T.left \subseteq RangeOf(t)
     /\ T.at = "rhs" => \A i \in 1..Len(rhs_input_) : rhs_input_[i] \notin T.left
     /\ \A l \in Lhs \cap RangeOf(t) : \A r \in Rhs :
          T.at = "rhs" \/ l \in T.left => out[<<l, r>>] = 0
     /\ T.at = "join" => /\ T.lhs \in RangeOf(t) \ T.left
                         /\ \A r \in Rhs : out[<<T.lhs, r>>] > 0 => Holds(r, T.idx)

\* If the ranges are disjoint and rhs_input_ was empty, it holds no node
\* twice, and what is in no thread's range is neither there nor joined.
OnceInv ==
  cleared /\ thread_num <= num_chunks =>
    /\ \A i, j \in 1..Len(rhs_input_) : rhs_input_[i] = rhs_input_[j] => i = j
    /\ \A i \in 1..Len(rhs_input_) : \E t \in Thread : rhs_input_[i] \in RangeOf(t)
    /\ \A t \in Thread : FreshInv(t)
    /\ \A l \in Lhs, r \in Rhs :
         /\ out[<<l, r>>] <= 1
         /\ (\A t \in Thread : l \notin RangeOf(t)) => out[<<l, r>>] = 0

JoinInv == MatchInv /\ OnceInv
=============================================================================
