# Verification of graph-query-compiler

TLA+ models of the query engine of this repository, TLC configurations that check
them on small instances, and TLAPS proofs about them for every instance.

The repository compiles graph query plans to machine code with LLVM. A *plan* is a
tree of operators (`qoperator.hpp`); a `query_engine` translates it on a compile
thread, and either runs the code once, or starts by interpreting the plan and
switches to the code when it is ready, or runs the code on several threads, each
on a range of the node list. The graph database itself (Poseidon) is not part of
the repository; it is modelled only as far as the code uses it.

## 1. The system

| component | state | operations | interacts with |
|---|---|---|---|
| `query_engine` | `start_`, `operator_names_`, `query_args`, `compile_th`, `cur_query_`, `parallel_`; static `finish_`, `current_transaction_`; global `query_cnt` | `generate`, `run` (two), `run_parallel`, `cleanup`, destructor | starts `compile_task` on a thread; hands `start_[0]` to the database's workers |
| `compile_task` | locals of `operator()` | qid, code generation, `addModule`, walk of the plan, publication | writes the engine's maps, unlocked |
| `p_jit`, `optimizer`, `jit_cache` | modules and their symbols | `addModule`, `getFunctionAddr` | used by one engine |
| `interprete_visitor` | stack of database queries, global `op_id_` | one visit per operator, `start` | replaces or precedes the compiled code |
| `joiner` | static `rhs_input_`, a list of tuples per join | `materialize_rhs` (locked); unlocked reads in `global_definitions.cpp` | called by the compiled code of several threads |
| `sort_op` | static `cmp_` | constructor, `sort` | called by the generated finish function |
| result set | list of tuples; a mutex, `ct_mut`, that only `collect_tuple` takes | `collect_tuple` of compiled code, the database's `collect` of interpreted code (without that mutex), `sort` (unlocked) | shared by all workers of a run |
| `codegen_inline_visitor` | register list, `main_return`, `prev_bb`, projection keys, `jids`, `query_id_inline` | one visit per operator | called by `base_op::codegen` in plan order |
| filters and projections | expression trees | evaluation, inline and by call | part of the compiled code |
| runtime interface | thread-local tuple, thread-local list of relationships | functions called by the compiled code | database |

### What is hard here

* The compile thread writes what the client reads (`start_`, `finish_`,
  `operator_names_`, `query_args`) and only `std::thread::join` orders the two.
* State that outlives the call that made it: static members (`finish_`, `cmp_`,
  `rhs_input_`, `callee_`), counters that nobody resets (`arg_counter`, `op_id_`,
  `query_cnt`), names that only `run`'s cleanup removes.
* `scan_task::callee_` is replaced while workers call it.
* Threads over ranges of chunks: what they share, the wrap-around of the range
  arithmetic, and a barrier that is commented out.
* Finish functions run per morsel or per thread, not per query.
* Code generation is a sequence of visits that communicate through members of the
  visitor: what one operator leaves there decides where the next one's code goes.

`PROJECT.json` lists each hazard at its line with the properties that cover it.

## 2. The modules

### QueryEngine

One client thread and, per engine, a compile thread. Each action is one call, or
one part of a call between two points where the other threads can be seen:
`Generate`/`GenerateJoin`, `Run`/`RunJoin`/`RunExec`/`RunCleanup`,
`RunParallel`/`ParallelJoin`/`ParallelExec`, `Cleanup`, `Destroy`/`DestroyJoin`, and
`ReadQid`, `LoadCnt`, `StoreCnt`, `AddModule`, `WalkRoot`, `WalkNext`,
`PublishFinish`, `PublishStart`, `TaskReturn` for `compile_task::operator()`. The
ends of the process are states too: `terminated` (assigning to a joinable thread,
an exception out of a thread), `exited` (`ExitOnError`), `system_error` (joining a
thread that is not joinable), `crashed` (undefined behaviour: a race on a map, a
null function, a slot that does not exist). A call of compiled code is a record of
what was called with what (`call`).

| run | shows |
|---|---|
| `one_engine` | one engine, two plans, up to three compilations, every sequence of calls: the code executed is the current query's if the previous one was cleaned up, its finish function comes from the same compilation, identifiers never repeat, the first query's code is passed the labels that its own plan's walk has found, in that order, every call returns; the inductive invariants these rest on (`OneEngineInv`, `LabelInv`) |
| `two_engines` | two engines that share the static members: the inductive invariant of `RunsOwnQuery`, and no engine destroyed while its compile thread is running, unless the client is still inside that engine's destructor |
| `switch` (violation) | `run_parallel` cleans nothing up: the second query's morsels go to the first query's code |
| `sort` (violation) | a plan sorts by the predicate of the sort operator constructed last |
| `slots` (violation) | labels of successive compilations run past the 64 argument slots |

Bounds: `MaxGenerate` compilations per engine. Three suffice to have a stale name, a
stale finish function and a third query that meets both; every query can be run
any number of times. `Slots` is 6 in `one_engine` (two labels a plan, so that the
third compilation reaches the end) and 64, as in the code, where the number matters.

### MorselScan and Adaptive

`MorselScan` is what a parallel scan promises: between call and return every tuple
of every morsel is delivered once, or lost where the two ways of executing a morsel meet. `Adaptive` is `run_parallel` of a plan without a
join: the main thread interprets the plan, workers take morsels and call
`callee_`, the thread `t1` joins the compile thread and assigns `callee_` the
compiled version. `StartReturns` is the end of `iv.start()`, `Invoke` the call of
`callee_` (the plain scan, this call's lambda, or an older call's), `Collect` an
append to the result set, `BeginSort`/`EndSort` the finish function of a plan with a Sort.
Compiled workers append under `ct_mut`, a mutex of `global_definitions.cpp`, interpreted
ones by the database's collect operator, which cannot take it: `CollectOver` is the overlap of
an append of each kind, of which one tuple is lost (`lost`), and `CollectRace` the undefined end of
the same. Interpreted workers are taken not to race among themselves, as that is inside the database.
`MorselScan` says accordingly what is promised: a tuple is lost only in a call that
executes morsels both ways, and the calls that do not deliver every tuple once.
`callee_` is never put back by the engine; the repository's programs assign it
themselves before a run, which is the constant `Resets`.

| run | shows |
|---|---|
| `adaptive` | three workers, three morsels (with 2, 1 and 0 tuples), two queries of which the second sorts, three calls: no tuple twice, none missing but those whose appends raced, and so every tuple exactly once in a call that executed all morsels in one way; compiled code only once published, the call returns, `Adaptive` implements `MorselScan` (with liveness), and a result of which no part was interpreted is in order although each worker sorts the shared result set when its own morsel ends (or the race on it was met); the inductive invariant of the switch and the sorting (`CodeInv`) |
| `stale_callee` (violation) | without the client's reset the next query starts in the previous call's lambda |
| `limit` (violation) | the limit counts per morsel |

### ParallelJoin

`run_parallel` of a plan with a join. `Spawn` is one iteration of the loop that
divides the chunks, with the arithmetic of the code (an `int` start, a `size_t` end
that wraps around at `Word`). A thread executes the right-hand pipeline
(`Materialize`), then the left-hand one (`EnterJoin`, `JoinNext`, `LeaveJoin`), and
nothing separates the two pipelines of different threads. Reading `rhs_input_`
while another thread appends to it is undefined and may crash.

Run `parallel_join` (ranges, joined pairs, their inductive invariant `JoinInv`): zero to three chunks of one node, zero to three threads, two
calls in sequence with or without the client's `rhs_input_.clear()`. Three chunks
and two threads make the division uneven, three threads and two chunks make the
range wrap around, zero threads is the division by zero.

### PlanCodegen, Pipeline and Interpreter

`PlanCodegen` is the compilation of one plan. A plan is a sequence of pipelines, the
root's first; a join names the pipeline of its `inputs_[1]`. One action per `visit`
of `codegen_inline_visitor`, in the order of `base_op::codegen` (the root's pipeline to
its end, then the right-hand side of the join met last), then compile_task's walk that
extracts the labels (`WalkStep`, `WalkEnd`) and the linking of what the code calls with
what the JIT's constructor registers (`Calls`, `Registered`: `create_rship` is registered
under another name, so that code that creates relationships is linked only if the build
exports the function). A visit stores in `code` what its blocks refer to: the
registers (`regs`), the block they return to (`ret`), the argument slot (`op_id`),
the projection keys, the join identifier, the filter whose result it tests (`cmp`). LLVM
values are names. A filter that has no result to test (`expr_register` is global, and a
comparison with a string does not write it; `and` and `or` read a map that nothing
fills), a create operator that is linked with another pipeline's blocks, a limit
without a scan, and a register that is not there or not of the type that the visit takes it
for (`Usable`; the code checks neither) end the compilation (`phase = "aborted"`), and so does
a projection of more than eleven properties (`PvEntries`: `pv` has twelve entries, counted from 1).

`Pipeline` executes those blocks. The program counter is `<<pipeline, position, block>>`
and an action is what an operator does between two branches to another operator, or one
iteration of its loop. What the code shares is shared in the model: the allocas
of a pipeline (`fr`: `lhs_alloca`, `cur_idx`, `max_idx`, `dangling`, `res_counter`), the
thread-local list of variable-length relationships (`fev`), the descriptions that
projections remember by identifier (`descs`), and `rhs_input_`, a map from the joins that
have tuples. Registers (`env`) are what an operator has assigned last; `TypeOK` says that a
call has assigned those that the code at its place reads, with a node, a relationship or a property as
the visitor's type of the register says. An index scan reads three slots, of the index's label, its
property and the value; a projection throws for a property that a node or a relationship lacks, writes
nothing where `apply_pexpr` has no case (UINT64 of a relationship), and a projected DOUBLE (register type 3)
ends the call in `CollectTuple`, where `con_map` has no function for it. Code changes the graph
(`CreateTupleNode`, `CreateTupleRship`) while a scan below goes on, up to the end of the
chunks there were when the call began (`ChunkSize`); between calls a client may update a
property (`SetProperty`, `Updates`). `Apply` and
`Result` say what a plan means, operator by operator on sequences of tuples,
without blocks, registers or loops; `DeliversResult` compares the two.

`Interpreter` extends `Pipeline` with the other way to execute a plan: the
visits of `interprete_visitor` push database operators with the arguments in the slots
that the global `op_id_` counts, and `start()` executes them. The database's
operators are external and mean what `Apply` says, except that a property
predicate is applied to the last node of the tuple and reads the filter visitor when
it is evaluated. A projection that keeps a register has no case in the visitor and fails when it is
executed (`Fails`); a variable traversal is followed in its direction, which the compiled code ignores. Compiled and interpreted calls of one plan alternate in any order, and
`InterpretsPlan` says that an interpretation delivers the tuples `DeliversResult`
promises of the compiled code: what makes switching from the one to the other right.
The second caller of the interpreter is `run` after a `generate` that did not wait, as
in `main.cpp` (`RunInterpreted`): it interprets the plan with an `arg_builder` of
its own, which hides the client's arguments and is empty, and goes on to the compiled
code with the same result set; `DeliversResult` holds of that, too, because an empty
label matches nothing. A plan with a join cannot be interpreted: `codegen` visits the join while
there is only one query on the visitor's stack (`InterpretJoin`, undefined behaviour).

| run | shows |
|---|---|
| `pipeline` | every plan is compiled, called twice, with the client's arguments or those the walk extracted: it delivers `Result` in order, each join reads its own right-hand side's list after that is complete, labels are in the slots the code reads up to the first operator that takes slots without having a label, all functions are linked, no exception or undefined behaviour in a supported call that finds what it looks up, one node or relationship is created per tuple that reaches a create operator, the list of relationships is filled only above the traversal that fills it, every call returns; the order of pipelines, the queue of join identifiers, the argument slots and the links between the blocks are at every step what `CodegenInv` says; an interpretation delivers `Result`, too |
| `dangling` (violation) | a left outer join flags a pair as dangling although the left-hand tuple matches a later right-hand tuple |

Bounds: the plans are all combinations of one or two hops (out, in, variable) with five
ends, of two left-hand sides, two kinds of join, three right-hand sides and three ends, joins nested in a
right-hand side, fourteen single plans, nine of them not supported, and twelve plans that create nodes or
relationships, six of them not supported (95,203 states); the
graphs have two to four nodes, with parallel relationships, a self-loop,
a label without nodes, a node without relationships, and left-hand nodes that match before and after right-hand
nodes that they do not match, and a node and a relationship without the property. Two calls show what the first leaves behind.
With `ChunkSize` 3 the last chunk of a graph is full in one and has room in the others.
`Unknown`, 99 for the code's largest integer, is greater than every identifier.

`DeliversResult`, `NeverCrashes` and `ProbesWholeRhs` are about calls whose arguments
are in the slots the operators read (`ArgsBound`), that find no tuples of an earlier call
(`clean`), and about plans the code supports (`Supported`): one join per pipeline (two joins
chained in one pipeline swap their lists, because `jids` is a queue, and share
`cur_idx`), one projection and left outer joins in the root's pipeline only, one variable
traversal per pipeline and that from its source (its direction is ignored), and no limit
after a left outer join (it counts dangling tuples), filters that compare with a
number or call a function, no projection of more than eleven properties, of a DOUBLE or of UINT64 from a
relationship, creations in the root's pipeline, under labels that the
plan does not match elsewhere, and operators that find registers of the types they take them
for (`FoundTypes`, read off the plan; the visitor checks no type). `DeliversResult` also needs that no description is out of date
(nothing drops one when a property changes), and `NeverCrashes` that indexes have an entry for the
value and that no node or relationship lacks a projected property (`Found`). `Interpretable` restricts `InterpretsPlan`: no join
(`run_parallel` does not interpret those), no limit and no sort (they change `query_`,
which `start()` does not execute), no index scan (it is interpreted as a scan), nothing kept by a projection, comparisons of the last node, at most one of
them with a string, and with a number only in slot 2 (the filter visitor reads
`int_args[2]`). The run executes other plans as well; nothing is claimed of what they deliver.

### FilterExpression

The general compiler of filter expressions, `fep_visitor`, which the inline generator
replaces by a restricted one. One action per `visit` in postfix order, on `expr_stack`, from which
nothing is removed and in which operands are found by their distance from the front,
on `gen_vals_` and on the names `alloc` knows; then one action per visited token's blocks
(`LoadNumber`, `SearchKey`, `Evaluate`, `CallFct`) for nodes whose properties are a chain of property
sets. An operand that is not there, or has no value, is `phase = "aborted"`.

Run `filter`: all trees of up to three comparisons of two keys with two numbers, some of
four, some with strings, and calls, on six chains (19,527 states).
`FilterCompiles`: the left operand, looked up four tokens away at whatever depth, is the
value of a comparison or connective, if the right operand of each connective is a comparison; otherwise the
count of connectives runs out of the stack. `FilterExact`: a node passes exactly if the
expression holds and every key is found; the search for a key starts where the search for the
previous one ended, so a key in an earlier property set is missed and the filter is false.
`FilterInv` is the inductive invariant behind both: what is where on `expr_stack`, which instruction
each token has, and what is in memory in front of each instruction. The run may stop
where a compilation aborts, hence no deadlock check.

## 3. Fairness

Only threads that the scheduler runs are fair, each weakly: the compile thread, `t1`,
the workers, the query threads, and the client *inside* a call. That the client
makes a call is never assumed. `thread::join` and the mutexes are the only
waits, and a thread that can go on does so eventually; no strong fairness is used. In
`Pipeline` and `Interpreter` one thread compiles and executes: weak fairness of both,
none of `Start` and `Interpret`.

## 4. Proofs

All proofs are checked by TLAPS, for every value of the constants. They assume only the
named assumptions on the constants, which TLC evaluates in every run of the module:

* `EngineAssumption`: a finite set of engines (there are as many as the process has
  constructed), labels and slots counted by naturals; `NullAssumption` of `QueryEngine`: what
  a `std::map` without the entry holds is no finish function.
* `AdaptiveAssumption`, `ParallelJoinAssumption`: sizes and bounds are naturals, `Word` is greater
  than the number of chunks.
* `PlansAssumption`: a plan is what the constructors and `connect` of `qoperator.hpp` build
  (`IsPlan`: a tree that begins with access paths and ends with its leaves; only a
  `foreach_rship` is variable; the label of a filter is the value it compares with, a number or a
  string; an index is named by a label and a property); `NullAssumption` of `PlanCodegen`: neither a position nor a block is
  `Null`.
* `GraphsAssumption`: in a graph of the database, relationships connect nodes that there are
  (`IsGraph`).
* `ExprsAssumption`: an expression is visited in postfix order (`Postfix`).
* `ChainsAssumption`: a chain of property sets has a key in one set only (`IsChain`): a node has one
  value of a property.

### QueryEngine

* `QueryEngineProofs!Typing`: `TypeOK`, one step per action.
* `QueryEngineProofs!OwnQuery`, `QueryEngineCallProofs!OwnQueryState`: `RunsOwnQuery` and the
  invariant it needs, for any number of engines and plans. The property alone is not
  inductive: that `start_[0]` is of the current query follows from where the compile task is.
  `OwnQueryInv` adds that a compile task works on the engine's current query, that the last
  name pushed is its own, that `start_` belongs to the current query once the task has
  published with a single name, and that nobody executes while a compile thread is running.
* `QueryEngineCallProofs!NoCompile`: `NoCompileAfterDestroy`, an induction of its own on the
  one place where an engine dies: the destructor's join.
* `QueryEngineCallProofs!Unique`, `FinishOwn`: `IdentifiersUnique` and `FinishesOwnQuery`, from
  `OneEngineInv` (`OneEngineState`): between reading and advancing `query_cnt` the task's copy is
  current, every module in the JIT has an older number than the next will have, and
  the finish function is published before the start function and taken back with it.
  With two engines neither holds, as the counter and the finish function are shared;
  the theorems say so in their hypothesis.
* `QueryEngineCallProofs!PassesOwn`: `PassesOwnLabels`, from `LabelInv` (`LabelState`): at every point of
  an engine's first compilation its arguments are the labels the walk has reached,
  and on an engine that does not compile in parallel nothing changes them between
  `run`'s copy and the call.

### Adaptive

* `AdaptiveProofs!Typing` and `EveryTupleOnce`: `ExactlyOnce` for any number of workers and
  morsels, through `ScanInv`: a busy worker's morsel is nobody else's, is not in the queue, and its
  counter is what the result set holds or has lost of it; a tuple is lost only by an append that
  overlaps one of the other kind, so after morsels have been executed both ways (`WaysInv`).
* `AdaptiveProofs!AdaptiveImplementsScan`: the step simulation from `Adaptive` to `MorselScan`, by the
  same invariant.
* `AdaptiveProofs!PublishedCode` and `CompiledIsSorted`: `OnlyPublishedCode` and `SortedIfCompiled`, from
  `CodeInv` (`CodeState`). Its first part puts the switch behind the compile thread:
  `callee_` is this call's lambda, or about to be, only when nothing is being compiled, and then
  `start_` is of the current query. Its second part says why sorting per morsel is
  enough: if the result is out of order, a worker that delivered a tuple compiled has
  its finish function still to call.

### ParallelJoin

* `ParallelJoinProofs!Typing` and `Partition`: the ranges of the threads are disjoint and cover the
  node list, for any number of chunks and threads. `PartitionInv` carries, through the
  loop, that the ranges so far are in order, cover what lies before `cur_start`, and
  that what is left suffices for the threads to come.
* `ParallelJoinResultProofs!OwnRange` and `AtMostOnce`: `JoinsOwnRange` and `JoinedAtMostOnce`, from `JoinInv`
  (`JoinState`). `OwnInv` says what a thread has materialised and joined of its own
  range, whatever the others append in between: the size it reads when it enters the
  join covers its own tuples, wherever they are in the list. `OnceInv` says what it has not
  joined yet, which needs `Partition` (no node in two ranges) and an `rhs_input_` that the
  client has emptied.

### PlanCodegen, Pipeline and Interpreter

`PlanCodegenProofs` shows that `CodegenInv` is inductive for the compilation of any plan, with any
number and nesting of pipelines; `InterpreterProofs` that neither a call nor an
interpretation disturbs it (`CodegenState`), and what follows.

* `OrderInv`: the right-hand side of a visited join waits in `todo`, is about to be visited,
  or its entry block was put before that of the join's pipeline. When the compilation
  has ended nothing waits, so every pipeline is entered (the first that was not would be
  the right-hand side of a join in one that was: a well-founded argument over the
  tree) and each before the one that probes it: `RhsBeforeProbe` (`RhsExecutesFirst`).
* `JidInv`: the identifier of a visited join is queued last while its pipeline is visited,
  is next when its right-hand side is, and was taken by the End of that. It holds because
  with one join in a pipeline only one right-hand side waits at a time:
  `OwnRhs` (`JoinReadsOwnRhs`).
* `SlotInv`: the two walks over the plan count labels alike up to the first operator that
  takes slots without having a label: `LabelsBound` (`BindsLabels`).
* `FlowInv`: although every visit overwrites `main_return` and `prev_bb`, the blocks of an
  operator go on to the next one (past sorts only) and return to the innermost loop
  around it, and a limit leaves to the end of its own pipeline's scan.
* `RegsInv`: the registers that the code of an operator refers to are assigned by operators
  below it in the same pipeline (`Available`), and are of the types it takes them for, although the
  visitor keeps one list of registers that scans clear and projections replace. That of a join
  has the types of its right-hand side's registers, which needs that `RhsTypes`, a recursion along the
  tree of joins, is defined for every plan (`RhsTypesIs`).
* `TypesInv`: not only are the types usable, they are those that the plan determines: what
  an operator's registers hold is `FoundTypes`, computed along its pipeline without regard to
  the order of visits. `NamesInv`: no two joins have one identifier, and an operator that
  needs a scan's blocks or a projection's keys finds those of its own pipeline.
* `ListEmpty` (`LeavesListEmpty`): from `FlowInv`, the program counter of a call stays in the
  compiled code (`PcInv`), and whatever returns from above a variable-length traversal
  stops at that traversal's head or above it. So while the list of relationships is
  filled, the call is above a traversal or at its head, the head empties it before it
  returns, and no pipeline ends with the list filled. Plans of any shape are
  covered, with several such traversals in one pipeline too; a limit leaves the loops by
  another way, and plans with one are excluded.
* `InterpreterProofs!Typing` (`TypeOK`): whatever path a call has taken, the code at the program counter finds
  its registers assigned, with values of the right type. The inductive invariant
  is `TypeOK` with `IInv`, `PcInv` and `LeavesListEmpty`. `EnvInv` is about all registers ever
  assigned, not only those in use: a loop that goes back leaves the registers of the operators above
  it as they are, with values that are still nodes and relationships of the graph, because
  creations only add to it. `Needs` names the registers that must be assigned at
  a place; every branch leads (`Leads`, `Arrives`) to a place whose registers are those of
  the place before and what the step has assigned (`ConsumeLeads`), or fewer
  (`ReturnLeads`, by `FlowInv`: to an operator below). `FrameInv` is the same for the
  allocas: `cur_idx` indexes the list of the innermost join entered so far, `lhs_alloca` is a
  relationship or the end where it is tested. One lemma per action of a call (`…Typed`)
  shows what it changes; `TypeStep` puts them together with calls, interpretations and updates.
  The theorem covers every plan, the unsupported ones too, where calls may crash or
  deliver other tuples than the plan describes, but with registers that hold what they should.
* `InterpreterProofs!NoCrashes` (`NeverCrashes`), from `CallInv` on top of `TypeOK`. That a
  supported plan is compiled (`CompiledInv`) follows from `TypesInv` and `NamesInv`: each visit finds
  what it needs (`Compiles`). A call crashes only at an argument that is not there, an index
  or a property without a value, the end of the list of relationships, or a right-hand tuple that is
  not as long, or not of the types, that the join expects. Each has its part of the
  invariant: a call of a supported plan does not go on with the description of a property that is not there
  (`DescsInv`: `SupportedStores` says that each of its projections writes, and `NoDouble` that no register has the
  type without a `con_map` function); above a traversal the
  iterator is in the list, because a pipeline has one traversal and its head leaves it there
  (`IteratorInv`); the tuples in a join's list and the one it is at have the types of its
  right-hand side's registers (`TuplesInv`), because the End that fills the list has those registers
  (`EndFeeds`, from `JidInv`, `FlowInv` and `TypesInv`) and no other join has that identifier; nothing is
  in a list before the first call (`BeforeCalls`). `Supported` is needed where the iterator
  and the lists are shared and for projections; `Found` and `ArgsBound` only in the step that would crash (`NoCrash`).
* `InterpreterProofs!Interprets` (`InterpretsPlan`): an interpretation delivers the tuples that the plan
  describes, whatever was called before. Three invariants meet there. `CountInv`, of the
  compilation: in a plan that the interpreter supports the operator `k` has the slot `ArgSlot(k)`, one more
  than operators below it take, so that the slots are its own and hold its own label (`GivenIs`).
  `InterpretInv`, of the visits: the counter `op_id_` is at the slot of the operator to be
  visited and back at 1 afterwards, the query has the operators before it (`QueryInv`), and the
  filter visitor remembers the one string there is. And `TypesInv` again: the tuples that an
  operator is given have nodes where it takes them for nodes (`PlanRows`), so that the last
  element, which the database's predicate tests, is the one that the plan's filter
  tests (`FilterAlike`). The query's operators are then processed alike,
  one by one (`QueryDelivers`). A call of the compiled code in between changes the graph only if the plan
  creates something, and then it is not one that the interpreter supports (`ExecuteInterprets`).
  The library's induction theorems cannot be used, as they take an operator; both
  recursions are handled by `SetInduction` (every set of naturals with 0 and successors has
  them all), which `PlanCodegenProofs` proves.

### FilterExpression

* `FilterExpressionProofs!Typing`: `TypeOK`, which says of every value on the stack that it has a
  memory that `alloc` knows.
* `FilterExpressionProofs!Compiles` (`FilterCompiles`), from `FilterInv` (`FilterState`): `expr_stack` holds
  the visited tokens with the last in front, and the code one instruction for each.
  Where a connective's right operand is a comparison, the four tokens in front are
  that comparison's, and the one behind them, found by its distance, is the left
  operand's; that there is one follows from `Postfix` by counting results.
* `FilterExpressionProofs!Exact`: `FilterExact`, which ties the emitted code to the meaning of the expression
  (`Stack`, an evaluation with a stack of values). `CodeInv`: whatever the order of names and the
  sharing of memory, the instruction of a token is a function of the expression
  (`Instruction`): a value is stored where its name is new, and its operands are the
  values below it on the stack. `ExecutionInv`: in front of an instruction the memory holds,
  under each name met so far, the value of the token it stands for, so that what an
  omitted store would have written is there already; the search is in the set that holds the last key,
  and all keys so far were found in the order of the chain. `LeftNested` is
  not assumed: any other expression is given up (`aborted`) before it is called.

### Only model-checked

* Liveness (`CallsReturn`, `Returns`, the liveness part of `ImplementsScan`): out of the prover's reach
  here.
* `DeliversResult`, `CreatesOnce`, `ProbesWholeRhs`: each compares what the compiled code delivers with
  what the plan describes (`Rows`). An interpretation processes one operator after the other, so that
  `Interprets` is an induction along the plan; compiled code executes all operators for each tuple, in nested
  loops, and the invariant would have to say at every block what every loop around it has delivered
  so far, with joins as loops over other pipelines' results, too. That is not proved.
* `FlagStaysDown`: of the tuples already delivered, that those of one left-hand tuple are
  consecutive; this needs that a scan and the loops of a traversal deliver no tuple twice,
  which is again about the sequences they enumerate.

## 5. Not modelled

* The optimiser is a fixed list of LLVM passes, and the object cache's statements that would
  store anything are commented out: neither keeps state that an execution depends on.
* The function-per-operator generator (`codegen.cpp`). Its use is commented out
  (`query_engine.cpp`, line 73), and its code could not run: it calls `collect`,
  `join_insert_left`, `get_join_vec_arr` and `get_join_vec_size`, which no file defines, passes the
  address of an iterator's alloca where the runtime expects the iterator, and reads
  `create_op::ctype_`, which nothing initialises. There is no execution to be faithful to. The same
  holds of `codegen_rhs` in `qoperator.cpp`. Its filter compiler is complete and is
  modelled as an algorithm of its own.
* The functions on lists of result tuples in `p_context.cpp` (`qr_list_*`): nothing calls
  them, and the calls that would append an element are commented out.
* Nested-loop and hash joins, commented out in the code.
* LLVM types, field offsets and instruction selection (`PContext`), `p_jit` beyond the modules it holds
  and the names it resolves, target and memory managers: LLVM is trusted to execute the blocks
  as emitted.
* What the compile thread's code generation and the client's interpretation of the same plan share while
  both run: `codegen` of either writes the operators' `op_id_` and appends to the global `pipeline_types`.
  `Interpreter` interprets a plan whose
  compilation has ended.
* The database: transactions, storage and dictionary are external. Property values and
  labels are compared as such.
* Printing, timing, data set-up of the programs.

## 6. Plan

1. `QueryEngine`, `Adaptive`, `ParallelJoin` and their first proofs (done).
2. `PlanCodegen`, `Pipeline`, `Interpreter` (done), with creations, updates, linking and
   interpretation by `run` (done); `FilterExpression` (done).
3. Proofs: `OnlyPublishedCode` and `SortedIfCompiled` of `Adaptive`, `NoCompileAfterDestroy`,
   `FinishesOwnQuery`, `IdentifiersUnique` and `PassesOwnLabels` of `QueryEngine`, `JoinedAtMostOnce` and
   `JoinsOwnRange` from `Partition`, `FilterCompiles`, the invariant of the compilation with
   `JoinReadsOwnRhs`, `RhsExecutesFirst` and `BindsLabels`, and `LeavesListEmpty` from it (done).
4. The invariant of the registers (`RegsInv`) and the types of `Pipeline` on top of it (`Typing`),
   why calls do not crash (`NoCrashes`), the filters' meaning (`FilterExact`), and what an
   interpretation delivers (`Interprets`) (done).
5. Open: the properties that compare an execution of the compiled code with what the plan means
   (section 4).
