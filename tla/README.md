# A verification of the Level Zero ray tracing support library

TLA+ models of the library that builds ray tracing acceleration structures
(bounding volume hierarchies, BVHs) for Intel GPUs, with TLC configurations
that check them on small instances and TLAPS proofs for all instances. Line
numbers refer to the repository's files; `PROJECT.json` maps every definition
to the lines it translates and lists the runs, mutants, findings and theorems.

Contents: 1 the system, 2 the plan, 3 modules and code, 4 runs and bounds,
5 fairness, 6 proofs, 7 findings, 8 what is not modelled.

## 1. The system

An application calls the API through the wrapper (`level_zero/ze_wrapper.cpp`),
which passes the calls on to the loader's implementation or to the internal
builder (`rtbuild/`). A build takes an array of geometries, a scratch buffer
and an acceleration structure buffer:

1. the entry points (`rtbuild/rtbuild.cpp`) validate the arguments and run the
   build directly, or spawn it in the task group of a *parallel operation*,
   which the application's own threads then *join* to work on it;
2. triangles that share an edge are paired (`quadifier.h`), and the primitive
   references are written into the scratch buffer by parallel loops over all
   geometries (`parallel_for_for_prefix_sum.h`);
3. in high quality, primitives are split and instances are opened into the
   slots that pairing left over (`primrefgen_presplit.h`, `openInstance`);
4. the tree is built by recursion, in nested task groups above 1024 primitives
   (`qbvh6_builder_sah.h`), the nodes being allocated by a lock-free counter;
   a build that runs out of memory is answered with RETRY and a larger size;
5. the GPU traverses the tree; `rttrace/` starts a ray query and continues it
   whenever the traversal is suspended to ask the program about a hit.

### Components

| component | state | operations | what makes it correct |
|---|---|---|---|
| allocator (`qbvh6_builder_sah.h:42`) | `cur`, `end` | `malloc` from any task | blocks disjoint, aligned, inside the buffer; none after a refusal; no wrap-around |
| tree construction (`:748-860`, `:1154`) | task groups, `success` flags, reductions of the children | `createInternalNode` and the leaf functions | nothing half built is accepted, no task outlives its frame, the answer has the right reason |
| tree shape and leaves (`:400-745`, `qnode.h`, `leaf.h`) | build records: range, depth, type | splits; inner, large and fat leaf | one type per leaf, nothing lost, depth bounded, encodings hold |
| parallel operation (`rtbuild.cpp:664-757`) | `object_in_use`, `errorCode`, task group | create, destroy, build, properties, join | one build at a time (finding 4), all joins answer with its code, joins return |
| pairing (`quadifier.h`) | window of 32 triangles, offsets | push, merge, flush | nothing lost, no triangle in two pairs, count = number of leaders |
| primitive generation (`:1061-1105`, `parallel_for_for.h`) | start of each task, sums | two or three passes | ranges tile the input, tasks write apart, no holes |
| partition (`parallel_partition.h`) | array, misplaced ranges | segments, swaps | a permutation, partitioned, swaps apart, right reductions |
| prefix sum (`parallel_prefix_sum.h`) | counts and sums of the tasks | two passes | equal to the sequential sum |
| pre-splitting (`primrefgen_presplit.h`) | items, budget, offsets | weigh, sort, count, shrink, store | pieces fit, no gap, the most worthy primitives first |
| instance opening (`:960-1040`) | bounded heap of nodes | pop, push children | never full beyond 32, never empty |
| size estimate and retry (`:132`, `:1154`, `:1267`) | counts, sizes | estimate, build, retry | expected <= worst case, retries make progress and end |
| radix sort (`parallel_sort.h`) | two arrays, counts of the digits | count, copy | sorted and stable, tasks write apart |
| grid and splitter (`primrefgen_presplit.h:36-176`, `splitter.h`) | calls of the recursion | plane, split | as many pieces as asked for at most, each plane used once |
| binning (`heuristic_binning*.h`) | bins, best split | bin, sweep, partition, fallback | no empty side, the bins count what the partition puts there |
| entry points (`rtbuild.cpp:68-660`) | stage of a build, what is read | validation, filter, build, error codes | nothing is read that was not described, errors are true |
| nodes (`qnode.h`) | exponent and grid of a node | quantise, decode | decoded boxes contain what was encoded |
| wrapper (`ze_wrapper.cpp`) | module handle, function table, selected builder, mutex | init, select, call | no call of a null pointer, no refusal after success (findings 3 and 5), one builder per table |
| device properties (`ze_wrapper.cpp:338-471`) | the chain of descriptors of the program | query | chain restored, format only of known devices |
| ray queries (`rttrace/`) | two rays, potential and committed hit, control word | init, start, sync, commit, forward, abandon | closest hit, any hit when the first is accepted, the query ends |

### What is hard

Concurrency: the allocator without locks; flags that are tested and set by two
accesses; nested task groups of which one child fails and another throws;
tasks that write into one array without synchronisation because the ranges
should be disjoint; a function table that is read without the mutex that
guards its writing; a query of which half lives in the program and half in
memory that the hardware writes. Failure: memory that runs out in one of many tasks,
exceptions through task groups, lookups that fail half way. Order: a join that
reads the result of a build after it has released the operation; two passes of
which the second relies on what the first counted. Boundaries: windows, heaps,
budgets, fields of two bits. Every such place is listed under `hazards` in
`PROJECT.json`, at its line.

## 2. The plan

Modelled first was what a build stands on: memory, tasks and their answers; then
the parallel loops that fill the array; then what is put into the tree and how
much memory that takes; then the calls of the program, and the queries. All of
it is in section 3. The abstract specifications are those of the allocator and
the parallel operation; the others are stated as what a sequential or direct
definition would give.

Left, none of it with control that the properties above depend on: the layout
of an instance record (`InstanceLeaf` in `leaf.h`), the growth of
`sys/vector.h` beyond its one use, and the statistics of a finished BVH
(`qbvh6.cpp`). Every invariant of the passing runs is stated by a theorem of
section 6, some of them under a hypothesis that is named there.

## 3. Modules and code

Abstract specifications: **BlockPool** (blocks that never overlap, none after a
refusal) is implemented by Allocator; **DeferredBuild** (start, complete,
answer) is implemented by ParallelOperation.

Memory and tasks:

- **Allocator**: `malloc` is three steps, as in the code: the test of the
  counter, its load for the padding, `fetch_add`. `refused` is a history
  variable. Request sizes are multiples of 64 bytes, which is true of every
  call of the builder (theorem BuilderRequestsMultiple) and is why the stale
  padding is harmless.
- **TreeBuild** INSTANCEs Allocator, nodes being its threads, since each calls
  `malloc` at most once. The tree is a constant, the sizes of the leaves and
  the nodes that are too deep are inputs. `StartRange`, `NextChild`,
  `FailRange`, `JoinChildren` are the body and the end of the `parallel_for` at
  line 832; `DropRange` and `ThrowRange` are what the task library does with a
  cancelled group; `Finish` is the end of `build` and of
  `zeRTASBuilderBuildBody`. `parallel_for` may cut the children into any ranges.
- **ParallelOperation**: `CallBuild`, `Bind`, `Spawn` are test, store and
  `group.run` of lines 684-689; `CallJoin`, `LeaveWait`, `Clear`, `ReadCode`
  are lines 754-756. Threads that wait in the common arena may pick any task of
  it, nested on their stack. `Usage` says how the application orders its calls:
  "ordered" rebuilds after all joins have returned, "rebuild" as soon as the
  flag is clear, "racing" at any time.

From geometries to an array of primitives:

- **Quadifier** streams triangles through the window; which pairs share an edge
  is an input. **TrianglePair** is the comparison itself, `pair_triangles` on
  index triples, and the record of a quad leaf with the way it is read back.
- **PrimRefGen**: `SplitTask` and `SplitGeometry` are the walk of
  `ParallelForForState::init`; `Quadify` and `Store` handle one slice of a
  task's range, `NextPass` is the barrier between the passes. A pairing is any
  set of disjoint pairs of a slice. `writers` is a history variable.
- **PrefixSum**: the tasks of both passes in any order.
- **RadixSort**: `CountDigits` and `CopyItems` are the tasks of the two halves of an
  iteration, in any order. An item is the place where it stood at first, so
  that stability can be stated. Presplit relies on it for its order.
- **ParallelPartition**: serial partitions of the segments, the misplaced
  ranges of both sides, and the shares of the swaps, item by item.
- **Presplit**: the phases of `createPrimRefArray_presplit`. `MaxLog` stands for
  `MAX_PRESPLITS_PER_PRIMITIVE_LOG`. The budget is what pairing and filtering
  left free: the array is sized by the number of primitives, never by the
  twenty percent that `estimateSize` adds to the scratch buffer.
- **SplittingGrid**: where a primitive is split, by the highest bit in which the
  Morton codes of the corners of its narrowed box differ, and the recursion of
  `splitPrimitive`. Coordinates are tenths of a cell, the splitter may miss the
  plane by `Rounding`.
- **OpenInstance**: the loop of `openInstance`, one child per step; a node is
  known by whether it can be opened.

The tree:

- **TreeShape** follows one path of the recursion, with every outcome of the
  heuristics for the sizes and types of the children, through inner nodes,
  large leaves and fat leaves. An inner node can have a single child when a
  mixed record turns out to be uniform; DepthSound shows it to be harmless.
- **Binning**: what those outcomes are. `Bin` fills and merges bins,
  `FindBest` is the sweep over them, `split` asks each primitive for its bin again,
  `performFallbackSplit` cuts in the middle when all centres agree.
- **FatLeaf**: what a fat leaf of quads, procedurals or instances allocates and
  writes, and what a traversal reads through the node's two-bit increments.
- **QuantisedNode**: the bounds of children in the grid of their node, along one
  axis: exponent, rounding down and up, and decoding. Numbers are those of a
  small binary floating-point format, with rounding to nearest even.
- **Stats** has the estimates by numbers of primitives, **BuildRetry** the hint
  of a failed build and the client loop of `testing/rthwif_test.cpp`.
  **TreeBytes** is what a tree over primitives of one type takes, for every
  tree the splits may lead to, against the worst case of Stats.

Calls and queries:

- **BuildCall**: the exported functions of the builder. The tests of the
  arguments are a list in the order of the code, the first that fails gives the
  answer. `Verify`, `CreatePrimRefs` and `CreateLeaves` are the parallel loops over
  geometries, `thrown` is an exception in any of them or in the builder that they
  run in. `exceeded` is an input that says which limits a build goes beyond: the
  memory of its arrays (`OutOfMemory`, between the checks and the first reading of
  primitives) and the depth of the tree (`TooDeep`, which may come before or
  after a lack of room for the structure). `Caught` is the one catch around all of
  them. Exceptions that the heap may throw anywhere (`std::bad_alloc`) end in the
  same catch and are not modelled one by one.
- **ZeWrapper**: the table of functions. `CallFunction` is the test of handle
  and pointer, `Invoke` the second read and the call. One lookup or store of a
  function is one step. The mutex is taken by the first step of the body of
  `init` or `initRTASBuilder`; the early returns need it only to be free.
  `failed` is a history variable: a selection has stopped at a missing symbol.
  Programs go on after any failure.
- **DeviceProperties**: `zeDeviceGetProperties` with the internal builder: the
  test of the first descriptor of the chain, the only one that the code looks at,
  its removal for the driver's call, and its return to the chain.
- **RayQuery**: the handle of the program and the `RTStack` in memory, with the
  hardware as environment: it visits what lies at a level in any order, finishes
  the inner level first, and suspends for every hit it cannot decide. The loop
  of `render_loop` in `testing/rthwif_test.cpp` is the program.

Parts that the code runs one after the other, and that share no state but what
they hand over, are checked together, each from initial states of its own:
**MCPasses** (PrimRefGen, PrefixSum, RadixSort, ParallelPartition),
**MCSplitting** (Presplit, SplittingGrid, OpenInstance), **MCLeaves**
(Quadifier, TrianglePair, FatLeaf, QuantisedNode), **MCTrees** (TreeShape,
TreeBytes, BuildRetry, Binning) and **MCZeWrapper** (ZeWrapper,
DeviceProperties, BuildCall). **MCPrimitives** is MCPasses and MCSplitting, all
that a build does before it makes a tree; **MCTraversal** is MCLeaves and
RayQuery, what a ray meets and how it is followed. The variable that says which part runs never
changes, the variables of the other parts are unused, and no action belongs to
two parts. Each part's properties are stated in its own module. A part may end
only where its function returns (`Ended`), so that TLC's check for deadlock
finds a part that gets stuck.

Definitions named `Mut...` are faulty versions of the definition that follows
them. Each property fails with one of them (`mutants` in `PROJECT.json`), which
shows that it depends on the code and that the instance reaches the case.

## 4. Runs and bounds

| run | properties, and what they show | bounds, and why they are enough |
|---|---|---|
| `allocator` | BlocksSound: blocks disjoint, aligned, inside; Overshoot: the counter; PoolSpec: refinement of BlockPool | 3 threads, 448 bytes, requests of 64, 128 and 192 bytes: exact fill, useless rests, three overshoots at once |
| `treebuild` | SuccessLayout: exact size, no overlap; ValidComplete: no half-built node; NoOrphans: no task outlives its frame; AnswerJustified: the right error; Terminates | a tree with two levels of task groups and a serial node; leaves that fit the buffer to the last byte and leaves that do not; with and without a node that is too deep |
| `parallel_operation` | JoinAnswers: a join returns the code of its build; JoinReturns; PromiseKept: refinement of DeferredBuild | 3 threads, 2 operations, 2 builds each, direct builds on the side |
| `primitives` | PrimRefsExact: the array of primitives; PrefixSumExact; RadixSorted: sorted, stable, a permutation; Partitioned; WithinBudget, PresplitExact, WorthiestSplit: pre-splitting; PlanesCut: each plane cuts what is left, and the pieces are not more than asked for; HeapSound: the heap of openInstance | 4 primitives in 3 geometries with every validity and pairing; sums of up to 7 values, around the threshold; every sequence of keys of up to 5 items in two digits; every predicate on 8 items and those on 12 in which a share spans two ranges; up to 3 tasks; 3 primitives, all priorities to 3, budgets from none to more than needed; two dimensions of a grid of 4 cells, corners beside and on its planes, up to 4 pieces; the code's own 32 places and 6 children |
| `traversal` | PairsGreedy: the window of triangles; QuadDecodes: quads; DecodesToChildren: fat leaves; BoundsConservative: quantised boxes; AnswerRight: the closest wanted hit, or any; CommittedCloser: a committed hit is never lost or replaced by a farther one; QueryEnds | window of 5 (32 in the code) and 7 triangles with 3 shared edges: it wraps around; 5 vertices give every pattern of equal indices, distances 1 and 31 the ends of the field; all leaves of 1-6 children in 3 geometries; 4 bits of mantissa and 2 of grid, where every rounding case occurs; 2 items outside and 2 in an instance, of all 5 kinds, at 2 distances, with both answers of the program and both flags: two suspensions at each level, and one before and after an instance |
| `trees` | LeafSound: types and sizes; DepthSound: no node too deep, the exception only when it must be; WorstCaseCovers: the promised size; RetriesSuffice: the client's loop makes progress and ends with success; SplitSound: splits | 22 primitives of one type, 3 and 2 of two others, 3 children per node, leaves of 6: every label, an uneven fat leaf, and the exception; bytes with the code's own numbers for up to 19 primitives; up to 3 geometries of 0 to 20000 primitives of every type; up to 5 boxes, 4 children |
| `ze_wrapper` | NoNullCall: calls; TableMatchesMode: one builder per table; ChainKept: descriptors; ReadsDescribed, AnswerTruthful: the internal builder; CallsReturn | 2 threads with 3 calls each, 2 base and 3 builder functions, loaders that are full, too old, or lack a base or a builder function; chains of up to 2 descriptors; up to 2 wrong arguments, scenes of one or two geometries with indices below, at and beyond the vertex count, builders that exceed memory, depth, both or neither |

The violation runs (`rejoin_code`, `open_full_heap`, `wrapper_init_again`,
`racing_builds`, `wrapper_ext_copy`) belong to the findings of section 7.

`CHECK_DEADLOCK FALSE` is set where the modelled function or program returns
and stops without a step `Ended`. Symmetry is used only in `allocator`, for
threads, with no liveness. Bounds that limit the models: MaxBuilds, MaxCalls,
MaxFaults, MaxEdges, MaxPrimitives, MaxThreads, MaxTasks, MaxPriority, Mixes,
GeometryLists, BoxLists, MaxBoxes, MaxRun, SumSizes, SortSizes,
PartitionSizes, LeftSets, Budgets, Corners, Shares, Counts, FewCounts, FewPrims,
Lengths, Vertices, VertexCounts, Distances, PairDistances, Floats,
Others.
Constants that stand for smaller ones of the code: WindowSize, BlockSize,
MinStepSize, Threshold, MaxLog, GridBits, NumDims, Mantissa, Grid, Width,
leafSize, typeSplitSize, maxDepth, BUCKETS, Digits.

## 5. Fairness

- *Threads of a join* (`parallel_operation`): weak fairness per thread inside a
  call. A thread in `group.wait()` takes tasks while there are any and leaves
  when there are none; nobody is obliged to call Join, or to build again.
- *Tasks of a build* (`treebuild`): weak fairness of the next-state relation;
  the threads that joined execute tasks while there are any. It relies on no
  particular task being scheduled first.
- *Wrapper* (`ze_wrapper`): weak fairness for a thread in a call; the mutex is
  not assumed fair, each thread makes finitely many calls.
- *Queries* (`traversal`): weak fairness of the program, whose loop calls again
  as long as the query is not done, and of the hardware, which goes on with a
  dispatched traversal until it suspends or ends. Which item is visited next is
  left open.

The other specifications state no fairness: their runs have safety properties
only.

## 6. Proofs

TLAPS proves, for every value of the constants:

- **Allocator_proofs**. TypeCorrect, Disjointness, Coverage, Alignment,
  ImplementsPool, OvershootBounded. Assumptions: finitely many threads, request
  sizes that are multiples of 64 (BuilderRequestsMultiple shows it of the
  builder's records). The inductive invariant adds to the invariants that the
  counter is a multiple of 64, that the padding a thread holds is 0 whichever
  counter value it loaded, and that whoever was refused found or left the
  counter at the end. Without the first two, a stale padding would break the
  alignment. OvershootBounded bounds the counter by the end of the buffer plus
  one request for every thread in flight, a statement about the cardinality of
  that set.
- **ParallelOperation_proofs**. JoinsAnswerRight and KeepsPromise
  for an "ordered" application (hypothesis `Usage = "ordered"`; section 7 shows
  that it is needed). The invariant says that an operation with an
  unfinished build is in use, that only its latest build can be unfinished,
  that a running build is on exactly one stack, that calls on one operation do
  not overlap a build call, and that the code in the operation is that of the
  latest finished build.
- **Prims_proofs**, instances. HeapAlwaysSound for any capacity, width and
  instance; that the heap is never empty under the hypothesis that the root has
  a valid child. The invariant counts the children that wait to be pushed as if
  they were on the heap.
- **Prims_proofs**, pre-splitting. PiecesFit, EveryPieceOnce and
  WorthiestAreSplit for any number of primitives, any priorities and budget. The
  start of each primitive's further pieces is the sum of those before it, by the
  invariant of the prefix sum; the loop that drops primitives keeps the total of
  those that remain, and ends below the budget. So the slots of two primitives
  are apart, all of them together fill what lies behind the primitives, and the
  slots and the pieces correspond one to one, whichever of the parallel stores
  have run. That those dropped come first in an ascending order gives
  WorthiestAreSplit.
- **Prims_proofs**, the grid. PlanesAlwaysCut for any number of dimensions, bits
  of the grid and box. The codes of two corners are numbers whose bits go round
  the dimensions; above the highest bit in which they differ their quotients by
  powers of two are equal, and the bit itself separates the cells of the corners
  in one dimension, so that the plane is strictly between them. The shares of the
  calls that are due and the pieces made add up to no more than was asked for.
- **Prims_proofs**, the array of primitives. PrimRefsAreExact for any number of
  geometries, primitives and tasks. The primitives laid end to end have
  positions, the cuts between the tasks are positions, and Item says which
  primitive is at one. The walk that places the tasks stands at the cuts
  (CursorOK, StartsOK). A task's loop stands at a position inside its cuts, and
  its count is the number of marked positions behind it (TaskAt): what is single
  in pass 0, what is stored in the passes after it. Pairing changes the marks of
  one slice only, by as many as it makes pairs. So the running sums of the counts
  are the places of the cuts, a task fills the places that were counted for it
  and no other, and places are apart because they grow with the positions. In
  pass 1 fewer may be stored than were counted; when the numbers agree, so do the
  marks, and the array has no hole.
- **TreeBuild_proofs**, the passes. PrefixSumsAreExact and ItemsAreSorted for any
  size, number of tasks and order of the tasks. The cuts tile the items, so that
  the partial sums of the tasks before one add up to the sum below its cut. A
  task of the sort copies an item to its rank: the number of items with a smaller
  digit, or with the same digit at an earlier place. Ranks are a permutation, no
  two tasks write one place, and an iteration that was right for the lower digits
  is right for one digit more.
- **TreeBuild_proofs**, the partition. PartitionIsExact for any items, predicate,
  block size and number of tasks. The misplaced places of each side are numbered
  along the ranges, and there are as many on the left as on the right: the
  lengths of the segments and their left parts add up to the same middle (the
  assertion `numMisplacedItemsLeft == numMisplacedItemsRight`). A task swaps
  exactly the numbers of its share, whichever ranges they lie in, so that tasks
  are apart and the places on the wrong side are those not yet swapped.
- **TreeBuild_proofs**, the tree. For every tree, every choice of parallel nodes and every
  cut into ranges: NothingHalfBuilt, NoTaskOutlivesItsFrame, SuccessIsLaidOut.
  BuildInv adds to the two invariants that no child is started before its
  parent's children are due (ChildrenWait), that within a range a child is only
  started when all before it are valid (RangeOrder), that a node without a task
  group has one range and is never cancelled (SerialRange), and that a child is
  left out only after a failure or a cancellation (SkipsExplained): without the
  last, a parent could accept a child that was skipped. LayoutInv says that
  whatever was given lies below the counter and apart from the rest, and that
  the counter reaches the end only together with a failure that stays. That a
  valid root means a valid tree follows from the assumption that the root has
  all nodes below it, taken as a statement about closed sets of nodes.
  FailuresAreJustified: a build is refused for lack of memory only when the tree
  does not fit, and for its depth only when a node is too deep. What was given is
  part of what the tree takes: the counter never passes the sum of what the nodes
  that have called `malloc` need, because sizes are whole blocks and nothing is
  lost to alignment.
- **Trees_proofs**, bytes. NeverOutOfMemory: the worst-case size is enough for
  every tree over primitives of one type, in scenes of any size. Five slots are
  paid for by six primitives: a full node takes six slots and turns one record
  into six, and a node whose splits end early has at least seven primitives for
  at most five slots.
- **Trees_proofs**, the client. RetriesAreEnough for scenes of any number of
  geometries: the estimates are sums over the geometries, the promised worst case
  is less than seven times the expected size, and a failed try is followed by one
  with enough or with at least 15 percent more.
- **Trees_proofs**, the shape. LeavesAreSound and TreesAreNotTooDeep for any
  number of types, primitives, children and levels. The children that a node has
  so far are a bag of records, and the invariants bound what the bag weighs: in
  records, in primitives, in types, and in the splits that get all parts small
  enough (Need). Every level of a large leaf divides the size by FanIn, rounded
  up, and in a fat leaf halves do not leave four primitives beside one.
- **Trees_proofs**, the split. SplitsAreSound for any boxes and numbers of bins.
  While tasks bin, the bins hold the bounds and the number of exactly what was
  binned; the sweep's sides are those of the partition, since a primitive is in a
  bin below a plane just when the partition puts it left; among finitely many
  planes one is cheapest; and primitives whose centres differ in a dimension fall
  into a first and a last bin, so that there is one.
- **Calls_proofs**, the builder's entry points. ReadsOnlyDescribed and
  AnswersTruthfully for arrays of any length, geometries of any size and any
  limits exceeded. The invariant is one of stages: what a loop over all
  geometries establishes (VerifyStage, Prepared, CreateStage) is what the next
  relies on without testing it (LeavesStage). `thrown` always has a cause: a
  geometry that is not described, memory, or depth, the last only in the leaves.
- **Calls_proofs**, device properties. ChainIsKept for chains of any length: the
  descriptor that the call removes is the one it puts back.
- **Calls_proofs**, the wrapper. CallsGoSomewhere for all programs and loaders:
  functions are stored over others but never taken away. TableIsOfTheMode for
  programs that use one API, which the internal builder has completely (with the
  EXT API it is not so, see section 7). The invariant says which part of the
  table each thread in a selection has filled, and that only the holder of the
  mutex writes.
- **Traversal_proofs**, pairing. PairingIsGreedy for any number of triangles, any
  shared edges and any distance below the field's limit. The window holds exactly
  the triangles that are not decided, in order (WindowInv), whichever way `erase`
  closes the gap in the ring. Later triangles lie at least as far from the first
  of the window as their places in it, so that a full window, which is one longer
  than the distance, holds every candidate of the first. Chosen is the pairing of
  the quadratic search up to the front of the window.
- **Traversal_proofs**, quads. LeavesDecode for any vertices: a field of
  `createTriangles` or of the pairing names the corner that its vertex is found
  at, also when corners coincide, and a distance within `PairDistances` is kept
  by the width of its field.
- **Traversal_proofs**, fat leaves. FatLeavesDecode for any geometries, children
  and runs. The invariant (FatInv) says where the children are that have been
  written: the block and place of each is the sum of the advances of those before
  it, each advance fits the two bits of the node's increment, the blocks used are
  those needed so far. The node's increments then sum up to the same places, and
  the walk from a place passes through the primitives of the child in order.
- **Traversal_proofs**, boxes. ReadBoundsHold for a mantissa and a grid of any
  size, of which the mantissa has more bits, and for all boxes. Round is shown to
  be monotone, to keep what it has rounded, to be symmetric, and to be off by at
  most the part `1 / 2^Mantissa` of the number. A box inside another is enlarged
  by no more, so that by monotonicity the child's box lies in the node's, whose
  size the exponent was chosen for: nothing is clamped. The error of reading adds
  up from a difference and a position, each below that part of the node's reach;
  the slack, which is itself rounded, covers both (SlackCovers), because a reach
  is not smaller than a cell and a cell is large against the unit.
- **Traversal_proofs**, queries. QueryAnswersRight and CommittedHitStays for every scene
  over two levels and every order of the traversal. A hit is handed from the
  hardware to the potential hit, by a commit to the control word or the
  committed hit, and with the next dispatch back; Carried says where it is, and
  the invariant that whatever should count is no closer than that, or still to
  be visited.

**SumTheorems** has what these proofs share: sums over finite sets and their
uniqueness, folds over sequences, powers, least and greatest numbers, the cuts
that share items out to tasks, the ranks of items by one digit, and how many
places of a range are marked. The
library's induction theorems take an operator as a parameter and cannot be used
with the installed provers. Where an argument is an induction over data, it takes
a counterexample that is minimal instead (SmallestNat, SmallestSet,
FoldInduction): a set of numbers or of finite sets that is not empty has a least
element.

Assumptions on constants are named in the modules, and TLC evaluates them on the
instances of the runs. Those that say more than "a number" hold of the code's
values. TreeShape: a leaf has at most `2 * Width + 1` primitives (9 of at most
13), fewer types than children, a divided leaf at most `Width` parts (`FanIn`),
and between one and `maxDepth - 1` levels for large leaves. Binning: at least two
bins, and coordinates within the range that an empty box stands for.
SplittingGrid: corners inside the grid, and a splitter that misses a plane by at
most a tenth of a cell. Allocator: finitely many threads, request sizes that are
multiples of 64. RadixSort: an even number of digits (4 or 8 in the code), after
which the items are back in the array that they came from. Quadifier: a window
that is one longer than the distance that can be stored, which is below the mark
of paired triangles. TrianglePair: distances that fit the field. QuantisedNode:
the mantissa has more bits than the grid, and a cell of the smallest grid is a
number of more bits than a mantissa, which a small enough unit gives. FatLeaf: a
block of procedurals holds at least as many primitives as a node has children, and
at most 15 (13 in the code), the range of the field of the first primitive. Powers
and the bits of a number are recursive functions (`Pow2`, `Power`, `Bits`),
because arithmetic with `2 ^ n` is out of the provers' reach.

Only model-checked: liveness (Terminates, JoinReturns, CallsReturn, QueryEnds) and
everything that speaks of ENABLED, which the prover does not support; and the
behaviour outside the hypotheses named above (applications that are not ordered,
programs that use the EXT API or two APIs), which section 7 shows to fail. No module declares a RECURSIVE operator.

## 7. Findings

Each of these is a run that ends in a counterexample, of a statement that the
repository makes.

1. `rejoin_code`: Join clears `object_in_use` before it reads `errorCode`
   (`rtbuild.cpp:755-756`), so the joins of one build can answer differently.
2. `open_full_heap`: `darray_t::push_back` asserts one place too many
   (`sys/array.h:82`); opening an instance into 32 nodes fails the assertion.
3. `wrapper_init_again`: `init` succeeds the second time after it failed the
   first time, with half a table (`ze_wrapper.cpp:229-233`).
4. `racing_builds`: two builds enter one operation, since the test and the
   setting of `object_in_use` are separate (`rtbuild.cpp:684-687`); the header
   says that the second is refused.
5. `wrapper_ext_copy`: the internal builder leaves the EXT copy function unset
   (`ze_wrapper.cpp:210-219`), which is then refused as "not initialized" after
   everything was.

The passing runs keep to the usage that the code supports. Besides the above the
models show the following outside it, each with one constant of a run changed:

- `0` in `RootArities`: an instance of an empty acceleration structure makes
  `openInstance` read the top of an empty heap (`qbvh6_builder_sah.h:993`).
- `Apis = {"EXP", "EXT"}`: a builder selected for one API counts as selected for
  the other, whose functions are not looked up (`ze_wrapper.cpp:258`).

Two observations that no run is about. Two fields of a leaf are tested against
bounds of different width: `MAX_GEOM_INDEX` is `0x3FFFFFFF`, thirty bits
(`leaf.h:76`), while the field `geomIndex` has twenty-nine (`leaf.h:152`), so that a
geometry index from 2^29 on would be cut off without the exception of
`leaf.h:98`. And of two paired triangles the second is not seen by a traversal
when it is a point at the first corner of the first (its three vertex numbers
are then those that mean "no triangle"); a point cannot be hit, so that nothing
is lost (TrianglePair).

## 8. What is not modelled

- *Floating-point geometry*: the clipping of split primitives and the bounds of
  transformed instances. What depends on rounding has models of its
  own with small formats: SplittingGrid (error of the splitter), QuantisedNode
  (one axis, no denormal numbers; containment with the slack of two units in the
  last place that the code adds). Binning uses integer coordinates, in which
  nothing is rounded; an empty side, whose cost is not a number in the code, is
  never chosen.
- *Mixed scenes in TreeBytes*: the remaining primitives are of one type, though
  the scene had others. For mixed scenes BuildRetry assumes what the header
  promises of the worst case (`ze_api.h:11497`).
- *The heuristic's quality*: that a split is the cheapest is checked (SplitSound),
  that the tree is good is not a matter of correctness. `heuristic_spatial.h` is
  not used by the builder.
- *Task library, loader and hardware* are environment: ranges run in any order,
  a wait ends when the group is empty, an exception cancels the group it leaves;
  a loader has any of four sets of symbols; the traversal visits in any order.
- *Vendored headers, mathematics, SIMD and platform layers*, the statistics and
  the dump of a BVH, packaging, and tests other than the two loops that drive
  the builder and the query. `ze_api.h` alone is half of the repository's lines.
- *The layout of instance records* and the writing of the blocks of leaves, apart
  from their number and addresses.
- *The application's side of the contract*: that the arguments of a deferred build
  live until its join, and that a bounds callback answers the same when asked
  twice.

One listed hazard has no property: a valid triangle is dropped when the partner
it was paired with is invalid (`qbvh6_builder_sah.h:892`). PrimRefGen does what the
code does; nothing in the repository says what a scene with invalid triangles
should contain.
