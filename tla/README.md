# Verification of VTR's parallel, interactive and transactional core

The repository is a fork of VTR, a CAD flow for FPGAs, with an extension for
interposer-based devices.  Its own core is VPR (`vpr/src`: pack, place, route,
time a circuit) and the libraries under it (`libs/libvtrutil`, `librrgraph`,
`libarchfpga`).  Most of VPR is sequential numerical optimisation.  What is hard
to test is where it runs threads, talks to a client, or changes structures that
must agree: the grid and the block locations, the routes of a network-on-chip
(NoC) and the bandwidth they use, the routing-resource graph cut by an
interposer and its lookup.  These parts are modelled here in TLA+, checked with
TLC on small instances, and proved with TLAPS for every instance where the
prover reaches.

`PROJECT.json` lists components, runs, mutants, findings, hazards and theorems,
and maps every definition that models code to its lines.

## 1. Inventory

### Modelled

| component | state | operations | correct when |
|---|---|---|---|
| **Thread pool** `vtr_thread_pool.h` | a queue, mutex, cv and stop flag per worker; `next_thread`, `active_tasks`; `completion_cv` | constructor, `schedule_work`, the worker's loop, `wait_for_all`, destructor | no task is lost or run twice, `active_tasks` counts what is outstanding, no sleeper misses its wakeup, wait and destructor return, and only when nothing is outstanding |
| **Partition tree** `partition_tree.cpp` | nodes with a box and nets, the node of each net | `build_helper`, `update_nets` | nodes nested or disjoint, each net in a node that holds its box |
| **Parallel routers** `ParallelNetlistRouter.tpp`, `NestedNetlistRouter.tpp` | tasks started, results per thread | `route_netlist`, `route_partition_tree_node`, `handle_bb_updated_nets` | nets routed at the same time touch disjoint regions, no net is skipped |
| **Routing loop** `route.cpp` | boxes, route trees, best routing, convergence count | one iteration; leaving | it ends; what is not routed is reported and retried; success means complete |
| **Server** `server/gateio.cpp`, `taskresolver.cpp`, `serverupdate.cpp` | queues of received and finished tasks shared under a mutex; tasks in the resolver; the client connection | the gate thread's loop, the UI thread's timer callback, stop | no request lost or repeated, responses whole, requests answered, a departed client replaced |
| **Telegram framing** `telegrambuffer.cpp`, `telegramheader.cpp` | bytes, an optional header | `append`, `take_telegram_frames`, `clear` | only what was sent is handed on, in order, and all of it |
| **Block locations** `blk_loc_registry.cpp`, `grid_block.cpp` | `block_locs`, its inverse `grid_blocks` with usages, physical pins | `apply_move_blocks`, `commit_move_blocks`, `revert_move_blocks`, reload, pin synchronisation | grid is the inverse of locations, usages count, pins fit the tile |
| **Proposing a move** `move_utils.cpp`, `move_transactions.cpp` | the list of moved blocks, the calls under way, the affected macros | `create_move` and all it calls | every proposal can be committed; macros stay in one piece; blocks fit where they are; fixed blocks stay; macros that meet do not invert for ever |
| **Placement checkpoint** `place_checkpoint.cpp` | one saved placement | save, restore | the registry is consistent after a restore |
| **NoC routing and placement** `noc/*_routing.cpp`, `channel_dependency_graph.cpp`, `place/noc_place_utils.cpp`, `noc_place_checkpoint.cpp`, `initial_noc_placement.cpp` | the route of each traffic flow and its backup, bandwidth per link, costs and proposed costs, a checkpoint | `route_flow` under six algorithms, re-routing the flows of a move, commit, revert, restore, the check for cycles | a route is found and leads from source to sink, keeps to the turn model, flows never wait in a cycle; usages and incremental costs match the routes |
| **Interposer** `rr_graph_interposer.cpp`, the switches in `rr_graph.cpp` | vertical wires, the spatial lookup, edges, architecture switches, graph switches, the remapping between them | placing the cuts, splitting the crossing wires, indexing and loading, flat builds, rebuilds | the lookup finds what is there and hides no node, the parts of a wire cover its rows and meet only through the interposer node, every edge keeps its switch |

How they interact.  `route()` calls a netlist router once per iteration; the
nested router schedules one task per tree node on the thread pool, whose body
schedules the tasks of the children and then returns, and waits with
`wait_for_all`; the parallel one does the same on a TBB task group.  The tasks
share the routing-resource nodes without locks: only the disjointness of the
boxes protects them.  The gate thread and the UI thread share two queues under
one mutex; the gate owns the socket and the telegram buffer, the callback owns
the task resolver.  The annealer proposes a move, applies it to the registry,
evaluates it and commits or reverts it; between temperatures a placement may be
saved, and at the end restored.  Where the circuit has NoC routers, each move of
one also re-routes its traffic flows, and the same commit or revert settles
their routes and costs.  The builder of the routing-resource graph hands a
drafted graph to the interposer code, which changes it before edges are indexed
and switches loaded; a search for the channel width and flat routing free the
graph and build it again, with architecture switches that outlive it.

Hard behaviours.  Interleavings of workers with `schedule_work`, `wait_for_all`
and the destructor; state captured by reference by a thread that starts late;
bounding boxes that change while the tree still has the old ones; retries of
nets in a later iteration; clients that vanish, requests that override one
another, a stream cut at any byte; a move that displaces whole macros and is
committed block by block or taken back; incremental sums that must equal those
from scratch after any sequence of moves; rules written twice that must agree
(the directions a turn model offers and the turns it allows); tables overwritten
slot by slot in an order that matters.

### Not modelled

| component | why |
|---|---|
| Net decomposing router, route trees | next in the plan (section 2) |
| Connection router and heaps | a shortest-path search on floating-point costs; its outcome is a choice in ParallelRouting |
| Simulated annealing schedule, move generators, costs | floating-point and random; accept or reject is a choice in MoveTransaction |
| Packer and cluster legalizer, timing invalidator | candidates for later modules |
| SAT router of the NoC | a constraint problem handed to an external solver, in optional code |
| Analytical placer, timing analysis, power | numerical |
| Telegram fields, options, compression; file readers; graphics | parsing, I/O and drawing without protocol |
| ABC, Odin II, Parmys, Yosys, ACE2, `libs/EXTERNAL` | separate or vendored programs |

## 2. Plan

Done, in this order: ThreadPool with WorkPool above it; PartitionTree and
ParallelRouting; Server and TelegramBuffer; MoveTransaction and MoveProposal,
which refines it; NocRouting; Interposer; the proofs of the thread pool, the
registry, NoC routes, interposer, parallel routing and server, then of the sums
that the NoC placement keeps and of the framing of telegrams, and last of how a
move is proposed: macros, fixed blocks, fit, and the refinement.

What the plan has left:

1. **DecompNetlistRouter** on top of PartitionTree: virtual nets of one net share
   a route tree.  Properties: sinks of a net are divided among its virtual nets,
   a failed one disables decomposition and is retried whole.
2. **Cluster legalizer** (add a molecule, undo a failed one) and **pin
   invalidation** (pins invalidated by a move that is reverted).
3. A specification of "every net routed alone in its region" above
   ParallelRouting.  (What a client sees of the server, each request answered
   from one place and in pieces of its own, is stated as `RequestsKept` and
   `ResponsesWhole`.)
4. A condition on the chains of a device under which `InversionEnds` can be
   proved: it fails for chains of opposite directions (section 5).

## 3. Modules

**WorkPool** is what a pool promises its owner: each task is scheduled once and
completed once, and the owner returns from its wait, or from destroying the
pool, only when nothing is outstanding.

**ThreadPool** has one action per atomic operation or critical section of
`vtr_thread_pool.h`.  `wpc`, `cpc` and `call` are the program counters of
workers, of the owner, and of a `schedule_work` in progress in any thread.  A
condition variable's predicate is tested and the thread put to sleep in one step
for the task queues, because whoever changes the predicate holds the mutex; in
`wait_for_all` these are two steps (`CheckDone`, `Block`), because
`active_tasks` is decremented, and `completion_cv` notified, without
`completion_mutex`.  `scheduled` and `completed` are history variables.  A body
is the set of tasks it schedules (`Parent`) and whether it throws (`Faulty`).
`StartupRace` says whether the constructor can move `thread_data` before the new
worker reads it, which C++ allows.

**PartitionTree** holds boxes and cutlines as operators; **ParallelRouting** is
`route()` with the tasks of one iteration interleaved.  Routing a net takes two
steps (`BeginNet`, then one of `SkipNet`, `FinishNet`, `RetryNet`, `FailNet`), so
that two nets can be under way at once.  A route tree is the hull it covers and
whether all sinks are reached.  Congestion, costs and timing decide nothing but
which of the possible outcomes happens, so they are choices.

**Server** has the gate's loop and the callback as two processes, clients as the
environment, and a response as a number of pieces, because a write may accept a
part of it.  The callback is a sequence of steps between which the gate goes on:
`TakeReceived` under the mutex, `OwnNext` for each task taken, `Resolve`, one
`TakeFinished` per finished task, `Report` under the mutex; `buff` is its local
`tasks_buff`.  `wrote` and `answered` are history variables.  **TelegramBuffer** has the bytes themselves: byte `<<t, i>>` is the
i-th of telegram t.

**MoveTransaction** is the registry under a move: `Propose` takes any set of
moves that satisfies `IsProposal` (each block once, from where it is, no two to
the same place, whoever is in the way moves too), and apply, commit and revert go
block by block.  **MoveProposal** is how `create_move` finds such a set, one
iteration of a loop at a time:

| actions | function |
|---|---|
| `CreateMove` | `create_move`, `find_affected_blocks` |
| `SwapSingle`, `MeetMacro`, `MeetItself`, `MacroSwapsAbort`, `EndWalk`, `Return` | `record_macro_swaps` |
| `SwapMembers`, `OverlapAbort`, `EndOverlap` | `record_macro_macro_swaps` |
| `Identify`, `EndIdentify` | `identify_macro_self_swap_affected_macros` |
| `Shift`, `EndShift` | `record_macro_move` of every affected macro |
| `Displace` | the end of `record_macro_self_swaps`: single blocks in the way |

The first two functions call each other.  `calls` holds those of their calls that
have not returned, each with its macro, the member it is at and its offset;
`affected` and `search` are the locals of `record_macro_self_swaps`.  A step that
records is a stutter of MoveTransaction, and the step that hands the whole list
over is its `Propose`: the property `ImplementsTransaction` is the specification
of MoveTransaction, so `IsProposal` is an assumption there and a result here.

**NocRouting** routes flow by flow and link by link: `RouteFlow` or `ReRouteFlow`
begins a route, each `Hop` is one iteration of the loop of `route_flow`,
`FinishFlow` adds the bandwidth.  `get_legal_directions`, `select_next_direction`
and `is_turn_legal` are operators per algorithm.  The hash that breaks ties is a
CONSTANT operator, as is the order of the breadth-first search.  `ProposeMove`
moves or swaps blocks, `ProposeCosts` updates the costs of the flows and links
affected, `Commit` and `Revert` end the move; `EndAnneal`, `StartMainAnneal`,
`EndPlacement` and `CycleFound` are the stages of the placement around it.

**Interposer** follows `alloc_and_load_rr_graph`: the cuts are placed
(`vpr_setup_interposer_cut_locations`), the graph drafted (`DraftGraph`), wires
that cross collected and split one by one in any order (`CollectCrossing`,
`SplitWire`, `PassOver`, `EndSplitting`), edges indexed, switches loaded, the
insides of clusters added in a flat build (`ReuseInternal`, `CreateInternal`,
`EndFlat`), and the graph freed (`free_rr_graph`).  A node is named by the wire it
was drawn as and which part of it it is, so that a property can speak of the
wire before and after the split.

**ThreadPoolProofs**, **ParallelRoutingProofs**, **ServerProofs**,
**TelegramBufferProofs**, **MoveProofs**, **NocRoutingProofs**,
**NocCostProofs** and **InterposerProofs** hold the theorems; **MC...** modules hold the instances for TLC.  A definition whose
comment starts with "Mutant:" is a plausible mistake in the definition after it;
each property of a passing run is violated when one of them takes its place.

## 4. Runs

| run | states | shows |
|---|---|---|
| ThreadPoolTree | 9,434 | two workers, a tree of four tasks and one that may throw: `HeldOnce`, `SleepersWillBeWoken`, `ImplementsWorkPool`, `ScheduledTasksComplete`, `DestructorReturns` |
| ThreadPoolLostWakeup | violation | `WaitReturns`: a wait may sleep through its only notification |
| ParallelRoutingStatic | 56,998 | four nets, three placements, two values of `--bb_factor`: tree, homes, disjointness, no net lost or left unreported, `route()` ends |
| ParallelRoutingDynamic | violation | `DisjointRouting` with `--route_bb_update dynamic` |
| ParallelRoutingUnrouted | violation | `SuccessIsComplete` |
| ServerTracked | 137,550 | two clients with the alive tracker: `RequestsKept`, `OneRunsPerCommand`, `ResponsesWhole`, `RequestsAnswered`, `DepartedClientIsReplaced` |
| TelegramBufferTwoClients | 1,907 | every way to cut two streams with noise: `OnlyTelegrams`, `WholeHeadersDelivered` |
| MoveProposalChains | 305,217 | every move between all placements reachable of two chains (2 and 3 blocks), a single and a fixed block on 16 places, some of which one chain does not fit: `GridIsInverse`, `UsageCounts`, `PinsMatchTile`, `MacrosKeepShape`, `BlocksFit`, `FixedBlocksStay`, `InversionEnds`, `ImplementsTransaction` |
| NocRoutingPlanar | 344,993 | four router blocks and four crossing flows on a 3 x 2 mesh, six algorithms, two moves of the initial annealing and one of the main one: `RoutesServeTheirFlows`, `TurnsAllowed`, `DeadlockFree`, `UsageMatchesRoutes`, `CostsMatchRoutes`, `KeepsTheBest` |
| NocRoutingCube | violation | `RouteFound` on a mesh of two layers |
| InterposerCuts | 44,450 | up to two cuts, four layouts of wires, wires driven from either end or from both, vertical channels wider than horizontal ones, three architectures, flat and plain, built twice: `LookupFollowsTheSplit`, `SplitsKeepTheSpan`, `EdgesKeepTheirSwitch` |
| InterposerFanin | violation | `FaninIsKnown` |

Eight more instances are kept to be run by hand.  Seven end in a counterexample
that section 5 describes; the last one passes.

| instance | finds violated |
|---|---|
| `MCThreadPool`, ThreadPoolStartup.cfg | `OwnQueue`: a late worker serves another's queue or dereferences null |
| `MCServer`, ServerUntracked.cfg | `DepartedClientIsReplaced` in the build as configured |
| `MCServer`, ServerOverride.cfg | `OneStillRuns` for three requests A, B, A |
| `MCTelegramBuffer`, TelegramBufferSplitHeader.cfg | `EveryTelegramDelivered` |
| `MCMoveProposal`, MoveProposalOpposed.cfg | `InversionEnds` for chains of opposite directions |
| `MCMoveProposal`, MoveProposalMixed.cfg | `BlocksFit` where the type of tile changes along a column |
| `MCInterposer`, InterposerNarrow.cfg | `NoNodeIsHidden` where a vertical channel has more tracks than a horizontal one |
| `MCMoveProposal`, MoveProposalSteps.cfg | nothing: `MacrosKeepShape` and `InversionEnds` hold for a chain that skips a row (28,263 states) |

Bounds, and why they are enough.

- *Thread pool*: two workers are the least for which round robin, a queue other
  than one's own, and a race between two decrements exist; a task tree of depth
  three makes a worker schedule while others run, and a flat task lets the
  destructor meet work in progress.  The theorems cover any number.
- *Routing*: `ThreeLevels` makes a tree with a vertical and a horizontal
  cutline, a net that is cut, and siblings that run in parallel; `Crowded` has no
  usable cutline; `Edge` with factor 0 has regions one tile wide.  Two iterations
  are needed for a retry, the move up the tree and the second visit.
- *Server*: two clients, so that one may leave the other waiting; two jobs, so
  that one may override another; responses of two pieces, so that one can be
  half sent when the queue is reordered.  Override chains need three jobs, which
  ServerOverride has.  At most one echo is under way.
- *Telegrams*: headers of four bytes and bodies of one to three: every
  position of a cut relative to signature, header and body occurs.
- *Placement*: two columns of six, the longer chain half of one: shifts onto
  itself, shifts that push singles into the holes left, swaps of chains that
  overlap partly, remainders, inversions, and attempts that run off the device or
  onto the fixed block all occur (each was confirmed by a property that claimed
  the opposite).  The I/O tiles have two sub-tiles and another type, so that
  usages exceed one and pins change.
- *NoC*: 3 x 2 is the least mesh with both parities of a column, a turn of every
  kind and two ways around; four blocks at the corners of a square send to the
  opposite corner, so that links fill beyond their capacity and breadth-first
  routes close a cycle of dependencies, while a block can still move to a free
  router.  Two moves let one be committed after another was reverted and a
  checkpoint be better than the end.  The cube is the least mesh with three
  coordinates; its hash values are those of the code.
- *Interposer*: five rows and two cuts make wires that cross none, one and two
  cuts, at either border of a wire; two columns show that a slot of another is
  left alone; four tracks give layouts that start at other rows, and with two in
  a horizontal channel the interposer nodes of the lower two fall on the upper
  two and those of the upper two on tracks of their own.  `NodeLimit`
  stands for 200,000 and is low enough to be reached.  One rebuild is enough for
  architecture switches to outlive a graph, two edges inside the clusters for one
  switch to be created and found again.

Fairness.  ThreadPool: each thread that can take a step of its own does (weak);
nothing forces the owner to schedule or wait, a body to have children, or a
spurious wakeup.  ParallelRouting: the scheduler runs started tasks and the main
thread (weak fairness of `Next`, enough because every step makes progress).
Server: the gate's loop and the timer go on (weak); a live client reads what is
sent, what it has sent arrives, and the silence of a client that has gone lasts
the time the tracker waits (strong, since an attempt that finds nothing disables
and re-enables them).  The runs of TelegramBuffer, MoveProposal,
NocRouting and Interposer check safety only.  `CHECK_DEADLOCK FALSE` is set where
the system does stop: a stream ends (TelegramBuffer), the placement is done or
refused, or no route is found (NocRouting), the last graph is built or the
program gave up with an error (Interposer).

## 5. What the code does otherwise than its texts say

1. `wait_for_all` can sleep for ever: the last decrement and notification may fall
   between its test and its blocking (`vtr_thread_pool.h:122-125`).
2. The constructor's lambda captures the loop's local by reference and may read
   it after it was moved from (`vtr_thread_pool.h:68-69`, `95`).
3. `dynamic_update_bounding_boxes` takes its list of updated nets by value
   (`route_utils.cpp:73`), so that the tree is not told of boxes that grow.
4. `is_iteration_complete` asks for no overuse only; with a net left for the next
   iteration, `route()` reports success (`route_utils.cpp:203-212`).
5. Without `ENABLE_CLIENT_ALIVE_TRACKER`, which nothing defines, a client that
   has gone keeps its place (`gateio.cpp:206`).
6. A newer task is rejected for one that has itself been overridden
   (`taskresolver.cpp:17`).
7. A header that is not complete behind another telegram counts as valid
   (`telegramheader.cpp:31`, `telegrambuffer.cpp:24`).
8. With several legal directions `select_next_direction` chooses a coordinate by
   the remainder of a hash among all three distances, also one that no legal
   direction lies along; on a NoC of several layers `route_flow` then ends the
   program (`turn_model_routing.cpp:330-336`).  On one layer this cannot happen
   (`RouteAlwaysFound`, proved).
9. The edges of the graph are partitioned before the fan-ins of switches are
   counted (`rr_graph.cpp:2460`), so no switch gets its fan-in, and one whose
   delay depends on it fails an assertion (`physical_types.cpp:41`).
10. Macros may be swapped only from the head of the one in the way, "not a big
   limitation since swapping in the opposite direction allows these blocks to
   swap" (`move_utils.cpp:246-248`).  Two chains that run in opposite directions
   can meet with neither head in the other's way: each call inverts the one
   before, with nothing recorded in between, and the recursion does not end
   (`move_utils.cpp:249-259`).
11. `record_macro_self_swaps` puts displaced blocks on the places left without
   asking `is_legal_swap_to_location` (`move_utils.cpp:453`), while
   `check_block_placement_consistency` expects every block on a sub-tile it fits
   on: it is an error where a chain shifts along a column in which the type of
   tile changes.
12. An interposer node is put on the track of its wire plus `chan_width.x_max`,
   the width of a horizontal channel, though it lies in a vertical one
   (`rr_graph_interposer.cpp:708`).  `init_chan` computes the two widths
   independently; where the vertical one is larger the node shares a slot with
   another wire and one of the two is hidden, which the check after each build
   is there to refuse (`rr_graph2.cpp:1640-1641`).  With as many tracks in a
   horizontal channel this cannot happen (`NothingHiddenOnTracksApart`, proved).

Items 2, 5, 6, 7, 10, 11 and 12 are shown by the instances run by hand, the others by the
runs that end in a violation; `findings` in PROJECT.json quotes the lines of the
latter.

## 6. Proofs

All theorems hold for every value of the constants that satisfies the named
assumptions of the modules (`NumThreadsAssumption`, `BlocksAssumption`,
`PlacementsAssumption`, `BoundsAssumption`, `FlowAssumption`, ...).  Every passing
run evaluates those of its modules.  Where a theorem needs more it says so.

*Thread pool* (any number of threads, any tree of tasks, with or without
`StartupRace` and throwing bodies unless noted).

- `ThreadPoolProofs!TypeCorrect`, `TasksHeldOnce`, from the inductive
  `CountInv = TypeOK /\ PcInv /\ HeldOnce`.  `HeldOnce` alone is not inductive: a
  decrement needs to know that the worker runs a task that is counted, so `PcInv`
  relates program counters to tasks.  That `active_tasks` is the cardinality of
  the outstanding tasks also gives `active_tasks > 0` at every decrement.
- `PoolRefines` (`ImplementsWorkPool`) and
  `NoLostWorkerWakeup` (`SleepersWillBeWoken`), under `~StartupRace`, from
  `DrainInv = CountInv /\ BindInv /\ QuietInv /\ StopInv`: workers keep to their
  own queue, an exited worker's queue is empty and nobody fills it any more, and
  nothing is outstanding when the owner is idle.  Under `StartupRace` both fail;
  that is finding 2.

*Placement, committing a move* (any device, any blocks, any moves that satisfy
`IsProposal`).

- `GridInvariant`: `GridInv` is inductive.  `GridIsInverse` says nothing of a move
  under way; what makes it true again is `AtPlace(c)`: at index c of a commit the
  grid has a block of the move at its new place if it was reached, and otherwise
  at its old one unless a block that was reached took it.  `UnderWay` adds that
  the proposal still has the form it was made with and that the locations are
  those of the phase.
- From it `GridStaysInverse`, `UsageStaysCounted` (by the lemmas
  `PlaceEmptied`, `Filled`, `Replaced` on cardinalities), `TypeCorrect`, and with `PinInv`
  `PinsStayMatched`.

*Placement, proposing a move* (any device, any blocks and macros of any shape; the
members of a macro are all fixed or none is, and no block is in two macros,
`MacrosAssumption`; initial placements are legal, `PlacementsAssumption`).

- `ProposalInv` is `WalkInv` while macros walk, `SelfInv` while they shift over
  themselves, and `MoveInv` otherwise.  All three read the moves recorded so far
  as a placement, `Recorded`: those blocks are where they go, the others where
  they are.  `MacrosKeepShape` alone says nothing of a list half made.
- `WalkInv`: `Recorded` differs from the block locations by exchanges of two
  (`Swaps`); every call has taken the members before the one it is at along its
  offset (`Walked`) and none has taken that one (`Untouched`).  What a call still
  has to do when it returns is the hard part, since a call does nothing after the
  one it made: each call below the topmost will have taken its whole macro (`Will`), because it
  has, or because a later call of the same macro and offset does, or because the
  next call moves the macro that is in its way.  The exception is a call that
  starts at a head already taken (`Doomed`); it aborts, since no block is
  recorded twice.  When the last call returns, a macro that moved has moved
  whole (`Finished`).
- `SelfInv` has one part per stage.  `IdentifyInv`: each member of an affected
  macro was explored, or a walk under way comes to it, or some member cannot move,
  so that recording will abort (an inner call's failure is not passed on, but the
  same test fails again in `record_macro_move`).  `ShiftInv`: each member is
  recorded or will be.  `DisplaceInv`: all are, and each single block that gave way
  has a place that a macro leaves.
- `MoveInv`: with a move under way, both where the blocks come from (`OriginOf`)
  and where they go (`DestOf`) are in shape, so commit and revert both restore it.
- From it `MacrosStayWhole`, `FixedBlocksNeverMove`, `ProposalTypeCorrect`, and
  `ProposalsAreAtomic` (`ImplementsTransaction`): no moves but those that satisfy
  `IsProposal` are ever handed over.  `GridFollowsProposals` then has
  `GridIsInverse`, `UsageCounts` and `PinsMatchTile` of the moves the code makes.
- `BlocksAlwaysFit` holds under `AlikeTiles`: members of a macro fit the same
  places, and a single block that fits one of them fits all.  Without it
  `BlocksFit` is false: item 11 of section 5.

*Parallel routing* (any device, nets, placements, numbers of iterations).

- `RouteInv = TypeOK /\ JobsInv /\ TreeInv /\ PhaseInv /\ HomeInv /\ TasksInv /\
  ResultsInv`.  While the tree grows, every net is in one pending job or at its
  node, and the box of a job is the next node below a node of the tree
  (`JobsInv`, `HomeInv`); `TreeInv` says of nodes and pending boxes together that
  two are nested or apart.  `TasksInv` says that the nodes whose tasks run lie
  apart, that a task routes one net at a time, and that a net not visited yet is
  below the node of a running task, as long as no net was found unroutable.
- From it `RoutingTypes`, `TreeIsOfRegions`, `NetsAreVisited`,
  `IncompleteAreReported`, whatever boxes do, also when they grow.
  `AssertsWhenTight` needs a device wider and higher than one tile.
- `HomesHoldBoxes` and `RoutingIsDisjoint` hold under `Static`, boxes changing
  only by a retry with the whole device (`--route_bb_update static`, and no
  conflicted mode).  `BoxesInv` adds that a net's route lies in its box and its
  box in the region of its node, unless it became the device's in this
  iteration; with two running tasks never one above the other, disjointness of
  nodes becomes disjointness of routes.  Without `Static` it is false: finding 3.

*Server* (any number of clients, requests, pieces; any mix of commands; with or
without the tracker).

- `Inv = TypeInv /\ TakenInv /\ ResponseInv /\ LineInv /\ KeptInv /\
  OneRunsPerCommand`.
- The line of a client is all its requests, stage by stage, from its socket to
  the send queue.  `LineInv` says that a request is nowhere twice, that none has a
  number not yet given, and that from the socket up to the resolver they are in
  the order in which the client made them.  `KeptInv` says that for a client that
  is served or waits all requests are in the line or answered.  Each action
  moves requests in one of four ways, and there is a lemma for each: hand them
  on to the next stage (`Handed`), drop some (`Thinned`), reorder the send queue
  (`Shuffled`), finish its front (`SentLine`).  `RequestsAreKept` follows.
- `OneRequestRuns` rests on the order: a newer task overrides an older one only if
  its number is larger (`taskresolver.cpp`), so two tasks for one command would
  both run if requests could overtake each other between the threads.
- `ResponsesStayWhole` from `ResponseInv`: only the task at the front of the send
  queue may have been begun, and it goes on where the last write ended; the
  reordering after a task is done moves only tasks that have not been begun.
  `ServerTypes` from `TypeInv`.

*Telegram framing* (any telegrams, sizes, streams with any noise, any number of
clients and any way to cut the streams; at least one client).

- A stream is built with the fold `FlattenSeq`, which is defined by recursion.
  `FlattenLaid` finds the table of offsets behind it (`JoinTable`, by a least
  counterexample, `NoneFails`), and `StreamFacts` says where each byte comes from:
  each telegram fills consecutive places, telegrams do not overlap (`Apart`), and
  they lie in the order in which they are sent.
- `BufferInv = TypeInv /\ SliceInv /\ FrameInv /\ CutInv /\ IdleInv /\ (~stale =>
  HeaderInv /\ DeliverInv)`.  Buffer and wire are the stream from place `Base` on
  (`SliceInv`); frames are bodies of telegrams that end at or before `Base`, in
  order (`FrameInv`); a header is that of the telegram the buffer begins with, or
  is empty because a chunk ended in it (`HeaderInv`, by `CutInv`, which says that
  such a telegram is in `cut`); and a telegram not in `cut` was handed on or
  begins after `Base` (`DeliverInv`).  `OnlyTelegrams` and `WholeHeadersDelivered`
  alone are not inductive: neither says what the discarded bytes were.
- `ScanFacts`: to discard what precedes the first signature loses no telegram.
  `BodyFound`: a body that agrees with the checksum of a header, be it one that
  an earlier client left, is that of the telegram at the start of the buffer.
- From it `TypeCorrect`, `OnlyTelegramsHandedOn` (with or without a stale header)
  and `WholeHeadersAreDelivered`.  What is assumed is the abstraction of the
  model: a byte of a signature is told from every other, and so are two bodies.

*NoC* (any mesh, blocks, flows, bandwidths, hash, sequence of moves; on one layer
unless noted).

- `RouteInv = TypeOK /\ PhaseInv /\ TurnsInv /\ WalkInv /\ UndoInv /\
  RoutesServeTheirFlows`: a route under way leads from its source to where it is,
  never leaves a shortest way, and still has a legal direction left (`WalkInv`);
  what a revert brings back serves the places it goes back to (`UndoInv`).  The
  directions a turn model offers depend on where a route came from only through
  what `TurnsInv` keeps.
- `RoutesServe`, `RouteAlwaysFound`, `TurnsAreAllowed`, and
  `TurnModelsAreDeadlockFree`: each turn model ranks the links by a pair of
  bounded numbers that rises with every turn it allows (`LegalTurnClimbs`), so
  links that wait for each other in a cycle would climb for ever
  (`NoEndlessClimb`).  `NocTypes` holds on any number of layers.
- Sums (any number of layers).  The bandwidth of a link and the costs are sums
  over sets, taken with the fold `SumFunction`, which is defined by recursion over
  sets; `SumIsTable` finds the table behind it, and `SumStep` and `SumUpdate` say
  what one more summand and the change of one do to the sum.
  `FlowAssumption` asks for a finite set of flows; that the links are finite
  follows from the size of the mesh (`FiniteLinks`).
- `UsageInv` = the usage of a link is the sum over the flows counted as routed
  across it; while a flow is routed again its old route is no longer counted and
  its new one not yet.  From it `UsageIsOfRoutes`.
- `CostInv = UsageInv /\ OldCosts /\ AffectedInv /\ ProposedInv`.  `AffectedInv`
  says that only flows of moved blocks are routed again and that a link not
  remembered as affected is used by the new route of a flow exactly when it was
  by the old one, so that updating only those affected gives the costs of all; `OldCosts` that what
  a revert brings back are the costs of the routes it brings back.  From it
  `CostsAreOfRoutes`.
- `BestInv = CostInv /\ TraceInv /\ CheckpointInv`.  A checkpoint holds places and
  a cost; `RouteUnique` shows that routes depend on the places alone (each hop on
  where the route is and came from), so that routing from scratch gives that cost
  again.  From it `CheckpointKeepsTheBest`.

*Interposer* (any grid, widths of the channels, layouts, architectures, numbers of
cuts and builds).

- `BuildInv = TypeOK /\ WiresApart /\ PartsOfWires /\ CrossingUnsplit /\ EdgeEnds
  /\ LookupFollowsTheSplit /\ SplitsKeepTheSpan /\ SwitchesInv`.  A slot that
  nodes span always finds one of them, because wires of a track never share a
  row (`WiresApart`), a wire still to be visited is as it was drawn
  (`CrossingUnsplit`), and what shares a slot with a part of it is the interposer
  node of another wire, or a wire that its own interposer node falls on
  (`SharedSlots`).  `SwitchesInv` says
  for each stage of the build which table a switch number indexes: the
  architecture switches come first, in their order, before and after loading.
- From it `LookupFindsTheSpans`, `SplitsAreJoined`, `SwitchesStayPut`,
  `InterposerTypes`.
- `NothingHiddenOnTracksApart` is the only result that needs a condition on the
  widths, `XMax >= Tracks`, and has it in its statement: the code does not
  establish it (item 12).  It says that the condition is all `NoNodeIsHidden`
  lacks, as does the run InterposerCuts with `XMax = 4` (40,002 states).

Only model-checked: liveness (fairness and ENABLED are beyond the prover), and
`InversionEnds`, which is false for chains of opposite directions (item 10) and
was checked for chains of one direction, not proved.

## 7. Limits of the models

- Boxes have no layers, and places are on one layer; RCV, budgets and the
  graphical debugger are left out.
- In high-effort conflicted mode all boxes are replaced without telling the tree
  (`route.cpp:506`).  The action `Prepare` has this; no run switches it on, since
  it fails in the same way as finding 3.
- Physical pins depend on the sub-tile as well as on the type of tile, and apply
  and revert compute them anew for another type only
  (`blk_loc_registry.cpp:248`); restoring a checkpoint computes none until the end
  of `Placer::place` (`placer.cpp:379-382`).  `PinsMatchTile` therefore speaks of
  types, between moves and at the end, and not of `"restored"`.
- `BlocksFit` is claimed under `AlikeTiles` only, which MoveProposalChains
  satisfies (`MCMoveProposal` has it as an assumption unless the single block is
  the one that does not fit) and MoveProposalMixed does not (item 11 of section 5).
- The move generators are a choice of a block that is not fixed and a place it
  fits on; range limits narrow that.  An abort is `AbortProposal` of
  MoveTransaction: what was recorded is cleared, and nothing is applied.
- `ResponsesWhole` is about the sequence of bytes over all clients: the rest of
  a response goes to the next client when its own is dropped half way
  (`gateio.cpp:270`).  Echo telegrams are not among the pieces.
- Two bodies with the same checksum are not told apart by the code and do not
  occur in TelegramBuffer.
- An echo telegram is written apart from the send queue (`gateio.cpp:176`); a
  request with a command nobody knows is never finished and never answered
  (`taskresolver.cpp:62`), and `RequestsAnswered` speaks of known ones.
- A thread pool of zero threads, for which `schedule_work` would divide by zero
  (`vtr_thread_pool.h:104`), is excluded by `NumThreadsAssumption`.  The base
  costs that parallel tasks share (`route_net.cpp:97`) are part of the costs that
  are choices.
- *NoC*: costs are the aggregate bandwidth and the congestion; latencies are
  computed beside them from the same routes.  Moves are of any block to any
  router: fixed routers and range limits narrow that.  The flows of a moved pair
  are routed again in any order.  The first placement is never a checkpoint, only
  accepted moves are.  The checkpoint the placer itself keeps and the SAT router
  are left out.  `is_turn_legal` is modelled for one layer only, because of what it
  says of more: west-first tests `x2 > x1 && y3 > y2` and odd-even `x2 < x1` where
  `x3 < x2` would be expected (`odd_even_routing.cpp:118`), so the turns allowed
  and the directions offered disagree there.
- *Interposer*: one layer, vertical wires only, wires split in any order.  Only the
  first cut is split at, 30 % of the wires are split and delays tripled whatever
  the options `percent_wires_cut` and `delay_increase` say; the model has what the
  code does.  The head of `rr_graph_interposer.cpp` (line 7) announces a safe
  transfer of edges, its line 125 none: the edges of a wire are left where they were when its far part becomes the segment;
  so no property says that a connection keeps its row.  Edges other than those of
  the interposer stand for one per switch.  `check_rr_graph` and graphs read from
  a file are left out; so is the counting of fan-ins, which is never reached
  (finding 9).
