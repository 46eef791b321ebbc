# A TLA+ verification of OISA

OISA is a set of data-oblivious primitives (Path ORAM, oblivious sorting, scans and a
few benchmarks built on them) kept inside a full copy of the multi2sim architecture
simulator on which they are measured. This project models the primitives, which are the
repository's own code, and the parts of the simulator in which concurrency, resources
and time meet: the event engine, the interconnect, the cache coherence protocol, the
DRAM model, and the contexts of the x86 emulator that runs the benchmarks. `PRIM/` below
stands for `src/multi2sim/bin/benchmarks/primitives/`, `M2S/` for `src/multi2sim/src/`.

## 1. Inventory

| component | state | operations | what makes it correct |
|---|---|---|---|
| `PRIM/path_oram/` | tree of buckets, position map, stash, work arrays `wb_path` and `occupied` | `Init_ORAM`, `Free_ORAM`, `Access_ORAM` = `Retrieve_LeafLabel`, `Fetch_Blocks`, `Store_Blocks` | a caller sees a memory; every block is on the path of its label, in one copy; the stash has room; eviction is greedy |
| `PRIM/sort/` | the array in place; file-static parameters | `BitonicSort_*`, `MergeSort_*`, five variants each | an ordered permutation; merge sort is stable |
| `PRIM/lib/misc.c` | none | `log_2`, `bitwiseReverse`, `roundToPowerOf2` | the tree arithmetic built on them is right |
| `PRIM/lib/asm.h`, `lib/defs.h`, `PRIM/scan_oram/` | none | `cmov`, `cmovn`, `dassert` (empty unless `DEBUG`), `ScanORAM_Read`, `ScanORAM_Write` | conditional copies, array accesses |
| kernels (`src/benchmarks`, `src/multi2sim/bin/benchmarks`) | local arrays | shortest paths, spanning trees, search, and floating-point ones | the results are what the names say |
| `M2S/lib/esim` | event heap, frames, wait queues, in-flight counters | `Schedule`, `Call`, `Next`, `Return`, `Execute`, `Wait`, `Wakeup*`, `ProcessEvents`, `Drain` | events run once, in the right cycle; a frame is in one place; the finalization ends |
| `M2S/network` | buffers, lanes, wait queues, routing table | `TrySend`, `Receive`, transfers by link, bus and switch, `FloydWarshall`, `UpdateRoute`, `CheckCycles` | buffers do not overflow, order is kept, everything is delivered; routes arrive, the warning of cycles is exact |
| `M2S/memory` | tags, states, directories with locks, ports, access lists | the handlers of loads, stores, evictions, requests, invalidations and messages | one writer, inclusion, no lost data, no deadlock |
| `M2S/dram` | request and command queues, time of the last commands, remembered bank | `AddRequest`, request processor, scheduler, command returns, address decoding | commands respect timing and row state; no bank starves; addresses and places correspond |
| `M2S/arch/x86/emulator` contexts | lists of contexts by state, signal masks, host threads | system calls that suspend, wake, signal, create and end contexts; `ProcessEvents`; host threads | no wake-up is lost; threads are cancelled only while they exist; sleepers wake |
| `PRIM/path_oram_suboptimal/`, `PRIM/shuffle/`, heap sketch | | do not build | |
| processor models, ISA emulators, runtimes, user interface, crypto benchmarks | | | upstream or third-party code |

**Interactions.** `path_oram` calls `sort` once per access on the whole stash and
`lib/misc` for every position. In the simulator every component is a set of handlers on
`esim`: a frame carries a chain of events from one handler to the next, waits in a queue
that belongs to a resource (a buffer, a directory entry, a port), or is called by another
frame and returns to it. The memory system sends its requests over the network; DRAM
stands alone. The emulator is a single main loop with host threads beside it, which share
two flags with it under a mutex.

**What is hard.** In the primitives: state that is inconsistent in the middle of an access
(the position map has the new label before the block does), decisions that travel through
a sort with many ties, capacity asserted in debug builds only, bit arithmetic, memory that
is not cleared. In the simulator: handlers that run against a decision, a state or a check
for space of an earlier handler; locks held while waiting for locks of another level;
retries; wake-ups that come once; rounding between clock domains; a thread that is
cancelled when it is past its last cancellation point. `PROJECT.json` lists these hazards
with their lines and the properties that would show them.

## 2. Modules

| module | models | remarks |
|---|---|---|
| `PathORAM` | `path_oram.c` | state machine, proved about |
| `OramMemory` | the promise of `path_oram.h` | abstract specification that `PathORAM` implements |
| `PathLevels` | the result of `PushBack`, without bit operations | shared by `PathORAM` and `Algorithms` |
| `OramTree` | `lib/misc.c`, sizes, the walk to a leaf, `PushBack` bit by bit | pure |
| `Sort` | `bitonic_sort.c`, `merge_sort.c` | pure |
| `Kernels` | `dijkstras.cpp`, `prims.cpp`, `obinary_search.c` | pure |
| `DramAddress` | sizes, capacity and decoding in `dram/System.cc`, `Address.cc` | pure |
| `Algorithms` | a caller of the four pure modules | one call, its arguments and its result |
| `Esim` | `lib/esim` and the main loop around it | proved about |
| `Network` | `network/`: messages, packets, links, buses, switches | proved about |
| `NetRouting` | `network/RoutingTable.cc` | proved about |
| `Coherence` | `memory/SystemEvents.cc` on `Module`, `Cache`, `Directory` | |
| `Dram` | `dram/`: controller, channel, banks, scheduler | proved about |
| `X86Context` | `arch/x86/emulator`: `Emulator`, `Context`, signals | proved about |
| `PathORAM_proofs`, `PathORAMMemory_proofs` | | theorems; the second extends the first |
| `Dram_proofs`, `Esim_proofs`, `Network_proofs`, `NetRouting_proofs`, `X86Context_proofs` | | theorems |
| `LoopLemmas` | | lemmas about numbers and loops that the proofs share |
| `MC*` | | instances for TLC |

A definition whose comment says "Mutant" is a plausible mistake that violates a property
and is used by no specification.

### PathORAM: state and actions

`pc` is the control point. `Access_ORAM` is split where its phases meet:

* `Access_ORAM(op, id, data, random_leaf, new_leaf)`: the two random labels and
  `Retrieve_LeafLabel`. The entry is relabelled and made valid in the same pass that
  reads it; a READ of an unknown id fails its assertion after that (`pc = "aborted"`).
  `Access_BadId` is the range check.
* `Fetch_Blocks`: the path overwrites the front of the stash (whatever is there), its
  blocks in the tree become invalid, and one scan of the stash relabels, reads, writes or
  creates the block. A new block needs a free slot and is dropped without one, as in a
  release build.
* `AssignSlot`: one iteration of the first loop of `Store_Blocks`, in slot order. As in
  the code, `PushBack` is asked for invalid slots too, and `wb_path` is written for them.
* `WriteBack`: the loop that gives keys to the empty offsets (all of them to the same
  slot), the sort, and the copy of the front of the sorted stash to the path. Either sort
  may run; their results differ in the order of ties.

`Init_ORAM` and `Free_ORAM` may be repeated. Fetching and the scan are single actions
because the program has one thread and nothing can be observed in between; `AssignSlot`
is separate because `occupied` changes from slot to slot.

Ids are compared for equality only and a block's words are copied as a whole, so both are
model values (SYMMETRY). The id and data of an invalid block are never read and are
forgotten; its leaf is read by `Store_Blocks` and kept. A position map entry
`leaf | 0x8000` is the pair of its fields. `Path` is a constant, assumed to be the
root-to-leaf paths of a tree (`PathAssumption`); `MCPathORAM` computes it as the code does
and TLC evaluates the assumption; `WalksFormATree` checks it for more sizes. `written` is
a history variable. `MallocRecycles` says what `malloc` returns for the tree: zeroed
pages, or the chunk of the previous ORAM. `InitTree` clears one block, as the loop of
`Init_ORAM_Tree` does.

### The pure modules

The five variants of each sort differ in the number of words that travel and of keys; the
model is the two-key one, of which single-key sorting is the case of a constant second
key. The comparators of the bitonic sort do not depend on the data: the recursion is
unfolded into the sequence of its comparators. `PathORAM` uses the sorts themselves; the
conjunct `Sorts` of `WriteBack` states the one fact about them the proofs need, that the
result is an ordered permutation. It excludes no result of either sort: `SortsAreCorrect`
shows that for every small array, `SortsTheStash` for every stash sorted in run
`path_oram`. `odijks.cpp` and `oprims.cpp` are the same loops as the plain kernels.

### Esim

`heap` holds the scheduled frames by time (insertion order among equals), `queue` is a wait
queue, `stack` the current frame and the ones `Execute` saved. A handler is any sequence of
calls of the interface followed by `HandlerReturns`: nothing is assumed of the simulator's
handlers, except that they make finitely many calls in all (`MaxCalls`), not counting the
calls of `Next` in the draining, and not counting the wake-ups, each of which answers a
`Wait` that was counted. With two calls at most one frame sleeps at a time: a `WakeupAll`
that wakes several is covered by the theorems alone. `phase` goes through the
main loop ("arch", "events") and the finalization ("drain", "ends", "redrain", "done").
Misuse of the interface throws (`"panic"`). Two domains whose cycle times do not divide
each other are the smallest case in which a frame's time is rounded into the past.

### Network and NetRouting

A packet's event chain is either in `agenda` (the part of the engine's heap it needs, in
order) or suspended in the queue of one buffer. "Busy until cycle c" is kept as the number
of cycles it still holds, so that nothing grows with time and the runs are unbounded.
Arbitration of links and buses (`Arbitrate`), of switches (`SwitchSchedule`), virtual
channels, reassembly and the two ways of receiving are those of the code; so is the order
in which frames woken in the same cycle run. `NetRouting` is the fill of the table, from
costs or from manual route steps, and the depth-first search for cycles.

### Coherence

A frame is named by its call path (the access, then the module of every call below it); a
handler of a frame is a step. Latencies and the network only decide *when* a scheduled
handler runs, so a ready frame may run at any time. Handlers that only send a message or
schedule the next one are part of the step before them. One set, one block size and random
replacement; `behind` is a history variable, the blocks whose last store main memory has
not been given. `CanReturn` says that a frame returns to its caller only when the caller waits for it. `FindAndLockNotFound` is part of the model and of the code but never taken
when the levels are inclusive.

### Dram

One controller with one channel: channels share only the request queue, controllers
nothing. Events due in the same cycle run in any order (the engine's order depends on how
they were scheduled). `timings` is the table of fifteen rules; `ReadyCycles` is the maximum
`CalculateReadyCycles` takes, with the entries the code really uses. The policies are
chosen in `Init`. Log and rules are separate: `TimingsRespected` compares every pair of
commands of the log with the table, `ReadyCycles` only looks at the last ones.

### X86Context

One instruction is one step of the main thread: `Compute` or a system call with all the
calls it makes (`SystemCall`); then `EndOfRound` frees the finished contexts and processes
events. A host thread starts, sleeps or polls, and ends in two steps around its test of
the context's state, which it makes without the lock. `pthread_cancel` on a thread past
its sleep does nothing, and the thread goes on to its last lines; cancelling a thread that
no longer exists is undefined. Phases "aborted" (an exception or a failed assertion),
"undefined" (use of a freed context) and "bound" end a behaviour. Handlers of signals
other than SIGCHLD are taken to be installed; `poll` has a timeout; `write` suspends like
`read`; whether a context has a `clear_child_tid` (a flag of `clone`, or `set_tid_address`) is
chosen where it is read, at its end; arguments of calls are the caller's children or existing contexts.

What the calls change is a record, `World`, that the functions take and return; an action
computes the world at its end (`Becomes`). The loops over lists (`LookAtSuspended`,
`RunHandlers`, `FinishMembers`, `Without`) are recursive functions on 0 .. length: the world
after the first i elements. The list of suspended contexts is read before its loop starts, as
the code saves the next iterator before it wakes a context; no wake-up adds to the list or
removes another context from it.

## 3. Runs

| run | instance | states | shows |
|---|---|---|---|
| `path_oram` | 5 ids of which at most 3 are used, Z = 1, C = 1: 3 levels, stash of 8; two data values | 320 951 | the invariants, greedy eviction, `IsMemory` |
| `reinit` | N = 3, Z = 1, recycled memory | violation | finding 1 |
| `algorithms` | arrays of 1, 2, 4 with 3 x 2 keys and 8 with 0/1 keys; a few N, Z, C; DRAM controllers with powers of two and with threes, equal and unequal; graphs of four vertices; every search value | 39 108 | the pure algorithms against reference definitions |
| `sort_mixed` | length 4, directions (1, 0) | violation | finding 2 |
| `esim` | two events in two domains, the slow one's repeat, two calls besides wake-ups and any number in the draining, times to 7, SIGINT | 265 322 | bookkeeping, time, scheduled events run, the finalization ends |
| `network` | five messages, a link of two channels, a switch, a bus, buffers of two packets; a fixed-latency network | 78 154 | buffers, wake-ups, order, delivery |
| `routing` | all 4096 networks of links of four nodes, 704 with a bus, any manual routes over triangles of links and of a bus with links | 104 069 | shortest, usable routes; exact warning |
| `dram` | three requests to two ranks of two banks; both schedulers, both page policies | 324 338 | timing, rows, wake-ups, order, completion |
| `coherence` | two L1 over one L2, one way each, over a memory of two ways; two blocks, three accesses of every kind, two at a time | 348 683 | assertions, one writer, agreement of the levels, entries safe from concurrent accesses, no circular wait |
| `coherence_stale` | private L2 caches, one block, two stores | violation | finding 3 |
| `coherence_live` | private L2 caches, one block, three accesses | 58 473 | every access finishes |
| `x86_contexts` | two contexts, two host threads, five system calls of every kind, two signals | 374 456 | wake-ups, cancellation, sleepers |

Composite invariants (`LevelsAgree`, `FramesInPlace`, ...) are conjunctions of named parts,
each with a comment of its own and, in most cases, a mutant of its own.

**Bounds.** Three levels are the smallest tree in which a bucket between root and leaf can be
full; in `path_oram` the constraint `ThreeIdsUsed` limits how many ids are ever used, not how
often: any number of calls with every choice of labels. In that run the stash has a slot for
every id that is used; section 4 says what happens when it has not. Zeros and ones suffice for
a comparator network. In `esim` the bounds on time and calls would make draining finite by
themselves, so a handler that the draining runs may call `Next` without delay, which takes no
time, as often as it is run: only the limit of `Drain` ends it. `num_events` counts no further
than the limit, so that a draining without it is a loop and not an infinite state space. In
`network` three messages may be under way at a time, each again after it was received, and a
buffer holds two packets: full buffers, competition for a lane, and waiting behind a message
for another destination all happen. `coherence` needs two blocks that evict each other for an
eviction to cross a request, two ways for a block to take both, and three accesses for the
third to meet what two concurrent ones left. `coherence_live` has one block: with two, two
accesses can refuse each other for ever in a model without latencies, which fairness per
access does not exclude and the code's random retry latency makes improbable. `dram` has one
row: with the open-page policy all banks still go through activation and hits, and with the
closed one through precharge; conflicts of rows are covered by theorem `EveryCommandIsLegal`.
Three requests can meet in one bank, or in two ranks. Five system calls are enough for a
thread to be cancelled, for its successor to start and for the first to end late. `Scaled`
keeps the proportions of the DDR3 timings.

`CHECK_DEADLOCK FALSE` where the system stops: a pure call, the end of a simulation, the
end of a bounded sequence of requests, accesses or system calls. `path_oram` and `network` are
checked for deadlock; in `coherence`, where a non-coherent store can wait for itself
(section 4), `NoCircularWait` says that no other accesses wait for each other.

**Fairness.**

* `Esim`: weak fairness of the engine, of a `WakeupAll` that has begun and of the main
  loop, which is one thread that never stops by itself; `TimingFairness` says that a
  timing simulation goes on from cycle to cycle. Handlers have none: they may make no call.
* `Network`: weak fairness of "some handler or the clock". Handlers due are run before the
  clock advances, as `ProcessEvents` does.
* `Coherence`: per access, weak fairness of its steps (its events are scheduled and run),
  and strong fairness of taking a directory entry: a frame that waits for it runs in the
  cycle in which it is released, while the access that gave it up comes back after a retry
  latency, so no frame misses every chance.
* `Dram`: weak fairness of each kind of event and of the clock.
* `X86Context`: the main loop processes events when `force` is set; each host thread runs;
  a sleep ends.

The primitives are one thread of bounded loops: that a call returns holds by the shape of
the model, and no liveness is stated.

## 4. Findings

As runs:

1. **`Init_ORAM_Tree` clears one block** (`path_oram.c:140-143`; `reinit`). The index
   does not use `i`. On recycled memory a READ returns data of the previous ORAM. With
   memory fresh from the system, as in `main.c`, which initialises once, nothing is seen.
2. **The bitonic sort with mixed directions** (`bitonic_sort.c:153`, `:169`;
   `sort_mixed`). Sub-sorts are hard-coded to (1, 1) and (0, 0); `opagerank.c:75` asks
   for (1, 0). `Store_Blocks` asks for (1, 1).
3. **Dirty data is lost below two levels of caches** (`SystemEvents.cc:2332`;
   `coherence_stale`). `write_request_downup` answers by the state its frame read before the
   modules above wrote their data back, where `evict_invalid` reads it again (`:1502`): an L2
   cache that has just become M sends an acknowledgement without data and invalidates its block.

Other disagreements met while modelling. The modules have the behaviour as the code has it;
some were seen as counterexamples to a stronger property, others come from reading the code
against its comments. No run has them as violations; where a run includes the case, the text
names the property that says what holds.

* `path_oram.c:281`, `:304`, `:367`: the stash can overflow. With one slot behind the path
  (Z = 1, C = 0, five ids) a few writes fill it, and `dassert(!Stash_Full())` would fail under
  the comment "TODO: deal with overflow strictly" (`:280`). `dassert` is empty in the default
  build: a WRITE of a new id then creates no entry, although "if id is new, we create new entry
  in stash" (`:303`), and says nothing, so that `NoBlockLost` and `IsMemory` fail; and a block
  can be written off its path. `main.c` uses Z = 4 and C = 200, far from it. The properties
  are checked, and the theorems state them, where the stash has room.
* `path_oram.c:359-366`: one invalid slot takes the keys of all empty offsets, so blocks are
  not written to the places assigned to them, contrary to the comments at `:339` and
  `:358`, but move towards the root. `OnItsPath` and `EvictionIsGreedy` hold all the same.
* `lib/esim`: `Drain` runs handlers without `decInFlight` (`Engine.cc:125`), so `isInFlight`,
  whether "there are currently any events of this type scheduled" (`Event.h:82`), stays true
  in the finalization for events of which none is; `FramesAccountedFor` claims the count until
  then. A SIGINT is looked at in `ProcessEvents` only (`Engine.cc:201`), not "at the end of
  the simulation loop iteration" (`:82`): a purely functional simulation does not see it.
  `Return` is ignored whenever there is no return event (`Engine.cc:455`), also in a chain
  called from a handler, to which `Engine.h:350` promises a return. A handler that calls
  `Next` with a period (`Engine.h:317`) has its frame scheduled a second time by
  `ProcessEvents` (`Engine.cc:248`), which panics.
* `network`: the decision of a bus lane stands for the whole cycle (`Bus.cc:258`), also when
  the lane has become "busy until this cycle" (`Bus.h:91`), so a lane can carry two packets; a
  link cannot (`BusyLinksCarryNoMore`). `ExtractPacket` measures the occupancy before it
  reduces the count (`Buffer.cc:115`, `Buffer.h:77`). A manual route over a bus stores the
  input buffer of the next node (`RoutingTable.cc:584`) as the "Output buffer" of the entry
  (`RoutingTable.h:49`), and on a route of two hops the search for cycles fails its assertion
  (`:298`). Such routes are part of run `routing`: `EntriesLeadOn` says what holds of them
  too, that the buffer is one of a connection between the two nodes, and `WarnsOfCycles` that
  the assertion fails for no other reason (`EntriesNameOutputBuffers`). The cost of a manual
  route adds costs that were updated before and is not "in hops" (`RoutingTable.cc:661`,
  `RoutingTable.h:41`); on a circular route its loop does not end (`:642`), so that the
  warning at `Network.cc:141` is never reached. Packets of several messages share the input
  buffer of a destination until a message is complete: when together they fill it and none is
  complete, none is ever delivered. In run `network` a buffer holds every packet of a message
  and messages of two packets come one at a time.
* `memory`: a non-coherent store whose eviction or read request is refused goes back to
  `nc_store_lock` without `UnlockEntry` (`SystemEvents.cc:867`) and waits for its own entry
  for ever, where a load does "Unlock block and retry load" (`:303`) and `Frame.h:142` speaks
  of backtracking to "avoid deadlock". `NoCircularWait` names it as the only wait of the kind,
  beside any loads and stores; `coherence_live` has loads and stores only. With a shared L2
  cache dirty data is lost in two more ways: `read_request_updown_finish` leaves the L2 in E
  when the owner above sent it data (the test `config_0_load_2` of
  `tests/src/memory/TestSystemEvents.cc` expects just that state), and the reply at `:3104`
  drops an M. Three comments say that a request from below may not find its block, since "it
  is possible that the block has already been evicted by the higher-level cache"
  (`SystemEvents.cc:2081`, `:2679`, and `:1159`, "it must be because it was previously
  evicted"). In the model that case never arises (`RequestsFindTheirBlock`, a part of
  `LevelsAgree`): the module below forgets the sharer before the block is dropped above, and
  refuses the eviction while its entry is locked by the request. `block_not_found` is never
  set and the branches that test it are dead code, kept in the model as `FindAndLockNotFound`.
  The comments err on the safe side; a run that shows a violation of them cannot be made, as
  they say what may happen and not what must. Two rules of the sanity check (rule 1,
  `System.cc:456`; rule 2, `:514`) fail in states the protocol passes through, although the
  comment at `:514` allows for accesses in flight.
* `dram`: the gap of a read after a write to another rank uses the rule for reads after
  reads (`Channel.cc:280`), enough only when tCWD <= tCAS; a write after an activation
  looks at the rank, not the bank (`Channel.cc:291`), later than needed, never earlier; the
  active row (`Bank.h:94-100`) is never set. Three cases of addresses are part of run
  `algorithms`, and `DecodingIsCorrect` says what holds in them: the bound is `>`
  (`System.cc:393`, `:413`), so the address that equals the capacity is accepted, though it is
  not "the maximum address" (`System.h:147`), and goes to the place of address 0 (the test at
  `tests/src/dram/TestDramEvents.cc:784` tries a much larger one); `Log2` rounds down
  (`System.cc:381`), so of three banks one is never addressed, against "any location in the
  system" (`:371`); and with controllers of different geometry, which `:373` allows, an address
  can name a channel, rank or bank that its controller does not have, which
  `Controller.cc:295` indexes unchecked.
* x86 contexts: a signal that arrives while a context is in a futex is not seen when it
  is woken (no `ProcessEventsSchedule`, `Context.cc:180`); the SIGCHLD of `Finish`
  (`Context.cc:943`) does not cancel the parent's host thread, so it does not interrupt a
  sleep or a read as `kill` does; `FinishGroup` (`Context.cc:866-908`) does not orphan
  children as `Finish` does (`:921-923`), so they stay zombies and `Run` does not stop;
  `exit` of the leader of a thread group leaves `group_parent` dangling; a cancelled host
  thread past its sleep still writes to its context, also after it was freed, contrary to
  the comment at `Context.cc:555-558`; a handler that blocks and gets another signal fails
  `assert(!StateHandler)` (`ContextSignal.cc:132`).

## 5. Proofs

**Path ORAM.** The theorems hold for every value of the constants that satisfies `SizeAssumption`,
`PathAssumption` and `IdAssumption`. Two further hypotheses appear where they are needed:

* `TRUE \notin MallocRecycles`: the tree's memory is zeroed. Finding 1 shows the need.
* `RoomForAll`: the ids are finitely many and `Cardinality(Ids) <= StashSize - PathLen`,
  so every block could be in the stash behind a path. The size `Init_ORAM` picks satisfies
  it when C is at least the number of blocks; the overflow of section 4 shows that without some such
  condition blocks are lost. That the stash then has room is the
  hypothesis itself, and no theorem. For the large ORAMs and small stashes the
  construction is meant for, room is a matter of probability, which is not modelled.

| theorem | hypotheses | argument |
|---|---|---|
| `TypeCorrect`: `Spec => []TypeOK` | none | inductive as it is |
| `OneCopyAlways`: `[](OneCopy /\ PosMapKnows)` | zeroed memory | `CopyInv` |
| `OnItsPathAlways`: `[]OnItsPath` | both | `PathInv` |
| `NoBlockLostAlways`: `[]NoBlockLost` | both | `PathInv` and `ContentInv` |
| `ImplementsMemory`: `Spec => IsMemory` | both | step by step, from the same invariants |
| `EvictionIsAlwaysGreedy`: `Spec => EvictionIsGreedy` | none | `TypeOK /\ Assigned /\ Filled` |

* `TypeCorrect`. The substance is in `AssignSlot` and `WriteBack`: `PushBack` returns a
  level that is not full, so that `occupied` stays within a bucket and the offset within
  the path (`OffsetInFront`), and the front of the stash and the places of a path
  correspond one to one (`FrontIsOffset`, `OffsetInjective`).
* `OneCopyAlways`. `OneCopy` is not inductive: whether `Fetch_Blocks` creates a block
  depends on the valid bit the position map had earlier. `CopyInv` adds `PosMapKnows`:
  every valid block has a valid entry, and while a call is between the two phases with
  `if_new_data` no block has its id. The two long steps have lemmas of their own,
  `FetchBlocksCopyInv` (the path is moved, not copied) and `WriteBackCopyInv` (a
  permutation, then the front moved to places no two of which have the same offset). Room
  in the stash is not needed: an overflow loses or misplaces blocks, but copies none.
* `OnItsPathAlways`. Since blocks are not written where they were assigned (section 4),
  the proof has to say where they go. `Assigned` records what the loop of `Store_Blocks`
  has established for the slots it has seen: a key below `max_int` is an offset in a
  bucket shared with the block's own path, and no two are equal. `ExtraKeyFacts` shows
  that the extra key is different from all of them. Then (`SortedToTheFront`) a valid
  slot sorted to position p of the front has a key: without one it would be followed by
  valid slots only, more than there are ids (`TailBoundsRank`). And its key is at least
  p, because the keys up to p are distinct naturals (`KeyBoundsRank`, by the pigeonhole
  principle). So it is written no deeper than its key's level, where its path and the
  accessed path still coincide (`LevelMonotone`, `PathAssumption`). `NewLabel` is what
  `Fetch_Blocks` needs of the position map.
* `NoBlockLostAlways`. `Emptied` says that what the two copies overwrite holds no block;
  `Known` that an id the position map knows was written. With `OnItsPath` the block a
  call looks for is on the accessed path or in the stash (`FetchedHolds`), and a new one
  finds a slot (`FetchedRoom`, `NewBlockSlotExists`).
* `ImplementsMemory`. `Fetch_Blocks` is the instant a call takes effect; the value a READ
  returns is that of the only matching slot (`OneCopy`), which holds `written`.
  `UnknownNotWritten` shows that a READ is refused only when it must be.
* `EvictionIsAlwaysGreedy`. That a block stays in the stash was decided by the loop of
  `Store_Blocks`, while which blocks fill a bucket is decided by the sort. `Filled` says what
  the loop leaves: each place below the count of a level is the key of a valid slot, and a
  valid slot without a key found its levels full. A bucket in question is then written from
  positions that hold keys not above theirs, so all of them hold valid blocks. Neither zeroed
  memory nor room in the stash is needed.

**DRAM.** For every geometry, set of rows and timing table, and every order of the events
of a cycle:

| theorem | hypotheses | argument |
|---|---|---|
| `NoWakeupIsLost`: `[]NoLostWakeup` | none | inductive as it is: each action that leaves work schedules an event |
| `EveryCommandIsLegal`: `[]RowIsReady` | none | `TypeInv /\ Chained` |
| `TimingsAreRespected`: `[]TimingsRespected` | `tCWD <= tCAS` | `TypeInv /\ LastIsLatest` |
| `NoEventIsOverdue`: `[](TypeOK /\ NoneOverdue)` | none | `WholeType` |
| `ChoiceIsNeverStale`: `[]ChoiceNotStale` | none | `WholeType /\ OncePerCycle` |
| `BanksAreServedInTurn`: `[]ServedInTurn` | `tBURST >= 1` | `WholeType /\ RoundRobin /\ Ordered` |

* `RowIsReady` speaks of the front command and the open row, but which commands are queued
  was decided against `future_active_row`, commands earlier. `Chained` closes the gap: from
  the open row, the queue of a bank is a chain of legal commands that ends in the future
  row. A request appends a chain that starts there (`CommandsForChain`, `ChainConcat`), the
  scheduler takes off the first link (`ChainTail`).
* `TimingsRespected` relates all pairs of commands ever issued; the code keeps only the time
  of the last command of each type. `LastIsLatest` says that these times are the maxima, so
  a command that respects the last respects all. The hypothesis is what the rule at
  `Channel.cc:280` needs; the device of the default configuration satisfies it. The
  precondition is needed: with tCWD > tCAS the table's own gap is larger than the one used.

* `ChoiceNotStale` compares the remembered bank with what `OldestFirst` would return now.
  A command created since could only be older if the request processor had run for an
  earlier cycle: `OncePerCycle` says that it runs once in a cycle and that what it created is
  newer than everything before.
* `ServedInTurn` has two halves. `RoundRobin` says where the scheduler's pointer stands
  relative to the banks that were passed. `Ordered` carries the order of the requests of a
  bank through the incoming queue, the command queue and the commands that are returning; the
  last stage needs that two accesses of a bank return in the order they were issued, that is
  a gap of at least one cycle between them. With a burst of no length two accesses can return
  in the same cycle, in either order, and TLC shows it: hence the hypothesis.

**Event engine.** For every set of frames, events, domains, frequencies that
`isValidFrequency` admits, delays and periods, and every sequence of calls by handlers:

| theorem | hypotheses | argument |
|---|---|---|
| `FramesAreAccountedFor`: `[]FramesAccountedFor` | none | `TypeOK /\ OnePlace /\ HeapInv` |
| `EventsRunOnTime`: `Spec => OnTime` | none | `EngineInv`, which adds `Rescheduled` |

* The count of the events in flight is exact only because a frame is in the heap once and
  `Next`, `Wait` and the wake-ups refuse a frame that is somewhere already. `HeapInv` has
  that, the order of the heap, and `Timely`: in the loop no scheduled time lies before the
  current cycle of the frame's domain. A frame's time is rounded down to its domain's cycle
  and can lie before `current_time`; what excludes a missed cycle is that `ProcessEvents`
  advances by the shortest cycle time (`ShortestCycleTimeIsShortest`).
* A periodic frame is scheduled again after its handler, from the time of the frame that ran:
  `Rescheduled` says that until then this is still the start of the current cycle.

**Network.** For every network, any number of messages and packets, and every order of the
user's calls, under three assumptions that TLC evaluates on the networks of run `network`.
`ConfigAssumption` is what the parser and `Network.cc` admit. `FitsAssumption` says that the
first buffer can hold a message (`CanSend` throws otherwise, `Network.cc:883`). `TopologyAssumption`
says that a buffer is an input or an output buffer of one connection, and that from the first
buffer on, the routing tables lead to the destination or on to another switch, through
buffers that can hold a packet. Where it is otherwise the handlers throw (`Bus.cc:135`,
`:151`, `:175`, `Switch.cc:104`, `:145`, `SystemEvents.cc:183`), with one exception: a link
does not compare the packet with the size of the buffer, and waits for ever in its queue
(`Link.cc:231`). Loops in the routes are not excluded.

| theorem | hypotheses | argument |
|---|---|---|
| `BuffersAlwaysHold`: `[]BuffersHold` | the assumptions | `NetInv` |
| `FramesStayInPlace`: `[]FramesInPlace` | the assumptions | `NetInv` |
| `BusyLinksAlwaysCarryNoMore`: `Spec => BusyLinksCarryNoMore` | the assumptions | `NetInv` |

* `NetInv` ties four things together that the code keeps apart: the frames in the agenda and
  the queues (`FramesOK`: sorted, none twice), where the packet of a frame may be for each
  event (`Placed`), that a packet of a message under way has a frame or was received and is
  on the way of its message (`Carried`), and that the buffers hold exactly the packets whose
  `Packet::buffer` they are, each once (`Stored`). The count of a buffer needs all of them:
  `ExtractPacket` takes off the head and subtracts the size of the packet whose handler
  runs, which is the head because `TransferPacket` compared them; `Receive` removes all packets
  of a message from the buffer of the first one, which is right because every packet of a
  message ends in the same buffer (`HomeIsOne`: the way is deterministic and stops at home).
* The bytes in a buffer are counted as the cardinality of a set (`Bytes`), which the theorems
  about finite sets can reason about (`BytesCounted`, `LoadFacts`, `TakenOff`).
* A suspended frame has a packet to wait for: it waits behind another packet of the buffer,
  or for room in a buffer that is too full and therefore not empty (`FullIsNotEmpty`, which is
  where the sizes in the assumptions are needed); a step that empties a buffer wakes its queue.
* A packet leaves a source buffer of a link only in `Link::TransferPacket` of that link, after
  the test of `busy`: the other steps that shorten a buffer shorten an input buffer.

**Routing.** For every number of nodes and every network of links and buses, under three
assumptions that TLC evaluates on the networks of run `routing`. `DimensionAssumption`: there is
a node, and virtual channels are naturals. `NetworkAssumption`: a network is a sequence of
connections. `LinksAssumption`, for the networks with a section Routes only: the source
buffers of a link are on one node; of buses nothing is assumed.

| theorem | hypotheses | argument |
|---|---|---|
| `RoutingFindsShortestRoutes`: `[]RoutesAreShortest` | the assumptions | `RInv` |
| `RoutingIsUsable`: `[]RoutesAreUsable` | the assumptions | `RInv` |

* The textbook invariant of Floyd and Warshall speaks of shortest paths over the first k nodes,
  and needs paths as objects. `RInv` has three statements about the costs alone instead. `Sound`:
  a cost below that of "no path" is the length of some walk (`Within`), a neighbour costs at most
  1. `Detours(table, k)`: over none of the first k nodes is there a shorter way, a triangle
  inequality for k middle nodes, which turn k + 1 keeps for the k before it (`RelaxedDetours`).
  `Via`: the next node of an entry is the destination, or lies strictly between and on a way
  that costs no more.
* With all N nodes `Detours` is the whole triangle inequality, so one hop more costs at most one
  more and n hops at most n: no cost is above the length of a shortest path (`CostIsLeast`).
  `Sound` is the other direction. An infinite cost of N is enough because every node that can be
  reached is at most N - 1 hops away (`FarthestNode`): until the hops reach nothing new, each
  adds a node, and there are N. So wherever there is a path, a route is found.
* Buffers are found by following the next nodes back to a neighbour (`FirstHop`). Every node met
  on the way lies on a shortest path (`OnTheWay`, `TurnFacts`) and is cheaper than the one before,
  so N turns are enough (`FirstHopFacts`), and the neighbour is one hop closer to the
  destination. This is where a first hop taken too early (the mutant `ResolvedAtOnce`) fails.
* For manual routes only the buffers are claimed (`EntriesLeadOn`): over a link, the source
  buffer that a virtual channel is an offset to belongs to the node of the link; over a bus, the
  buffer is the input buffer of the next node (`UpdateRouteFacts`), which is not
  an output buffer of this one (section 4). And neither the walks nor the
  sums of `UpdateManualRoutingCost` touch a buffer (`CostedKeeps`).

**x86 contexts.** For any number of contexts, host threads, system calls and units of data,
every set of signals and of masks, and every interleaving of the main thread, the host threads
and time, under `ContextAssumption` (the bounds are naturals, SIGCHLD is a signal, a mask is a
set of signals):

| theorem | hypotheses | argument |
|---|---|---|
| `ContextsHostThreads`: `[]HostThreadsAreFound` | none | `Inv` |
| `ContextsNoLostWakeup`: `[]NoLostWakeup` | none | `Inv` |

* `Inv` has three parts. `Sizes`: the list holds created contexts and is no longer than their
  number. `WorldOK(World, E)` with E the contexts that exist: the lists follow the states, a
  state is a normal form of `UpdateState` with at most one reason to wait (`OneReason`),
  an active context counts on a thread that lives, is its own and is not cancelled
  (`Counts`), and a freed context is blank. `Watched(World, c)` for every context while no
  events are due. `NoLostWakeup` alone is not inductive: that a second reason to wait
  is not left behind by a wake-up, that a new thread is launched under a number no
  live context counts on, and that a freed context is in no list are all needed.
* `WorldOK` and `Watched` are stated of a world and not of the state, because a call
  passes through worlds that no state is: in the middle of `ProcessEvents` the contexts already
  looked at are watched and the others are not. `Round` says what looking at one context may
  do: the watch on the *others* stays. So the lemmas are about functions (`LaunchRound`,
  `WakeupRound`, `CanWakeupLooks`, `FinishKeeps`, ...), and the lemmas about actions put them
  together (`BecomesKeeps`).
* Waking a context in waitpid finishes a zombie, which can only help the others; no step of
  `ProcessEvents` makes a zombie, launches for another context or adds a pending signal. That
  is why one pass over the list is enough. A call that makes a zombie, sends a signal
  or cancels a thread sets `force`, or runs `ProcessEvents` before it returns.
* A thread that was cancelled past its sleep still clears the field of its context, also
  when the context has a new thread by then. The proof of `EndsKeeps` shows why that is
  harmless for these two properties: the context counts on no thread afterwards and events are
  scheduled, so the next round looks at it again. The thread it forgot cannot be cancelled
  any more and runs to its end.
* The loops, here and in the routing table (`LoopLemmas`). `UpTo` is induction over the rounds with the property given as a set, which the
  provers can instantiate; it looks at the first round that breaks it (`LeastOf`). `LoopRuns`
  builds from it the values of all rounds of a loop whose body maps a set of worlds into itself,
  so that the recursive function of the model, a CHOOSE, has the values the loop computes
  (`WithoutRuns`, `LookRuns`, `HandlersRun`, `MembersRun`, `WithinRuns`).

Only model-checked, and why:

* liveness (`Finishes`, `Finalizes`, `ScheduledRuns`, `Delivered`, `SleepersWake`): the prover
  has no rules for fairness and ENABLED;
* what a recursive definition computes for every input: `SortsTheStash` and the invariants of
  `Algorithms`; `WarnsOfCycles` of `NetRouting`, whose depth-first search is recursion inside a
  loop. That the sorts sort is a conjunct of `WriteBack` for the
  proofs and a checked invariant for TLC;
* `InOrder` of `Network`: the order of two messages on their way through several buffers is
  an order on paths, with one case per pair of buffers;
* the invariants of `Coherence`: each relates blocks, directory entries, locks and frames of
  all levels; their inductive strengthening describes what every frame may assume at each of
  some forty events.

## 6. Not modelled, and the plan

Most of the 300 000 lines of the repository are instruction tables and interpreters of six
architectures, pipelines, device runtimes, vendored headers and third-party benchmarks:
sequential translations from operands to results, or code whose properties are those of
another project. They have no protocol to check, and their size is why the modules map
only a small share of all lines. In particular:

* `path_oram_suboptimal` does not compile against the present `sort.h`, the ORAM heap and
  the shuffle are unfinished: no binary of them exists.
* `arch/*`: instructions, pipelines, GPU models; of the x86 emulator also memory, files,
  `FUTEX_CMP_REQUEUE`, `FUTEX_WAKE_OP` and the timer threads (their start is commented out).
* `memory`: local memories, the flush (`FlushCache` passes a frame it never sets), several
  block sizes in one hierarchy, LRU and FIFO order, the emulated memory.
* `network`: configuration parser, statistics, graph layout. `dram`: configuration parser
  and `Action.cc`, which is not in the build. `lib/esim`: `Trace.cc`.
* Printing and timing functions, drivers and tests (fixed call sequences), floating-point
  kernels, crypto benchmarks.

Next, in this order:

1. Theorems: `NoCircularWait` of `Coherence`, the one invariant of that module which
   speaks of locks and queues only.
2. `Oblivious`: the sequence of buckets an access touches as a variable; that every label
   is revealed at most once after it was drawn.
3. The local memories of the memory system, and blocks of several sizes.
4. The load/store queue and reorder buffer of `arch/x86/timing`, on top of `Coherence`.
