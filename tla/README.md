# Verification of NumToy

NumToy is an array library: expressions over bit-packed tensors are collected
into graphs, compiled by Cranelift or by a small JIT of its own, cached, and
run. This directory holds TLA+ models of its concurrent core, of its network
layer and of the whole way of a number through tensors, compilers and machine
code; the TLC configurations that check them; and TLAPS proofs of what matters
most.
Paths below are relative to `src/`; unqualified file names are in
`numtoy-core/src/`.

- [1. The system](#1-the-system)
- [2. The modules and the code](#2-the-modules-and-the-code)
- [3. The runs](#3-the-runs)
- [4. Fairness](#4-fairness)
- [5. The proofs](#5-the-proofs)
- [6. Where code and documentation disagree](#6-where-code-and-documentation-disagree)
- [7. What is not modelled](#7-what-is-not-modelled)
- [8. Plan](#8-plan)

## 1. The system

| component | state it keeps | operations | interacts with |
|---|---|---|---|
| Execution-mode switch (`lib.rs`, `pool.rs`, `signals.rs`) | `GLOBAL_EXECUTION_MODE`, `XTREME_ACTIVE`, `XTREME_WORKER_STARTED` (atomics) | `set_execution_mode`, `update_pool_mode`, `ensure_xtreme_worker_started`, `emergency_cleanup` | read by every caller and every worker loop |
| Callers (`array.rs`) | the graph and hash of the call in progress | `execute_expr_on_device`: mode read, `submit` or eager compile, spin on the cache, run | push to the two queues, spin on `JIT_CACHE` |
| Compile pool (`pool.rs`) | global injector, one deque per worker, the role of each worker | `submit`, `worker_loop`, `process_task`, `idle_backoff` | pop, steal, push stages, insert kernels |
| Xtreme worker (`pool.rs`) | `XTREME_INJECTOR`, its thread | `xtreme_worker_loop`, `xtreme_run_inline` | drains its queue only while the flag is on |
| Kernel cache (`cache.rs`) | `JIT_CACHE`, `MEMORY_MAP` | `hash_graph`, lookups and inserts from four call sites | the only link from worker back to caller |
| Graphs and IR (`graph.rs`, `ir.rs`) | arena nodes; reference-counted expressions | `from_expr`, `grad`, constructors | input of the hash and of the compilers |
| Tensor views (`array.rs`, `lib.rs`) | shape, bit strides, bit offset of a variable over a packed buffer | `from_values`, `slice_and_dice`, `transpose`, `broadcast_to`, `reshape` | the layout is baked into compiled kernels |
| Fuser (`fuser.rs`, `helper_matmul.rs`) | tables keyed by variable id | `compile_packed_kernel`, `emit_compute_bit_offset` | called on worker threads and on eager callers |
| Custom JIT (`jit/`) | live intervals, free registers, executable pages | lowering, `linear_scan_alloc`, emitters, `mem.rs` | tried before Cranelift |
| Network layer (`network.rs`; public, not called from the rest of the crate) | a byte ring per worker node, result maps, alive flags | `push`, `drain`, `dispatch`, `collect`, `reassemble`, `shutdown` | sender and receiver threads per node |
| Scalar types (`types.rs`) | none | encoders and decoders of the packed formats | everywhere |
| Bit-packing engine (`numtoy-hardware/src/main.zig`, `hardware.rs`) | arena, `g_active_engine` | create, destroy, pack, unpack, emergency hook | called from Rust through FFI; nothing calls the hook |
| Eager calculator (`calculator.rs`) | two channels, one thread | returns each graph unchanged | called by eager execution |
| GPU backend (`gpu.rs`) | none between calls | submit, map, read back | alternative to the CPU pool |
| Bindings (`numtoy-python`, `numtoy-cpp`) | handles | marshalling | Python holds the GIL for each whole call |

What makes each part correct, and where it is hard:

- **Mode switch.** One call is up to four atomic accesses by one thread, and
  the interrupt handler two more; calls of several threads and the handler
  interleave between any of them. Correct: the Xtreme worker is spawned at most
  once, and submissions go to its queue only if its thread has been spawned, was
  refused by the system, or a call is on its way to spawn it.
- **Pool.** The caller spins with no timeout, no wake-up and no error path, so
  its only hope is that the task it pushed survives batch steals, stage
  re-pushes, mode changes between two reads, duplicate compilations and worker
  deaths. Correct: no task is lost, no kernel lands under another key, and a
  call that does not return has one of a few known reasons.
- **Cache key.** A key hit runs a kernel compiled for *another* graph with the
  same key. Correct: everything the compiler bakes into the code is in the key.
- **Views.** Strides and offsets composed over any number of view operations must
  address the element that the operations chose, inside of the buffer, and no two
  elements may overlap: buffers are handed out as raw pointers, to kernels and to
  other libraries, which may write to them.
- **Network.** Ring counters that wrap, deadlines against late answers, lost
  connections, one tile of several failing.
- **Register allocation.** Two values alive together never share a register.
- **Compilers.** Two of them, the custom JIT and Cranelift, make kernels for one
  and the same expression. Correct: either computes what the expression says,
  touches only its operands and its output, and returns to its caller.
- **Types.** A value is encoded, packed, loaded, computed on, stored and decoded
  by six different pieces of code that must agree on width, sign and scale.
- **Engine.** One global pointer for all engines of a process, which threads set and
  clear without a lock. Correct: it never names an engine whose arena is freed.

`PROJECT.json` lists the hazards line by line, with the properties that cover
each, or the reason why none does.

## 2. The modules and the code

    ModeControl ----> KernelPool ----> MCKernelPool
                          |   \------> MCKernelKey <--- KernelKey <--- TensorView
                          |--INSTANCE--> KernelService
                   KernelPoolProofs

    MCByteRing <--- ByteRing --INSTANCE--> ByteQueue
                       |
                 ByteRingProofs

    EngineArena ----> TileNet ----> MCTileNet
                         |--INSTANCE--> TileService
                   TileNetProofs --> TilePlaceProofs
                         |
                     Recursion

    Recursion, BitPack --> BitPackProofs --> ViewProofs
                                                 |
    TensorView, BitPack -----------------> ViewChain ----> MCViewChain

    BitPack --> Codec --> TensorView --> TensorOps --> PackedLoop --> GpuDevice --+
                                                           |                      |
    LinearScanProofs <-- LinearScan --> JitKernel <--------+                      |
                              X86 --------^ |                                     |
                                            +---> TensorSession <-----------------+
                                                       |
                                                   MCSession

### ModeControl: the mode switch

Every atomic access of `set_execution_mode` is an action, because the hazards
lie between them. A thread's position in the call is `setPc`. Two variables count what
happened and are read by no action: `spawned`, the threads that exist, and `refused`,
that the system would not give one. They are not the guard flag `workerStarted`, which is
set before the spawn and stays set when it fails or the thread dies.

| code | action |
|---|---|
| `lib.rs` store of the mode byte | `SetMode` |
| `lib.rs` store of `XTREME_ACTIVE` | `StoreXtremeActive` |
| `update_pool_mode` re-reading the flag | `UpdatePoolMode` |
| compare-exchange on `XTREME_WORKER_STARTED` | `EnsureXtremeWorkerStarted` |
| `thread::Builder::spawn(..)`, and its `expect` | `SpawnXtremeWorker`, `SpawnFails` |
| `emergency_cleanup`, two stores | `CleanupXtremeActive`, `CleanupMode` |

The handler survives only on Windows under a host that handles Ctrl+C itself
(the handler returns FALSE and the next one runs, as with Python); on Unix the
signal is re-raised and the process ends, which is `MaxSignals = 0`. All these
atomics are accessed `Relaxed`; each is a single location with its own total
order of modifications, and the model interleaves the accesses in program
order. Reorderings of two *different* locations within one thread are not
modelled.

### KernelPool: callers, workers, Xtreme worker, cache

`KernelPool` EXTENDS `ModeControl`; the same threads set modes and execute.
A graph is an element of `Graphs`; `HashOf` gives its key and `Outcome` what
`compile_packed_kernel` does with it (returns a kernel, returns `None`, or
panics: `fuser.rs` 720 and 726 do, on a dequantizing matmul whose operand is
not materialised). A kernel is named by the graph it was compiled from.

| code | actions |
|---|---|
| `execute_expr_on_device`: entry and mode read | `Execute` |
| ... eager: probe, compile on the calling thread | `EagerProbe`, `EagerCompile` |
| `ThreadPool::submit`: flag read, then one of two pushes | `Route`, `SubmitXtreme`, `SubmitProbe`, `SubmitPush` |
| the spin on `JIT_CACHE` | `Await` |
| `worker_loop`: flag read and own deque | `PopLocal` |
| ... `injector.steal_batch_and_pop` | `StealFromInjector`, `InjectorIsEmpty` |
| ... the scan of the peers, assemblers only | `StealFromPeer`, `PeerIsEmpty` |
| `process_task`: Tile and Fuse stages | `ProcessStage` |
| `process_task`: Assemble, probe then compile and insert | `ProcessAssemble`, `Compile` |
| `xtreme_worker_loop`, `xtreme_run_inline` | `XtremePoll`, `XtremeSteal`, `XtremeProbe`, `XtremeCompile` |

Points a reader may want to compare with the source:

- The flag is read at the top of the worker loop (`wxtreme`) and used when the
  task is processed, however stale it is then.
- `steal_batch_and_pop` is crossbeam's: it pops the oldest task and moves *some*
  of those behind it, how many being the library's choice. The model lets it be
  any number. The steal itself is atomic, as the library guarantees; the scan of
  the peers is not, and owners push and pop between two looks.
- Probe and insert are separate actions, so two threads may compile one graph.
- The Eager calculator hands every graph back unchanged (`calculator.rs`), so the
  round trip through its channels is part of `Execute`.
- `ThreadPool::active` is never cleared, so a worker ends only by a panic in the
  compiler. What remains in its deque is then reachable to thieves only, and only
  assemblers steal from peers.
- A pushed task's hash is that of its graph in every stage: `is_stabilized` is not
  hashed and the optimisation pass returns the graph with only that flag set.
- The constant `GIL` makes every call exclusive: no entry point of the Python
  binding releases the lock.

Operators named `...Unguarded`, `...Sticky`, `...Short` and so on, each under a
comment that begins `Slip:`, are *not* part of the specification: no action
uses them. Each is a plausible slip in the definition that follows it, kept to
show that the property named in `PROJECT.json` (`mutants`) notices the slip when
the definition is replaced by it.

### KernelService: what a caller relies on

A table from keys to kernels that only fills up; a call asks, and ends with
what the table holds under its key, with a kernel it compiled itself, or with a
panic for a graph that does not compile. `KernelPool!Service` is the refinement
mapping: the calls in progress, their graphs, their results, and the cache.

### KernelKey and TensorView: real graphs for the elements of Graphs

`TensorView` has the views of `lib.rs` (`from_values`, `from_mmap`, `slice_and_dice`) and
`array.rs` (`transpose`) as operators on shape, strides and offset; `KernelKey`
has `hash_node` of `cache.rs` and the constants the Cranelift path of
`fuser.rs` bakes into a kernel. `MCKernelKey` runs the pool on two such graphs.
blake3 is taken to be collision free: a key is the sequence fed to the hasher.

### ByteRing and ByteQueue: the ring between dispatch and the socket

`push` and `drain` (`network.rs` 99-162) are the library's one hand-written
lock-free structure. Every access to shared memory is an action: the loads at
the start (a side's own counter cannot change under it, so its two loads are one
step), each single byte copied, and the store that publishes. `PushRefused`,
`PushAdmitted`, `CopyIn` and `Publish` are `push`; `DrainNothing`, `DrainSome`,
`CopyOut` and `Release` are `drain`, which the sender thread calls in a loop. The
masked index and the copy in two pieces are `Start` and `Cell`. The counters
count modulo `Wrap`, 2^64 in the code. Loads acquire and stores release, so a
side that reads a counter sees the bytes behind it, and interleaving is a faithful
memory model. `ByteQueue` is the bounded FIFO the two users rely on; the mapping
takes the bytes between the two counters for its queue.

### TileNet and EngineArena: tiles over connections

`TileNet` is `network.rs` apart from the ring: one coordinator and its
connections, whose nodes are tried and listed in the order of their numbers
(`Connect`). A connection is a ring, two threads on the coordinator's side and
a handler thread at the node, joined by two streams. Here the ring is a bounded
queue of *message parts*, which `ByteRing` justifies; a request is two parts, its
tag and the rest, so that a 64 KiB chunk or a lost connection can end between
them. Elements are pairs of the call they belong to and their index, so that an
answer that ends up in the wrong place, or in the wrong call, shows. The two loops
that carry a sum from one tile to the next, the offset in `decompose` and the
output in `reassemble`, are the recursive functions `Starts` and `Joined`.

| code | actions |
|---|---|
| `NetworkLayer::connect`, which skips nodes it cannot reach | `Connect` |
| `decompose` with ids from `TILE_ID_CTR` | `Decompose` |
| `dispatch`, one tile at a time | `DispatchTile`, `DispatchDone` |
| `collect`: one `poll_result`, and its end or deadline | `Poll`, `CollectDone` |
| `reassemble` | `Reassemble` |
| `shutdown`: the flag, then the push; and `Drop` | `ClearAlive`, `PushShutdown`, `Closed`, `Drop` |
| `nt-net-send` | `SenderIdle`, `SenderWrite` |
| `nt-net-recv` | `ReceiverCheck`, `ReceiverAnswer`, `ReceiverEnd` |
| `run_worker` | `Accept` |
| `handle_worker_connection`, `process_tile_request` | `ReadTag`, `ProcessTile`, `HandlerEnds`, `HandlerDrops`, `HandlerFrees` |

The deadline may pass in any state of `collect`, so an answer may be late by any
amount. A connection is reset at any time (`Reset`), which loses what is on the
wire. The handlers of one worker process each have an engine, and `EngineArena`
(`main.zig`, `hardware.rs`) is the state they share: the engines whose arena is
allocated, and the one global pointer that creating sets and destroying clears,
whichever engine it names. The pointer's reader, `nt_emergency_free`, has no caller and is
not modelled. In the source, the sender's failure and its
`break` say nothing to anybody; `LossNoticed` holds because the receiver of the
same connection fails too.

### TileService: what the caller of the network layer relies on

No rings, connections, nodes or ids: a graph is divided into shares (`Cut`); the one
with the first element is computed at home; each of the others is taken by a node at
most once (`Take`) and answered at most once, if it was taken (`Receive`); what is
returned (`Return`) has what is there by then, in the order of the elements. For the
shares that are missing the code and its comment differ (section 6), so the service
allows either: they are left out, or there are blanks in their place. The mapping
`TileNet!Service` takes the stretch that a tile covers for the share; the shares given
out are those of the ids that `dispatch` returned, the answered ones those of the ids
that `collect` has. `collect` and `reassemble` are one stage of the service, whose
deadline may pass at any time; everything the threads and the nodes do is a stutter.

### ViewChain: the views of one array

`TensorSession`, below, looks at a few views of each kind, with their values.
`ViewChain` has every chain of views, without values: a program makes an array, of as
many elements as its shape has or of a file with more (`Spare`), and then takes slices,
transposes and reshapes of it (`Slice`, `Turn`, `Reshaped`), and each step is the
operator of `TensorView`. A buffer is the set of its bit positions. Beside the array
stands what its elements should be: `shown` says for the coordinates of each element
which of the values the array was made of belongs there, and `stale` that a reshape took
the array for a list of elements one behind the other (`IsList`) that it was not.
`reshape` never asks, so this is what the code allows.

`from_values`, `from_mmap` and `nt_tensor_new` take the number of elements and the shape
separately and compare nothing. The variable is a list of the one, the array has the
other, and `FromPacked` takes both. The Python classes ask that a list has as many values
as the shape and a file at least as many (`numtoy/__init__.py` 138, 158), and that is
what `Init` makes.

A step of a slice is at least one (the code divides by it), a slice has no more
ranges than the array dimensions, and a reshape keeps the number of elements: otherwise
the code panics. `usize` arithmetic is not bounded in the model; `MaxBits` ends
what a run explores.

### BitPack, Codec, TensorView, TensorOps: a number on its way into a buffer

- `BitPack`: `pack_bits` and `unpack_bits` of the Zig engine, and the load and
  store helpers of the compiled loop (`fuser.rs` 14-126), on bit sequences.
- `Codec`: every data type's encoding and decoding (`types.rs`).
- `TensorView`: arrays, slices, transposes and reshapes, and where an element is: by the
  array (`__array_interface__`) and by the compiled loop (`emit_compute_bit_offset`).
- `TensorOps`: the constructors of variables from Python, C and mapped files,
  broadcast, which arrays can be exported, and expressions (`ir.rs`): types, sizes,
  flags, `grad`, and the arena (`graph.rs`).

Doubles are exact fractions, with a value of its own for what division by zero
gives. A byte has `ByteBits` and a word `WordBits` bits. The batches of 16, the byte-wise
loops for native widths and the general loop of `pack_bits` put the same bits in the
same places; `PackBits` is what they all do.

### PackedLoop, JitKernel, LinearScan, X86, GpuDevice: three ways to compute

- `PackedLoop` is what Cranelift is told to emit: the tables keyed by variable
  id, the typed load at the address that `TensorView` gives, the operations on floats, words
  and two limbs, the store, and the loop unrolled by eight with its cleanup.
- `JitKernel` is the custom JIT: the conditions under which a graph is lowered,
  the lowered program, its live intervals, the structural check, and the
  x86-64 emitter, instruction by instruction as bytes. `LinearScan` is the
  allocator as a state machine of its own.
- `X86` (external) decodes the bytes and runs them: prefixes, ModRM, the twelve or
  so instructions the emitter knows, and both calling conventions. A kernel is
  called with a caller's values in the registers.
- `GpuDevice` is `gpu.rs`: operands unpacked to singles, constants printed with
  five digits, a shader, and the result packed again.

### TensorSession: the composition

A session makes tensors, derives others from them, and executes. `Execute`, and
`ExecuteOperand` for what an operation materialises first, start a call:
`Compile` tries the custom JIT, `AllocateRegister` steps the allocator, then
`SealAndRun` or `FallBack`; `RunNative` is one machine instruction, `RunLoop` one
turn of the loop; `Finish` makes the output a variable. `FallBack` is always possible:
the page for the code may not be had.

Beside each tensor stands what it *should* be (`truth`): exact elements, and
their derivative in one variable as a dual number, computed from the meaning of
the operations and not from the code. And there stand the reasons the code has
for being elsewhere (`excuses`). An excuse is a condition on the graph and its
variables, never on the result:

| excuse | the code |
|---|---|
| unit dimension | `emit_compute_bit_offset` adds the remainder again (`fuser.rs` 351) |
| two views | layouts are keyed by id (`fuser.rs` 698) |
| not a list | the JIT reads lists of the root's width (`jit/ir.rs` 186); the GPU reads lists |
| short operand | expressions are not aligned (`ir.rs` 136) |
| same id | operands are told apart by id (`array.rs` 323, `gpu.rs` 45) |
| short file | a mapped file is not measured (`lib.rs` 354) |
| wide operands | two limbs have no sign (`fuser.rs` 256-282) |
| fixed point | scales are not combined (`fuser.rs` 499) |
| float in integer | an integer kernel takes a float's bits, and whole constants |
| stolen sign | the left operand's flag (`ir.rs` 164) |
| spread view | `to_flat_f64` reads from the start of the buffer (`array.rs` 221) |
| stale strides | the wrapper's strides are not the variable's (`lib.rs` 493) |
| 32 bits, rounded quotient | the GPU computes in singles and rounds |

Each of them is needed: without any one, the run finds a tensor that the remaining
ones do not explain. Together they are the list of what a user of the library
has to avoid.

## 3. The runs

| run | question | instance |
|---|---|---|
| `pool_native` | does any interleaving lose a task, mismatch a key, spawn twice, or show a caller something the service does not? | 2 native threads, 2 workers, 2 calls, 2 mode changes among Eager and Xtreme, 1 interrupt, spawn may fail, `g2` panics the compiler |
| `pool_steal` | does stealing between deques lose or strand tasks? | 2 threads, 3 workers (one of each role), 3 calls, `g2` panics the compiler |
| `pool_hangs` | which calls may spin forever? | 2 threads, 2 workers, Xtreme only, 1 interrupt, spawn may fail, `g2` panics the compiler |
| `pool_python` | does every call return under the GIL? is the flag right between calls? | 2 threads, 2 workers, 2 calls, all four modes, 2 mode changes, everything compiles |
| `byte_ring` | do push and drain keep out of each other's way and form a FIFO that drains? | 4 cells, counters wrap at 8, chunks of 3, messages of 1, 2, 3 and 5 bytes over two byte values |
| `slice_kernels` | does a call run the kernel its own graph compiles to? (no) | `x[0:2] + y`, then `x[2:4] + y` |
| `xtreme_worker` | does the Xtreme worker live for the process lifetime? (no) | one call of a graph that panics the compiler |
| `tile_net` | is a result made of the right answers, and whole when it can be? does the caller see the service? does the engine pointer stay valid? | two connections to one process, 4 elements, buffers of 3, tiles of at most 4 ids, rings of 3 parts |
| `tile_live` | is every tile answered, every loss noticed, every shutdown seen through? | one node, three rounds of two tiles |
| `missing_tile` | does a tile that did not come back leave zeros? (no) | one node, a graph of four elements in two tiles |
| `views` | do the elements of every view lie in the buffer, apart, and where they should? do kernels find them? | element widths of 2 and 3 bits, nine shapes of up to three dimensions and six elements, one of them empty, none or two elements more than the shape, five slices, strides and offsets up to 24 |
| `session` | does a tensor hold what it should, and where it does not, is there a reason? | 36 sessions of one to eight leaves, both calling conventions |

What the properties say:

- `TypeOK`: the types of the whole state. It is the base of the induction in
  section 5; among other things, the cache never holds anything but a kernel.
- `SingleSpawn`, `XtremeSpawnTried`: the mode switch, above. `XtremeSpawnTried`
  relates the polled flag, what became of the spawn, and the positions of all calls: the
  flag is read twice by one call and changed by others in between, and no order
  leaves it on with the spawn never tried. That the thread is still there is not
  said: after a refusal (`pool.rs` 271) or a panic nobody drains the queue, which is
  what `pool_hangs` and `xtreme_worker` are about.
- `NoLostTask`: while a caller spins, its kernel is cached, or a task with its
  hash is in a queue, a deque or a hand, or a graph with its hash does not
  compile. This is the one that breaks when a steal, a stage push or a mode
  change drops something.
- `KernelMatchesHash`: the kernel under a key was compiled, successfully, from a
  graph with that key, on each of the three paths that insert; and a call runs a
  kernel of its own key.
- `ServiceImplemented`: refinement of `KernelService`.
- `HangIsExplained`: a call that spins forever does so because its graph does
  not compile; or its task is in the Xtreme queue with the mode left or the
  worker gone; or every pool worker died; or its task is in a deque whose owner
  and every assembler died. There is no other hang.
- `ExecuteReturns`: with none of those possible, every call returns.
- `FlagFollowsMode`: `XTREME_ACTIVE` agrees with the mode whenever no call and no
  handler is between its stores. It holds if callers take turns under the GIL, for
  any number of them (section 5); two that do not can leave it violated (section 6).

- `NoOverlap`: the cells a push in progress may still write and those a drain in
  progress may still read are disjoint, though each side works from a value of
  the other's counter that may be long out of date.
- `FifoImplemented`: the ring refines `ByteQueue`: no byte lost, repeated or
  reordered, a push refused only if it does not fit, a drain empty-handed only
  if the ring is empty.
- `RingDrains`: the tail moves on whenever there is something to read.
- `OwnAnswers`: what collect has under a tile's id is that tile's answer, although
  answers of earlier calls that missed their deadline are still about.
- `WholeWhenComplete`: the output is the one a single machine computes if every remote
  tile came back, in whatever order. With tiles missing it says nothing:
  `MissingTilesLeaveZeros` is what `network.rs` 490 says of that case, and does not hold
  (section 6).
- `TileInOnePlace`: an accepted tile is nowhere twice, and somewhere as long as the
  connections stand.
- `NetworkImplementsService`: refinement of `TileService`. Beyond the properties above,
  it says that when tiles are missing, all elements of those that are there come back, of
  this graph and in order; that no tile is given out or counted twice; and that the local
  tile is never given out. It does not say what stands for the missing ones.
- `ActiveEngineAllocated`: the global pointer is null or names an engine whose arena is
  allocated, in every interleaving of engines that come and go. It may be null while
  engines live: a destroy clears it for another's engine too, which is what the code
  does. What a reader of the pointer does with it is not modelled (section 7).
- `TileAnswered`, `LossNoticed`, `ShutdownEnds`: liveness of a connection.
- `ViewTypeOK`: an array has a stride for each dimension and its variable counts at least
  as many elements as it has itself; the variable's own shape has all of them, or, after
  a transposition of what was mapped, those of the array; none is negative.
- `ElementsInside`: whatever was sliced, transposed and reshaped, every element
  that the array shows to other libraries lies in its buffer, those of stale arrays
  included.
- `ElementsApart`: no two elements of an array share a bit.
- `ElementsShown`: the elements are those that the chain chose, unless it is stale.
- `KernelInside`, `KernelReads`: the loop of a compiled kernel, which goes by the
  layout of the variable and not of the array, touches no bit outside of the buffer, and
  reads at each index what the array should have there, row by row. Excepted are layouts
  that end in a dimension of one, where `emit_compute_bit_offset` adds the rest of the
  index again (`fuser.rs` 351), and for `KernelInside` also a shape without elements over
  a file that has some: turned around, its divisions count no coordinates, and a kernel
  that counts to what was mapped leaves the buffer.
- `ResultsExplained`: the main property of `session`, above: a tensor without an excuse
  has its exact elements, rounded only where its type rounds; and reads as such.
- `InBounds`: a kernel touches no byte outside of its operands and its output,
  with the excuses that concern addresses. It is checked at every access of the
  loop and of the machine.
- `CallerKeeps`: a kernel leaves the callee-saved general registers and the stack
  as it found them.
- `NoClash`: values that are live together have different registers, on the real
  programs of the session (and proved for all, section 5).
- `ExportsHonest`: what another library sees through `__array_interface__` is in the
  buffer, and is the array.

`pool_native` uses symmetry of the two threads: the specification treats
threads alike and the properties of the run are safety properties that quantify
over all of them. The runs that check liveness use no symmetry.

**Bounds.** `MaxCalls`, `MaxSets` and `MaxSignals` cap counters that the code
does not have; they keep the queues finite (a queue holds at most one entry per
call). Two callers and two calls give every race between two calls on
the same or on different graphs, including one thread's second call overtaking
the other's first. Two workers give a race of pop, batch steal and compile.
Three workers are the smallest machine with an assembler, hence with peer
stealing, and three calls are the fewest for which a batch of more than one task
lies in a deque while a thief looks at it; that is why `pool_steal` trades mode
changes for a core and a call. Two mode changes are one round trip into Xtreme mode
and out. `pool_python` has two threads, so that it is the lock that keeps their
calls apart; with two workers rather than three, because peer stealing is
`pool_steal`'s subject.

In `tile_net` two connections to one process are what it takes for answers to
arrive in the wrong order and for engines to overlap; four elements in three parts
do not divide, and three elements of buffer end inside of a tile. A ring of three
parts takes one request and the tag of another, so it fills. `MaxIds` allows a
round of three tiles, or two rounds of two, which a late answer needs. `tile_live`
gives up the second node for a third round. `missing_tile` has one node and one round.

In `views` a byte has 3 bits, so that elements of two bits share bytes and the last byte
is not always full. The shapes of six elements can be reshaped into each other, with and
without dimensions of one; the slices have a start, a step, a stop behind the end, two
dimensions, and no elements at all. Two spare elements are more than the last byte has
room for. Chains need a bound because a dimension of one element
keeps its stride when it is sliced with a step, which multiplies it, and because an array
without elements can be sliced on, which moves its offset: `MaxBits` cuts both off. What
is proved (section 5) depends on none of this.

In `session` a byte has 3 bits and a word 15. The native widths, 8, 16, 32 and 64
in the code, are then 3, 6, 12 and 15, and every path that depends on a width
being a whole number of bytes, of words, or more than a word, has one. Float(12)
stands for Float(32) and Float(15) for Float(64); since the thresholds at which
a float's exponent grows are not scaled, each has 5 exponent bits. `MaxInsts` and
`MaxInputs`, the limits of the structural check, are 26 and 2 for the code's 4096 and 256:
just below what the largest sessions need. Sessions
are chosen one per path: each operation on each kind of data, tensors of seven
and ten elements for the unrolled loop and its cleanup, nested expressions
that use up the fourteen registers, views in
two dimensions, mixed types, files that are short, and one that is longer than its
shape. What is proved (section 5)
depends on none of these bounds.

**Deadlock.** Behaviours are finite because calls are bounded, and a spinning
caller whose compiler panicked has nothing left to do, so most runs say
`CHECK_DEADLOCK FALSE`. `pool_python` and `byte_ring` do not: their worker and
sender loops run for ever, and a state with no step would be a true one. Nor
does `session`: a state in which a call is under way and cannot go on is reported. Between
calls, and behind a trap, which is the end of the process, the user may stop (`Stop`).

## 4. Fairness

`FairSpec` is weak fairness, one conjunct per thread of the program: a caller
inside a call continues it, a worker loop keeps looping, the Xtreme loop keeps
looping, and an interrupt handler that has done its first store does its second.
Nobody is obliged to call again or to change the mode. The justification is that
each of these is a running OS thread that never blocks for ever: queues are
lock-free and retried (`steal` loops on `Retry`), idle workers sleep for bounded
times (`idle_backoff`), and a spinning caller yields. Each conjunct is fairness
of the thread's *whole* next-state relation, so it never forces a choice among its
actions.

In `RingFairSpec` a push that has begun ends and the sender thread keeps
looping; nobody is obliged to push. The sender does loop as long as the connection
lives; what happens when it does not belongs to `TileNet`.

`FairSpec` of `TileNet` is weak fairness of each connection's three threads, and of
the coordinator inside a call: `dispatch`, `reassemble` and `shutdown` are loops
that block on nothing, and `collect` ends at its deadline at the latest. Nobody is obliged
to cut another graph, to drop the layer, or to reset a connection.

One thing is assumed away: on Windows, Xtreme mode raises the process priority
to REALTIME and pins a spinning worker to the last core. That it does not
starve the other threads is a property of the scheduler.

## 5. The proofs

TLAPS checks every proof to the leaves, from assumptions that state the types of the
constants: `ModeControlAssumption`, `KernelPoolAssumption` (at least one core, at least
one graph, a total hash and compiler outcome, and kernel markers that are no graphs),
`NoTaskAssumption`, and for the ring `RingAssumption` (the counter width is a multiple
of the capacity, at least twice it; messages are not empty), and for the network
`TileNetAssumption` and `EngineAssumption` (every node is an engine owner that runs in a
process). TLC evaluates them on every instance it runs. `ViewChainAssumption` says that
elements have at least one bit, that shapes are sequences of naturals, and that the
steps of slices are not zero. Of the buffers `BitPackAssumption` says that a word is a
whole number of bytes, four or more: the code has 64 bits and 8. Nothing is assumed
about how many threads, cores, graphs, hashes, calls or mode changes there are, nor that
different graphs have different hashes.

`KernelPoolProofs`, first about the switch:

- `AtMostOneXtremeWorker`: `ModeSpec => []SingleSpawn`. `SingleSpawn` is not
  inductive: the invariant `SpawnInv` adds that a thread between the
  compare-exchange and the spawn is the only one, and that nothing was spawned
  before the guard flag was set.
- `XtremeSpawnIsTried`: `ModeSpec => []XtremeSpawnTried`. Its invariant is about the
  guard flag too: once that is set, either somebody is about to spawn, or the spawn was
  made or refused.

And about the pool that runs it:

- `PoolRunsTheSwitch`: `Spec => ModeSpec`. A step of the pool is a step of the
  switch or leaves it alone, which carries the two theorems above to the
  composed system (`SingleXtremeWorker`, `XtremeSubmissionsHaveSpawn`).
- `TypeCorrect`: `Spec => []TypeOK`.
- `KernelsMatchTheirHash`: `Spec => []KernelMatchesHash`, inductive given the
  types and `HandsFree`.
- `LockedFlagFollowsMode`: `Spec => []FlagFollowsMode` if `GIL` and `MaxSignals = 0`,
  which is the Python binding on Unix. The property speaks of moments at which no store is
  outstanding, so it says nothing about a step in the middle of a call; `FlagInv`
  does: one thread at most is inside `set_execution_mode`, the mode it stored is still
  there when it comes to store the flag, and flag and mode agree unless a thread is
  between these stores. Without the lock the first part fails, and section 6 says
  what follows.
- `TasksAreNotLost`: `Spec => []NoLostTask`. The argument: `Accounted` says that
  a step from one state to the next leaves every task in flight in flight, unless
  its hash is now cached or its graph does not compile. It is proved action by
  action (for a batch steal, from a lemma on the range of `Batch` and `Behind`;
  for a stage push, because the stage keeps the graph). With `CacheGrows`, an
  `Accounted` step keeps every hash `Covered`. A caller's own steps enter the
  spin only after pushing or after seeing the kernel. `HandsFree` is the
  strengthening: without it a worker that steals could overwrite the task in its
  hand, and a batch could be put on a deque that is not empty.
- `PoolImplementsService`: `Spec => ServiceImplemented`. Initial states map to
  initial states; `Execute` maps to `Ask`, a return to `Answer`,
  `CompileAndAnswer` or `Refuse`, a worker's insert to `Publish`, and every other
  step to a stutter. The invariant that a task in the hand of a compiling worker
  is a task of the system comes from `TypeOK`.

`ByteRingProofs`, for every capacity, width, chunk and set of messages:

- `RingTypeCorrect`, `CopiesDoNotOverlap`, `RingImplementsQueue`, all from one
  inductive invariant `IInv`: a push in progress fits behind what is there; a
  drain in progress is of bytes that are there; the cells of the two counters are
  as far apart as the counters (`HeadFollowsTail`, which is where the width being
  a multiple of the capacity is needed); and each side has copied the right bytes
  so far. The arithmetic rests on `Remainder` and `StartMoves`: moving a position
  moves its cell. In the refinement the head's store is the moment a message is
  accepted, the tail's store the moment bytes are taken, and a byte copied in
  changes none of the published ones (`CopyInKeepsContents`).

`LinearScanProofs`, for every number of registers and every sorted list of
intervals:

- `ScanNoClash`: `ScanSpec => []NoClash`. The invariant says that two active
  intervals hold different registers and that none of these is free, and that
  an interval that is no longer active ended before the start of every interval to
  come. The second part is where the list must be sorted.
- `ScanType`: types of the allocator, on which it rests.

`TileNetProofs`, for every number of nodes, processes and tiles, every size of graph,
buffer and ring, and connections that fail at any time:

- `ActivePointerNamesAnEngine`: `Spec => []ActiveEngineAllocated`. `HookInv` adds that a
  handler has an engine from its creation to the end of its drop, and that the pointer
  of a process names a handler of that process which has not begun to drop.
- `AnswersAreOwn`: `Spec => []OwnAnswers`. Three things keep an answer from another
  tile: ids are handed out once (`IdInv`); what is in the rings, on the wires and in
  the maps would answer the current tile of its id, if there is one (`Carried`,
  `FiledInv`); and the handler takes for a tile only the part behind the tag of a
  request (`FrameInv`), which a chunk that ends between the two, a SHUTDOWN
  or a reset does not change (`ChunkMoves`, `RequestFramed`, `TailFramed`). The
  sets of parts and answers on their way are left open (`\E P, A`): what a tile looks
  like inside plays no role.

`Recursion` is the induction that the other proofs need. The library's induction
theorems take an operator for a parameter and cannot be used here; that a relation is
well founded is a statement about sets, and from it come, again about sets,
induction over the naturals (`SetInduction`) and over an interval (`IntervalInduction`),
and that a function defined by recursion over an interval exists (`RecursionExists`).

`TileNetProofs` again, under the same assumptions:

- `ReassembledWhole`: `Spec => []WholeWhenComplete`. That tiles lie side by side, are
  not empty and end where the graph ends (`TilesCover`) is shown by induction on
  `Starts`; it rests on the sum of the first parts being the base size times their
  number plus one for each of the longer ones. That putting answers together gives the
  elements of the graph in order, up to the end of the tile reached (`JoinedSoFar`), is
  an induction on `Joined`. `CallInv` keeps `Covers` true for as long as a call lasts,
  and `OwnAnswers` says that the answers are those of these tiles.
- `TileNetTypeCorrect`: `Spec => []TileNetTypeOK`, from the same `TypeInv`. It is more
  than types: the ring's capacity is kept because `Fits` was asked first, and
  `remaining` stays among `dispatched`.

`TilePlaceProofs`:

- `TilesKeepTheirPlace`: `Spec => []TileInOnePlace`. A tile waits as a request (on the
  wire or in the ring, `Stream`), as an answer on the way back, or in the map. The
  invariant `TileInv` has three parts beside `TypeInv`. `PlaceInv`: it waits
  at one place of one node only, not if it is collected, and not before dispatch has come to it; the
  last is what makes a push safe, and holds because `decompose` takes new ids and
  all that waits has an old one (`WaitingIds`). `LiveInv`: on a connection that stands, of
  a layer that is not being dropped, all threads go on, there is no SHUTDOWN under
  way, and each payload is right behind its tag; otherwise a handler could take the
  rest of a request for a tag, give up, and lose what is behind it. `KeptInv`: with all
  connections standing, what was accepted is somewhere. Each step either leaves the
  tiles of every node where they are (`QuietTileInv`), or concerns one node
  (`OneNodeTileInv`), for which a lemma on the sequences says what moves
  (`FileOneEach`, `AnswerOneEach`, `RequestOneEach`...).
- `NetworkService`: `Spec => NetworkImplementsService`. `Decompose` maps to `Cut`: tiles
  that cover the graph are a division of its elements, each with a share of its own
  (`TilesDivide`), and none of the new ids has been dispatched or collected.
  `DispatchTile` maps to `Take` or, if the tile is refused, to a stutter; that the share
  was not taken is `OfferInv`: dispatch has not come to it yet. `Poll` maps to
  `Receive`, because what waits is not collected (`PlaceInv`). `Reassemble` maps to
  `Return`: `JoinedInOrder` shows by induction over the tiles that what `Joined` has so
  far is the elements of the answered ones so far, in order, the increasing function
  that `InOrder` asks for being extended by one tile at a time (`OrderExtends`). Of what
  the service allows this is the alternative without blanks. All other steps are stutters.

`BitPackProofs`, for every width of an element, of a byte and of a word, and every
number of elements. These are theorems about operators, of which each encoding in
`session` makes use:

- `UnpackedIsPacked`: what comes out of `PackBits` by `UnpackBits` is, word for word, what
  went in without the bits the limb has no room for (`PackingRestores`: all of it, if
  it fits).
- `LoadReadsPacked`: a kernel's `LoadWord` finds the same words there. The engine and the
  kernels have code of their own for where the bits are; that they agree in a list is
  `ListField`, for which native widths must be whole bytes.
- `StoreThenLoad`: what `StoreWord` wrote is what `LoadWord` reads, at any offset, if the
  field lies in the buffer. That a kernel's reads of views stay in it is
  `ViewKernelsInside`, below; `InBounds`, which TLC checks, is about all accesses of
  whole kernels.
- `StoreKeepsNeighbours`: a store leaves every other limb of the list as it was, because
  their fields are apart (`FieldsApart`), though they may share a byte.

The argument has two halves. `PackedBit` says which bit of which word is at a position
of the buffer: quotients and remainders by the width, the word and the number of limbs.
`NumberOfBits` says that a word put together from the lowest w bits of v is v
modulo 2^w, by induction on the bits (`BitStep`). `BitPack` defines the powers as a
recursive function, `Pow2`, because the provers have no theory of `^` for a
variable exponent.

`ViewProofs`, for every width of an element, of a byte and of a word, every shape and
rank, and every chain of slices, transpositions and reshapes, however long and without
`MaxBits` (it is in the guards, but nothing in the proofs asks how large it is):

- `ViewTypes`, `ViewsInside`, `ViewsApart`, `ViewsShown`, `ViewKernelsInside`,
  `ViewKernelsRead`: `Spec => []` of `ViewTypeOK`, `ElementsInside`, `ElementsApart`,
  `ElementsShown`, `KernelInside` and `KernelReads`.

Arrays may be made of more elements than their shape has (`Spare`).

None of the six is inductive. That the elements of an array lie in its buffer says too
little about a reshape, which forgets the strides; what is needed is that the new, dense
layout takes no more room than the old one did. The invariant `ViewInv` says this:

- *Nested.* In one of two directions, each stride is at least the element's width and the
  reach of all dimensions inside of it, where the reach of a dimension is its stride
  times its last coordinate (`Outward`, `Inward`). Row-major layouts are nested
  (`RowMajor`); a slice multiplies a stride by its step and divides the extent by it,
  rounding up, so no dimension reaches further than before (`WithinReach`, `StaysNested`);
  a transposition exchanges the directions (`Turned`). Elements of a nested layout are
  apart: the first coordinate in which two differ, seen from outside, outweighs all
  that come after it (`OutwardDistant`, `NestedDistant`).
- *Fits.* If there are any elements, the offset, the reach of all dimensions and one
  element's width are at most the length of the buffer (`PlaceWithin`). It is
  kept for the layout of the array and for that of its variable. A slice moves the offset
  by what it takes off the reach (`SlicedLayout`). For a reshape, `Volume` shows that a
  nested layout of n elements reaches at least n widths, and a row-major one exactly that.
- *Shown.* Unless stale, each element is where `shown` says. The place of an element of
  a slice is that of the chosen element (`SlicedPlace`), of a transpose that of the
  reversed coordinates (`TurnedPlace`), of a row-major layout its position times the width
  (`RowMajorPlace`).
- *Mapped.* Where more was mapped than the array has elements, no slice was taken yet, for
  a slice gives the variable the size of what is left. Then the offset is zero, the buffer
  is as long as the variable, the array is row-major or that turned around (`Ordered`), and
  the variable's shape is the list of all that was mapped or ordered too (`MadeMapped`,
  `SliceMapped`, `TransposeMapped`, `ReshapeMapped`). This is what a kernel needs that counts
  to the variable's size: an index past an ordered shape finds a place that is not later
  than the one behind as many elements (`BeyondOrdered`, `KernelBeyondShape`).
- *Agrees.* Unless stale, the variable's layout, read row by row, has the elements of the
  array's. A reshape replaces the one and keeps the other, so they are not the same.

TLC found `ViewInv` true in every state of `views` before it was proved.

`Coordinates` and `Position` are inverse to each other (`PositionOfCoordinates`), and what
`emit_compute_bit_offset` makes of an index, dimension by dimension, from what the
dimensions before left of it, is its coordinates (`Rests`, `RestCoordinates`), provided
that the last dimension is not one. Sums and products over a shape are recursive
functions in `TensorView` (`RunningTotal`, `Inner`), and each fact about them is an
induction over the dimensions by `Recursion`.

Only model-checked: `HangIsExplained`, `ExecuteReturns`, `RingDrains`,
`TileAnswered`, `LossNoticed` and `ShutdownEnds` (liveness under
fairness needs ENABLED, which is outside the prover's fragment), and the properties of
`session` but `NoClash` (`ExportsHonest` and `InBounds` overlap with what is proved of
`ViewChain`, but are about arrays with values, results and mapped files): expressions
are trees and bytes are decoded by operators
that are declared RECURSIVE, about which nothing can be proved in a module that
reaches them, and the induction of `Recursion` is over integers.

## 6. Where code and documentation disagree

Each has a run whose counterexample shows it.

1. **`slice_kernels`.** `hash_node` (`cache.rs` 20) leaves a variable's
   `bit_offset` out of the key; the compiler bakes it into the code
   (`fuser.rs` 700). `cache.rs` 40 says that sliced views of the same data compile
   separate kernels. Two slices of one array that differ only in where they
   start share a kernel, and the second computes with the first one's elements.
2. **`xtreme_worker`.** `pool.rs` 36 says of `XTREME_WORKER_STARTED` that once
   true "the thread lives for the process lifetime". A compiler panic in
   `xtreme_run_inline` ends it, and the flag prevents another from being started.
3. **`missing_tile`.** `network.rs` 490 says that a tile that a worker dropped leaves
   zeros. `reassemble` (487) appends nothing for it: what is behind it moves
   forward, and the output is shorter than the graph. In the run one worker accepts
   the second half of a graph, the deadline passes, and the first half is all there is.

Shown by passing runs: `ir.rs` 31 says of the sign flag that all values are non-negative.
`Expr::steal_sign` takes it from the left operand (`ir.rs` 164), and the result of a
difference is stored with it, so 1 - 3 is read back as 2; `session` needs the excuse
"stolen sign" for it. `network.rs` 508 says that `run_worker` blocks until its socket is
closed or a SHUTDOWN arrives; a SHUTDOWN ends one connection's handler (`ReadTag`),
and `run_worker` accepts the next. `jit/mod.rs` 28 says that the guard zone is
applied at the call site in `array.rs`; nothing calls it.

Met while modelling, without a run: `pool.rs` 21 says `XTREME_ACTIVE` is true while the
mode is Xtreme and false otherwise, but two overlapping calls of `set_execution_mode`
can leave the mode of one and the flag of the other. This takes native callers:
`pool_python` checks, and `LockedFlagFollowsMode` proves, that it cannot happen to calls
that take turns. `lib.rs` 34 says that in Xtreme mode all threads
steal from all peer queues, while `pool.rs` 217 lets assemblers alone do so in
every mode; `lib.rs` 33 says workers spin forever with no parking, while idle
workers sleep for up to a millisecond.

## 7. What is not modelled

- Matmul kernels. `helper_dequantize_matmul` prints its loop and reads a fixed 256
  bytes of weights ("Safe bound for testing", `fuser.rs` 164), so there is no finished
  behaviour to state. That its sums are stored as doubles into a buffer sized for
  Float(32), and that its cache key omits m, k and n, are listed as hazards.
- Floats wider than a word, NaN, subnormal doubles, and the rounding of double
  arithmetic itself: doubles are exact.
- Cranelift, wgpu and its device, pages and the allocator: taken to work, or to fail
  as a whole.
- `emit_aarch64.rs`: `mem.rs` seals pages on x86_64 only, so no kernel it emits can
  run.
- Windows' rule that xmm6 and above belong to the caller: kernels use xmm0 to xmm13
  and save none. `CallerKeeps` is about general registers.
- The overflow and NaN analysis of `bounds.rs`, which is logged only.
- `nt_emergency_free` (`main.zig` 44-49) and the `nt_tile` functions, which nothing in the
  Rust code calls; `signals.rs` does not either. The hook would free the arena of a living
  engine, which its owner's destroy frees again; `ActiveEngineAllocated` is about the
  pointer it would read, and about nothing that it does.
- Reads past a buffer of a native width that is too short, which panic or are undefined in
  Zig: `UnpackBits` reads 0 there.
- Arrays whose shape has more elements than were packed. The Python classes refuse them
  (`numtoy/__init__.py` 138, 158), but `PyTensor` and `nt_tensor_new` compare nothing,
  and exports and kernels would then go past the buffer.
- Several coordinators, or several threads on one `NetworkLayer`: nothing in the
  repository calls the network layer, and the ring's contract is one producer.
  When `decompose` returns `None` the caller computes alone.
- `MEMORY_MAP`, buffer lifetimes and reference counting.
- Construction of the pool: the model starts after `ThreadPool::new`.
- Handles of the bindings, and build scripts.

`TensorSession` runs one call at a time and compiles each graph afresh; calls at once and
shared kernels are `KernelPool`'s subject, and what goes wrong when they are
combined is `slice_kernels`.

## 8. Plan

1. The key of a matmul, and its kernels, once the code's test bounds are gone.
2. `KernelKey` for graphs of more than one operation, and its composition with
   `TensorSession`.
3. `broadcast_to` in `ViewChain`, whose copies are lists again.
