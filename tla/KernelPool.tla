----------------------------- MODULE KernelPool -----------------------------
(***************************************************************************)
(* The compile pool of numtoy-core: from execute_expr_on_device (array.rs) *)
(* through ThreadPool::submit, the work-stealing worker loops and the      *)
(* Xtreme worker (pool.rs) to the kernel found in JIT_CACHE (cache.rs).    *)
(*                                                                         *)
(* A caller computes the hash of its graph, pushes a task and spins on the *)
(* cache until some worker has inserted a kernel under that hash.  Nothing *)
(* else connects caller and worker: no reply, no error, no timeout.        *)
(*                                                                         *)
(* A graph is an element of Graphs; HashOf gives its cache key (module     *)
(* KernelKey) and Outcome what compile_packed_kernel does with it.  A      *)
(* kernel is named by the graph it was compiled from.                      *)
(***************************************************************************)
EXTENDS ModeControl, Sequences, Functions

CONSTANTS
    NumCores,   \* available_parallelism: one pool worker per logical core
    Graphs,     \* expression graphs
    Hashes,     \* cache keys
    HashOf,     \* hash_graph, as a function
    Outcome,    \* what compiling a graph does: "kernel", "none" or "panic"
    GIL,        \* TRUE: every entry point holds one lock (the Python binding)
    MaxCalls,   \* bound: calls of execute in one behaviour
    NoKernel, Panicked, NoTask

Outcomes == {"kernel", "none", "panic"}

ASSUME KernelPoolAssumption ==
    /\ NumCores \in Nat \ {0}
    /\ Graphs # {}
    /\ HashOf \in [Graphs -> Hashes]
    /\ Outcome \in [Graphs -> Outcomes]
    /\ GIL \in BOOLEAN
    /\ MaxCalls \in Nat
    /\ NoKernel \notin Graphs /\ Panicked \notin Graphs

\* The hash a task carries was computed from its graph, and is_stabilized is
\* not part of it, so the graph stands for both.
Tasks == [stage : {"Tile", "Fuse", "Assemble"}, graph : Graphs,
          stabilized : BOOLEAN]

ASSUME NoTaskAssumption == NoTask \notin Tasks

Workers == 0..(NumCores - 1)

AtLeastOne(n) == IF n < 1 THEN 1 ELSE n
NumTilers == AtLeastOne(NumCores \div 4)
NumFusers == AtLeastOne(NumCores \div 2)

\* Roles are handed out by index; only assemblers steal from their peers.
IsAssembler(w) == w >= NumTilers + NumFusers

VARIABLES
    injector,    \* the pool's global queue
    local,       \* each worker's deque
    wpc,         \* where each worker loop is
    wxtreme,     \* is_xtreme, as each worker last read it
    peer,        \* the peer each assembler tries to steal from next
    hand,        \* the task each worker has dequeued
    xinjector,   \* XTREME_INJECTOR
    xpc,         \* where the Xtreme worker loop is
    xhand,       \* the task the Xtreme worker has dequeued
    cache,       \* JIT_CACHE
    pc,          \* per thread: where it is inside execute_expr_on_device
    arg,         \* per thread: the graph of its last call
    result,      \* per thread: the kernel its last call ran
    calls        \* calls of execute so far

workerVars == <<injector, local, wpc, wxtreme, peer, hand>>
xtremeVars == <<xinjector, xpc, xhand>>
callVars == <<pc, arg, result, calls>>
poolVars == <<workerVars, xtremeVars, cache, callVars>>
vars == <<modeVars, poolVars>>

PoolTypeOK ==
    /\ injector \in Seq(Tasks)
    /\ local \in [Workers -> Seq(Tasks)]
    /\ wpc \in [Workers -> {"top", "look", "peers", "process", "compile", "dead"}]
    /\ wxtreme \in [Workers -> BOOLEAN]
    /\ peer \in [Workers -> Workers]
    /\ hand \in [Workers -> Tasks \cup {NoTask}]
    /\ xinjector \in Seq(Tasks)
    /\ xpc \in {"top", "steal", "probe", "compile", "dead"}
    /\ xhand \in Tasks \cup {NoTask}
    /\ cache \in [Hashes -> Graphs \cup {NoKernel}]
    /\ pc \in [Threads -> {"idle", "eager", "compile", "route", "xpush", "probe",
                           "push", "await"}]
    /\ arg \in [Threads -> Graphs]
    /\ result \in [Threads -> Graphs \cup {NoKernel, Panicked}]
    /\ calls \in 0..MaxCalls

\* One invariant for the types of the composed system.
TypeOK == ModeTypeOK /\ PoolTypeOK

Init ==
    /\ ModeInit
    /\ injector = <<>>
    /\ local = [w \in Workers |-> <<>>]
    /\ wpc = [w \in Workers |-> "top"]
    /\ wxtreme = [w \in Workers |-> FALSE]
    /\ peer = [w \in Workers |-> 0]
    /\ hand = [w \in Workers |-> NoTask]
    /\ xinjector = <<>>
    /\ xpc = "top"
    /\ xhand = NoTask
    /\ cache = [h \in Hashes |-> NoKernel]
    /\ pc = [t \in Threads |-> "idle"]
    /\ arg = [t \in Threads |-> CHOOSE g \in Graphs : TRUE]
    /\ result = [t \in Threads |-> NoKernel]
    /\ calls = 0

Task(stage, g, stabilized) ==
    [stage |-> stage, graph |-> g, stabilized |-> stabilized]

Cached(g) == cache[HashOf[g]] # NoKernel

----------------------------------------------------------------------------
(***************************************************************************)
(* Callers: execute_expr_on_device with a CPU device.                      *)
(***************************************************************************)
Outside(t) == pc[t] = "idle" /\ setPc[t] = "idle"

\* A thread enters the library: through the Python binding it holds the GIL
\* for the whole call (no entry point releases it), natively it just enters.
MayEnter(t) ==
    /\ Outside(t)
    /\ GIL => \A u \in Threads : Outside(u)

CallStep(t, from, to) ==
    /\ pc[t] = from
    /\ pc' = [pc EXCEPT ![t] = to]

Return(t, from, r) ==
    /\ CallStep(t, from, "idle")
    /\ result' = [result EXCEPT ![t] = r]

\* The mode is read once, before the graph is routed; in Eager mode the
\* calculator thread hands the graph back unchanged.
Execute(t, g) ==
    /\ MayEnter(t)
    /\ calls < MaxCalls
    /\ CallStep(t, "idle", IF mode = "Eager" THEN "eager" ELSE "route")
    /\ arg' = [arg EXCEPT ![t] = g]
    /\ result' = [result EXCEPT ![t] = NoKernel]
    /\ calls' = calls + 1
    /\ UNCHANGED <<modeVars, workerVars, xtremeVars, cache>>

\* Eager: probe the cache on the caller's own thread ...
EagerProbe(t) ==
    /\ IF Cached(arg[t]) THEN Return(t, "eager", cache[HashOf[arg[t]]])
                         ELSE CallStep(t, "eager", "compile") /\ UNCHANGED result
    /\ UNCHANGED <<modeVars, workerVars, xtremeVars, cache, arg, calls>>

\* ... and compile there on a miss; None and a compiler panic both unwind.
EagerCompile(t) ==
    /\ IF Outcome[arg[t]] = "kernel"
       THEN /\ cache' = [cache EXCEPT ![HashOf[arg[t]]] = arg[t]]
            /\ Return(t, "compile", arg[t])
       ELSE Return(t, "compile", Panicked) /\ UNCHANGED cache
    /\ UNCHANGED <<modeVars, workerVars, xtremeVars, arg, calls>>

\* ThreadPool::submit reads XTREME_ACTIVE once to choose the queue ...
Route(t) ==
    /\ CallStep(t, "route", IF xtremeActive THEN "xpush" ELSE "probe")
    /\ UNCHANGED <<modeVars, workerVars, xtremeVars, cache, arg, result, calls>>

\* ... pushes to the Xtreme worker without looking at the cache ...
SubmitXtreme(t) ==
    /\ CallStep(t, "xpush", "await")
    /\ xinjector' = Append(xinjector, Task("Assemble", arg[t], FALSE))
    /\ UNCHANGED <<modeVars, workerVars, xpc, xhand, cache, arg, result, calls>>

\* ... or looks at the cache first ...
SubmitProbe(t) ==
    /\ CallStep(t, "probe", IF Cached(arg[t]) THEN "await" ELSE "push")
    /\ UNCHANGED <<modeVars, workerVars, xtremeVars, cache, arg, result, calls>>

\* ... and pushes to the pool.
SubmitPush(t) ==
    /\ CallStep(t, "push", "await")
    /\ injector' = Append(injector, Task("Tile", arg[t], FALSE))
    /\ UNCHANGED <<modeVars, local, wpc, wxtreme, peer, hand, xtremeVars, cache,
                   arg, result, calls>>

\* Slip: one look at the cache in place of the spin.
AwaitOnce(t) ==
    /\ Return(t, "await", cache[HashOf[arg[t]]])
    /\ UNCHANGED <<modeVars, workerVars, xtremeVars, cache, arg, calls>>

\* The caller spins until the cache holds a kernel for its hash, and runs it.
Await(t) ==
    /\ Cached(arg[t])
    /\ Return(t, "await", cache[HashOf[arg[t]]])
    /\ UNCHANGED <<modeVars, workerVars, xtremeVars, cache, arg, calls>>

CallContinues(t) ==
    \/ EagerProbe(t)
    \/ EagerCompile(t)
    \/ Route(t)
    \/ SubmitXtreme(t)
    \/ SubmitProbe(t)
    \/ SubmitPush(t)
    \/ Await(t)

----------------------------------------------------------------------------
(***************************************************************************)
(* Pool workers: worker_loop and process_task.                             *)
(***************************************************************************)
WorkerStep(w, from, to) ==
    /\ wpc[w] = from
    /\ wpc' = [wpc EXCEPT ![w] = to]

\* The top of the loop reads the flag, then pops the worker's own deque.  The
\* flag is used when the task is processed, however old it is by then.
PopLocal(w) ==
    /\ wxtreme' = [wxtreme EXCEPT ![w] = xtremeActive]
    /\ IF local[w] # <<>>
       THEN /\ WorkerStep(w, "top", "process")
            /\ hand' = [hand EXCEPT ![w] = Head(local[w])]
            /\ local' = [local EXCEPT ![w] = Tail(local[w])]
       ELSE /\ WorkerStep(w, "top", "look")
            /\ UNCHANGED <<hand, local>>
    /\ UNCHANGED <<modeVars, injector, peer, xtremeVars, cache, callVars>>

\* crossbeam's steal_batch_and_pop: the oldest task is popped and some k of
\* those behind it move to the thief's deque (empty here), in their order.
Batch(q, k) == SubSeq(q, 2, k + 1)
Behind(q, k) == SubSeq(q, k + 2, Len(q))

\* Slip: workers park completely while Xtreme mode is on.
StealFromInjectorUnlessXtreme(w) ==
    /\ injector # <<>>
    /\ WorkerStep(w, "look", IF wxtreme[w] THEN "top" ELSE "process")
    /\ IF wxtreme[w] THEN UNCHANGED <<hand, injector>>
       ELSE /\ hand' = [hand EXCEPT ![w] = Head(injector)]
            /\ injector' = Tail(injector)
    /\ UNCHANGED <<modeVars, local, wxtreme, peer, xtremeVars, cache, callVars>>

StealFromInjector(w) ==
    /\ injector # <<>>
    /\ WorkerStep(w, "look", "process")
    /\ hand' = [hand EXCEPT ![w] = Head(injector)]
    /\ \E k \in 0..(Len(injector) - 1) :
         /\ local' = [local EXCEPT ![w] = @ \o Batch(injector, k)]
         /\ injector' = Behind(injector, k)
    /\ UNCHANGED <<modeVars, wxtreme, peer, xtremeVars, cache, callVars>>

\* Slip: assemblers do not look at their peers.
InjectorIsEmptyAndIdle(w) ==
    /\ injector = <<>>
    /\ WorkerStep(w, "look", "top")
    /\ UNCHANGED <<modeVars, injector, local, wxtreme, peer, hand, xtremeVars,
                   cache, callVars>>

\* Nothing there: an assembler goes on to its peers, one after the other; any
\* other worker idles (idle_backoff) and comes round again.
InjectorIsEmpty(w) ==
    /\ injector = <<>>
    /\ WorkerStep(w, "look", IF IsAssembler(w) THEN "peers" ELSE "top")
    /\ UNCHANGED <<modeVars, injector, local, wxtreme, peer, hand, xtremeVars,
                   cache, callVars>>

\* Slip: one task too many is taken for moved.
StealFromPeerShort(w) ==
    LET q == local[peer[w]] IN
    /\ q # <<>>
    /\ WorkerStep(w, "peers", "process")
    /\ hand' = [hand EXCEPT ![w] = Head(q)]
    /\ \E k \in 0..(Len(q) - 1) :
         local' = [local EXCEPT ![w] = @ \o Batch(q, k),
                                ![peer[w]] = Behind(q, k + 1)]
    /\ peer' = [peer EXCEPT ![w] = 0]
    /\ UNCHANGED <<modeVars, injector, wxtreme, xtremeVars, cache, callVars>>

StealFromPeer(w) ==
    LET q == local[peer[w]] IN
    /\ q # <<>>
    /\ WorkerStep(w, "peers", "process")
    /\ hand' = [hand EXCEPT ![w] = Head(q)]
    /\ \E k \in 0..(Len(q) - 1) :
         local' = [local EXCEPT ![w] = @ \o Batch(q, k),
                                ![peer[w]] = Behind(q, k)]
    /\ peer' = [peer EXCEPT ![w] = 0]
    /\ UNCHANGED <<modeVars, injector, wxtreme, xtremeVars, cache, callVars>>

\* The last peer too had nothing: idle, and round again.
PeerIsEmpty(w) ==
    LET last == peer[w] = NumCores - 1 IN
    /\ local[peer[w]] = <<>>
    /\ WorkerStep(w, "peers", IF last THEN "top" ELSE "peers")
    /\ peer' = [peer EXCEPT ![w] = IF last THEN 0 ELSE @ + 1]
    /\ UNCHANGED <<modeVars, injector, local, wxtreme, hand, xtremeVars, cache,
                   callVars>>

\* Slip: the optimisation pass pushes the graph without marking it.
NextStageUnmarked(task, isXtreme) ==
    CASE task.stage = "Tile" ->
           Task(IF isXtreme THEN "Assemble" ELSE "Fuse", task.graph, task.stabilized)
      [] task.stage = "Fuse" /\ task.stabilized ->
           Task("Assemble", task.graph, TRUE)
      [] OTHER -> Task("Fuse", task.graph, FALSE)

\* What process_task pushes for a task that is not yet at the Assemble stage.
NextStage(task, isXtreme) ==
    CASE task.stage = "Tile" ->
           Task(IF isXtreme THEN "Assemble" ELSE "Fuse", task.graph, task.stabilized)
      [] task.stage = "Fuse" /\ task.stabilized ->
           Task("Assemble", task.graph, TRUE)
      [] OTHER -> Task("Fuse", task.graph, TRUE)

\* process_task on Tile and Fuse: push the next stage on the worker's deque.
ProcessStage(w) ==
    /\ hand[w] # NoTask
    /\ hand[w].stage # "Assemble"
    /\ WorkerStep(w, "process", "top")
    /\ local' = [local EXCEPT ![w] = Append(@, NextStage(hand[w], wxtreme[w]))]
    /\ hand' = [hand EXCEPT ![w] = NoTask]
    /\ UNCHANGED <<modeVars, injector, wxtreme, peer, xtremeVars, cache, callVars>>

\* process_task on Assemble: probe the cache ...
ProcessAssemble(w) ==
    /\ hand[w] # NoTask
    /\ hand[w].stage = "Assemble"
    /\ IF Cached(hand[w].graph)
       THEN WorkerStep(w, "process", "top") /\ hand' = [hand EXCEPT ![w] = NoTask]
       ELSE WorkerStep(w, "process", "compile") /\ UNCHANGED hand
    /\ UNCHANGED <<modeVars, injector, local, wxtreme, peer, xtremeVars, cache,
                   callVars>>

\* Slip: a failed compilation is recorded in the cache.
CompileCachesFailure(w) ==
    LET g == hand[w].graph IN
    /\ hand[w] # NoTask
    /\ WorkerStep(w, "compile", "top")
    /\ cache' = [cache EXCEPT ![HashOf[g]] =
                   IF Outcome[g] = "kernel" THEN g ELSE Panicked]
    /\ hand' = [hand EXCEPT ![w] = NoTask]
    /\ UNCHANGED <<modeVars, injector, local, wxtreme, peer, xtremeVars, callVars>>

\* ... and compile.  None drops the task; a panic ends the worker thread, and
\* what is left in its deque stays reachable to thieves only.
Compile(w) ==
    LET g == hand[w].graph IN
    /\ hand[w] # NoTask
    /\ WorkerStep(w, "compile", IF Outcome[g] = "panic" THEN "dead" ELSE "top")
    /\ cache' = IF Outcome[g] = "kernel"
                THEN [cache EXCEPT ![HashOf[g]] = g] ELSE cache
    /\ hand' = [hand EXCEPT ![w] = NoTask]
    /\ UNCHANGED <<modeVars, injector, local, wxtreme, peer, xtremeVars, callVars>>

WorkerLoop(w) ==
    \/ PopLocal(w)
    \/ StealFromInjector(w)
    \/ InjectorIsEmpty(w)
    \/ StealFromPeer(w)
    \/ PeerIsEmpty(w)
    \/ ProcessStage(w)
    \/ ProcessAssemble(w)
    \/ Compile(w)

----------------------------------------------------------------------------
(***************************************************************************)
(* The Xtreme worker: xtreme_worker_loop and xtreme_run_inline.            *)
(***************************************************************************)
XtremeStep(from, to) == spawned > 0 /\ xpc = from /\ xpc' = to

\* Off, the loop sleeps: it does not drain what is queued.
XtremePoll ==
    /\ xtremeActive
    /\ XtremeStep("top", "steal")
    /\ UNCHANGED <<modeVars, workerVars, xinjector, xhand, cache, callVars>>

\* Slip: a task stolen just as Xtreme mode ends is dropped.
XtremeStealAndCheck ==
    /\ IF xinjector # <<>>
       THEN /\ XtremeStep("steal", IF xtremeActive THEN "probe" ELSE "top")
            /\ xhand' = IF xtremeActive THEN Head(xinjector) ELSE NoTask
            /\ xinjector' = Tail(xinjector)
       ELSE XtremeStep("steal", "top") /\ UNCHANGED <<xhand, xinjector>>
    /\ UNCHANGED <<modeVars, workerVars, cache, callVars>>

XtremeSteal ==
    /\ IF xinjector # <<>>
       THEN /\ XtremeStep("steal", "probe")
            /\ xhand' = Head(xinjector)
            /\ xinjector' = Tail(xinjector)
       ELSE XtremeStep("steal", "top") /\ UNCHANGED <<xhand, xinjector>>
    /\ UNCHANGED <<modeVars, workerVars, cache, callVars>>

XtremeProbe ==
    /\ xhand # NoTask
    /\ IF Cached(xhand.graph)
       THEN XtremeStep("probe", "top") /\ xhand' = NoTask
       ELSE XtremeStep("probe", "compile") /\ UNCHANGED xhand
    /\ UNCHANGED <<modeVars, workerVars, xinjector, cache, callVars>>

\* Slip: the result of the compiler is inserted unchecked.
XtremeCompileUnchecked ==
    LET g == xhand.graph IN
    /\ xhand # NoTask
    /\ XtremeStep("compile", "top")
    /\ cache' = [cache EXCEPT ![HashOf[g]] = g]
    /\ xhand' = NoTask
    /\ UNCHANGED <<modeVars, workerVars, xinjector, callVars>>

XtremeCompile ==
    LET g == xhand.graph IN
    /\ xhand # NoTask
    /\ XtremeStep("compile", IF Outcome[g] = "panic" THEN "dead" ELSE "top")
    /\ cache' = IF Outcome[g] = "kernel"
                THEN [cache EXCEPT ![HashOf[g]] = g] ELSE cache
    /\ xhand' = NoTask
    /\ UNCHANGED <<modeVars, workerVars, xinjector, callVars>>

XtremeLoop == XtremePoll \/ XtremeSteal \/ XtremeProbe \/ XtremeCompile

----------------------------------------------------------------------------
\* The mode switch, entered by the same threads that execute.
SwitchMode(t) ==
    /\ \/ MayEnter(t) /\ \E m \in ModeChoices : SetMode(t, m)
       \/ SetModeContinues(t)
    /\ UNCHANGED poolVars

Interrupt == Handler /\ UNCHANGED poolVars

Next ==
    \/ \E t \in Threads, g \in Graphs : Execute(t, g)
    \/ \E t \in Threads : CallContinues(t)
    \/ \E t \in Threads : SwitchMode(t)
    \/ \E w \in Workers : WorkerLoop(w)
    \/ XtremeLoop
    \/ Interrupt

Spec == Init /\ [][Next]_vars

(***************************************************************************)
(* Fairness: the OS keeps running every live thread.  A thread that is     *)
(* inside a call continues it, a worker loop keeps looping, a handler that *)
(* has begun ends.  Nobody is obliged to make another call.                *)
(***************************************************************************)
ThreadContinues(t) ==
    CallContinues(t) \/ (SetModeContinues(t) /\ UNCHANGED poolVars)

Fairness ==
    /\ \A t \in Threads : WF_vars(ThreadContinues(t))
    /\ \A w \in Workers : WF_vars(WorkerLoop(w))
    /\ WF_vars(XtremeLoop)
    /\ WF_vars(CleanupMode /\ UNCHANGED poolVars)

FairSpec == Spec /\ Fairness

----------------------------------------------------------------------------
(***************************************************************************)
(* What the pool promises.                                                 *)
(***************************************************************************)

\* Every place a task can be.
InFlight ==
    Range(injector) \cup Range(xinjector)
        \cup (UNION {Range(local[w]) : w \in Workers})
        \cup (({hand[w] : w \in Workers} \cup {xhand}) \ {NoTask})

Pending(h) == \E task \in InFlight : HashOf[task.graph] = h

\* Some graph with this hash does not compile.
Refused(h) == \E g \in Graphs : HashOf[g] = h /\ Outcome[g] # "kernel"

\* A caller spinning on h will not spin in vain.
Covered(h) == cache[h] # NoKernel \/ Pending(h) \/ Refused(h)

\* A worker that looks for work holds none, and its own deque was empty when
\* it went looking elsewhere; nobody but the owner pushes to a deque.
HandsFree ==
    /\ \A w \in Workers :
         wpc[w] \in {"top", "look", "peers", "dead"} => hand[w] = NoTask
    /\ \A w \in Workers : wpc[w] \in {"look", "peers"} => local[w] = <<>>
    /\ xpc \in {"top", "steal", "dead"} => xhand = NoTask

(***************************************************************************)
(* No task is lost.  A caller spinning in execute_expr_on_device has no    *)
(* other way out than the cache, so at every moment either the kernel is   *)
(* there, or a task that will lead to it is in some queue or some worker's *)
(* hands; through every batch steal, stage push, cache probe and mode      *)
(* change.  The one way to lose it is a compiler that returns None or      *)
(* panics, which process_task and xtreme_run_inline tell nobody about.     *)
(***************************************************************************)
NoLostTask ==
    \A t \in Threads :
        pc[t] = "await" =>
            Covered(HashOf[arg[t]])

(***************************************************************************)
(* The kernel under a hash, and the kernel a call ran, were compiled from  *)
(* a graph with that hash, and compiled successfully: no task carries one  *)
(* graph's kernel to another's key, on any of the three compile paths      *)
(* (pool worker, Xtreme worker, eager caller).                             *)
(***************************************************************************)
KernelMatchesHash ==
    /\ \A h \in Hashes :
         cache[h] # NoKernel => HashOf[cache[h]] = h /\ Outcome[cache[h]] = "kernel"
    /\ \A t \in Threads :
         result[t] \in Graphs => HashOf[result[t]] = HashOf[arg[t]]

(***************************************************************************)
(* The pool implements the abstract kernel service: each call ends with a  *)
(* kernel that was in the table under its key at that moment or that it    *)
(* compiled itself, or with a panic for a graph that does not compile; and *)
(* a key that has a kernel keeps one.                                      *)
(***************************************************************************)
Service == INSTANCE KernelService WITH
    calling <- {t \in Threads : pc[t] # "idle"},
    graphOf <- arg,
    ran <- result,
    table <- cache

ServiceImplemented == Service!ServiceSpec

Holds(q, h) == \E i \in DOMAIN q : HashOf[q[i].graph] = h

\* The reasons for which a call may spin forever.
Stranded(t) ==
    LET h == HashOf[arg[t]] IN
    \/ Refused(h)
    \* Xtreme mode was left, or its worker is gone: nobody drains the queue.
    \/ Holds(xinjector, h) /\ (~xtremeActive \/ spawned = 0 \/ xpc = "dead")
    \* Compiler panics ended every worker, or the owner and all thieves.
    \/ Holds(injector, h) /\ \A w \in Workers : wpc[w] = "dead"
    \/ \E w \in Workers :
         /\ Holds(local[w], h)
         /\ \A v \in Workers : (v = w \/ IsAssembler(v)) => wpc[v] = "dead"

(***************************************************************************)
(* Every call returns, unless one of the reasons above holds for good:     *)
(* with callers, mode switches, interrupts, spawn failures and compiler    *)
(* failures interleaved in every way, there is no other hang.              *)
(***************************************************************************)
HangIsExplained ==
    \A t \in Threads : <>[](pc[t] = "await") => <>[]Stranded(t)

(***************************************************************************)
(* Every call returns: what the Python binding relies on, where one lock   *)
(* covers each whole call and no interrupt clears the mode, as long as     *)
(* every graph compiles and the Xtreme thread can be spawned.              *)
(***************************************************************************)
ExecuteReturns == \A t \in Threads : (pc[t] # "idle") ~> (pc[t] = "idle")

(***************************************************************************)
(* XTREME_WORKER_STARTED: "Once flipped to true the thread lives for the   *)
(* process lifetime" (pool.rs:36), where no spawn is outstanding.          *)
(***************************************************************************)
XtremeWorkerLives ==
    (workerStarted /\ \A t \in Threads : setPc[t] # "spawn") =>
        (spawned = 1 /\ xpc # "dead")

============================================================================
