---------------------------- MODULE ModeControl ----------------------------
(***************************************************************************)
(* The execution-mode switch of numtoy-core.                               *)
(*                                                                         *)
(* set_execution_mode (lib.rs) is not one atomic operation: it stores the  *)
(* mode byte, then the flag the workers poll, then asks the pool to start  *)
(* the Xtreme worker, and the pool does that behind a compare-exchange.    *)
(* Each atomic access is an action here, so that the calls of several      *)
(* threads, and the console or signal handler, interleave between them.    *)
(*                                                                         *)
(* Relaxed stores to one atomic are totally ordered, and no property below *)
(* compares two atomics that the code reads without a program-order        *)
(* dependency, so the model interleaves accesses sequentially.             *)
(***************************************************************************)
EXTENDS Naturals

CONSTANTS
    Threads,       \* threads that call the library
    ModeChoices,   \* bound: the modes callers choose among
    MaxSets,       \* bound: calls of set_execution_mode in one behaviour
    MaxSignals,    \* bound: interrupts the process survives in one behaviour
    SpawnMayFail   \* whether the OS may refuse the Xtreme worker thread

Modes == {"Default", "Eager", "Hyper", "Xtreme"}

ASSUME ModeControlAssumption ==
    /\ ModeChoices \subseteq Modes
    /\ MaxSets \in Nat
    /\ MaxSignals \in Nat
    /\ SpawnMayFail \in BOOLEAN

VARIABLES
    mode,           \* GLOBAL_EXECUTION_MODE
    xtremeActive,   \* XTREME_ACTIVE
    workerStarted,  \* XTREME_WORKER_STARTED
    spawned,        \* how many Xtreme worker threads were spawned
    refused,        \* history: the OS refused to spawn one
    setPc,          \* per thread: where it is inside set_execution_mode
    setTo,          \* per thread: the mode it is setting
    handler,        \* where the interrupt handler is
    sets,           \* calls of set_execution_mode so far
    signals         \* interrupts so far

modeVars == <<mode, xtremeActive, workerStarted, spawned, refused, setPc, setTo,
              handler, sets, signals>>

ModeTypeOK ==
    /\ mode \in Modes
    /\ xtremeActive \in BOOLEAN
    /\ workerStarted \in BOOLEAN
    /\ spawned \in Nat
    /\ refused \in BOOLEAN
    /\ setPc \in [Threads -> {"idle", "stored", "update", "ensure", "spawn"}]
    /\ setTo \in [Threads -> Modes]
    /\ handler \in {"off", "cleared"}
    /\ sets \in 0..MaxSets
    /\ signals \in 0..MaxSignals

ModeInit ==
    /\ mode = "Default"
    /\ xtremeActive = FALSE
    /\ workerStarted = FALSE
    /\ spawned = 0
    /\ refused = FALSE
    /\ setPc = [t \in Threads |-> "idle"]
    /\ setTo = [t \in Threads |-> "Default"]
    /\ handler = "off"
    /\ sets = 0
    /\ signals = 0

SetStep(t, from, to) ==
    /\ setPc[t] = from
    /\ setPc' = [setPc EXCEPT ![t] = to]

\* set_execution_mode(m): the first store.
SetMode(t, m) ==
    /\ sets < MaxSets
    /\ SetStep(t, "idle", "stored")
    /\ setTo' = [setTo EXCEPT ![t] = m]
    /\ mode' = m
    /\ sets' = sets + 1
    /\ UNCHANGED <<xtremeActive, workerStarted, spawned, refused, handler, signals>>

\* Slip: the flag is set on the way in and never cleared on the way out.
StoreXtremeActiveSticky(t) ==
    /\ SetStep(t, "stored", "update")
    /\ xtremeActive' = (xtremeActive \/ setTo[t] = "Xtreme")
    /\ UNCHANGED <<mode, workerStarted, spawned, refused, setTo, handler, sets, signals>>

\* Slip: the pool is asked to start its worker before the flag is stored, so
\* the call ends with the store.
StoreXtremeActiveLast(t) ==
    /\ SetStep(t, "stored", "idle")
    /\ xtremeActive' = (setTo[t] = "Xtreme")
    /\ UNCHANGED <<mode, workerStarted, spawned, refused, setTo, handler, sets, signals>>

\* The second store: the flag polled by every worker loop.
StoreXtremeActive(t) ==
    /\ SetStep(t, "stored", "update")
    /\ xtremeActive' = (setTo[t] = "Xtreme")
    /\ UNCHANGED <<mode, workerStarted, spawned, refused, setTo, handler, sets, signals>>

\* update_pool_mode re-reads the flag: another thread may have changed it.
UpdatePoolMode(t) ==
    /\ SetStep(t, "update", IF xtremeActive THEN "ensure" ELSE "idle")
    /\ UNCHANGED <<mode, xtremeActive, workerStarted, spawned, refused, setTo, handler,
                   sets, signals>>

\* Slip: a load and a store in place of the compare-exchange.
EnsureXtremeWorkerStartedUnguarded(t) ==
    /\ SetStep(t, "ensure", "spawn")
    /\ workerStarted' = TRUE
    /\ UNCHANGED <<mode, xtremeActive, spawned, refused, setTo, handler, sets, signals>>

\* ensure_xtreme_worker_started: the compare-exchange one caller wins.
EnsureXtremeWorkerStarted(t) ==
    /\ SetStep(t, "ensure", IF workerStarted THEN "idle" ELSE "spawn")
    /\ workerStarted' = TRUE
    /\ UNCHANGED <<mode, xtremeActive, spawned, refused, setTo, handler, sets, signals>>

SpawnXtremeWorker(t) ==
    /\ SetStep(t, "spawn", "idle")
    /\ spawned' = spawned + 1
    /\ UNCHANGED <<mode, xtremeActive, workerStarted, refused, setTo, handler, sets,
                   signals>>

\* spawn(..).expect(..) panics; the flag set by the compare-exchange stays.
SpawnFails(t) ==
    /\ SpawnMayFail
    /\ SetStep(t, "spawn", "idle")
    /\ refused' = TRUE
    /\ UNCHANGED <<mode, xtremeActive, workerStarted, spawned, setTo, handler,
                   sets, signals>>

(***************************************************************************)
(* The interrupt handler runs emergency_cleanup: two stores, on a thread   *)
(* of its own (Windows console control thread) or on top of any thread     *)
(* (Unix).  On Unix the handler then re-raises and the process ends, which *)
(* MaxSignals = 0 stands for; on Windows it returns FALSE, the next        *)
(* handler runs, and a host that handles Ctrl+C itself, as Python does,    *)
(* carries on.                                                             *)
(***************************************************************************)
CleanupXtremeActive ==
    /\ handler = "off"
    /\ signals < MaxSignals
    /\ handler' = "cleared"
    /\ signals' = signals + 1
    /\ xtremeActive' = FALSE
    /\ UNCHANGED <<mode, workerStarted, spawned, refused, setPc, setTo, sets>>

CleanupMode ==
    /\ handler = "cleared"
    /\ handler' = "off"
    /\ mode' = "Default"
    /\ UNCHANGED <<xtremeActive, workerStarted, spawned, refused, setPc, setTo, sets,
                   signals>>

Handler == CleanupXtremeActive \/ CleanupMode

\* What a thread inside set_execution_mode does next.
SetModeContinues(t) ==
    \/ StoreXtremeActive(t)
    \/ UpdatePoolMode(t)
    \/ EnsureXtremeWorkerStarted(t)
    \/ SpawnXtremeWorker(t)
    \/ SpawnFails(t)

ModeNext ==
    \/ \E t \in Threads, m \in ModeChoices : SetMode(t, m)
    \/ \E t \in Threads : SetModeContinues(t)
    \/ Handler

ModeSpec == ModeInit /\ [][ModeNext]_modeVars

----------------------------------------------------------------------------

\* No call and no handler is between two of its stores.
ModeQuiescent ==
    /\ \A t \in Threads : setPc[t] = "idle"
    /\ handler = "off"

(***************************************************************************)
(* The Xtreme worker is spawned at most once, whatever calls race for it   *)
(* (pool.rs: "Guards single-spawn of the Xtreme worker thread").  Two      *)
(* workers would both be pinned to the last core and hot-spin on it.       *)
(***************************************************************************)
SingleSpawn == spawned <= 1

(***************************************************************************)
(* While the flag sends submissions to the Xtreme queue, the thread that   *)
(* drains that queue has been spawned, the OS has refused to spawn it, or  *)
(* some call of set_execution_mode is still on its way to spawn it: no     *)
(* order of stores, with the flag read twice by one call and changed by    *)
(* others and by the handler in between, leaves the flag on with the spawn *)
(* never tried.  The guard flag does not count: it is set before the spawn *)
(* and stays set after a refusal.                                          *)
(***************************************************************************)
XtremeSpawnTried ==
    xtremeActive =>
        \/ spawned > 0
        \/ refused
        \/ \E t \in Threads : setPc[t] \in {"update", "ensure", "spawn"}

(***************************************************************************)
(* XTREME_ACTIVE is "true while execution mode is Xtreme, false otherwise" *)
(* (pool.rs:21), stated where no store is outstanding.                     *)
(***************************************************************************)
FlagFollowsMode == ModeQuiescent => (xtremeActive <=> mode = "Xtreme")

============================================================================
