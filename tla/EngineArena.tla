---------------------------- MODULE EngineArena ----------------------------
(***************************************************************************)
(* The Zig engines of one or more processes (main.zig, held from Rust by   *)
(* HardwareEngine, hardware.rs).  An engine owns an arena; the process     *)
(* keeps one global pointer, which creating sets and destroying clears.    *)
(* Destroying takes two steps, because the pointer is a plain global that  *)
(* other threads of the process write in between.                          *)
(*                                                                         *)
(* The pointer's one reader, nt_emergency_free, is not here: nothing in    *)
(* the repository calls it.                                                *)
(*                                                                         *)
(* An engine is named after its owner, who has one at a time.              *)
(***************************************************************************)
CONSTANTS
    Process,    \* processes that use engines
    Owner,      \* who creates and drops them: a thread with one engine
    ProcessOf,  \* the process an owner runs in
    NoEngine

ASSUME EngineAssumption ==
    /\ ProcessOf \in [Owner -> Process]
    /\ NoEngine \notin Owner

VARIABLES
    engines,    \* the engines whose arena is allocated
    active      \* per process: g_active_engine

engineVars == <<engines, active>>

EngineTypeOK ==
    /\ engines \subseteq Owner
    /\ active \in [Process -> Owner \cup {NoEngine}]

EngineInit ==
    /\ engines = {}
    /\ active = [p \in Process |-> NoEngine]

\* HardwareEngine::new: nt_engine_create allocates an engine and makes it the
\* active one, whichever was before.
Create(o) ==
    /\ engines' = engines \cup {o}
    /\ active' = [active EXCEPT ![ProcessOf[o]] = o]

\* Slip: destroy frees the arena and leaves the pointer.
LeaveActive(o) == UNCHANGED engineVars

\* Drop of HardwareEngine: nt_engine_destroy clears the pointer, whichever
\* engine it points to, ...
Deactivate(o) ==
    /\ active' = [active EXCEPT ![ProcessOf[o]] = NoEngine]
    /\ UNCHANGED engines

\* ... then frees the arena.
Free(o) ==
    /\ engines' = engines \ {o}
    /\ UNCHANGED active

(***************************************************************************)
(* The global pointer of a process is null or names an engine whose arena  *)
(* is allocated, although engines of other threads come and go between the *)
(* two steps of a destroy, and whichever of them destroy clears it for.    *)
(***************************************************************************)
ActiveEngineAllocated ==
    \A p \in Process : active[p] = NoEngine \/ active[p] \in engines

=============================================================================
