-------------------------- MODULE KernelPoolProofs --------------------------
(***************************************************************************)
(* Proofs about the execution-mode switch and the compile pool that runs   *)
(* it, for every number of cores, threads and graphs, every hash function, *)
(* every behaviour of the compiler, and every bound on mode changes and    *)
(* interrupts.                                                             *)
(***************************************************************************)
EXTENDS KernelPool, SequenceTheorems, TLAPS

----------------------------------------------------------------------------
(* The switch. *)

\* The switch keeps the types of its variables.
THEOREM ModeTypeCorrect == ModeSpec => []ModeTypeOK
<1>1. ModeInit => ModeTypeOK
  <2> SUFFICES ASSUME ModeInit PROVE ModeTypeOK
    OBVIOUS
  <2>1. xtremeActive \in BOOLEAN /\ workerStarted \in BOOLEAN /\ refused \in BOOLEAN
    BY Zenon DEF ModeInit
  <2>2. /\ mode \in Modes /\ spawned \in Nat /\ handler \in {"off", "cleared"}
        /\ setPc \in [Threads -> {"idle", "stored", "update", "ensure", "spawn"}]
        /\ setTo \in [Threads -> Modes]
        /\ sets \in 0..MaxSets /\ signals \in 0..MaxSignals
    BY ModeControlAssumption DEF ModeControlAssumption, ModeInit, Modes
  <2>3. QED
    BY <2>1, <2>2 DEF ModeTypeOK
<1>2. ModeTypeOK /\ [ModeNext]_modeVars => ModeTypeOK'
  <2> SUFFICES ASSUME ModeTypeOK, [ModeNext]_modeVars
               PROVE  ModeTypeOK'
    OBVIOUS
  <2> USE DEF ModeTypeOK
  <2>1. ASSUME NEW t \in Threads, NEW m \in ModeChoices, SetMode(t, m)
        PROVE  ModeTypeOK'
    BY <2>1, ModeControlAssumption DEF ModeControlAssumption, SetMode, SetStep
  <2>2. ASSUME NEW t \in Threads, SetModeContinues(t)
        PROVE  ModeTypeOK'
    <3>1. CASE StoreXtremeActive(t)
      BY <3>1 DEF StoreXtremeActive, SetStep
    <3>2. CASE UpdatePoolMode(t)
      BY <3>2 DEF UpdatePoolMode, SetStep
    <3>3. CASE EnsureXtremeWorkerStarted(t)
      BY <3>3 DEF EnsureXtremeWorkerStarted, SetStep
    <3>4. CASE SpawnXtremeWorker(t)
      BY <3>4 DEF SpawnXtremeWorker, SetStep
    <3>5. CASE SpawnFails(t)
      BY <3>5 DEF SpawnFails, SetStep
    <3>6. QED
      BY <2>2, <3>1, <3>2, <3>3, <3>4, <3>5 DEF SetModeContinues
  <2>3. CASE Handler
    <3>1. xtremeActive' \in BOOLEAN /\ workerStarted' \in BOOLEAN /\ refused' \in BOOLEAN
      BY <2>3, Zenon DEF Handler, CleanupXtremeActive, CleanupMode
    <3>2. /\ mode' \in Modes /\ spawned' \in Nat /\ handler' \in {"off", "cleared"}
          /\ setPc' = setPc /\ setTo' = setTo
          /\ sets' \in 0..MaxSets /\ signals' \in 0..MaxSignals
      BY <2>3, ModeControlAssumption
      DEF ModeControlAssumption, Handler, CleanupXtremeActive, CleanupMode, Modes
    <3>3. QED
      BY <3>1, <3>2
  <2>4. CASE UNCHANGED modeVars
    BY <2>4 DEF modeVars
  <2>5. QED
    BY <2>1, <2>2, <2>3, <2>4 DEF ModeNext
<1>3. QED
  BY <1>1, <1>2, PTL DEF ModeSpec

(***************************************************************************)
(* The compare-exchange as an invariant: before it nobody spawns, after it *)
(* one thread does, until it has or was refused, and no second one ever    *)
(* gets there.                                                             *)
(***************************************************************************)
SpawnInv ==
    /\ spawned <= 1
    /\ ~workerStarted => spawned = 0
    /\ \A t \in Threads : setPc[t] = "spawn" => workerStarted /\ spawned = 0
    /\ \A t, u \in Threads : setPc[t] = "spawn" /\ setPc[u] = "spawn" => t = u
    /\ workerStarted =>
         spawned = 1 \/ refused \/ \E t \in Threads : setPc[t] = "spawn"

\* Every step of the switch preserves the spawn invariant.
LEMMA SpawnInvStep ==
    ModeTypeOK /\ SpawnInv /\ [ModeNext]_modeVars => SpawnInv'
<1> SUFFICES ASSUME ModeTypeOK, SpawnInv, [ModeNext]_modeVars
             PROVE  SpawnInv'
  OBVIOUS
<1> USE DEF ModeTypeOK, SpawnInv
<1>1. ASSUME NEW t \in Threads, NEW m \in ModeChoices, SetMode(t, m)
      PROVE  SpawnInv'
  BY <1>1 DEF SetMode, SetStep
<1>2. ASSUME NEW t \in Threads, SetModeContinues(t)
      PROVE  SpawnInv'
  <2>1. CASE StoreXtremeActive(t)
    BY <2>1 DEF StoreXtremeActive, SetStep
  <2>2. CASE UpdatePoolMode(t)
    BY <2>2 DEF UpdatePoolMode, SetStep
  <2>3. CASE EnsureXtremeWorkerStarted(t)
    BY <2>3 DEF EnsureXtremeWorkerStarted, SetStep
  <2>4. CASE SpawnXtremeWorker(t)
    BY <2>4 DEF SpawnXtremeWorker, SetStep
  <2>5. CASE SpawnFails(t)
    BY <2>5 DEF SpawnFails, SetStep
  <2>6. QED
    BY <1>2, <2>1, <2>2, <2>3, <2>4, <2>5 DEF SetModeContinues
<1>3. CASE Handler
  BY <1>3 DEF Handler, CleanupXtremeActive, CleanupMode
<1>4. CASE UNCHANGED modeVars
  BY <1>4 DEF modeVars
<1>5. QED
  BY <1>1, <1>2, <1>3, <1>4 DEF ModeNext

(***************************************************************************)
(* However many threads set the mode at once, at most one Xtreme worker is *)
(* ever spawned.                                                           *)
(***************************************************************************)
THEOREM AtMostOneXtremeWorker == ModeSpec => []SingleSpawn
<1>1. ModeInit => SpawnInv
  BY DEF ModeInit, SpawnInv
<1>2. SpawnInv => SingleSpawn
  BY DEF SpawnInv, SingleSpawn
<1>3. QED
  BY <1>1, <1>2, SpawnInvStep, ModeTypeCorrect, PTL DEF ModeSpec

(***************************************************************************)
(* Whenever submissions are routed to the Xtreme queue, its worker was     *)
(* spawned, the OS refused it, or a thread is on its way to spawn it.      *)
(***************************************************************************)
THEOREM XtremeSpawnIsTried == ModeSpec => []XtremeSpawnTried
<1>1. ModeInit => XtremeSpawnTried
  BY DEF ModeInit, XtremeSpawnTried
<1>2. ModeInit => SpawnInv
  BY DEF ModeInit, SpawnInv
<1>3. ModeTypeOK /\ SpawnInv /\ XtremeSpawnTried /\ [ModeNext]_modeVars
        => XtremeSpawnTried'
  <2> SUFFICES ASSUME ModeTypeOK, SpawnInv, XtremeSpawnTried, [ModeNext]_modeVars
               PROVE  XtremeSpawnTried'
    OBVIOUS
  <2> USE DEF ModeTypeOK, SpawnInv, XtremeSpawnTried
  <2>1. ASSUME NEW t \in Threads, NEW m \in ModeChoices, SetMode(t, m)
        PROVE  XtremeSpawnTried'
    BY <2>1 DEF SetMode, SetStep
  <2>2. ASSUME NEW t \in Threads, SetModeContinues(t)
        PROVE  XtremeSpawnTried'
    <3>1. CASE StoreXtremeActive(t)
      BY <3>1 DEF StoreXtremeActive, SetStep
    <3>2. CASE UpdatePoolMode(t)
      BY <3>2 DEF UpdatePoolMode, SetStep
    <3>3. CASE EnsureXtremeWorkerStarted(t)
      BY <3>3 DEF EnsureXtremeWorkerStarted, SetStep
    <3>4. CASE SpawnXtremeWorker(t)
      BY <3>4 DEF SpawnXtremeWorker, SetStep
    <3>5. CASE SpawnFails(t)
      BY <3>5 DEF SpawnFails, SetStep
    <3>6. QED
      BY <2>2, <3>1, <3>2, <3>3, <3>4, <3>5 DEF SetModeContinues
  <2>3. CASE Handler
    BY <2>3 DEF Handler, CleanupXtremeActive, CleanupMode
  <2>4. CASE UNCHANGED modeVars
    BY <2>4 DEF modeVars
  <2>5. QED
    BY <2>1, <2>2, <2>3, <2>4 DEF ModeNext
<1>4. QED
  BY <1>1, <1>2, <1>3, SpawnInvStep, ModeTypeCorrect, PTL DEF ModeSpec

----------------------------------------------------------------------------
(***************************************************************************)
(* What the queue operations do to the set of queued tasks.                *)
(***************************************************************************)

\* Pushing adds the task and nothing else.
LEMMA RangeOfPush ==
    ASSUME NEW S, NEW q \in Seq(S), NEW e \in S
    PROVE  Append(q, e) \in Seq(S) /\ Range(Append(q, e)) = Range(q) \cup {e}
<1>1. /\ Append(q, e) \in Seq(S)
      /\ Len(Append(q, e)) = Len(q) + 1
      /\ \A i \in 1..Len(q) : Append(q, e)[i] = q[i]
      /\ Append(q, e)[Len(q) + 1] = e
  OBVIOUS
<1>2. Range(q) = {q[i] : i \in 1..Len(q)}
  BY RangeEquality
<1>3. Range(Append(q, e)) = {Append(q, e)[i] : i \in 1..(Len(q) + 1)}
  BY <1>1, RangeEquality
<1>4. Len(q) \in Nat
  OBVIOUS
<1>5. QED
  BY <1>1, <1>2, <1>3, <1>4

\* Popping splits the queue into the task popped and those that stay.
LEMMA RangeOfPop ==
    ASSUME NEW S, NEW q \in Seq(S), q # <<>>
    PROVE  /\ Head(q) \in S /\ Tail(q) \in Seq(S)
           /\ Range(q) = {Head(q)} \cup Range(Tail(q))
<1>1. /\ Head(q) \in S /\ Tail(q) \in Seq(S) /\ Head(q) = q[1]
      /\ Len(q) \in Nat /\ Len(q) >= 1 /\ Len(Tail(q)) = Len(q) - 1
      /\ \A i \in 1..(Len(q) - 1) : Tail(q)[i] = q[i + 1]
  OBVIOUS
<1>2. Range(q) = {q[i] : i \in 1..Len(q)}
  BY RangeEquality
<1>3. Range(Tail(q)) = {Tail(q)[i] : i \in 1..(Len(q) - 1)}
  BY <1>1, RangeEquality
<1>4. ASSUME NEW x \in Range(q) PROVE x \in {Head(q)} \cup Range(Tail(q))
  <2>1. PICK i \in 1..Len(q) : x = q[i]
    BY <1>2
  <2>2. CASE i = 1
    BY <1>1, <2>1, <2>2
  <2>3. CASE i # 1
    <3>1. i - 1 \in 1..(Len(q) - 1) /\ Tail(q)[i - 1] = x
      BY <1>1, <2>1, <2>3
    <3>2. QED
      BY <3>1, <1>3
  <2>4. QED
    BY <2>2, <2>3
<1>5. ASSUME NEW x \in {Head(q)} \cup Range(Tail(q)) PROVE x \in Range(q)
  BY <1>1, <1>2, <1>3, <1>5
<1>6. QED
  BY <1>1, <1>4, <1>5

\* A batch steal splits the queue three ways: popped, moved, left behind.
LEMMA RangeOfBatch ==
    ASSUME NEW S, NEW q \in Seq(S), q # <<>>, NEW k \in 0..(Len(q) - 1)
    PROVE  /\ Batch(q, k) \in Seq(S) /\ Behind(q, k) \in Seq(S)
           /\ Range(q) = {Head(q)} \cup Range(Batch(q, k)) \cup Range(Behind(q, k))
<1>1. /\ Head(q) \in S /\ Head(q) = q[1] /\ Len(q) \in Nat /\ Len(q) >= 1
      /\ k \in Nat
  OBVIOUS
<1>2. /\ Batch(q, k) \in Seq(S) /\ Len(Batch(q, k)) = k
      /\ \A i \in 1..k : Batch(q, k)[i] = q[i + 1]
  <2>1. \A i \in 2..(k + 1) : q[i] \in S
    BY <1>1
  <2>2. QED
    BY <1>1, <2>1, SubSeqProperties DEF Batch
<1>3. /\ Behind(q, k) \in Seq(S) /\ Len(Behind(q, k)) = Len(q) - k - 1
      /\ \A i \in 1..(Len(q) - k - 1) : Behind(q, k)[i] = q[i + k + 1]
  <2>1. \A i \in (k + 2)..Len(q) : q[i] \in S
    BY <1>1
  <2>2. QED
    BY <1>1, <2>1, SubSeqProperties DEF Behind
<1>4. /\ Range(q) = {q[i] : i \in 1..Len(q)}
      /\ Range(Batch(q, k)) = {Batch(q, k)[i] : i \in 1..k}
      /\ Range(Behind(q, k)) = {Behind(q, k)[i] : i \in 1..(Len(q) - k - 1)}
  <2>1. Range(q) = {q[i] : i \in 1..Len(q)}
    BY RangeEquality
  <2>2. Range(Batch(q, k)) = {Batch(q, k)[i] : i \in 1..k}
    BY <1>2, RangeEquality
  <2>3. Range(Behind(q, k)) = {Behind(q, k)[i] : i \in 1..(Len(q) - k - 1)}
    BY <1>3, RangeEquality
  <2>4. QED
    BY <2>1, <2>2, <2>3
<1>5. ASSUME NEW x \in Range(q)
      PROVE  x \in {Head(q)} \cup Range(Batch(q, k)) \cup Range(Behind(q, k))
  <2>1. PICK i \in 1..Len(q) : x = q[i]
    BY <1>4
  <2>2. CASE i = 1
    BY <1>1, <2>1, <2>2
  <2>3. CASE i \in 2..(k + 1)
    <3>1. i - 1 \in 1..k /\ Batch(q, k)[i - 1] = x
      BY <1>1, <1>2, <2>1, <2>3
    <3>2. QED
      BY <3>1, <1>4
  <2>4. CASE i \in (k + 2)..Len(q)
    <3>1. i - k - 1 \in 1..(Len(q) - k - 1) /\ Behind(q, k)[i - k - 1] = x
      BY <1>1, <1>3, <2>1, <2>4
    <3>2. QED
      BY <3>1, <1>4
  <2>5. QED
    BY <1>1, <2>1, <2>2, <2>3, <2>4
<1>6. ASSUME NEW x \in {Head(q)} \cup Range(Batch(q, k)) \cup Range(Behind(q, k))
      PROVE  x \in Range(q)
  <2>1. CASE x = Head(q)
    BY <1>1, <1>4, <2>1
  <2>2. CASE x \in Range(Batch(q, k))
    <3>1. PICK i \in 1..k : x = Batch(q, k)[i]
      BY <2>2, <1>4
    <3>2. i + 1 \in 1..Len(q) /\ x = q[i + 1]
      BY <1>1, <1>2, <3>1
    <3>3. QED
      BY <3>2, <1>4
  <2>3. CASE x \in Range(Behind(q, k))
    <3>1. PICK i \in 1..(Len(q) - k - 1) : x = Behind(q, k)[i]
      BY <2>3, <1>4
    <3>2. i + k + 1 \in 1..Len(q) /\ x = q[i + k + 1]
      BY <1>1, <1>3, <3>1
    <3>3. QED
      BY <3>2, <1>4
  <2>4. QED
    BY <1>6, <2>1, <2>2, <2>3
<1>7. QED
  BY <1>2, <1>3, <1>5, <1>6

----------------------------------------------------------------------------
(***************************************************************************)
(* The pool leaves the mode switch alone: what was proved about the switch *)
(* on its own holds of it inside the pool.                                 *)
(***************************************************************************)
LEMMA PoolKeepsMode == [Next]_vars => [ModeNext]_modeVars
<1> SUFFICES ASSUME [Next]_vars PROVE [ModeNext]_modeVars
  OBVIOUS
<1>1. ASSUME NEW t \in Threads, NEW g \in Graphs, Execute(t, g)
      PROVE  UNCHANGED modeVars
  BY <1>1 DEF Execute
<1>2. ASSUME NEW t \in Threads, CallContinues(t)
      PROVE  UNCHANGED modeVars
  BY <1>2 DEF CallContinues, EagerProbe, EagerCompile, Route, SubmitXtreme,
              SubmitProbe, SubmitPush, Await
<1>3. ASSUME NEW t \in Threads, SwitchMode(t)
      PROVE  ModeNext
  BY <1>3 DEF SwitchMode, ModeNext
<1>4. ASSUME NEW w \in Workers, WorkerLoop(w)
      PROVE  UNCHANGED modeVars
  BY <1>4 DEF WorkerLoop, PopLocal, StealFromInjector, StealFromPeer,
              InjectorIsEmpty, PeerIsEmpty, ProcessStage, ProcessAssemble, Compile
<1>5. CASE XtremeLoop
  BY <1>5 DEF XtremeLoop, XtremePoll, XtremeSteal, XtremeProbe, XtremeCompile
<1>6. CASE Interrupt
  BY <1>6 DEF Interrupt, ModeNext
<1>7. CASE UNCHANGED vars
  BY <1>7 DEF vars
<1>8. QED
  BY <1>1, <1>2, <1>3, <1>4, <1>5, <1>6, <1>7 DEF Next

\* Every behaviour of the pool is one of the mode switch.
THEOREM PoolRunsTheSwitch == Spec => ModeSpec
<1>1. Init => ModeInit
  BY DEF Init
<1>2. QED
  BY <1>1, PoolKeepsMode, PTL DEF Spec, ModeSpec

(***************************************************************************)
(* Racing calls of set_execution_mode start at most one Xtreme worker, in  *)
(* the whole system as in the switch alone.                                *)
(***************************************************************************)
THEOREM SingleXtremeWorker == Spec => []SingleSpawn
  BY PoolRunsTheSwitch, AtMostOneXtremeWorker, PTL

\* In the whole system too, no submission is routed to a queue whose worker
\* nobody has spawned, been refused, or is about to spawn.
THEOREM XtremeSubmissionsHaveSpawn == Spec => []XtremeSpawnTried
  BY PoolRunsTheSwitch, XtremeSpawnIsTried, PTL

----------------------------------------------------------------------------
(***************************************************************************)
(* Under one lock, and without interrupts, the flag is what the mode says  *)
(* as soon as its store is not outstanding: at most one thread is inside   *)
(* set_execution_mode, and the mode it stored is still there when it comes *)
(* to store the flag.                                                      *)
(***************************************************************************)
FlagInv ==
    /\ handler = "off"
    /\ \A t, u \in Threads : setPc[t] # "idle" /\ setPc[u] # "idle" => t = u
    /\ \A t \in Threads : setPc[t] = "stored" => mode = setTo[t]
    /\ (\A t \in Threads : setPc[t] # "stored") => (xtremeActive <=> mode = "Xtreme")

\* A call of set_execution_mode, from outside or continued.
LEMMA SwitchKeepsFlag ==
    ASSUME ModeTypeOK, FlagInv, GIL, NEW t \in Threads, SwitchMode(t)
    PROVE  FlagInv'
<1> USE DEF ModeTypeOK, FlagInv, SetStep
<1>1. CASE \E m \in ModeChoices : MayEnter(t) /\ SetMode(t, m)
  <2>1. PICK m \in ModeChoices : MayEnter(t) /\ SetMode(t, m)
    BY <1>1
  <2>2. \A u \in Threads : setPc[u] = "idle"
    BY <2>1 DEF MayEnter, Outside
  <2>3. /\ setPc' = [setPc EXCEPT ![t] = "stored"] /\ setTo' = [setTo EXCEPT ![t] = m]
        /\ mode' = m /\ handler' = handler
    BY <2>1 DEF SetMode
  <2> QED
    BY <2>2, <2>3
<1>2. CASE StoreXtremeActive(t)
  <2>1. /\ setPc[t] = "stored" /\ setPc' = [setPc EXCEPT ![t] = "update"]
        /\ xtremeActive' = (setTo[t] = "Xtreme")
        /\ UNCHANGED <<mode, setTo, handler>>
    BY <1>2 DEF StoreXtremeActive
  <2>2. \A u \in Threads : setPc'[u] = IF u = t THEN "update" ELSE setPc[u]
    BY <2>1
  <2>3. xtremeActive' <=> mode' = "Xtreme"
    BY <2>1, Zenon
  <2>4. \A u, v \in Threads : setPc'[u] # "idle" /\ setPc'[v] # "idle" => u = v
    BY <2>1, <2>2
  <2>5. \A u \in Threads : setPc'[u] = "stored" => mode' = setTo'[u]
    BY <2>1, <2>2
  <2> QED
    BY <2>1, <2>3, <2>4, <2>5
<1>3. CASE UpdatePoolMode(t) \/ EnsureXtremeWorkerStarted(t) \/ SpawnXtremeWorker(t)
           \/ SpawnFails(t)
  <2>1. /\ setPc[t] \notin {"idle", "stored"}
        /\ \E pcAfter \in {"idle", "ensure", "spawn"} :
              setPc' = [setPc EXCEPT ![t] = pcAfter]
        /\ UNCHANGED <<mode, xtremeActive, setTo, handler>>
    BY <1>3 DEF UpdatePoolMode, EnsureXtremeWorkerStarted, SpawnXtremeWorker, SpawnFails
  <2>2. \A u \in Threads : /\ u # t => setPc'[u] = setPc[u]
                           /\ setPc'[t] # "stored"
    BY <2>1
  <2> QED
    BY <2>1, <2>2
<1> QED
  BY <1>1, <1>2, <1>3 DEF SwitchMode, SetModeContinues

(***************************************************************************)
(* However many threads call through the Python binding, XTREME_ACTIVE is  *)
(* what the mode says whenever no call is between its stores (lib.rs,      *)
(* set_execution_mode; pool.rs:21), as long as no interrupt is survived.   *)
(* Without the lock two overlapping calls can leave the mode of one of     *)
(* them and the flag of the other.                                         *)
(***************************************************************************)
THEOREM LockedFlagFollowsMode ==
    ASSUME GIL, MaxSignals = 0
    PROVE  Spec => []FlagFollowsMode
<1>1. Init => FlagInv
  <2> SUFFICES ASSUME Init PROVE FlagInv
    OBVIOUS
  <2>1. ~xtremeActive /\ mode # "Xtreme" /\ handler = "off"
    BY DEF Init, ModeInit
  <2>2. \A t \in Threads : setPc[t] = "idle"
    BY DEF Init, ModeInit
  <2> QED
    BY <2>1, <2>2 DEF FlagInv
<1>2. ModeTypeOK /\ FlagInv /\ [Next]_vars => FlagInv'
  <2> SUFFICES ASSUME ModeTypeOK, FlagInv, [Next]_vars PROVE FlagInv'
    OBVIOUS
  <2>1. CASE \E t \in Threads : SwitchMode(t)
    BY <2>1, SwitchKeepsFlag
  <2>2. ~Interrupt
    BY DEF Interrupt, Handler, CleanupXtremeActive, CleanupMode, ModeTypeOK, FlagInv
  <2>3. CASE UNCHANGED modeVars
    BY <2>3 DEF modeVars, FlagInv
  <2>4. ASSUME NEW t \in Threads, NEW g \in Graphs, Execute(t, g)
        PROVE  UNCHANGED modeVars
    BY <2>4 DEF Execute
  <2>5. ASSUME NEW t \in Threads, CallContinues(t)
        PROVE  UNCHANGED modeVars
    BY <2>5 DEF CallContinues, EagerProbe, EagerCompile, Route, SubmitXtreme,
                SubmitProbe, SubmitPush, Await
  <2>6. ASSUME NEW w \in Workers, WorkerLoop(w)
        PROVE  UNCHANGED modeVars
    BY <2>6 DEF WorkerLoop, PopLocal, StealFromInjector, StealFromPeer,
                InjectorIsEmpty, PeerIsEmpty, ProcessStage, ProcessAssemble, Compile
  <2>7. CASE XtremeLoop
    BY <2>3, <2>7 DEF XtremeLoop, XtremePoll, XtremeSteal, XtremeProbe, XtremeCompile
  <2>8. CASE UNCHANGED vars
    BY <2>3, <2>8 DEF vars
  <2> QED
    BY <2>1, <2>2, <2>3, <2>4, <2>5, <2>6, <2>7, <2>8 DEF Next
<1>3. FlagInv => FlagFollowsMode
  BY DEF FlagInv, FlagFollowsMode, ModeQuiescent
<1>4. Spec => []ModeTypeOK
  BY PoolRunsTheSwitch, ModeTypeCorrect, PTL
<1> QED
  BY <1>1, <1>2, <1>3, <1>4, PTL DEF Spec

----------------------------------------------------------------------------
(***************************************************************************)
(* Types.                                                                  *)
(***************************************************************************)

\* A task has a stage and a graph, and is never the empty hand.
LEMMA TaskFields ==
    ASSUME NEW task \in Tasks
    PROVE  /\ task.graph \in Graphs
           /\ task.stage \in {"Tile", "Fuse", "Assemble"}
           /\ task.stabilized \in BOOLEAN
           /\ task # NoTask
BY NoTaskAssumption DEF Tasks, NoTaskAssumption

\* Pushing the next stage keeps the graph, whatever the flag said.
LEMMA NextStageKeepsGraph ==
    ASSUME NEW task \in Tasks, NEW isXtreme \in BOOLEAN
    PROVE  /\ NextStage(task, isXtreme) \in Tasks
           /\ NextStage(task, isXtreme).graph = task.graph
BY TaskFields DEF NextStage, Task, Tasks

\* Submissions are tasks.
LEMMA SubmissionIsTask ==
    ASSUME NEW g \in Graphs, NEW stage \in {"Tile", "Fuse", "Assemble"}
    PROVE  Task(stage, g, FALSE) \in Tasks /\ Task(stage, g, FALSE).graph = g
BY DEF Task, Tasks

\* A cached kernel is a graph's.
LEMMA CachedIsGraph ==
    ASSUME PoolTypeOK, NEW g \in Graphs
    PROVE  /\ HashOf[g] \in Hashes
           /\ Cached(g) => cache[HashOf[g]] \in Graphs
BY KernelPoolAssumption DEF KernelPoolAssumption, PoolTypeOK, Cached

\* The initial state is well typed.
LEMMA TypeInit == Init => PoolTypeOK
<1> SUFFICES ASSUME Init PROVE PoolTypeOK
  OBVIOUS
<1>1. wxtreme \in [Workers -> BOOLEAN]
  BY Zenon DEF Init
<1>2. (CHOOSE g \in Graphs : TRUE) \in Graphs /\ 0 \in Workers
  BY KernelPoolAssumption DEF KernelPoolAssumption, Workers
<1>3. /\ injector \in Seq(Tasks)
      /\ local \in [Workers -> Seq(Tasks)]
      /\ wpc \in [Workers -> {"top", "look", "peers", "process", "compile", "dead"}]
      /\ peer \in [Workers -> Workers]
      /\ hand \in [Workers -> Tasks \cup {NoTask}]
      /\ xinjector \in Seq(Tasks)
      /\ xpc \in {"top", "steal", "probe", "compile", "dead"}
      /\ xhand \in Tasks \cup {NoTask}
  BY <1>2 DEF Init
<1>4. /\ cache \in [Hashes -> Graphs \cup {NoKernel}]
      /\ pc \in [Threads -> {"idle", "eager", "compile", "route", "xpush",
                             "probe", "push", "await"}]
      /\ arg \in [Threads -> Graphs]
      /\ result \in [Threads -> Graphs \cup {NoKernel, Panicked}]
      /\ calls \in 0..MaxCalls
  BY <1>2, KernelPoolAssumption DEF KernelPoolAssumption, Init
<1>5. QED
  BY <1>1, <1>3, <1>4 DEF PoolTypeOK

\* Callers keep the types.
LEMMA TypeCall ==
    ASSUME PoolTypeOK, NEW t \in Threads,
           CallContinues(t) \/ \E g \in Graphs : Execute(t, g)
    PROVE  PoolTypeOK'
<1> USE DEF PoolTypeOK, CallStep, Return, workerVars, xtremeVars, callVars
<1> DEFINE g == arg[t]
<1>0. g \in Graphs /\ HashOf[g] \in Hashes
      /\ (Cached(g) => cache[HashOf[g]] \in Graphs)
  BY CachedIsGraph
<1>1. ASSUME NEW h \in Graphs, Execute(t, h)
      PROVE  PoolTypeOK'
  BY <1>1, KernelPoolAssumption DEF KernelPoolAssumption, Execute
<1>2. CASE EagerProbe(t)
  BY <1>0, <1>2 DEF EagerProbe
<1>3. CASE EagerCompile(t)
  BY <1>0, <1>3 DEF EagerCompile
<1>4. CASE Route(t)
  BY <1>4 DEF Route
<1>5. CASE SubmitXtreme(t)
  <2>1. xinjector' \in Seq(Tasks)
    BY <1>0, <1>5, SubmissionIsTask, RangeOfPush DEF SubmitXtreme
  <2>2. QED
    BY <1>5, <2>1 DEF SubmitXtreme
<1>6. CASE SubmitProbe(t)
  BY <1>6 DEF SubmitProbe
<1>7. CASE SubmitPush(t)
  <2>1. injector' \in Seq(Tasks)
    BY <1>0, <1>7, SubmissionIsTask, RangeOfPush DEF SubmitPush
  <2>2. QED
    BY <1>7, <2>1 DEF SubmitPush
<1>8. CASE Await(t)
  BY <1>0, <1>8 DEF Await
<1>9. QED
  BY <1>1, <1>2, <1>3, <1>4, <1>5, <1>6, <1>7, <1>8 DEF CallContinues

\* Workers keep the types.
LEMMA TypeWorker ==
    ASSUME TypeOK, NEW w \in Workers, WorkerLoop(w)
    PROVE  PoolTypeOK'
<1> USE DEF PoolTypeOK, WorkerStep, workerVars, xtremeVars, callVars
<1>0. PoolTypeOK
  BY DEF TypeOK
<1>1. CASE PopLocal(w)
  <2>1. wxtreme' \in [Workers -> BOOLEAN]
    <3>1. xtremeActive \in BOOLEAN
      BY DEF TypeOK, ModeTypeOK
    <3>2. QED
      BY <1>0, <1>1, <3>1 DEF PopLocal
  <2>2. local[w] # <<>> => Head(local[w]) \in Tasks /\ Tail(local[w]) \in Seq(Tasks)
    BY <1>0, RangeOfPop
  <2>3. CASE local[w] # <<>>
    <3>1. /\ wpc' = [wpc EXCEPT ![w] = "process"]
          /\ hand' = [hand EXCEPT ![w] = Head(local[w])]
          /\ local' = [local EXCEPT ![w] = Tail(local[w])]
          /\ UNCHANGED <<injector, peer, xinjector, xpc, xhand, cache, pc, arg,
                         result, calls>>
      BY <1>1, <2>3 DEF PopLocal
    <3>2. QED
      BY <1>0, <2>1, <2>2, <2>3, <3>1
  <2>4. CASE local[w] = <<>>
    BY <1>0, <1>1, <2>1, <2>4 DEF PopLocal
  <2>5. QED
    BY <2>3, <2>4
<1>2. CASE StealFromInjector(w)
  <2>1. PICK k \in 0..(Len(injector) - 1) :
          /\ local' = [local EXCEPT ![w] = @ \o Batch(injector, k)]
          /\ injector' = Behind(injector, k)
    BY <1>2 DEF StealFromInjector
  <2>2. /\ Head(injector) \in Tasks
        /\ Batch(injector, k) \in Seq(Tasks) /\ Behind(injector, k) \in Seq(Tasks)
    BY <1>0, <1>2, RangeOfPop, RangeOfBatch DEF StealFromInjector
  <2>3. local[w] \o Batch(injector, k) \in Seq(Tasks)
    BY <1>0, <2>2
  <2>4. QED
    BY <1>0, <1>2, <2>1, <2>2, <2>3 DEF StealFromInjector
<1>3. CASE StealFromPeer(w)
  <2> DEFINE q == local[peer[w]]
  <2>1. PICK k \in 0..(Len(q) - 1) :
          local' = [local EXCEPT ![w] = @ \o Batch(q, k), ![peer[w]] = Behind(q, k)]
    BY <1>3 DEF StealFromPeer
  <2>2. q \in Seq(Tasks) /\ q # <<>>
    BY <1>0, <1>3 DEF StealFromPeer
  <2>3. /\ hand' = [hand EXCEPT ![w] = Head(q)]
        /\ peer' = [peer EXCEPT ![w] = 0]
        /\ wpc' = [wpc EXCEPT ![w] = "process"]
        /\ UNCHANGED <<injector, wxtreme, xinjector, xpc, xhand, cache, pc, arg,
                       result, calls>>
    BY <1>3 DEF StealFromPeer
  <2> HIDE DEF q
  <2>4. Head(q) \in Tasks /\ Batch(q, k) \in Seq(Tasks) /\ Behind(q, k) \in Seq(Tasks)
    BY <2>2, RangeOfPop, RangeOfBatch
  <2>5. local[w] \o Batch(q, k) \in Seq(Tasks)
    BY <1>0, <2>4
  <2>6. 0 \in Workers
    BY KernelPoolAssumption DEF KernelPoolAssumption, Workers
  <2>7. QED
    BY <1>0, <2>1, <2>3, <2>4, <2>5, <2>6
<1>4. CASE InjectorIsEmpty(w)
  BY <1>0, <1>4 DEF InjectorIsEmpty
<1>5. CASE PeerIsEmpty(w)
  <2>1. /\ 0 \in Workers
        /\ peer[w] # NumCores - 1 => peer[w] + 1 \in Workers
    <3>1. peer[w] \in Workers
      BY <1>0
    <3>2. QED
      BY <3>1, KernelPoolAssumption DEF KernelPoolAssumption, Workers
  <2>2. QED
    BY <1>0, <1>5, <2>1 DEF PeerIsEmpty
<1>6. CASE ProcessStage(w)
  <2>1. NextStage(hand[w], wxtreme[w]) \in Tasks
    BY <1>0, <1>6, NextStageKeepsGraph DEF ProcessStage
  <2>2. Append(local[w], NextStage(hand[w], wxtreme[w])) \in Seq(Tasks)
    BY <1>0, <2>1, RangeOfPush
  <2>3. QED
    BY <1>0, <1>6, <2>2 DEF ProcessStage
<1>7. CASE ProcessAssemble(w)
  BY <1>0, <1>7 DEF ProcessAssemble
<1>8. CASE Compile(w)
  <2>1. hand[w].graph \in Graphs /\ HashOf[hand[w].graph] \in Hashes
    BY <1>0, <1>8, TaskFields, CachedIsGraph DEF Compile
  <2>2. QED
    BY <1>0, <1>8, <2>1 DEF Compile
<1>9. QED
  BY <1>1, <1>2, <1>3, <1>4, <1>5, <1>6, <1>7, <1>8 DEF WorkerLoop

\* The Xtreme worker keeps the types.
LEMMA TypeXtreme ==
    ASSUME PoolTypeOK, XtremeLoop
    PROVE  PoolTypeOK'
<1> USE DEF PoolTypeOK, XtremeStep, workerVars, xtremeVars, callVars
<1>1. CASE XtremePoll
  BY <1>1 DEF XtremePoll
<1>2. CASE XtremeSteal
  <2>1. xinjector # <<>> => Head(xinjector) \in Tasks /\ Tail(xinjector) \in Seq(Tasks)
    BY RangeOfPop
  <2>2. QED
    BY <1>2, <2>1 DEF XtremeSteal
<1>3. CASE XtremeProbe
  BY <1>3 DEF XtremeProbe
<1>4. CASE XtremeCompile
  <2>1. xhand.graph \in Graphs /\ HashOf[xhand.graph] \in Hashes
    BY <1>4, TaskFields, CachedIsGraph DEF XtremeCompile
  <2>2. QED
    BY <1>4, <2>1 DEF XtremeCompile
<1>5. QED
  BY <1>1, <1>2, <1>3, <1>4 DEF XtremeLoop

(***************************************************************************)
(* Every state of the pool, the mode switch included, is well typed.       *)
(***************************************************************************)
THEOREM TypeCorrect == Spec => []TypeOK
<1>1. TypeOK /\ [Next]_vars => PoolTypeOK'
  <2> SUFFICES ASSUME TypeOK, [Next]_vars PROVE PoolTypeOK'
    OBVIOUS
  <2>0. PoolTypeOK
    BY DEF TypeOK
  <2>1. ASSUME NEW t \in Threads, NEW g \in Graphs, Execute(t, g)
        PROVE  PoolTypeOK'
    BY <2>0, <2>1, TypeCall
  <2>2. ASSUME NEW t \in Threads, CallContinues(t)
        PROVE  PoolTypeOK'
    BY <2>0, <2>2, TypeCall
  <2>3. CASE UNCHANGED poolVars
    BY <2>0, <2>3 DEF PoolTypeOK, poolVars, workerVars, xtremeVars, callVars
  <2>4. ASSUME NEW w \in Workers, WorkerLoop(w)
        PROVE  PoolTypeOK'
    BY <2>4, TypeWorker
  <2>5. CASE XtremeLoop
    BY <2>0, <2>5, TypeXtreme
  <2>6. QED
    BY <2>1, <2>2, <2>3, <2>4, <2>5 DEF Next, SwitchMode, Interrupt, vars
<1>2. Spec => []ModeTypeOK
  BY PoolRunsTheSwitch, ModeTypeCorrect, PTL
<1>3. Init => PoolTypeOK
  BY TypeInit
<1>4. Init /\ [][Next]_vars /\ []ModeTypeOK => [](PoolTypeOK /\ ModeTypeOK)
  <2>1. PoolTypeOK /\ ModeTypeOK /\ [Next]_vars => PoolTypeOK'
    BY <1>1 DEF TypeOK
  <2>2. QED
    BY <1>3, <2>1, PTL
<1>5. QED
  <2>1. TypeOK <=> ModeTypeOK /\ PoolTypeOK
    BY DEF TypeOK
  <2>2. QED
    BY <1>2, <1>4, <2>1, PTL DEF Spec

----------------------------------------------------------------------------
(***************************************************************************)
(* Hands: a worker that looks for work holds none, and its deque is empty. *)
(***************************************************************************)
LEMMA HandsFreeWorker ==
    ASSUME TypeOK, HandsFree, NEW w \in Workers, WorkerLoop(w)
    PROVE  HandsFree'
<1> USE DEF TypeOK, PoolTypeOK, HandsFree, WorkerStep, xtremeVars, callVars
<1>1. CASE PopLocal(w)
  BY <1>1 DEF PopLocal
<1>2. CASE StealFromInjector(w)
  <2>1. PICK k \in 0..(Len(injector) - 1) :
          local' = [local EXCEPT ![w] = @ \o Batch(injector, k)]
    BY <1>2 DEF StealFromInjector
  <2>2. QED
    BY <1>2, <2>1 DEF StealFromInjector
<1>3. CASE StealFromPeer(w)
  <2>1. PICK k \in 0..(Len(local[peer[w]]) - 1) :
          local' = [local EXCEPT ![w] = @ \o Batch(local[peer[w]], k),
                                 ![peer[w]] = Behind(local[peer[w]], k)]
    BY <1>3 DEF StealFromPeer
  <2>2. /\ local[peer[w]] # <<>>
        /\ wpc' = [wpc EXCEPT ![w] = "process"]
        /\ hand' = [hand EXCEPT ![w] = Head(local[peer[w]])]
        /\ UNCHANGED <<xpc, xhand>>
    BY <1>3 DEF StealFromPeer
  <2>3. QED
    BY <2>1, <2>2
<1>4. CASE InjectorIsEmpty(w) \/ PeerIsEmpty(w)
  BY <1>4 DEF InjectorIsEmpty, PeerIsEmpty
<1>5. CASE ProcessStage(w)
  BY <1>5 DEF ProcessStage
<1>6. CASE ProcessAssemble(w)
  BY <1>6 DEF ProcessAssemble
<1>7. CASE Compile(w)
  BY <1>7 DEF Compile
<1>8. QED
  BY <1>1, <1>2, <1>3, <1>4, <1>5, <1>6, <1>7 DEF WorkerLoop

\* Every step keeps the hands free.
LEMMA HandsFreeStep == TypeOK /\ HandsFree /\ [Next]_vars => HandsFree'
<1> SUFFICES ASSUME TypeOK, HandsFree, [Next]_vars PROVE HandsFree'
  OBVIOUS
<1>1. CASE UNCHANGED <<local, wpc, hand, xpc, xhand>>
  BY <1>1 DEF HandsFree
<1>2. ASSUME NEW t \in Threads, CallContinues(t)
      PROVE  HandsFree'
  BY <1>1, <1>2 DEF CallContinues, EagerProbe, EagerCompile, Route, SubmitXtreme,
                    SubmitProbe, SubmitPush, Await, workerVars, xtremeVars
<1>3. ASSUME NEW t \in Threads, NEW g \in Graphs, Execute(t, g)
      PROVE  HandsFree'
  BY <1>1, <1>3 DEF Execute, workerVars, xtremeVars
<1>4. CASE UNCHANGED poolVars
  BY <1>1, <1>4 DEF poolVars, workerVars, xtremeVars
<1>5. ASSUME NEW w \in Workers, WorkerLoop(w)
      PROVE  HandsFree'
  BY <1>5, HandsFreeWorker
<1>6. CASE XtremeLoop
  BY <1>6 DEF HandsFree, XtremeLoop, XtremePoll, XtremeSteal, XtremeProbe,
              XtremeCompile, XtremeStep, workerVars
<1>7. QED
  BY <1>2, <1>3, <1>4, <1>5, <1>6 DEF Next, SwitchMode, Interrupt, vars

----------------------------------------------------------------------------
(***************************************************************************)
(* Kernels.                                                                *)
(***************************************************************************)

\* A kernel inserted under its own graph's hash keeps the cache sound.
LEMMA InsertKeepsCacheSound ==
    ASSUME PoolTypeOK, KernelMatchesHash, NEW g \in Graphs,
           Outcome[g] = "kernel",
           cache' = [cache EXCEPT ![HashOf[g]] = g]
    PROVE  \A h \in Hashes :
             cache'[h] # NoKernel =>
               HashOf[cache'[h]] = h /\ Outcome[cache'[h]] = "kernel"
BY CachedIsGraph DEF PoolTypeOK, KernelMatchesHash

\* Every step keeps each kernel under its own hash.
LEMMA KernelMatchesHashStep ==
    TypeOK /\ KernelMatchesHash /\ [Next]_vars => KernelMatchesHash'
<1> SUFFICES ASSUME TypeOK, KernelMatchesHash, [Next]_vars
             PROVE  KernelMatchesHash'
  OBVIOUS
<1>0. PoolTypeOK
  BY DEF TypeOK
<1>1. CASE UNCHANGED <<cache, result, arg>>
  BY <1>1 DEF KernelMatchesHash
<1>2. ASSUME NEW t \in Threads, NEW g \in Graphs, Execute(t, g)
      PROVE  KernelMatchesHash'
  BY <1>0, <1>2, KernelPoolAssumption
  DEF KernelPoolAssumption, PoolTypeOK, KernelMatchesHash, Execute
<1>3. ASSUME NEW t \in Threads, CallContinues(t)
      PROVE  KernelMatchesHash'
  <2>0. /\ arg[t] \in Graphs /\ HashOf[arg[t]] \in Hashes
        /\ (Cached(arg[t]) => cache[HashOf[arg[t]]] \in Graphs)
    BY <1>0, CachedIsGraph DEF PoolTypeOK
  <2>1. CASE EagerProbe(t)
    <3>1. CASE Cached(arg[t])
      <4>1. /\ result' = [result EXCEPT ![t] = cache[HashOf[arg[t]]]]
            /\ UNCHANGED <<cache, arg>>
        BY <2>1, <3>1 DEF EagerProbe, Return
      <4>2. HashOf[cache[HashOf[arg[t]]]] = HashOf[arg[t]]
        BY <2>0, <3>1 DEF KernelMatchesHash, Cached
      <4>3. QED
        BY <1>0, <4>1, <4>2 DEF PoolTypeOK, KernelMatchesHash
    <3>2. CASE ~Cached(arg[t])
      BY <1>1, <2>1, <3>2 DEF EagerProbe
    <3>3. QED
      BY <3>1, <3>2
  <2>2. CASE EagerCompile(t)
    <3>1. CASE Outcome[arg[t]] = "kernel"
      <4>1. cache' = [cache EXCEPT ![HashOf[arg[t]]] = arg[t]]
            /\ result' = [result EXCEPT ![t] = arg[t]] /\ arg' = arg
        BY <2>2, <3>1 DEF EagerCompile, Return
      <4>2. QED
        BY <1>0, <2>0, <3>1, <4>1, InsertKeepsCacheSound
        DEF PoolTypeOK, KernelMatchesHash
    <3>2. CASE Outcome[arg[t]] # "kernel"
      <4>1. result' = [result EXCEPT ![t] = Panicked] /\ UNCHANGED <<cache, arg>>
        BY <2>2, <3>2 DEF EagerCompile, Return
      <4>2. QED
        BY <1>0, <4>1, KernelPoolAssumption
        DEF KernelPoolAssumption, PoolTypeOK, KernelMatchesHash
    <3>3. QED
      BY <3>1, <3>2
  <2>3. CASE Await(t)
    BY <1>0, <2>0, <2>3 DEF PoolTypeOK, KernelMatchesHash, Await, Return, Cached
  <2>4. QED
    BY <1>1, <1>3, <2>1, <2>2, <2>3
    DEF CallContinues, Route, SubmitXtreme, SubmitProbe, SubmitPush
<1>4. CASE UNCHANGED poolVars
  BY <1>1, <1>4 DEF poolVars, callVars
<1>5. ASSUME NEW w \in Workers, WorkerLoop(w)
      PROVE  KernelMatchesHash'
  <2>1. CASE Compile(w)
    <3>1. hand[w].graph \in Graphs /\ UNCHANGED <<arg, result>>
      BY <1>0, <2>1, TaskFields DEF PoolTypeOK, Compile, callVars
    <3>2. CASE Outcome[hand[w].graph] = "kernel"
      BY <1>0, <2>1, <3>1, <3>2, InsertKeepsCacheSound
      DEF KernelMatchesHash, Compile
    <3>3. CASE Outcome[hand[w].graph] # "kernel"
      BY <1>1, <2>1, <3>1, <3>3 DEF Compile
    <3>4. QED
      BY <3>2, <3>3
  <2>2. QED
    BY <1>1, <1>5, <2>1
    DEF WorkerLoop, PopLocal, StealFromInjector, StealFromPeer, InjectorIsEmpty, PeerIsEmpty,
        ProcessStage, ProcessAssemble, callVars
<1>6. CASE XtremeLoop
  <2>1. CASE XtremeCompile
    <3>1. xhand.graph \in Graphs /\ UNCHANGED <<arg, result>>
      BY <1>0, <2>1, TaskFields DEF PoolTypeOK, XtremeCompile, callVars
    <3>2. CASE Outcome[xhand.graph] = "kernel"
      BY <1>0, <2>1, <3>1, <3>2, InsertKeepsCacheSound
      DEF KernelMatchesHash, XtremeCompile
    <3>3. CASE Outcome[xhand.graph] # "kernel"
      BY <1>1, <2>1, <3>1, <3>3 DEF XtremeCompile
    <3>4. QED
      BY <3>2, <3>3
  <2>2. QED
    BY <1>1, <1>6, <2>1
    DEF XtremeLoop, XtremePoll, XtremeSteal, XtremeProbe, callVars
<1>7. QED
  BY <1>2, <1>3, <1>4, <1>5, <1>6 DEF Next, SwitchMode, Interrupt, vars

(***************************************************************************)
(* The kernel under a key, and the kernel a call ran, come from a graph    *)
(* with that key that compiles: on all three compile paths.                *)
(***************************************************************************)
THEOREM KernelsMatchTheirHash == Spec => []KernelMatchesHash
<1>1. Init => KernelMatchesHash
  BY KernelPoolAssumption DEF KernelPoolAssumption, Init, KernelMatchesHash
<1>2. QED
  BY <1>1, KernelMatchesHashStep, TypeCorrect, PTL DEF Spec

----------------------------------------------------------------------------
(***************************************************************************)
(* Coverage: a hash that has a kernel, a task on its way or a graph that   *)
(* does not compile keeps one of the three, whatever step is taken.        *)
(***************************************************************************)

\* The places of a task, now and after a step.
LEMMA Places ==
    ASSUME NEW task
    PROVE  /\ task \in InFlight <=>
                \/ task \in Range(injector)
                \/ task \in Range(xinjector)
                \/ \E w \in Workers : task \in Range(local[w])
                \/ \E w \in Workers : task = hand[w] /\ task # NoTask
                \/ task = xhand /\ task # NoTask
           /\ task \in InFlight' <=>
                \/ task \in Range(injector')
                \/ task \in Range(xinjector')
                \/ \E w \in Workers : task \in Range(local'[w])
                \/ \E w \in Workers : task = hand'[w] /\ task # NoTask
                \/ task = xhand' /\ task # NoTask
<1>1. InFlight' = Range(injector') \cup Range(xinjector')
                    \cup (UNION {Range(local'[w]) : w \in Workers})
                    \cup (({hand'[w] : w \in Workers} \cup {xhand'}) \ {NoTask})
  BY DEF InFlight
<1>2. QED
  BY <1>1 DEF InFlight

\* Tasks in flight are tasks.
LEMMA InFlightTasks == PoolTypeOK => InFlight \subseteq Tasks
<1> SUFFICES ASSUME PoolTypeOK, NEW task \in InFlight PROVE task \in Tasks
  OBVIOUS
<1>1. \A q \in Seq(Tasks) : Range(q) \subseteq Tasks
  BY RangeOfSeq
<1>2. /\ Range(injector) \subseteq Tasks
      /\ Range(xinjector) \subseteq Tasks
      /\ \A w \in Workers : Range(local[w]) \subseteq Tasks
  BY <1>1 DEF PoolTypeOK
<1>3. /\ xhand # NoTask => xhand \in Tasks
      /\ \A w \in Workers : hand[w] # NoTask => hand[w] \in Tasks
  BY DEF PoolTypeOK
<1>4. QED
  BY <1>2, <1>3, Places

\* What becomes of a task: it or a later stage of it is still in flight, or
\* its kernel is in the cache, or its graph does not compile.
Accounted(task) ==
    \/ \E later \in InFlight' : later.graph = task.graph
    \/ cache'[HashOf[task.graph]] # NoKernel
    \/ Outcome[task.graph] # "kernel"

\* Callers only add tasks.
LEMMA AccountedCall ==
    ASSUME PoolTypeOK, NEW t \in Threads,
           CallContinues(t) \/ \E g \in Graphs : Execute(t, g),
           NEW task \in InFlight
    PROVE  Accounted(task)
<1> SUFFICES task \in InFlight'
  BY DEF Accounted
<1>0. arg[t] \in Graphs
  BY DEF PoolTypeOK
<1>1. CASE UNCHANGED <<injector, xinjector, local, hand, xhand>>
  BY <1>1, Places
<1>2. CASE SubmitXtreme(t)
  <2>1. Range(xinjector) \subseteq Range(xinjector')
    <3> DEFINE new == Task("Assemble", arg[t], FALSE)
    <3>1. new \in Tasks
      BY <1>0, SubmissionIsTask
    <3> HIDE DEF new
    <3>2. Range(Append(xinjector, new)) = Range(xinjector) \cup {new}
      <4>1. xinjector \in Seq(Tasks)
        BY DEF PoolTypeOK
      <4> QED
        BY <3>1, <4>1, RangeOfPush
    <3>3. xinjector' = Append(xinjector, new)
      BY <1>2 DEF SubmitXtreme, new
    <3>4. QED
      BY <3>2, <3>3
  <2>2. UNCHANGED <<injector, local, hand, xhand>>
    BY <1>2 DEF SubmitXtreme, workerVars
  <2>3. QED
    BY <2>1, <2>2, Places
<1>3. CASE SubmitPush(t)
  <2>1. Range(injector) \subseteq Range(injector')
    <3> DEFINE new == Task("Tile", arg[t], FALSE)
    <3>1. new \in Tasks
      BY <1>0, SubmissionIsTask
    <3> HIDE DEF new
    <3>2. Range(Append(injector, new)) = Range(injector) \cup {new}
      <4>1. injector \in Seq(Tasks)
        BY DEF PoolTypeOK
      <4> QED
        BY <3>1, <4>1, RangeOfPush
    <3>3. injector' = Append(injector, new)
      BY <1>3 DEF SubmitPush, new
    <3>4. QED
      BY <3>2, <3>3
  <2>2. UNCHANGED <<xinjector, local, hand, xhand>>
    BY <1>3 DEF SubmitPush, xtremeVars
  <2>3. QED
    BY <2>1, <2>2, Places
<1>4. QED
  BY <1>1, <1>2, <1>3 DEF CallContinues, Execute, EagerProbe, EagerCompile, Route,
     SubmitProbe, Await, workerVars, xtremeVars

\* A worker moves tasks, advances their stage, or compiles them.
LEMMA AccountedWorker ==
    ASSUME TypeOK, HandsFree, NEW w \in Workers, WorkerLoop(w),
           NEW task \in InFlight
    PROVE  Accounted(task)
<1>0. PoolTypeOK /\ task \in Tasks
  BY InFlightTasks DEF TypeOK
<1>1. CASE PopLocal(w)
  <2>1. CASE local[w] # <<>>
    <3>1. /\ hand' = [hand EXCEPT ![w] = Head(local[w])]
          /\ local' = [local EXCEPT ![w] = Tail(local[w])]
          /\ hand[w] = NoTask
          /\ UNCHANGED <<injector, xinjector, xhand>>
      BY <1>1, <2>1 DEF PopLocal, WorkerStep, HandsFree, xtremeVars
    <3>2. /\ Range(local[w]) = {Head(local[w])} \cup Range(Tail(local[w]))
          /\ Head(local[w]) # NoTask
      BY <1>0, <2>1, RangeOfPop, TaskFields DEF PoolTypeOK
    <3>3. task \in InFlight'
      BY <1>0, <3>1, <3>2, Places DEF PoolTypeOK
    <3>4. QED
      BY <3>3 DEF Accounted
  <2>2. CASE local[w] = <<>>
    <3>1. UNCHANGED <<injector, xinjector, local, hand, xhand>>
      BY <1>1, <2>2 DEF PopLocal, xtremeVars
    <3>2. QED
      BY <3>1, Places DEF Accounted
  <2>3. QED
    BY <2>1, <2>2
<1>2. CASE StealFromInjector(w)
  <2>1. PICK k \in 0..(Len(injector) - 1) :
          /\ local' = [local EXCEPT ![w] = @ \o Batch(injector, k)]
          /\ injector' = Behind(injector, k)
    BY <1>2 DEF StealFromInjector
  <2>2. /\ injector # <<>>
        /\ hand' = [hand EXCEPT ![w] = Head(injector)]
        /\ hand[w] = NoTask /\ local[w] = <<>>
        /\ UNCHANGED <<xinjector, xhand>>
    BY <1>2 DEF StealFromInjector, WorkerStep, HandsFree, xtremeVars
  <2>3. /\ Range(injector) = {Head(injector)} \cup Range(Batch(injector, k))
                               \cup Range(Behind(injector, k))
        /\ Batch(injector, k) \in Seq(Tasks)
        /\ Head(injector) # NoTask
    BY <1>0, <2>2, RangeOfBatch, RangeOfPop, TaskFields DEF PoolTypeOK
  <2>4. local' = [local EXCEPT ![w] = Batch(injector, k)]
    BY <2>1, <2>2, <2>3
  <2>5. task \in InFlight'
    <3>1. CASE task = Head(injector)
      BY <1>0, <2>2, <2>3, <3>1, Places DEF PoolTypeOK
    <3>2. CASE task \in Range(injector) /\ task # Head(injector)
      BY <1>0, <2>1, <2>3, <2>4, <3>2, Places DEF PoolTypeOK
    <3>3. CASE task \in Range(xinjector) \/ (task = xhand /\ task # NoTask)
      BY <2>2, <3>3, Places
    <3>4. ASSUME NEW u \in Workers, task \in Range(local[u]) PROVE task \in InFlight'
      <4>1. u # w
        BY <2>2, <3>4 DEF Range
      <4>2. local'[u] = local[u]
        BY <1>0, <2>4, <4>1 DEF PoolTypeOK
      <4>3. QED
        BY <3>4, <4>2, Places
    <3>5. ASSUME NEW u \in Workers, task = hand[u], task # NoTask
          PROVE  task \in InFlight'
      BY <1>0, <2>2, <3>5, Places DEF PoolTypeOK
    <3>6. QED
      BY <3>1, <3>2, <3>3, <3>4, <3>5, Places
  <2>6. QED
    BY <2>5 DEF Accounted
<1>3. CASE StealFromPeer(w)
  <2> DEFINE v == peer[w]
  <2>1. v \in Workers /\ local[v] # <<>> /\ hand' = [hand EXCEPT ![w] = Head(local[v])]
    BY <1>0, <1>3 DEF StealFromPeer, PoolTypeOK
  <2>2. PICK k \in 0..(Len(local[v]) - 1) :
          local' = [local EXCEPT ![w] = @ \o Batch(local[v], k),
                                 ![v] = Behind(local[v], k)]
    BY <1>3 DEF StealFromPeer
  <2>3. /\ hand[w] = NoTask /\ local[w] = <<>> /\ v # w
        /\ UNCHANGED <<injector, xinjector, xhand>>
    BY <1>3, <2>1 DEF StealFromPeer, WorkerStep, HandsFree, xtremeVars
  <2> HIDE DEF v
  <2>4. /\ Range(local[v]) = {Head(local[v])} \cup Range(Batch(local[v], k))
                               \cup Range(Behind(local[v], k))
        /\ Batch(local[v], k) \in Seq(Tasks)
        /\ Head(local[v]) # NoTask
    BY <1>0, <2>1, RangeOfBatch, RangeOfPop, TaskFields DEF PoolTypeOK
  <2>5. local' = [local EXCEPT ![w] = Batch(local[v], k), ![v] = Behind(local[v], k)]
    BY <2>2, <2>3, <2>4
  <2>6. task \in InFlight'
    <3>1. CASE task = Head(local[v])
      BY <1>0, <2>1, <2>4, <3>1, Places DEF PoolTypeOK
    <3>2. CASE task \in Range(Batch(local[v], k))
      BY <1>0, <2>3, <2>5, <3>2, Places DEF PoolTypeOK
    <3>3. CASE task \in Range(Behind(local[v], k))
      <4>1. local'[v] = Behind(local[v], k)
        BY <1>0, <2>1, <2>3, <2>5 DEF PoolTypeOK
      <4>2. QED
        BY <2>1, <3>3, <4>1, Places
    <3>4. CASE \/ task \in Range(injector) \/ task \in Range(xinjector)
               \/ (task = xhand /\ task # NoTask)
      BY <2>3, <3>4, Places
    <3>5. ASSUME NEW u \in Workers, task \in Range(local[u]), u # v
          PROVE  task \in InFlight'
      <4>1. u # w
        BY <2>3, <3>5 DEF Range
      <4>2. local'[u] = local[u]
        BY <1>0, <2>5, <3>5, <4>1 DEF PoolTypeOK
      <4>3. QED
        BY <3>5, <4>2, Places
    <3>6. ASSUME NEW u \in Workers, task = hand[u], task # NoTask
          PROVE  task \in InFlight'
      BY <1>0, <2>1, <2>3, <3>6, Places DEF PoolTypeOK
    <3>7. QED
      BY <2>4, <3>1, <3>2, <3>3, <3>4, <3>5, <3>6, Places
  <2>7. QED
    BY <2>6 DEF Accounted
<1>4. CASE InjectorIsEmpty(w) \/ PeerIsEmpty(w)
  <2>1. UNCHANGED <<injector, xinjector, local, hand, xhand>>
    BY <1>4 DEF InjectorIsEmpty, PeerIsEmpty, xtremeVars
  <2>2. QED
    BY <2>1, Places DEF Accounted
<1>5. CASE ProcessStage(w)
  <2> DEFINE next == NextStage(hand[w], wxtreme[w])
  <2>1. next \in Tasks /\ next.graph = hand[w].graph
    BY <1>0, <1>5, NextStageKeepsGraph DEF ProcessStage, PoolTypeOK
  <2>2. Range(Append(local[w], next)) = Range(local[w]) \cup {next}
    BY <1>0, <2>1, RangeOfPush DEF PoolTypeOK
  <2>3. /\ local' = [local EXCEPT ![w] = Append(local[w], next)]
        /\ hand' = [hand EXCEPT ![w] = NoTask]
        /\ UNCHANGED <<injector, xinjector, xhand>>
    BY <1>5 DEF ProcessStage, xtremeVars
  <2>4. CASE task = hand[w]
    <3>1. next \in InFlight'
      BY <1>0, <2>2, <2>3, Places DEF PoolTypeOK
    <3>2. QED
      BY <2>1, <2>4, <3>1 DEF Accounted
  <2>5. CASE task # hand[w]
    <3>1. task \in InFlight'
      BY <1>0, <2>2, <2>3, <2>5, Places DEF PoolTypeOK
    <3>2. QED
      BY <3>1 DEF Accounted
  <2>6. QED
    BY <2>4, <2>5
<1>6. ASSUME hand' = [hand EXCEPT ![w] = NoTask],
             UNCHANGED <<injector, xinjector, local, xhand>>,
             task # hand[w]
      PROVE  Accounted(task)
  <2>1. task \in InFlight'
    BY <1>0, <1>6, Places DEF PoolTypeOK
  <2>2. QED
    BY <2>1 DEF Accounted
<1>7. CASE ProcessAssemble(w)
  <2>1. CASE UNCHANGED hand
    <3>1. UNCHANGED <<injector, xinjector, local, hand, xhand>>
      BY <1>7, <2>1 DEF ProcessAssemble, xtremeVars
    <3>2. QED
      BY <3>1, Places DEF Accounted
  <2>2. CASE Cached(hand[w].graph) /\ hand' = [hand EXCEPT ![w] = NoTask]
    <3>1. task = hand[w] => cache'[HashOf[task.graph]] # NoKernel
      BY <1>7, <2>2 DEF ProcessAssemble, Cached
    <3>2. UNCHANGED <<injector, xinjector, local, xhand>>
      BY <1>7 DEF ProcessAssemble, xtremeVars
    <3>3. QED
      BY <1>6, <2>2, <3>1, <3>2 DEF Accounted
  <2>3. QED
    BY <1>7, <2>1, <2>2 DEF ProcessAssemble
<1>8. CASE Compile(w)
  <2>1. /\ hand' = [hand EXCEPT ![w] = NoTask]
        /\ UNCHANGED <<injector, xinjector, local, xhand>>
    BY <1>8 DEF Compile, xtremeVars
  <2>2. ASSUME task = hand[w], Outcome[task.graph] = "kernel"
        PROVE  cache'[HashOf[task.graph]] # NoKernel
    <3>1. cache' = [cache EXCEPT ![HashOf[task.graph]] = task.graph]
      BY <1>8, <2>2 DEF Compile
    <3>2. task.graph \in Graphs /\ HashOf[task.graph] \in Hashes
      BY <1>0, TaskFields, CachedIsGraph
    <3>3. QED
      BY <1>0, <3>1, <3>2, KernelPoolAssumption DEF KernelPoolAssumption, PoolTypeOK
  <2>3. QED
    BY <1>6, <2>1, <2>2 DEF Accounted
<1>9. QED
  BY <1>1, <1>2, <1>3, <1>4, <1>5, <1>7, <1>8 DEF WorkerLoop

\* The Xtreme worker takes tasks, or compiles them.
LEMMA AccountedXtreme ==
    ASSUME TypeOK, HandsFree, XtremeLoop, NEW task \in InFlight
    PROVE  Accounted(task)
<1>0. PoolTypeOK /\ task \in Tasks
  BY InFlightTasks DEF TypeOK
<1>1. ASSUME UNCHANGED <<injector, xinjector, local, hand, xhand>>
      PROVE  Accounted(task)
  BY <1>1, Places DEF Accounted
<1>2. ASSUME xhand' = NoTask, UNCHANGED <<injector, xinjector, local, hand>>,
             task # xhand
      PROVE  Accounted(task)
  BY <1>2, Places DEF Accounted
<1>3. CASE XtremePoll
  BY <1>1, <1>3 DEF XtremePoll, workerVars
<1>4. CASE XtremeSteal
  <2>1. CASE xinjector # <<>>
    <3>1. /\ Range(xinjector) = {Head(xinjector)} \cup Range(Tail(xinjector))
          /\ Head(xinjector) # NoTask
      BY <1>0, <2>1, RangeOfPop, TaskFields DEF PoolTypeOK
    <3>2. /\ xhand = NoTask /\ xhand' = Head(xinjector)
          /\ xinjector' = Tail(xinjector)
          /\ UNCHANGED <<injector, local, hand>>
      BY <1>4, <2>1 DEF XtremeSteal, XtremeStep, HandsFree, workerVars
    <3>3. QED
      BY <3>1, <3>2, Places DEF Accounted
  <2>2. CASE xinjector = <<>>
    BY <1>1, <1>4, <2>2 DEF XtremeSteal, workerVars
  <2>3. QED
    BY <2>1, <2>2
<1>5. CASE XtremeProbe
  <2>1. CASE UNCHANGED xhand
    BY <1>1, <1>5, <2>1 DEF XtremeProbe, workerVars
  <2>2. CASE Cached(xhand.graph) /\ xhand' = NoTask
    <3>1. task = xhand => cache'[HashOf[task.graph]] # NoKernel
      BY <1>5, <2>2 DEF XtremeProbe, Cached
    <3>2. UNCHANGED <<injector, xinjector, local, hand>>
      BY <1>5 DEF XtremeProbe, workerVars
    <3>3. QED
      BY <1>2, <2>2, <3>1, <3>2 DEF Accounted
  <2>3. QED
    BY <1>5, <2>1, <2>2 DEF XtremeProbe
<1>6. CASE XtremeCompile
  <2>1. xhand' = NoTask /\ UNCHANGED <<injector, xinjector, local, hand>>
    BY <1>6 DEF XtremeCompile, workerVars
  <2>2. ASSUME task = xhand, Outcome[task.graph] = "kernel"
        PROVE  cache'[HashOf[task.graph]] # NoKernel
    <3>1. cache' = [cache EXCEPT ![HashOf[task.graph]] = task.graph]
      BY <1>6, <2>2 DEF XtremeCompile
    <3>2. task.graph \in Graphs /\ HashOf[task.graph] \in Hashes
      BY <1>0, TaskFields, CachedIsGraph
    <3>3. QED
      BY <1>0, <3>1, <3>2, KernelPoolAssumption DEF KernelPoolAssumption, PoolTypeOK
  <2>3. QED
    BY <1>2, <2>1, <2>2 DEF Accounted
<1>7. QED
  BY <1>3, <1>4, <1>5, <1>6 DEF XtremeLoop

\* Compiling inserts a kernel or leaves the cache alone.
Inserts(g) ==
    \/ UNCHANGED cache
    \/ g \in Graphs /\ cache' = [cache EXCEPT ![HashOf[g]] = g]

\* No step empties a cache entry.
LEMMA CacheGrows ==
    ASSUME TypeOK, [Next]_vars, NEW h \in Hashes, cache[h] # NoKernel
    PROVE  cache'[h] # NoKernel
<1>0. PoolTypeOK
  BY DEF TypeOK
<1>1. ASSUME NEW g, Inserts(g) PROVE cache'[h] # NoKernel
  BY <1>0, <1>1, KernelPoolAssumption
  DEF KernelPoolAssumption, PoolTypeOK, Inserts
<1>2. ASSUME NEW t \in Threads, CallContinues(t) PROVE Inserts(arg[t])
  BY <1>0, <1>2 DEF PoolTypeOK, Inserts, CallContinues, EagerProbe, EagerCompile,
     Route, SubmitXtreme, SubmitProbe, SubmitPush, Await
<1>3. ASSUME NEW t \in Threads, NEW g \in Graphs, Execute(t, g)
      PROVE  UNCHANGED cache
  BY <1>3 DEF Execute
<1>4. ASSUME NEW w \in Workers, WorkerLoop(w) PROVE Inserts(hand[w].graph)
  <2>1. CASE Compile(w)
    BY <1>0, <2>1, TaskFields DEF PoolTypeOK, Inserts, Compile
  <2>2. QED
    BY <1>4, <2>1 DEF Inserts, WorkerLoop, PopLocal, StealFromInjector,
       StealFromPeer, InjectorIsEmpty, PeerIsEmpty, ProcessStage, ProcessAssemble
<1>5. CASE XtremeLoop
  <2>1. CASE XtremeCompile
    <3>1. Inserts(xhand.graph)
      BY <1>0, <2>1, TaskFields DEF PoolTypeOK, Inserts, XtremeCompile
    <3>2. QED
      BY <1>1, <3>1
  <2>2. QED
    BY <1>5, <2>1 DEF XtremeLoop, XtremePoll, XtremeSteal, XtremeProbe
<1>6. CASE UNCHANGED poolVars
  BY <1>6 DEF poolVars
<1>7. QED
  BY <1>1, <1>2, <1>3, <1>4, <1>5, <1>6 DEF Next, SwitchMode, Interrupt, vars

\* Every step keeps a covered hash covered.
LEMMA CoveredStep ==
    ASSUME TypeOK, HandsFree, [Next]_vars, NEW h \in Hashes, Covered(h)
    PROVE  Covered(h)'
<1>0. PoolTypeOK
  BY DEF TypeOK
<1>1. CASE cache[h] # NoKernel
  BY <1>1, CacheGrows DEF Covered
<1>2. CASE Refused(h)
  BY <1>2 DEF Covered, Refused
<1>3. CASE Pending(h)
  <2>1. PICK task \in InFlight : HashOf[task.graph] = h
    BY <1>3 DEF Pending
  <2>2. task.graph \in Graphs
    BY <1>0, InFlightTasks, TaskFields
  <2>3. CASE Accounted(task)
    BY <2>1, <2>2, <2>3 DEF Accounted, Covered, Pending, Refused
  <2>4. CASE UNCHANGED poolVars
    <3>1. UNCHANGED <<injector, xinjector, local, hand, xhand>>
      BY <2>4 DEF poolVars, workerVars, xtremeVars
    <3>2. QED
      BY <2>3, <3>1, Places DEF Accounted
  <2>5. QED
    BY <1>0, <2>3, <2>4, AccountedCall, AccountedWorker, AccountedXtreme
    DEF Next, SwitchMode, Interrupt, vars
<1>4. QED
  BY <1>1, <1>2, <1>3 DEF Covered

\* A caller that starts to spin has pushed a task or has seen the kernel.
LEMMA AwaitIsCovered ==
    ASSUME PoolTypeOK, NEW t \in Threads, pc[t] # "await",
           CallContinues(t), pc'[t] = "await"
    PROVE  Covered(HashOf[arg[t]])'
<1> DEFINE h == HashOf[arg[t]]
<1>0. arg[t] \in Graphs /\ h \in Hashes
  BY CachedIsGraph DEF PoolTypeOK
<1>1. CASE SubmitXtreme(t)
  <2> DEFINE new == Task("Assemble", arg[t], FALSE)
  <2>1. new \in Tasks /\ new.graph = arg[t]
    BY <1>0, SubmissionIsTask
  <2>2. xinjector' = Append(xinjector, new) /\ arg' = arg
    BY <1>1 DEF SubmitXtreme
  <2> HIDE DEF new
  <2>3. Range(Append(xinjector, new)) = Range(xinjector) \cup {new}
    BY <2>1, RangeOfPush DEF PoolTypeOK
  <2>4. new \in InFlight'
    BY <2>2, <2>3, Places
  <2>5. QED
    BY <2>1, <2>2, <2>4 DEF Covered, Pending
<1>2. CASE SubmitPush(t)
  <2> DEFINE new == Task("Tile", arg[t], FALSE)
  <2>1. new \in Tasks /\ new.graph = arg[t]
    BY <1>0, SubmissionIsTask
  <2>2. injector' = Append(injector, new) /\ arg' = arg
    BY <1>2 DEF SubmitPush
  <2> HIDE DEF new
  <2>3. Range(Append(injector, new)) = Range(injector) \cup {new}
    BY <2>1, RangeOfPush DEF PoolTypeOK
  <2>4. new \in InFlight'
    BY <2>2, <2>3, Places
  <2>5. QED
    BY <2>1, <2>2, <2>4 DEF Covered, Pending
<1>3. CASE SubmitProbe(t)
  <2>1. Cached(arg[t]) /\ UNCHANGED <<cache, arg>>
    BY <1>3 DEF SubmitProbe, CallStep, PoolTypeOK
  <2>2. QED
    BY <2>1 DEF Cached, Covered
<1>4. CASE EagerProbe(t) \/ EagerCompile(t) \/ Route(t) \/ Await(t)
  <2>1. \E s \in {"idle", "compile", "xpush", "probe"} : pc' = [pc EXCEPT ![t] = s]
    BY <1>4 DEF EagerProbe, EagerCompile, Route, Await, Return, CallStep
  <2>2. QED
    BY <2>1 DEF PoolTypeOK
<1>5. QED
  BY <1>1, <1>2, <1>3, <1>4 DEF CallContinues

\* The graph of a call in progress does not change under it.
LEMMA CallKeepsGraph ==
    ASSUME PoolTypeOK, [Next]_vars, NEW t \in Threads
    PROVE  \/ UNCHANGED <<pc[t], arg[t]>>
           \/ arg'[t] = arg[t] /\ CallContinues(t)
           \/ pc[t] = "idle" /\ pc'[t] # "await"
<1> USE DEF PoolTypeOK
<1>1. ASSUME NEW u \in Threads, NEW g \in Graphs, Execute(u, g)
      PROVE  /\ u # t => UNCHANGED <<pc[t], arg[t]>>
             /\ u = t => pc[t] = "idle" /\ pc'[t] # "await"
  BY <1>1 DEF Execute, CallStep
<1>2. ASSUME NEW u \in Threads, CallContinues(u)
      PROVE  u # t => UNCHANGED <<pc[t], arg[t]>>
  <2>1. UNCHANGED arg /\ \E s : pc' = [pc EXCEPT ![u] = s]
    BY <1>2 DEF CallContinues, EagerProbe, EagerCompile, Route, SubmitXtreme,
       SubmitProbe, SubmitPush, Await, Return, CallStep
  <2>2. QED
    BY <2>1
<1>3. ASSUME NEW u \in Threads, CallContinues(u)
      PROVE  UNCHANGED arg
  BY <1>3 DEF CallContinues, EagerProbe, EagerCompile, Route, SubmitXtreme,
     SubmitProbe, SubmitPush, Await
<1>4. CASE UNCHANGED <<pc, arg>>
  BY <1>4
<1>5. ASSUME NEW w \in Workers, WorkerLoop(w)
      PROVE  UNCHANGED <<pc, arg>>
  BY <1>5 DEF WorkerLoop, PopLocal, StealFromInjector, StealFromPeer, InjectorIsEmpty, PeerIsEmpty,
     ProcessStage, ProcessAssemble, Compile, callVars
<1>6. CASE XtremeLoop
  BY <1>4, <1>6 DEF XtremeLoop, XtremePoll, XtremeSteal, XtremeProbe,
     XtremeCompile, callVars
<1>7. CASE UNCHANGED poolVars
  BY <1>4, <1>7 DEF poolVars, callVars
<1>8. QED
  BY <1>1, <1>2, <1>3, <1>4, <1>5, <1>6, <1>7 DEF Next, SwitchMode, Interrupt, vars

(***************************************************************************)
(* No task is lost: a caller that spins always has a kernel waiting, a     *)
(* task in some queue or some worker's hands, or a graph that does not     *)
(* compile to blame; for any number of callers and cores.                  *)
(***************************************************************************)
THEOREM TasksAreNotLost == Spec => []NoLostTask
<1>1. Init => HandsFree /\ NoLostTask
  BY DEF Init, HandsFree, NoLostTask
<1>2. TypeOK /\ HandsFree /\ NoLostTask /\ [Next]_vars => NoLostTask'
  <2> SUFFICES ASSUME TypeOK, HandsFree, NoLostTask, [Next]_vars,
                      NEW t \in Threads, pc'[t] = "await"
               PROVE  Covered(HashOf[arg[t]])'
    BY DEF NoLostTask
  <2>0. PoolTypeOK /\ arg[t] \in Graphs /\ HashOf[arg[t]] \in Hashes
    BY CachedIsGraph DEF TypeOK, PoolTypeOK
  <2>1. arg'[t] = arg[t]
    BY <2>0, CallKeepsGraph
  <2>2. CASE pc[t] = "await"
    <3>1. Covered(HashOf[arg[t]])
      BY <2>2 DEF NoLostTask
    <3>2. ASSUME NEW h \in Hashes, Covered(h) PROVE Covered(h)'
      BY <3>2, CoveredStep
    <3>3. QED
      BY <2>0, <2>1, <3>1, <3>2
  <2>3. CASE pc[t] # "await"
    BY <2>0, <2>3, CallKeepsGraph, AwaitIsCovered
  <2>4. QED
    BY <2>2, <2>3
<1>3. QED
  BY <1>1, <1>2, HandsFreeStep, TypeCorrect, PTL DEF Spec

----------------------------------------------------------------------------
(***************************************************************************)
(* The refinement.                                                         *)
(***************************************************************************)

\* Returning from a call is finishing it in the service.
LEMMA ReturnFinishes ==
    ASSUME PoolTypeOK, NEW t \in Threads, NEW from \in {"eager", "compile", "await"},
           NEW r, Return(t, from, r), UNCHANGED arg
    PROVE  Service!Finish(t, r)
<1>1. pc[t] = from /\ pc' = [pc EXCEPT ![t] = "idle"] /\ result' = [result EXCEPT ![t] = r]
  BY DEF Return, CallStep
<1>2. t \in {u \in Threads : pc[u] # "idle"}
  BY <1>1
<1>3. {u \in Threads : pc'[u] # "idle"} = {u \in Threads : pc[u] # "idle"} \ {t}
  BY <1>1 DEF PoolTypeOK
<1>4. QED
  BY <1>1, <1>2, <1>3 DEF Service!Finish

\* Between entering and returning a call stays in progress.
LEMMA InsideTheCall ==
    ASSUME PoolTypeOK, NEW t \in Threads, NEW from, NEW to,
           from # "idle", to # "idle", CallStep(t, from, to)
    PROVE  {u \in Threads : pc'[u] # "idle"} = {u \in Threads : pc[u] # "idle"}
BY DEF CallStep, PoolTypeOK

\* What a caller does, the service does or does not notice.
LEMMA CallImplements ==
    ASSUME PoolTypeOK, NEW t \in Threads, CallContinues(t)
    PROVE  [Service!ServiceNext]_(Service!serviceVars)
<1>0. arg[t] \in Graphs
  BY DEF PoolTypeOK
<1>1. CASE EagerProbe(t)
  <2>1. CASE Cached(arg[t])
    <3>1. /\ Return(t, "eager", cache[HashOf[arg[t]]])
          /\ UNCHANGED cache /\ UNCHANGED arg
      BY <1>1, <2>1 DEF EagerProbe
    <3>2. Service!Finish(t, cache[HashOf[arg[t]]])
      BY <3>1, ReturnFinishes DEF Return, Service!Finish
    <3>3. Service!Answer(t)
      BY <2>1, <3>1, <3>2 DEF Cached, Service!Answer
    <3>4. QED
      BY <3>3 DEF Service!ServiceNext
  <2>2. CASE ~Cached(arg[t])
    <3>1. CallStep(t, "eager", "compile") /\ UNCHANGED <<result, cache, arg>>
      BY <1>1, <2>2 DEF EagerProbe
    <3>2. QED
      BY <3>1, InsideTheCall DEF Service!serviceVars
  <2>3. QED
    BY <2>1, <2>2
<1>2. CASE EagerCompile(t)
  <2>1. CASE Outcome[arg[t]] = "kernel"
    <3>1. /\ Return(t, "compile", arg[t]) /\ UNCHANGED arg
          /\ cache' = [cache EXCEPT ![HashOf[arg[t]]] = arg[t]]
      BY <1>2, <2>1 DEF EagerCompile
    <3>2. Service!Finish(t, arg[t])
      BY <3>1, ReturnFinishes DEF Return, Service!Finish
    <3>3. Service!CompileAndAnswer(t)
      BY <2>1, <3>1, <3>2 DEF Service!CompileAndAnswer
    <3>4. QED
      BY <3>3 DEF Service!ServiceNext
  <2>2. CASE Outcome[arg[t]] # "kernel"
    <3>1. Return(t, "compile", Panicked) /\ UNCHANGED cache /\ UNCHANGED arg
      BY <1>2, <2>2 DEF EagerCompile
    <3>2. Service!Finish(t, Panicked)
      BY <3>1, ReturnFinishes DEF Return, Service!Finish
    <3>3. Service!Refuse(t)
      BY <2>2, <3>1, <3>2 DEF Service!Refuse
    <3>4. QED
      BY <3>3 DEF Service!ServiceNext
  <2>3. QED
    BY <2>1, <2>2
<1>3. CASE Route(t) \/ SubmitProbe(t) \/ SubmitXtreme(t) \/ SubmitPush(t)
  <2>1. /\ UNCHANGED <<result, cache, arg>>
        /\ \E from \in {"route", "probe", "xpush", "push"},
              to \in {"xpush", "probe", "push", "await"} : CallStep(t, from, to)
    BY <1>3 DEF Route, SubmitProbe, SubmitXtreme, SubmitPush
  <2>2. QED
    BY <2>1, InsideTheCall DEF Service!serviceVars
<1>4. CASE Await(t)
  <2>1. /\ Cached(arg[t]) /\ UNCHANGED cache /\ UNCHANGED arg
        /\ Return(t, "await", cache[HashOf[arg[t]]])
    BY <1>4 DEF Await
  <2>2. Service!Finish(t, cache[HashOf[arg[t]]])
    BY <2>1, ReturnFinishes DEF Return, Service!Finish
  <2>3. Service!Answer(t)
    BY <2>1, <2>2 DEF Cached, Service!Answer
  <2>4. QED
    BY <2>3 DEF Service!ServiceNext
<1>5. QED
  BY <1>1, <1>2, <1>3, <1>4 DEF CallContinues

\* Entering a call is asking.
LEMMA ExecuteAsks ==
    ASSUME PoolTypeOK, NEW t \in Threads, NEW g \in Graphs, Execute(t, g)
    PROVE  Service!Ask(t, g)
<1>1. /\ pc[t] = "idle"
      /\ \E to \in {"eager", "route"} : pc' = [pc EXCEPT ![t] = to]
      /\ arg' = [arg EXCEPT ![t] = g]
      /\ result' = [result EXCEPT ![t] = NoKernel]
      /\ UNCHANGED cache
  BY DEF Execute, CallStep
<1>2. {u \in Threads : pc'[u] # "idle"} = {u \in Threads : pc[u] # "idle"} \cup {t}
  BY <1>1 DEF PoolTypeOK
<1>3. QED
  BY <1>1, <1>2 DEF Service!Ask

\* The workers publish kernels, and do nothing else the service can see.
LEMMA WorkersImplement ==
    ASSUME PoolTypeOK, (\E w \in Workers : WorkerLoop(w)) \/ XtremeLoop
    PROVE  [Service!ServiceNext]_(Service!serviceVars)
<1>1. ASSUME UNCHANGED <<callVars, cache>>
      PROVE  UNCHANGED Service!serviceVars
  BY <1>1 DEF callVars, Service!serviceVars
<1>2. ASSUME NEW g \in Graphs, Outcome[g] = "kernel", UNCHANGED callVars,
             cache' = [cache EXCEPT ![HashOf[g]] = g]
      PROVE  Service!ServiceNext
  BY <1>2 DEF callVars, Service!Publish, Service!ServiceNext
<1>3. ASSUME NEW w \in Workers, WorkerLoop(w)
      PROVE  [Service!ServiceNext]_(Service!serviceVars)
  <2>1. CASE Compile(w)
    <3>1. hand[w].graph \in Graphs /\ UNCHANGED callVars
      BY <2>1, TaskFields DEF PoolTypeOK, Compile
    <3>2. CASE Outcome[hand[w].graph] = "kernel"
      BY <1>2, <2>1, <3>1, <3>2 DEF Compile
    <3>3. CASE Outcome[hand[w].graph] # "kernel"
      BY <1>1, <2>1, <3>1, <3>3 DEF Compile
    <3>4. QED
      BY <3>2, <3>3
  <2>2. QED
    BY <1>1, <1>3, <2>1 DEF WorkerLoop, PopLocal, StealFromInjector,
       StealFromPeer, InjectorIsEmpty, PeerIsEmpty, ProcessStage, ProcessAssemble
<1>4. CASE XtremeLoop
  <2>1. CASE XtremeCompile
    <3>1. xhand.graph \in Graphs /\ UNCHANGED callVars
      BY <2>1, TaskFields DEF PoolTypeOK, XtremeCompile
    <3>2. CASE Outcome[xhand.graph] = "kernel"
      BY <1>2, <2>1, <3>1, <3>2 DEF XtremeCompile
    <3>3. CASE Outcome[xhand.graph] # "kernel"
      BY <1>1, <2>1, <3>1, <3>3 DEF XtremeCompile
    <3>4. QED
      BY <3>2, <3>3
  <2>2. QED
    BY <1>1, <1>4, <2>1 DEF XtremeLoop, XtremePoll, XtremeSteal, XtremeProbe
<1>5. QED
  BY <1>3, <1>4

(***************************************************************************)
(* The pool implements the kernel service: seen from a call, there are no  *)
(* queues, no workers and no modes, only a table that fills up.            *)
(***************************************************************************)
THEOREM PoolImplementsService == Spec => ServiceImplemented
<1>1. Init => Service!ServiceInit
  <2> SUFFICES ASSUME Init PROVE Service!ServiceInit
    OBVIOUS
  <2>1. arg \in [Threads -> Graphs]
    BY TypeInit DEF PoolTypeOK
  <2>2. {t \in Threads : pc[t] # "idle"} = {}
    BY DEF Init
  <2>3. QED
    BY <2>1, <2>2 DEF Init, Service!ServiceInit
<1>2. TypeOK /\ [Next]_vars => [Service!ServiceNext]_(Service!serviceVars)
  <2> SUFFICES ASSUME TypeOK, [Next]_vars
               PROVE  [Service!ServiceNext]_(Service!serviceVars)
    OBVIOUS
  <2>0. PoolTypeOK
    BY DEF TypeOK
  <2>1. ASSUME NEW t \in Threads, NEW g \in Graphs, Execute(t, g)
        PROVE  Service!ServiceNext
    BY <2>0, <2>1, ExecuteAsks DEF Service!ServiceNext
  <2>2. CASE UNCHANGED poolVars
    BY <2>2 DEF poolVars, callVars, Service!serviceVars
  <2>3. QED
    BY <2>0, <2>1, <2>2, CallImplements, WorkersImplement
    DEF Next, SwitchMode, Interrupt, vars
<1>3. QED
  BY <1>1, <1>2, TypeCorrect, PTL
  DEF Spec, ServiceImplemented, Service!ServiceSpec

=============================================================================
