----------------------------- MODULE PoolProofs -----------------------------
(***************************************************************************)
(* Proofs about the worker pool, for any allow list, any number of edits,  *)
(* goroutines and restarts: no application has two workers that go on, and *)
(* the pool is one of the owners the processor may have, so that it keeps  *)
(* what the processor keeps.                                               *)
(***************************************************************************)
EXTENDS WorkerPool, ProcessorProofs

\* What is loaded, and what a sync has left, are applications.
ListInv ==
    /\ file \in Files
    /\ loaded \subseteq Apps
    /\ left \subseteq Apps
    /\ workers \in [Apps -> Workers \cup {NoWorker}]
    /\ pc \in [Workers -> PCs]

\* Every goroutine that has not been told to stop is the registered one of its
\* application.
RegisteredInv ==
    \A w \in Active \ ctxDone : WorkerApp[w] \in Apps /\ workers[WorkerApp[w]] = w

PoolInv == ListInv /\ RegisteredInv

-----------------------------------------------------------------------------
\* The initial state satisfies the invariant.
LEMMA PoolInitInv == PoolInit => PoolInv
  BY Zenon DEF PoolInit, WatchInit, ProcInit, PoolInv, ListInv, RegisteredInv, Active, PCs

\* A reload yields applications.
LEMMA LoadIsList ==
    ASSUME ListInv
    PROVE  Load \subseteq Apps
  BY Zenon DEF ListInv, Load, FilterAllowList, Files, Names

\* The steps of the processor keep the program counters what they are.
LEMMA PCType ==
    ASSUME pc \in [Workers -> PCs], ProcNext \/ UNCHANGED proc
    PROVE  pc' \in [Workers -> PCs]
<1> USE DEF Goto, PCs
<1>1. ASSUME NEW w \in Workers, Step(w) PROVE pc' \in [Workers -> PCs]
  BY <1>1, Zenon DEF Step, List, NextFile, Read, Commit, UploadFails, Uploaded, Reread,
              CommitInvalid, InvalidFails, InvalidUploaded, RemoveFile, Wake, Stop,
              ReturnOf
<1>2. ASSUME NEW w \in Workers, Launch(w) PROVE pc' \in [Workers -> PCs]
  BY <1>2, Zenon DEF Launch
<1>3. CASE Killed
  BY <1>3, Zenon DEF Killed
<1>4. CASE \E r \in Reports : StoreFile(r)
  BY <1>4, Zenon DEF StoreFile
<1>5. CASE \E ws \in SUBSET Workers : Interrupt(ws)
  BY <1>5, Zenon DEF Interrupt
<1>6. CASE UNCHANGED proc
  BY <1>6, Zenon DEF proc
<1> QED
  BY <1>1, <1>2, <1>3, <1>4, <1>5, <1>6, Zenon DEF ProcNext

\* A step of a worker leaves the goroutines that go on as they are.
LEMMA WorkerKeepsLive ==
    ASSUME pc \in [Workers -> PCs], NEW w \in Workers, Step(w)
    PROVE  Active' \ ctxDone' \subseteq Active \ ctxDone
<1> USE DEF Active, Goto, PCs
<1>1. CASE Stop(w)
  BY <1>1, Zenon DEF Stop
<1>2. CASE ~Stop(w)
  <2>1. ctxDone' = ctxDone
    BY <1>2, Zenon DEF Step, List, NextFile, Read, Commit, UploadFails, Uploaded, Reread,
                CommitInvalid, InvalidFails, InvalidUploaded, RemoveFile, Wake
  <2>2. pc[w] # "idle" /\ \A v \in Workers \ {w} : pc'[v] = pc[v]
    BY <1>2, Zenon DEF Step, List, NextFile, Read, Commit, UploadFails, Uploaded, Reread,
                CommitInvalid, InvalidFails, InvalidUploaded, RemoveFile, Wake
  <2> QED
    BY <2>1, <2>2, Zenon
<1> QED
  BY <1>1, <1>2, Zenon

\* Every step of the pool is a step of the processor, or leaves it alone.
LEMMA PoolStepsProc ==
    ASSUME ListInv, [PoolNext]_poolVars
    PROVE  [ProcNext]_proc
<1>1. CASE Cancel \/ SelectClosed
  <2>1. Interrupt(Workers)
    BY <1>1, Zenon DEF Cancel, SelectClosed
  <2> QED
    BY <2>1, Zenon DEF ProcNext
<1>2. CASE SyncStop
  <2>1. \/ UNCHANGED proc
        \/ \E a \in left : Interrupt({workers[a]})
    BY <1>2, Zenon DEF SyncStop
  <2>2. ASSUME NEW a \in left, Interrupt({workers[a]}) PROVE ProcNext
    <3>1. {workers[a]} \cap Active \subseteq Workers
      BY Zenon DEF Active
    <3>2. Interrupt({workers[a]} \cap Active)
      BY <2>2, Zenon DEF Interrupt
    <3> QED
      BY <3>1, <3>2, Zenon DEF ProcNext
  <2> QED
    BY <2>1, <2>2, Zenon
<1>3. CASE SyncStart
  BY <1>3, Zenon DEF SyncStart, ProcNext
<1>4. CASE Crash
  BY <1>4, Zenon DEF Crash, ProcNext
<1>5. CASE \E w \in Workers : Worker(w)
  BY <1>5, Zenon DEF Worker, ProcNext
<1>6. CASE \E r \in Reports : StoreFile(r)
  BY <1>6, Zenon DEF ProcNext
<1>7. CASE UNCHANGED poolVars
  BY <1>7, Zenon DEF poolVars, proc
<1>8. CASE \/ Watcher \/ Begin \/ Watching \/ SyncList \/ Synced \/ SelectDone
           \/ SelectChange \/ SelectTimer \/ SelectErr \/ Waited \/ TimerFires
           \/ (WatchEnv /\ UNCHANGED <<proc, pool>>)
  BY <1>8, Zenon DEF Watcher, Begin, Watching, SyncList, Synced, SelectDone, SelectChange,
              SelectTimer, SelectErr, Waited, TimerFires
<1> QED
  BY <1>1, <1>2, <1>3, <1>4, <1>5, <1>6, <1>7, <1>8, Zenon DEF PoolNext, Run, PoolEnv

-----------------------------------------------------------------------------
\* The watcher and the edits leave lists of applications.
LEMMA WatchStep ==
    ASSUME ListInv, \/ WatchEnv \/ HandleEvent \/ WatcherStops(canceled)
                    \/ WatcherCloses \/ AddWatch \/ StartWatch \/ TakeChange
                    \/ TakeErr \/ UNCHANGED watch
    PROVE  file' \in Files /\ loaded' \subseteq Apps
  BY LoadIsList, Zenon
     DEF ListInv, WatchEnv, Edit, Overflow, WatcherDies, HandleEvent, WatcherStops,
         WatcherCloses, AddWatch, StartWatch, TakeChange, TakeErr, watch

\* Every step keeps lists of applications.
LEMMA ListStep ==
    ASSUME ListInv, [PoolNext]_poolVars
    PROVE  ListInv'
<1>1. pc' \in [Workers -> PCs]
  BY PoolStepsProc, PCType, Zenon DEF ListInv
<1>2. /\ file' \in Files /\ loaded' \subseteq Apps
  <2>1. CASE Crash
    BY <2>1, Zenon DEF Crash, ListInv
  <2>2. CASE ~Crash
    <3>1. \/ WatchEnv \/ HandleEvent \/ WatcherStops(canceled)
          \/ WatcherCloses \/ AddWatch \/ StartWatch \/ TakeChange
          \/ TakeErr \/ UNCHANGED watch
      BY <2>2, Zenon DEF PoolNext, Run, PoolEnv, Watcher, Worker, Begin, Watching, SyncStop,
                  SyncList, SyncStart, Synced, SelectDone, SelectChange, SelectTimer,
                  SelectErr, SelectClosed, Waited, TimerFires, Cancel, AddWatchFails, poolVars
    <3> QED
      BY <3>1, WatchStep, Zenon
  <2> QED
    BY <2>1, <2>2, Zenon
<1>3. /\ left' \subseteq Apps
      /\ workers' \in [Apps -> Workers \cup {NoWorker}]
  <2>1. CASE Crash
    BY <2>1, Zenon DEF Crash
  <2>2. CASE SyncStop \/ SyncStart \/ SyncList
    BY <2>2, Zenon DEF SyncStop, SyncStart, SyncList, ListInv
  <2>3. CASE Watching \/ SelectTimer
    BY <2>3, Zenon DEF Watching, SelectTimer, SyncApps, ListInv
  <2>4. CASE UNCHANGED <<workers, left>>
    BY <2>4, Zenon DEF ListInv
  <2>5. Crash \/ SyncStop \/ SyncStart \/ SyncList \/ Watching \/ SelectTimer
           \/ UNCHANGED <<workers, left>>
    BY Zenon DEF PoolNext, Run, PoolEnv, Watcher, Worker, Begin, Synced, SelectDone,
           SelectChange, SelectErr, SelectClosed, Waited, TimerFires, Cancel,
           poolVars, pool
  <2> QED
    BY <2>1, <2>2, <2>3, <2>4, <2>5, Zenon
<1> QED
  BY <1>1, <1>2, <1>3, Zenon DEF ListInv

\* Nobody becomes a goroutine that goes on without being registered, and nobody
\* is taken from the register without being told to stop.
LEMMA RegisteredStep ==
    ASSUME ListInv, RegisteredInv, [PoolNext]_poolVars
    PROVE  RegisteredInv'
<1>1. ASSUME workers' = workers, Active' \ ctxDone' \subseteq Active \ ctxDone
      PROVE  RegisteredInv'
  BY <1>1, Zenon DEF RegisteredInv
<1>2. CASE \E w \in Workers : Worker(w)
  BY <1>1, <1>2, WorkerKeepsLive, Zenon DEF Worker, pool, ListInv
<1>3. CASE Cancel \/ SelectClosed
  BY <1>1, <1>3, Zenon DEF Cancel, SelectClosed, Interrupt, Active
<1>4. CASE Crash
  BY <1>4, Zenon DEF Crash, Killed, RegisteredInv, Active
<1>5. CASE SyncStop
  <2>1. PICK a \in left :
          IF IsAllowed(a) THEN UNCHANGED <<workers, proc>>
          ELSE /\ Interrupt({workers[a]})
               /\ workers' = [workers EXCEPT ![a] = NoWorker]
    BY <1>5, Zenon DEF SyncStop
  <2>2. CASE IsAllowed(a)
    BY <1>1, <2>1, <2>2, Zenon DEF proc, Active
  <2>3. CASE ~IsAllowed(a)
    <3>1. /\ pc' = pc /\ ctxDone' = ctxDone \cup ({workers[a]} \cap Active)
          /\ workers' = [workers EXCEPT ![a] = NoWorker]
      BY <2>1, <2>3, Zenon DEF Interrupt
    <3>2. ASSUME NEW w \in Active' \ ctxDone'
          PROVE  WorkerApp[w] \in Apps /\ workers'[WorkerApp[w]] = w
      <4>1. w \in Active \ ctxDone /\ w # workers[a]
        BY <3>1, Zenon DEF Active
      <4>2. WorkerApp[w] \in Apps /\ workers[WorkerApp[w]] = w
        BY <4>1, Zenon DEF RegisteredInv
      <4> QED
        BY <3>1, <4>1, <4>2, Zenon DEF ListInv
    <3> QED
      BY <3>2, Zenon DEF RegisteredInv
  <2> QED
    BY <2>2, <2>3, Zenon
<1>6. CASE SyncStart
  <2>1. CASE UNCHANGED <<proc, workers>>
    BY <1>1, <2>1, Zenon DEF proc, Active
  <2>2. CASE ~UNCHANGED <<proc, workers>>
    <3>1. PICK a \in left, w \in Workers :
            /\ workers[a] = NoWorker /\ WorkerApp[w] = a
            /\ Launch(w) /\ workers' = [workers EXCEPT ![a] = w]
      BY <1>6, <2>2, Zenon DEF SyncStart
    <3>2. /\ a \in Apps /\ ctxDone' = ctxDone
          /\ \A v \in Workers \ {w} : pc'[v] = pc[v]
      BY <3>1, Zenon DEF Launch, Goto, ListInv
    <3>3. ASSUME NEW v \in Active' \ ctxDone'
          PROVE  WorkerApp[v] \in Apps /\ workers'[WorkerApp[v]] = v
      <4>1. CASE v = w
        BY <3>1, <3>2, <4>1, Zenon DEF ListInv
      <4>2. CASE v # w
        <5>1. v \in Workers /\ v \in Active \ ctxDone
          BY <3>2, <4>2, Zenon DEF Active
        <5>2. WorkerApp[v] \in Apps /\ workers[WorkerApp[v]] = v
          BY <5>1, Zenon DEF RegisteredInv
        <5>3. WorkerApp[v] # a
          BY <3>1, <5>1, <5>2, PoolAssumption, Zenon
        <5> QED
          BY <3>1, <3>2, <5>2, <5>3, Zenon DEF ListInv
      <4> QED
        BY <4>1, <4>2, Zenon
    <3> QED
      BY <3>3, Zenon DEF RegisteredInv
  <2> QED
    BY <2>1, <2>2, Zenon
<1>7. CASE UNCHANGED <<pc, ctxDone, workers>>
  BY <1>1, <1>7, Zenon DEF Active
<1>8. \/ \E w \in Workers : Worker(w)
      \/ Cancel \/ SelectClosed \/ Crash \/ SyncStop \/ SyncStart
      \/ UNCHANGED <<pc, ctxDone, workers>>
  BY Zenon DEF PoolNext, Run, PoolEnv, Watcher, Begin, Watching, SyncList, Synced, SelectDone,
         SelectChange, SelectTimer, SelectErr, Waited, TimerFires, StoreFile, poolVars,
         pool, proc
<1> QED
  BY <1>2, <1>3, <1>4, <1>5, <1>6, <1>7, <1>8, Zenon

\* The invariant is inductive.
LEMMA PoolStepInv == PoolInv /\ [PoolNext]_poolVars => PoolInv'
  BY ListStep, RegisteredStep, Zenon DEF PoolInv

-----------------------------------------------------------------------------
\* No application has two goroutines that go on, however often the list changes
\* while syncWorkers runs, and whatever is canceled or killed
\* (workers.go:117-155).
THEOREM OneWorkerPerApplication == PoolSpec => []OneLiveWorker
<1>1. PoolInv => OneLiveWorker
  BY Zenon DEF PoolInv, RegisteredInv, OneLiveWorker
<1> QED
  BY <1>1, PoolInitInv, PoolStepInv, PTL DEF PoolSpec

\* Everything the pool does to the processor is what any owner may do
\* (workers.go:86-155).
THEOREM PoolRunsProcessor == PoolSpec => ProcSpec
<1>1. PoolInit => ProcInit
  BY Zenon DEF PoolInit
<1>2. PoolInv /\ [PoolNext]_poolVars => [ProcNext]_proc
  BY PoolStepsProc, Zenon DEF PoolInv
<1> QED
  BY <1>1, <1>2, PoolInitInv, PoolStepInv, PTL DEF PoolSpec, ProcSpec

\* The pool drops no report either (processor.go:220-261, workers.go:86-155).
THEOREM PoolRecordsEverything == PoolSpec => []NothingDropped
  BY PoolRunsProcessor, RecordsEverything, PTL

-----------------------------------------------------------------------------
\* The variables of the watcher keep their types, also when the process starts
\* again.
LEMMA WatchTypeStep ==
    ASSUME WatchTypeOK,
           \/ WatchEnv \/ HandleEvent \/ WatcherStops(canceled)
           \/ WatcherCloses \/ AddWatch \/ StartWatch \/ TakeChange
           \/ TakeErr \/ Crash \/ UNCHANGED watch
    PROVE  WatchTypeOK'
<1> DEFINE Rest == /\ file \in Files
                   /\ loaded \in SUBSET (Names \ Reserved)
                   /\ events \in 0 .. MaxEvents
                   /\ watcher \in {"off", "added", "on", "closing", "closed"}
                   /\ changes \in 0 .. 1
                   /\ errs \in 0 .. 1
                   /\ edits \in 0 .. MaxEdits
<1>1. Rest
  BY Zenon DEF WatchTypeOK
<1>2. Load \subseteq Names \ Reserved
  BY <1>1, Zenon DEF Load, FilterAllowList, Files
<1>3. Rest'
  <2>1. CASE Edit \/ Overflow \/ WatcherDies
    BY <1>1, <2>1, WatchAssumption DEF Edit, Overflow, WatcherDies
  <2>2. CASE HandleEvent \/ StartWatch
    BY <1>1, <1>2, <2>2, WatchAssumption DEF HandleEvent, StartWatch
  <2>3. CASE WatcherStops(canceled) \/ WatcherCloses \/ AddWatch \/ TakeChange \/ TakeErr
    BY <1>1, <2>3 DEF WatcherStops, WatcherCloses, AddWatch, TakeChange, TakeErr
  <2>4. CASE Crash
    BY <1>1, <2>4, WatchAssumption DEF Crash
  <2>5. CASE UNCHANGED watch
    BY <1>1, <2>5, Zenon DEF watch
  <2> QED
    BY <2>1, <2>2, <2>3, <2>4, <2>5, Zenon DEF WatchEnv
<1>4. lost' \in BOOLEAN
  <2>1. lost \in BOOLEAN
    BY Zenon DEF WatchTypeOK
  <2>2. CASE HandleEvent
    BY <2>2, Zenon DEF HandleEvent
  <2>3. CASE Overflow \/ Crash
    BY <2>3, Zenon DEF Overflow, Crash
  <2>4. CASE UNCHANGED lost
    BY <2>1, <2>4, Zenon
  <2>5. HandleEvent \/ Overflow \/ Crash \/ UNCHANGED lost
    BY Zenon DEF WatchEnv, Edit, WatcherDies, WatcherStops, WatcherCloses, AddWatch,
           StartWatch, TakeChange, TakeErr, watch
  <2> QED
    BY <2>2, <2>3, <2>4, <2>5, Zenon
<1> QED
  BY <1>3, <1>4, Zenon DEF WatchTypeOK

\* Where Run and its timer are.
RunInv ==
    /\ run \in RunPCs
    /\ timer \in {"none", "armed", "fired", "off"}
    /\ crashes \in 0 .. MaxCrashes

LEMMA RunStep == RunInv /\ [PoolNext]_poolVars => RunInv'
<1> SUFFICES ASSUME RunInv, [PoolNext]_poolVars PROVE RunInv'
  OBVIOUS
<1> USE PoolAssumption DEF RunInv, RunPCs
<1>1. CASE Run
  BY <1>1, Zenon DEF Run, Begin, Watching, SyncStop, SyncList, SyncStart, Synced, SelectDone,
              SelectChange, SelectTimer, SelectErr, SelectClosed, Waited, pool
<1>2. CASE TimerFires \/ Cancel \/ Crash
  BY <1>2 DEF TimerFires, Cancel, Crash
<1>3. CASE UNCHANGED pool
  BY <1>3, Zenon DEF pool
<1>4. Run \/ TimerFires \/ Cancel \/ Crash \/ UNCHANGED pool
  BY Zenon DEF PoolNext, PoolEnv, Watcher, Worker, poolVars
<1> QED
  BY <1>1, <1>2, <1>3, <1>4, Zenon

\* The variables of the pool keep their types: the register holds workers of
\* applications only, what a sync has left are names of the list, and the watcher
\* never hands over a reserved name (workers.go:117-155, config.go:177-187).
THEOREM PoolTypes == PoolSpec => []PoolTypeOK
<1> DEFINE Inv == WatchTypeOK /\ RunInv /\ canceled \in BOOLEAN /\ PoolInv
<1>1. PoolInit => Inv
  <2> SUFFICES ASSUME PoolInit PROVE Inv
    OBVIOUS
  <2>1. lost = FALSE /\ canceled = FALSE
    BY Zenon DEF PoolInit, WatchInit
  <2>2. RunInv
    BY PoolAssumption DEF PoolInit, RunInv, RunPCs
  <2>3. /\ file \in Files /\ loaded = {} /\ events = 0 /\ watcher = "off"
        /\ changes = 0 /\ errs = 0 /\ edits = 0
    BY Zenon DEF PoolInit, WatchInit
  <2>4. 0 \in 0 .. MaxEvents /\ 0 \in 0 .. MaxEdits /\ 0 \in 0 .. 1
    BY WatchAssumption
  <2>5. WatchTypeOK
    BY <2>1, <2>3, <2>4, Zenon DEF WatchTypeOK
  <2> QED
    BY <2>1, <2>2, <2>5, PoolInitInv, Zenon
<1>2. Inv /\ [PoolNext]_poolVars => Inv'
  <2> SUFFICES ASSUME Inv, [PoolNext]_poolVars PROVE Inv'
    OBVIOUS
  <2>1. \/ WatchEnv \/ HandleEvent \/ WatcherStops(canceled)
        \/ WatcherCloses \/ AddWatch \/ StartWatch \/ TakeChange
        \/ TakeErr \/ Crash \/ UNCHANGED watch
    BY Zenon DEF PoolNext, Run, PoolEnv, Watcher, Worker, Begin, Watching, SyncStop,
           SyncList, SyncStart, Synced, SelectDone, SelectChange, SelectTimer,
           SelectErr, SelectClosed, Waited, TimerFires, Cancel, AddWatchFails, poolVars
  <2>2. canceled' \in {canceled, TRUE, FALSE}
    BY Zenon DEF PoolNext, Run, PoolEnv, Watcher, Worker, Begin, Watching, SyncStop,
           SyncList, SyncStart, Synced, SelectDone, SelectChange, SelectTimer,
           SelectErr, SelectClosed, Waited, TimerFires, Cancel, Crash, poolVars, pool
  <2>3. canceled' \in BOOLEAN
    BY <2>2, Zenon
  <2> QED
    BY <2>1, <2>3, WatchTypeStep, RunStep, PoolStepInv, Zenon
<1>3. Inv /\ ProcTypeOK => PoolTypeOK
  BY Zenon DEF PoolTypeOK, PoolInv, ListInv, RunInv, Names
<1> QED
  BY <1>1, <1>2, <1>3, PoolRunsProcessor, ProcessorTypes, PTL DEF PoolSpec

=============================================================================
