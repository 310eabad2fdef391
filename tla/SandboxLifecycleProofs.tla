----------------------- MODULE SandboxLifecycleProofs -----------------------
(***************************************************************************)
(* The processes around the lease row, for any number of turns, viewers,   *)
(* Channel-A requests, boxes and writes, and any set of faults.            *)
(*                                                                         *)
(* The inductive invariant is LifeInv.  "A working turn pins its lease" is *)
(* not inductive alone: a reap that judges holder rows must not take a     *)
(* turn's, so a turn keeps its row from the acquire to the release         *)
(* (TurnsKeepTheirRow); a rival commit must not move the epoch under it,   *)
(* so the counts of a warm row are exact and it never goes back to warming *)
(* while held (LeaseInv); and what a process read before an await is never *)
(* newer than the row (EpochsRead), nor holds writes to come               *)
(* (ArchivesSoFar).                                                        *)
(***************************************************************************)
EXTENDS SandboxLifecycle, SandboxLeaseProofs

\* An archive or none.
Stored == Archives \cup {NoArchive}

\* What a process, a capture and the reaper remember.
MemoryTypes ==
  /\ env \in [Holders -> [box : Boxes \cup {NoBox}, arch : Stored, prev : Stored]]
  /\ cap \in [TurnHolders -> {NoCap} \cup [arch : Archives, epoch : Nat]]
  /\ reaper \in [pc : {"idle", "check", "capture", "persist", "delete", "confirm"},
                 epoch : Nat, box : Boxes \cup {NoBox}, arch : Stored]
  /\ reaper.pc = "persist" => reaper.arch \in Archives
  /\ orphan \in [pc : {"idle", "kill"}, known : BOOLEAN, box : Boxes \cup {NoBox}, old : SUBSET Boxes]

\* The archive a, if there is one, holds only writes that have happened.
SoFar(a) == a # NoArchive => a.has \subseteq 1 .. now

\* No archive, stored or remembered, holds a write that has not happened.
ArchivesSoFar ==
  /\ SoFar(lease.arch) /\ SoFar(lease.prev) /\ SoFar(reaper.arch)
  /\ \A w \in Holders : SoFar(env[w].arch) /\ SoFar(env[w].prev)
  /\ \A t \in TurnHolders : SoFar(cap[t].arch)

\* An epoch read earlier is at most the row's: lease_epoch never falls.
EpochsRead ==
  /\ \A w \in Holders : at[w] <= lease.epoch
  /\ \A t \in TurnHolders : cap[t].epoch <= lease.epoch
  /\ reaper.epoch <= lease.epoch

\* A spawner past its create has a handle on a box.
SpawnersHaveABox ==
  \A w \in Holders : pc[w] \in {"record", "rerecord", "hydrate", "commit"} => mine[w] \in Boxes

\* A turn has a holder row from its acquire to its release: turns heartbeat, so the
\* sweep takes the row of a dead turn only.
TurnsKeepTheirRow ==
  \A t \in TurnHolders : pc[t] \notin {"idle", "dead"} => t \in holders

\* The inductive invariant.
LifeInv ==
  /\ LeaseInv /\ LTypeOK /\ MemoryTypes /\ ArchivesSoFar /\ EpochsRead
  /\ SpawnersHaveABox /\ TurnsKeepTheirRow /\ IdleHoldsNothing /\ TurnPinsLease

-----------------------------------------------------------------------------
\* The steps of a process that leave the database alone.
LocalStep(w) ==
  \/ AcquireConflict(w)
  \/ CreateBox(w) \/ RecordMisses(w) \/ HydrateWorkspace(w) \/ CommitMisses(w) \/ UndoSpawn(w)
  \/ SpawnFails(w) \/ StopFailedSpawn(w) \/ WaitForWarm(w) \/ ReadEnvelope(w) \/ ResumeById(w)
  \/ RestoreRival(w) \/ AttachFails(w) \/ WriteFile(w) \/ Finish(w) \/ Crash(w) \/ Reincarnate(w)

\* They leave the lease and its holder rows as they are.
LEMMA LocalStepsKeepRow ==
  ASSUME NEW w \in Holders, LocalStep(w) PROVE UNCHANGED leaseVars
<1>1. CASE \/ AcquireConflict(w) \/ CreateBox(w) \/ RecordMisses(w) \/ HydrateWorkspace(w)
           \/ CommitMisses(w) \/ UndoSpawn(w) \/ SpawnFails(w) \/ StopFailedSpawn(w)
  BY <1>1 DEF AcquireConflict, AcquireRefused, CreateBox, RecordMisses, HydrateWorkspace,
              CommitMisses, UndoSpawn, SpawnFails, StopFailedSpawn
<1>2. CASE \/ WaitForWarm(w) \/ ReadEnvelope(w) \/ ResumeById(w) \/ RestoreRival(w) \/ AttachFails(w)
           \/ WriteFile(w) \/ Finish(w) \/ Crash(w) \/ Reincarnate(w)
  BY <1>2 DEF WaitForWarm, ReadEnvelope, ResumeById, RestoreRival, AttachFails, WriteFile, Finish,
              Crash, Reincarnate
<1> QED  BY <1>1, <1>2 DEF LocalStep

\* A process changes its own entries of pc, at, env and mine and no other.
LEMMA OthersStayPut ==
  ASSUME LTypeOK, MemoryTypes, NEW w \in Holders, Process(w), NEW v \in Holders, v # w
  PROVE  pc'[v] = pc[v] /\ at'[v] = at[v] /\ env'[v] = env[v] /\ mine'[v] = mine[v]
<1>t. /\ pc \in [Holders -> PCs] /\ at \in [Holders -> Nat] /\ mine \in [Holders -> Boxes \cup {NoBox}]
      /\ env \in [Holders -> [box : Boxes \cup {NoBox}, arch : Stored, prev : Stored]]
  BY DEF LTypeOK, MemoryTypes
<1>1. CASE AcquireAsSpawner(w) \/ AcquireLive(w) \/ AcquireConflict(w)
  BY <1>1, <1>t DEF AcquireAsSpawner, AcquireLive, AcquireConflict, Goto, lifeVars
<1>2. CASE CreateBox(w) \/ RecordBox(w) \/ RecordMisses(w) \/ HydrateWorkspace(w)
  BY <1>2, <1>t DEF CreateBox, RecordBox, RecordMisses, HydrateWorkspace, Goto
<1>3. CASE CommitBox(w) \/ CommitMisses(w) \/ UndoSpawn(w) \/ SpawnFails(w)
  BY <1>3, <1>t DEF CommitBox, CommitMisses, UndoSpawn, SpawnFails, Goto
<1>4. CASE StopFailedSpawn(w) \/ Rollback(w) \/ Release(w)
  BY <1>4, <1>t DEF StopFailedSpawn, Rollback, Release, Goto
<1>5. CASE \/ WaitForWarm(w) \/ ReadEnvelope(w) \/ ResumeById(w) \/ RestoreRival(w) \/ AttachFails(w)
  BY <1>5, <1>t DEF WaitForWarm, ReadEnvelope, ResumeById, RestoreRival, AttachFails, Goto
<1>6. CASE WriteFile(w) \/ Heartbeat(w) \/ Finish(w) \/ Crash(w) \/ Reincarnate(w)
  BY <1>6, <1>t DEF WriteFile, Heartbeat, Finish, Crash, Reincarnate, Goto, procVars, lifeVars
<1> QED  BY <1>1, <1>2, <1>3, <1>4, <1>5, <1>6 DEF Process

\* Whatever a process, the reaper or the clock does to the database is one of the
\* lease's operations, called with an epoch and archives somebody read.
LEMMA StepIsLeaseStep ==
  ASSUME LifeInv, [LNext]_vars PROVE [Next]_leaseVars
<1>t. /\ lease \in LeaseRows /\ lease.epoch \in Nat
      /\ \A w \in Holders : at[w] \in Epochs
      /\ \A t \in TurnHolders : cap[t].epoch \in Epochs /\ (cap[t] # NoCap => cap[t].arch \in Archives)
      /\ reaper.epoch \in Epochs
  <2>1. lease \in LeaseRows /\ lease.epoch \in Nat  BY DEF LifeInv, LTypeOK, TypeOK, LeaseRows
  <2>2. \A w \in Holders : at[w] \in Nat /\ at[w] <= lease.epoch
    BY DEF LifeInv, LTypeOK, EpochsRead
  <2>3. \A t \in TurnHolders : cap[t].epoch \in Nat /\ cap[t].epoch <= lease.epoch
                              /\ (cap[t] # NoCap => cap[t].arch \in Archives)
    BY DEF LifeInv, MemoryTypes, EpochsRead, NoCap
  <2>4. reaper.epoch \in Nat /\ reaper.epoch <= lease.epoch
    BY DEF LifeInv, MemoryTypes, EpochsRead
  <2> QED  BY <2>1, <2>2, <2>3, <2>4 DEF Epochs
<1>1. ASSUME NEW w \in Holders, Process(w) PROVE [Next]_leaseVars
  <2>0. at[w] \in Epochs /\ BuildOf[w] \in Builds \cup {NoBuild}  BY <1>t, ProcessAssumption
  <2>1. CASE LocalStep(w)  BY <2>1, LocalStepsKeepRow
  <2>2. CASE AcquireAsSpawner(w) \/ AcquireLive(w)
    BY <2>0, <2>2 DEF AcquireAsSpawner, AcquireLive, AcquireLease, Next
  <2>3. CASE RecordBox(w)
    <3>1. mine[w] \in Boxes /\ env[w].arch \in Archives \cup {NoArchive}
      BY <2>3 DEF RecordBox, Recording, LifeInv, SpawnersHaveABox, MemoryTypes, Stored
    <3> QED  BY <2>0, <2>3, <3>1 DEF RecordBox, Next
  <2>4. CASE CommitBox(w)
    <3>1. mine[w] \in Boxes  BY <2>4 DEF CommitBox, LifeInv, SpawnersHaveABox
    <3> QED  BY <2>0, <2>4, <3>1 DEF CommitBox, Next
  <2>5. CASE Rollback(w)  BY <2>0, <2>5 DEF Rollback, Next
  <2>6. CASE Release(w)  BY <2>6 DEF Release, Next
  <2>7. CASE Heartbeat(w)  BY <2>0, <2>7 DEF Heartbeat, Next
  <2> QED  BY <1>1, <2>1, <2>2, <2>3, <2>4, <2>5, <2>6, <2>7 DEF Process, LocalStep
<1>2. ASSUME NEW t \in TurnHolders, StartCapture(t) \/ EndCapture(t) PROVE [Next]_leaseVars
  BY <1>2, <1>t DEF StartCapture, EndCapture, Next
<1>3. CASE Reaper
  <2>1. CASE \E stale \in SUBSET holders : Sweep(stale)  BY <2>1 DEF Sweep, Next
  <2>2. CASE OverLimit  BY <2>2 DEF OverLimit, Next
  <2>3. CASE PersistDrain
    <3>1. [reaper.arch EXCEPT !.at = now] \in Archives
      <4>1. reaper.arch \in Archives /\ now \in 0 .. MaxWrites
        BY <2>3 DEF PersistDrain, LifeInv, LTypeOK, MemoryTypes
      <4> QED  BY <4>1, CaptureAssumption
    <3> QED  BY <1>t, <2>3, <3>1 DEF PersistDrain, Next
  <2>4. CASE ConfirmDrain  BY <1>t, <2>4 DEF ConfirmDrain, Next
  <2>5. CASE CheckDrain \/ CaptureDrain \/ DeleteDrained \/ ReaperCrash
    BY <2>5 DEF CheckDrain, CaptureDrain, DeleteDrained, ReaperCrash
  <2>6. CASE ReadLiveLeases \/ (\E b \in Boxes : KillOrphan(b)) \/ EndOrphanSweep
    BY <2>6 DEF ReadLiveLeases, KillOrphan, EndOrphanSweep
  <2> QED  BY <1>3, <2>1, <2>2, <2>3, <2>4, <2>5, <2>6 DEF Reaper
<1>4. CASE LeaseExpires  BY <1>4 DEF LeaseExpires, Next
<1>5. CASE \E b \in Boxes : BoxDies(b)  BY <1>5 DEF BoxDies
<1>6. CASE UNCHANGED vars  BY <1>6 DEF vars, leaseVars
<1> QED  BY <1>1, <1>2, <1>3, <1>4, <1>5, <1>6 DEF LNext

-----------------------------------------------------------------------------
(* What a step leaves typed *)

\* An archive of what a running box holds now is an archive of the model.
LEMMA CaptureIsArchive ==
  ASSUME LTypeOK, NEW b \in live
  PROVE  /\ [at |-> now, has |-> files[b]] \in Archives
         /\ files[b] \subseteq 1 .. now
<1>1. now \in 0 .. MaxWrites /\ files[b] \subseteq 1 .. now  BY DEF LTypeOK
<1>2. files[b] \in SUBSET (1 .. MaxWrites)  BY <1>1, EnvironmentAssumption
<1> QED  BY <1>1, <1>2, CaptureAssumption

\* pc, at, env and mine of the process that moves.
LEMMA ProcessTypes ==
  ASSUME LifeInv, NEW w \in Holders, Process(w)
  PROVE  /\ pc' \in [Holders -> PCs] /\ at' \in [Holders -> Nat]
         /\ mine' \in [Holders -> Boxes \cup {NoBox}]
         /\ env' \in [Holders -> [box : Boxes \cup {NoBox}, arch : Stored, prev : Stored]]
         /\ pc'[w] \in {"record", "rerecord", "hydrate", "commit"} => mine'[w] \in Boxes
<1> DEFINE Envs == [box : Boxes \cup {NoBox}, arch : Stored, prev : Stored]
<1>t. /\ pc \in [Holders -> PCs] /\ at \in [Holders -> Nat] /\ mine \in [Holders -> Boxes \cup {NoBox}]
      /\ env \in [Holders -> Envs] /\ lease.epoch \in Nat /\ live \subseteq Boxes
      /\ pc[w] \in {"record", "rerecord", "hydrate", "commit"} => mine[w] \in Boxes
  BY DEF LifeInv, LTypeOK, TypeOK, LeaseRows, MemoryTypes, SpawnersHaveABox
<1>e. NoEnv \in Envs /\ FreshBoxes \subseteq Boxes
  BY DEF NoEnv, FreshBoxes, Stored
<1>r. ASSUME NEW row \in LeaseRows PROVE Envelope(row) \in Envs
  BY <1>r DEF Envelope, LeaseRows, Stored
<1> SUFFICES /\ pc' \in [Holders -> PCs] /\ at' \in [Holders -> Nat]
             /\ mine' \in [Holders -> Boxes \cup {NoBox}] /\ env' \in [Holders -> Envs]
             /\ pc'[w] \in {"record", "rerecord", "hydrate", "commit"} => mine'[w] \in Boxes
  OBVIOUS
<1> HIDE DEF Envs
<1>1. CASE AcquireAsSpawner(w)
  <2>1. Envelope(AfterConflict(w, BuildOf[w])) \in Envs
    BY <1>r, AfterConflictEffect DEF LifeInv, LTypeOK, TypeOK
  <2> QED  BY <1>1, <1>t, <2>1 DEF AcquireAsSpawner, Goto, PCs
<1>2. CASE AcquireLive(w) \/ AcquireConflict(w)
  BY <1>2, <1>t DEF AcquireLive, AcquireConflict, AttachedPc, Goto, PCs, lifeVars
<1>3. CASE CreateBox(w) \/ HydrateWorkspace(w)
  <2>1. PICK b \in Boxes : mine' = [mine EXCEPT ![w] = b]
    BY <1>3, <1>e DEF CreateBox, HydrateWorkspace
  <2> QED  BY <1>3, <1>t, <2>1 DEF CreateBox, HydrateWorkspace, AfterCreate, Goto, PCs
<1>4. CASE RecordBox(w) \/ RecordMisses(w)
  BY <1>4, <1>t DEF RecordBox, RecordMisses, Recording, Goto, PCs
<1>5. CASE CommitBox(w)
  BY <1>5, <1>t DEF CommitBox, Goto, PCs
<1>6. CASE CommitMisses(w) \/ UndoSpawn(w) \/ SpawnFails(w) \/ StopFailedSpawn(w) \/ Rollback(w)
  BY <1>6, <1>t DEF CommitMisses, UndoSpawn, SpawnFails, StopFailedSpawn, Rollback, Goto, PCs
<1>7. CASE Release(w) \/ Crash(w)
  BY <1>7, <1>t, <1>e DEF Release, Crash, Goto, PCs
<1>8. CASE ReadEnvelope(w)
  <2>1. Envelope(lease) \in Envs  BY <1>r DEF LifeInv, LTypeOK, TypeOK
  <2> QED  BY <1>8, <1>t, <2>1 DEF ReadEnvelope, Goto, PCs
<1>9. CASE ResumeById(w)
  BY <1>9, <1>t DEF ResumeById, Goto, PCs
<1>10. CASE RestoreRival(w)
  <2>1. PICK b \in Boxes : mine' = [mine EXCEPT ![w] = b]  BY <1>10, <1>e DEF RestoreRival
  <2> QED  BY <1>10, <1>t, <2>1 DEF RestoreRival, Goto, PCs
<1>11. CASE WaitForWarm(w) \/ AttachFails(w) \/ Finish(w) \/ Reincarnate(w)
  BY <1>11, <1>t DEF WaitForWarm, AttachFails, Finish, Reincarnate, Goto, PCs
<1>12. CASE WriteFile(w) \/ Heartbeat(w)
  BY <1>12, <1>t DEF WriteFile, Heartbeat, procVars, lifeVars
<1> QED
  BY <1>1, <1>2, <1>3, <1>4, <1>5, <1>6, <1>7, <1>8, <1>9, <1>10, <1>11, <1>12 DEF Process

\* Only a process moves pc, at, env and mine.
LEMMA OnlyProcessesMove ==
  ASSUME [LNext]_vars, \A w \in Holders : ~ Process(w) PROVE UNCHANGED procVars
<1>1. CASE \E t \in TurnHolders : StartCapture(t) \/ EndCapture(t)
  BY <1>1 DEF StartCapture, EndCapture
<1>2. CASE Reaper
  BY <1>2 DEF Reaper, Sweep, OverLimit, CheckDrain, CaptureDrain, PersistDrain, DeleteDrained,
              ConfirmDrain, ReaperCrash, ReadLiveLeases, KillOrphan, EndOrphanSweep, lifeVars, procVars
<1>3. CASE LeaseExpires \/ (\E b \in Boxes : BoxDies(b)) \/ UNCHANGED vars
  BY <1>3 DEF LeaseExpires, BoxDies, lifeVars, procVars, vars
<1> QED  BY <1>1, <1>2, <1>3 DEF LNext

\* Only a process, the reaper's sweep and a capture's end matter to cap; only the
\* reaper activity moves reaper and orphan.
LEMMA ActivityTypes ==
  ASSUME LifeInv, [LNext]_vars
  PROVE  /\ cap' \in [TurnHolders -> {NoCap} \cup [arch : Archives, epoch : Nat]]
         /\ reaper' \in [pc : {"idle", "check", "capture", "persist", "delete", "confirm"},
                         epoch : Nat, box : Boxes \cup {NoBox}, arch : Stored]
         /\ reaper'.pc = "persist" => reaper'.arch \in Archives
         /\ orphan' \in [pc : {"idle", "kill"}, known : BOOLEAN, box : Boxes \cup {NoBox},
                         old : SUBSET Boxes]
<1> DEFINE Caps == {NoCap} \cup [arch : Archives, epoch : Nat]
           Drains == [pc : {"idle", "check", "capture", "persist", "delete", "confirm"},
                      epoch : Nat, box : Boxes \cup {NoBox}, arch : Stored]
           Sweeps == [pc : {"idle", "kill"}, known : BOOLEAN, box : Boxes \cup {NoBox}, old : SUBSET Boxes]
<1>t. /\ cap \in [TurnHolders -> Caps] /\ reaper \in Drains /\ orphan \in Sweeps
      /\ reaper.pc = "persist" => reaper.arch \in Archives
  BY DEF LifeInv, MemoryTypes
<1>l. /\ live \subseteq Boxes /\ lease.instance \in Boxes \cup {NoBox} /\ TurnHolders \subseteq Holders
      /\ at \in [Holders -> Nat]
  BY DEF LifeInv, LTypeOK, TypeOK, LeaseRows, Holders
<1>n. NoDrain \in Drains /\ NoOrphan \in Sweeps /\ NoCap \in Caps /\ NoDrain.pc = "idle"
  BY DEF NoDrain, NoOrphan, Stored
<1>s. lease'.epoch \in Nat
  BY StepIsLeaseStep, NextKeepsInv DEF LifeInv, LeaseInv, TypeOK, LeaseRows
<1> HIDE DEF Caps, Sweeps
<1>1. ASSUME NEW w \in Holders, Process(w)
      PROVE  cap' \in [TurnHolders -> Caps] /\ reaper' = reaper /\ orphan' = orphan
  <2>1. CASE Crash(w)  BY <1>t, <1>n, <2>1 DEF Crash
  <2>2. CASE \/ AcquireAsSpawner(w) \/ AcquireLive(w) \/ AcquireConflict(w)
             \/ CreateBox(w) \/ RecordBox(w) \/ RecordMisses(w) \/ HydrateWorkspace(w)
             \/ CommitBox(w) \/ CommitMisses(w) \/ UndoSpawn(w)
    BY <1>t, <2>2 DEF AcquireAsSpawner, AcquireLive, AcquireConflict, CreateBox, RecordBox,
                      RecordMisses, HydrateWorkspace, CommitBox, CommitMisses, UndoSpawn, lifeVars
  <2>3. CASE \/ SpawnFails(w) \/ StopFailedSpawn(w) \/ Rollback(w) \/ Release(w)
             \/ WaitForWarm(w) \/ ReadEnvelope(w) \/ ResumeById(w) \/ RestoreRival(w) \/ AttachFails(w)
             \/ WriteFile(w) \/ Heartbeat(w) \/ Finish(w) \/ Reincarnate(w)
    BY <1>t, <2>3 DEF SpawnFails, StopFailedSpawn, Rollback, Release, WaitForWarm, ReadEnvelope,
                      ResumeById, RestoreRival, AttachFails, WriteFile, Heartbeat, Finish, Reincarnate, lifeVars
  <2> QED  BY <1>1, <2>1, <2>2, <2>3 DEF Process
<1>2. ASSUME NEW t \in TurnHolders, StartCapture(t) \/ EndCapture(t)
      PROVE  cap' \in [TurnHolders -> Caps] /\ reaper' = reaper /\ orphan' = orphan
  <2>1. CASE StartCapture(t)
    <3>1. [at |-> now, has |-> files[mine[t]]] \in Archives
      BY <2>1, CaptureIsArchive DEF StartCapture, LifeInv
    <3>2. [arch |-> [at |-> now, has |-> files[mine[t]]], epoch |-> at[t]] \in Caps
      BY <1>l, <3>1 DEF Caps
    <3> QED  BY <1>t, <2>1, <3>2 DEF StartCapture
  <2>2. CASE EndCapture(t)  BY <1>t, <1>n, <2>2 DEF EndCapture
  <2> QED  BY <1>2, <2>1, <2>2
<1>3. ASSUME Reaper
      PROVE  cap' = cap /\ reaper' \in Drains /\ (reaper'.pc = "persist" => reaper'.arch \in Archives)
  <2>1. CASE \E stale \in SUBSET holders : Sweep(stale)
    <3>1. [NoDrain EXCEPT !.pc = "check", !.epoch = lease'.epoch] \in Drains
      BY <1>s DEF NoDrain, Stored
    <3>2. [NoDrain EXCEPT !.pc = "check", !.epoch = lease'.epoch].pc = "check"
      BY DEF NoDrain
    <3>3. reaper' \in {[NoDrain EXCEPT !.pc = "check", !.epoch = lease'.epoch], reaper} /\ cap' = cap
      BY <2>1 DEF Sweep
    <3> HIDE DEF Drains
    <3> QED  BY <1>t, <3>1, <3>2, <3>3
  <2>2. CASE OverLimit  BY <1>t, <2>2 DEF OverLimit, lifeVars
  <2>3. CASE CheckDrain
    <3>1. reaper' \in {NoDrain, [reaper EXCEPT !.pc = "confirm", !.box = lease.instance],
                       [reaper EXCEPT !.pc = "capture", !.box = lease.instance]} /\ cap' = cap
      BY <2>3 DEF CheckDrain
    <3> QED  BY <1>t, <1>l, <1>n, <3>1
  <2>4. CASE CaptureDrain
    <3>1. reaper.box \in live => [at |-> now, has |-> files[reaper.box]] \in Archives
      BY CaptureIsArchive DEF LifeInv
    <3>2. \/ reaper' \in {NoDrain, [reaper EXCEPT !.pc = "confirm"]}
          \/ /\ reaper.box \in live
             /\ reaper' = [reaper EXCEPT !.pc = "persist", !.arch = [at |-> now, has |-> files[reaper.box]]]
      BY <2>4 DEF CaptureDrain
    <3>3. cap' = cap  BY <2>4 DEF CaptureDrain
    <3>4. CASE reaper' \in {NoDrain, [reaper EXCEPT !.pc = "confirm"]}
      BY <1>t, <1>n, <3>3, <3>4
    <3>5. CASE /\ reaper.box \in live
               /\ reaper' = [reaper EXCEPT !.pc = "persist", !.arch = [at |-> now, has |-> files[reaper.box]]]
      <4> DEFINE a == [at |-> now, has |-> files[reaper.box]]
      <4>1. a \in Archives /\ reaper' = [reaper EXCEPT !.pc = "persist", !.arch = a]  BY <3>1, <3>5
      <4> HIDE DEF a
      <4> QED  BY <1>t, <3>3, <4>1 DEF Stored
    <3> QED  BY <3>2, <3>4, <3>5
  <2>5. CASE PersistDrain \/ DeleteDrained \/ ConfirmDrain \/ ReaperCrash
    <3>1. cap' = cap /\ reaper' \in {NoDrain, [reaper EXCEPT !.pc = "delete"], [reaper EXCEPT !.pc = "confirm"]}
      BY <2>5 DEF PersistDrain, DeleteDrained, ConfirmDrain, ReaperCrash
    <3> QED  BY <1>t, <1>n, <3>1
  <2>6. CASE ReadLiveLeases \/ (\E b \in Boxes : KillOrphan(b)) \/ EndOrphanSweep
    BY <1>t, <2>6 DEF ReadLiveLeases, KillOrphan, EndOrphanSweep
  <2> QED  BY <1>3, <2>1, <2>2, <2>3, <2>4, <2>5, <2>6 DEF Reaper
<1>4. ASSUME Reaper PROVE orphan' \in Sweeps
  <2>1. CASE ReadLiveLeases
    <3> DEFINE old == {b \in live \ tagged : \A w \in Holders : ~ (Spawning(w) /\ mine[w] = b)}
    <3>1. orphan' = [pc |-> "kill", known |-> lease.liveness # "cold", box |-> lease.instance, old |-> old]
      BY <2>1 DEF ReadLiveLeases
    <3>2. old \subseteq Boxes  BY <1>l
    <3> HIDE DEF old
    <3> QED  BY <1>l, <3>1, <3>2 DEF Sweeps
  <2>2. CASE ~ ReadLiveLeases
    BY <1>4, <1>t, <1>n, <2>2 DEF Reaper, Sweep, OverLimit, CheckDrain, CaptureDrain, PersistDrain,
       DeleteDrained, ConfirmDrain, ReaperCrash, KillOrphan, EndOrphanSweep, lifeVars
  <2> QED  BY <2>1, <2>2
<1>5. ASSUME LeaseExpires \/ (\E b \in Boxes : BoxDies(b)) \/ UNCHANGED vars
      PROVE  cap' = cap /\ reaper' = reaper /\ orphan' = orphan
  BY <1>5 DEF LeaseExpires, BoxDies, lifeVars, vars
<1> HIDE DEF Drains
<1>6. cap' \in [TurnHolders -> Caps] /\ reaper' \in Drains /\ orphan' \in Sweeps
      /\ (reaper'.pc = "persist" => reaper'.arch \in Archives)
  BY <1>1, <1>2, <1>3, <1>4, <1>5, <1>t DEF LNext
<1> QED  BY <1>6 DEF Caps, Drains, Sweeps

-----------------------------------------------------------------------------
(* The provider's boxes and the archives *)

\* Stopping a box, or swapping it for another, keeps the boxes typed.
LEMMA StopTypes ==
  ASSUME LTypeOK, NEW gone, Stop(gone)
  PROVE  live' \subseteq Boxes /\ tagged' \subseteq live' /\ files' \in [Boxes -> SUBSET (1 .. now)]
BY DEF LTypeOK, Stop

\* A swap keeps the types of the provider's state.
LEMMA SwapTypes ==
  ASSUME LTypeOK, NEW gone, NEW b \in Boxes, NEW c \in SUBSET (1 .. now), Swap(gone, b, c)
  PROVE  live' \subseteq Boxes /\ tagged' \subseteq live' /\ files' \in [Boxes -> SUBSET (1 .. now)]
BY DEF LTypeOK, Swap

\* coldRestore can only bring back writes that have happened.
LEMMA HydratedSoFar ==
  ASSUME LifeInv, NEW w \in Holders, NEW c \in Hydrated(env[w])
  PROVE  c \in SUBSET (1 .. now)
<1>1. SoFar(env[w].arch) /\ SoFar(env[w].prev)  BY DEF LifeInv, ArchivesSoFar
<1> QED  BY <1>1 DEF Hydrated, SoFar

\* The boxes, the write clock and the saved writes keep their types, and the clock
\* never runs back.
LEMMA BoxTypes ==
  ASSUME LifeInv, [LNext]_vars
  PROVE  /\ live' \subseteq Boxes /\ tagged' \subseteq live'
         /\ files' \in [Boxes -> SUBSET (1 .. now')]
         /\ now' \in 0 .. MaxWrites /\ now <= now' /\ saved' \subseteq 1 .. now'
<1> DEFINE Boxed == live' \subseteq Boxes /\ tagged' \subseteq live' /\ files' \in [Boxes -> SUBSET (1 .. now)]
<1>t. /\ LTypeOK /\ live \subseteq Boxes /\ tagged \subseteq live /\ files \in [Boxes -> SUBSET (1 .. now)]
      /\ now \in 0 .. MaxWrites /\ saved \subseteq 1 .. now /\ now \in Nat /\ MaxWrites \in Nat
  BY EnvironmentAssumption DEF LifeInv, LTypeOK
<1>u. UNCHANGED boxVars => Boxed  BY <1>t DEF boxVars
<1>p. ASSUME NEW gone, Stop(gone) PROVE Boxed  BY <1>p, <1>t, StopTypes
<1>m. ASSUME NEW gone, StopMayFail(gone) PROVE Boxed  BY <1>m, <1>u, <1>p DEF StopMayFail
<1>w. ASSUME NEW gone, NEW b \in FreshBoxes, NEW c \in SUBSET (1 .. now), Swap(gone, b, c) PROVE Boxed
  BY <1>w, <1>t, SwapTypes DEF FreshBoxes
<1> HIDE DEF Boxed
<1>q. Boxed /\ now' = now /\ saved' \subseteq 1 .. now => 
         /\ live' \subseteq Boxes /\ tagged' \subseteq live'
         /\ files' \in [Boxes -> SUBSET (1 .. now')]
         /\ now' \in 0 .. MaxWrites /\ now <= now' /\ saved' \subseteq 1 .. now'
  BY <1>t DEF Boxed
<1>1. ASSUME NEW w \in Holders, Process(w), ~ WriteFile(w)
      PROVE  Boxed /\ now' = now /\ saved' = saved
  <2>1. CASE AcquireAsSpawner(w) \/ AcquireLive(w) \/ AcquireConflict(w)
    BY <1>u, <2>1 DEF AcquireAsSpawner, AcquireLive, AcquireConflict, lifeVars, boxVars
  <2>2. CASE CreateBox(w)  BY <1>w, <2>2 DEF CreateBox
  <2>3. CASE RecordBox(w)
    <3>1. /\ tagged' \in {tagged, tagged \cup ({mine[w]} \cap live)} /\ live' = live /\ files' = files
          /\ now' = now /\ saved' = saved
      BY <2>3 DEF RecordBox
    <3> QED  BY <1>t, <3>1 DEF Boxed
  <2>4. CASE HydrateWorkspace(w)
    <3>1. PICK b \in FreshBoxes, c \in Hydrated(env[w]) : Swap(mine[w], b, c)
      BY <2>4 DEF HydrateWorkspace
    <3>2. c \in SUBSET (1 .. now)  BY HydratedSoFar
    <3> QED  BY <1>w, <2>4, <3>1, <3>2 DEF HydrateWorkspace
  <2>5. CASE RecordMisses(w) \/ CommitBox(w) \/ CommitMisses(w) \/ Rollback(w) \/ Release(w)
    BY <1>u, <2>5 DEF RecordMisses, CommitBox, CommitMisses, Rollback, Release
  <2>6. CASE UndoSpawn(w) \/ SpawnFails(w) \/ StopFailedSpawn(w)
    BY <1>u, <1>m, <1>p, <2>6 DEF UndoSpawn, SpawnFails, StopFailedSpawn
  <2>7. CASE RestoreRival(w)
    <3>1. PICK b \in FreshBoxes, c \in Hydrated(env[w]) : Swap(NoBox, b, c)
      BY <2>7 DEF RestoreRival
    <3>2. c \in SUBSET (1 .. now)  BY HydratedSoFar
    <3> QED  BY <1>w, <2>7, <3>1, <3>2 DEF RestoreRival
  <2>8. CASE \/ WaitForWarm(w) \/ ReadEnvelope(w) \/ ResumeById(w) \/ AttachFails(w)
             \/ Heartbeat(w) \/ Finish(w) \/ Crash(w) \/ Reincarnate(w)
    BY <1>u, <2>8 DEF WaitForWarm, ReadEnvelope, ResumeById, AttachFails, Heartbeat, Finish, Crash,
                      Reincarnate, lifeVars, boxVars
  <2> QED  BY <1>1, <2>1, <2>2, <2>3, <2>4, <2>5, <2>6, <2>7, <2>8 DEF Process
<1>2. ASSUME NEW w \in Holders, WriteFile(w)
      PROVE  /\ live' \subseteq Boxes /\ tagged' \subseteq live'
             /\ files' \in [Boxes -> SUBSET (1 .. now')]
             /\ now' \in 0 .. MaxWrites /\ now <= now' /\ saved' \subseteq 1 .. now'
  <2>1. /\ now' = now + 1 /\ now < MaxWrites /\ mine[w] \in live /\ live' = live /\ tagged' = tagged
        /\ saved' = saved /\ files' = [files EXCEPT ![mine[w]] = @ \cup {now + 1}]
    BY <1>2 DEF WriteFile
  <2>2. now' \in 0 .. MaxWrites /\ now <= now' /\ 1 .. now \subseteq 1 .. now' /\ now + 1 \in 1 .. now'
    BY <1>t, <2>1
  <2>3. files' \in [Boxes -> SUBSET (1 .. now')]  BY <1>t, <2>1, <2>2
  <2> QED  BY <1>t, <2>1, <2>2, <2>3
<1>3. ASSUME NEW t \in TurnHolders, StartCapture(t) \/ EndCapture(t)
      PROVE  Boxed /\ now' = now /\ saved' \subseteq 1 .. now
  <2>1. CASE StartCapture(t)  BY <1>t, <1>u, <2>1 DEF StartCapture
  <2>2. CASE EndCapture(t)
    <3>1. cap[t].arch # NoArchive => cap[t].arch.has \subseteq 1 .. now
      BY DEF LifeInv, ArchivesSoFar, SoFar
    <3>2. cap[t].arch # NoArchive
      BY <2>2, NullAssumption DEF EndCapture, LifeInv, MemoryTypes
    <3> QED  BY <1>t, <1>u, <2>2, <3>1, <3>2 DEF EndCapture
  <2> QED  BY <1>3, <2>1, <2>2
<1>4. ASSUME Reaper PROVE Boxed /\ now' = now /\ saved' \subseteq 1 .. now
  <2>1. CASE (\E stale \in SUBSET holders : Sweep(stale)) \/ OverLimit \/ CheckDrain \/ CaptureDrain
             \/ ConfirmDrain \/ ReaperCrash \/ ReadLiveLeases
    BY <1>t, <1>u, <2>1 DEF Sweep, OverLimit, CheckDrain, CaptureDrain, ConfirmDrain, ReaperCrash,
                            ReadLiveLeases, lifeVars, boxVars
  <2>2. CASE PersistDrain
    <3>1. reaper.arch # NoArchive /\ reaper.arch.has \subseteq 1 .. now
      BY <2>2, NullAssumption DEF PersistDrain, LifeInv, MemoryTypes, ArchivesSoFar, SoFar
    <3> QED  BY <1>t, <1>u, <2>2, <3>1 DEF PersistDrain
  <2>3. CASE DeleteDrained  BY <1>t, <1>m, <2>3 DEF DeleteDrained
  <2>4. CASE \E b \in Boxes : KillOrphan(b)  BY <1>t, <1>p, <2>4 DEF KillOrphan
  <2>5. CASE EndOrphanSweep
    <3>1. /\ tagged' = tagged \cup ({orphan.box} \cap live) /\ live' = live /\ files' = files
          /\ now' = now /\ saved' = saved
      BY <2>5 DEF EndOrphanSweep
    <3> QED  BY <1>t, <3>1 DEF Boxed
  <2> QED  BY <1>4, <2>1, <2>2, <2>3, <2>4, <2>5 DEF Reaper
<1>5. ASSUME LeaseExpires \/ (\E b \in Boxes : BoxDies(b)) \/ UNCHANGED vars
      PROVE  Boxed /\ now' = now /\ saved' = saved
  BY <1>u, <1>p, <1>5 DEF LeaseExpires, BoxDies, lifeVars, vars, boxVars
<1> QED  BY <1>q, <1>1, <1>2, <1>3, <1>4, <1>5, <1>t DEF LNext

\* Where the archives on the row come from: the row itself, a spawner's envelope,
\* a turn's capture or the drain's.
LEMMA RowArchivesSoFar ==
  ASSUME LifeInv, [LNext]_vars PROVE SoFar(lease'.arch) /\ SoFar(lease'.prev)
<1>t. /\ lease \in LeaseRows /\ holders \in SUBSET Holders
      /\ SoFar(lease.arch) /\ SoFar(lease.prev) /\ SoFar(NoArchive)
  BY DEF LifeInv, LTypeOK, TypeOK, ArchivesSoFar, SoFar
<1>k. lease'.arch \in {lease.arch, NoArchive} /\ lease'.prev \in {lease.prev, NoArchive}
        => SoFar(lease'.arch) /\ SoFar(lease'.prev)
  BY <1>t
<1>u. UNCHANGED leaseVars => SoFar(lease'.arch) /\ SoFar(lease'.prev)
  BY <1>t DEF leaseVars
<1>1. ASSUME NEW w \in Holders, Process(w) PROVE SoFar(lease'.arch) /\ SoFar(lease'.prev)
  <2>h. (holders \cup {w}) \in SUBSET Holders /\ (holders \ {w}) \in SUBSET Holders  BY <1>t
  <2>1. CASE LocalStep(w)  BY <1>u, <2>1, LocalStepsKeepRow
  <2>2. CASE AcquireAsSpawner(w)
    <3> DEFINE c == AfterConflict(w, BuildOf[w])
               row == [c EXCEPT !.liveness = "warming",
                                !.build = IF BuildOf[w] = NoBuild THEN @ ELSE BuildOf[w], !.expired = FALSE]
    <3>1. c \in LeaseRows /\ c.arch \in {lease.arch, NoArchive} /\ c.prev \in {lease.prev, NoArchive}
      BY <1>t, AfterConflictEffect
    <3>2. lease' = Recount(row, holders \cup {w})
      BY <2>2 DEF AcquireAsSpawner, AcquireSpawner
    <3> HIDE DEF c
    <3>3. row \in LeaseRows /\ row.arch = c.arch /\ row.prev = c.prev
      BY <3>1, ProcessAssumption DEF LeaseRows, Livenesses
    <3> HIDE DEF row
    <3> QED  BY <1>k, <2>h, <3>1, <3>2, <3>3, RecountExact
  <2>3. CASE AcquireLive(w)
    <3>1. PICK row \in LeaseRows : /\ row.arch = lease.arch /\ row.prev = lease.prev
                                   /\ lease' = Recount(row, holders \cup {w})
      <4>1. /\ [lease EXCEPT !.liveness = "warm", !.expired = FALSE] \in LeaseRows
            /\ [lease EXCEPT !.expired = FALSE] \in LeaseRows
        BY <1>t DEF LeaseRows, Livenesses
      <4>2. \/ lease' = Recount([lease EXCEPT !.liveness = "warm", !.expired = FALSE], holders \cup {w})
            \/ lease' = Recount([lease EXCEPT !.expired = FALSE], holders \cup {w})
        BY <2>3 DEF AcquireLive, AcquireRearmed, AcquireAttached
      <4>3. /\ [lease EXCEPT !.liveness = "warm", !.expired = FALSE].arch = lease.arch
            /\ [lease EXCEPT !.liveness = "warm", !.expired = FALSE].prev = lease.prev
            /\ [lease EXCEPT !.expired = FALSE].arch = lease.arch
            /\ [lease EXCEPT !.expired = FALSE].prev = lease.prev
        BY <1>t DEF LeaseRows
      <4> QED  BY <4>1, <4>2, <4>3
    <3> QED  BY <1>k, <2>h, <3>1, RecountExact
  <2>4. CASE RecordBox(w)
    <3>1. SoFar(env[w].arch)  BY DEF LifeInv, ArchivesSoFar
    <3>2. lease'.arch = env[w].arch /\ lease'.prev = NoArchive
      BY <1>t, <2>4 DEF RecordBox, RecordWarmingSandboxCreated, LeaseRows
    <3> QED  BY <1>t, <3>1, <3>2
  <2>5. CASE CommitBox(w)
    <3>1. lease'.arch = NoArchive /\ lease'.prev = NoArchive
      BY <1>t, <2>5 DEF CommitBox, CommitWarmingToWarm, LeaseRows
    <3> QED  BY <1>k, <3>1
  <2>6. CASE Rollback(w)
    BY <1>k, <1>u, <1>t, <2>6, ColdWithArchiveEffect DEF Rollback, FailWarmingToCold
  <2>7. CASE Release(w)
    BY <1>k, <1>t, <2>7, <2>h, DrainIfIdleEffect DEF Release, ReleaseLeaseHolder
  <2>8. CASE Heartbeat(w)
    <3>1. lease'.arch = lease.arch /\ lease'.prev = lease.prev
      BY <1>t, <2>8 DEF Heartbeat, HeartbeatLeaseHolder, LeaseRows
    <3> QED  BY <1>k, <3>1
  <2> QED  BY <1>1, <2>1, <2>2, <2>3, <2>4, <2>5, <2>6, <2>7, <2>8 DEF Process, LocalStep
<1>2. ASSUME NEW t \in TurnHolders, StartCapture(t) \/ EndCapture(t)
      PROVE  SoFar(lease'.arch) /\ SoFar(lease'.prev)
  <2>1. SoFar(cap[t].arch)  BY DEF LifeInv, ArchivesSoFar
  <2>2. CASE UNCHANGED leaseVars  BY <1>u, <2>2
  <2>3. CASE PersistWarmSnapshot(cap[t].epoch, cap[t].arch)
    <3>1. lease'.arch = cap[t].arch /\ lease'.prev = lease.arch
      BY <1>t, <2>3 DEF PersistWarmSnapshot, LeaseRows
    <3> QED  BY <1>t, <2>1, <3>1
  <2> QED  BY <1>2, <2>2, <2>3 DEF StartCapture, EndCapture
<1>3. ASSUME Reaper PROVE SoFar(lease'.arch) /\ SoFar(lease'.prev)
  <2>1. CASE \E stale \in SUBSET holders : Sweep(stale)
    <3> PICK stale \in SUBSET holders : Sweep(stale)  BY <2>1
    <3> DEFINE d == DrainIfIdle(lease, holders \ stale)
    <3>1. (holders \ stale) \in SUBSET Holders  BY <1>t
    <3>2. d \in LeaseRows /\ d.arch = lease.arch /\ d.prev = lease.prev
      BY <1>t, <3>1, DrainIfIdleEffect
    <3>3. lease' = ResetWarming(d)  BY DEF Sweep, ReapStaleLeaseHolders
    <3> HIDE DEF d
    <3> QED  BY <1>k, <3>2, <3>3, ResetWarmingEffect
  <2>2. CASE OverLimit
    <3>1. lease'.arch = lease.arch /\ lease'.prev = lease.prev
      BY <1>t, <2>2 DEF OverLimit, ForceDrainViewerOnly, LeaseRows
    <3> QED  BY <1>k, <3>1
  <2>3. CASE PersistDrain
    <3>1. SoFar(reaper.arch) /\ reaper.arch \in Archives
      BY <2>3 DEF PersistDrain, LifeInv, ArchivesSoFar, MemoryTypes
    <3> DEFINE a == [reaper.arch EXCEPT !.at = now]
    <3>2. a.has = reaper.arch.has  BY <3>1, CaptureAssumption
    <3>3. SoFar(a)  BY <3>1, <3>2, NullAssumption DEF SoFar
    <3>4. UNCHANGED leaseVars \/ PersistDrainSnapshot(reaper.epoch, a)  BY <2>3 DEF PersistDrain
    <3> HIDE DEF a
    <3>5. CASE PersistDrainSnapshot(reaper.epoch, a)
      <4>1. \/ lease' = lease
            \/ lease'.arch = a /\ lease'.prev = NoArchive
        BY <1>t, <3>5 DEF PersistDrainSnapshot, LeaseRows
      <4> QED  BY <1>t, <3>3, <4>1
    <3> QED  BY <1>u, <3>4, <3>5
  <2>4. CASE ConfirmDrain
    BY <1>k, <1>u, <1>t, <2>4, ColdWithArchiveEffect DEF ConfirmDrain, ConfirmDrainCold
  <2>5. CASE CheckDrain \/ CaptureDrain \/ DeleteDrained \/ ReaperCrash
    BY <1>u, <2>5 DEF CheckDrain, CaptureDrain, DeleteDrained, ReaperCrash
  <2>6. CASE ReadLiveLeases \/ (\E b \in Boxes : KillOrphan(b)) \/ EndOrphanSweep
    BY <1>u, <2>6 DEF ReadLiveLeases, KillOrphan, EndOrphanSweep
  <2> QED  BY <1>3, <2>1, <2>2, <2>3, <2>4, <2>5, <2>6 DEF Reaper
<1>4. CASE LeaseExpires
  <2>1. lease'.arch = lease.arch /\ lease'.prev = lease.prev
    BY <1>t, <1>4 DEF LeaseExpires, Expire, LeaseRows
  <2> QED  BY <1>k, <2>1
<1>5. CASE (\E b \in Boxes : BoxDies(b)) \/ UNCHANGED vars
  BY <1>u, <1>5 DEF BoxDies, vars, leaseVars
<1> QED  BY <1>1, <1>2, <1>3, <1>4, <1>5 DEF LNext

\* What a process remembers of the row it read.
LEMMA EnvelopesSoFar ==
  ASSUME LifeInv, NEW w \in Holders, Process(w) PROVE SoFar(env'[w].arch) /\ SoFar(env'[w].prev)
<1>t. /\ env \in [Holders -> [box : Boxes \cup {NoBox}, arch : Stored, prev : Stored]]
      /\ SoFar(env[w].arch) /\ SoFar(env[w].prev) /\ SoFar(lease.arch) /\ SoFar(lease.prev)
      /\ SoFar(NoArchive) /\ lease \in LeaseRows
  BY DEF LifeInv, LTypeOK, TypeOK, MemoryTypes, ArchivesSoFar, SoFar
<1>1. CASE AcquireAsSpawner(w)
  <2> DEFINE row == AfterConflict(w, BuildOf[w])
  <2>1. row.arch \in {lease.arch, NoArchive} /\ row.prev \in {lease.prev, NoArchive}
    BY <1>t, AfterConflictEffect
  <2>2. env'[w].arch = row.arch /\ env'[w].prev = row.prev
    BY <1>1, <1>t DEF AcquireAsSpawner, Envelope
  <2> QED  BY <1>t, <2>1, <2>2
<1>2. CASE ReadEnvelope(w)
  <2>1. env'[w].arch = lease.arch /\ env'[w].prev = lease.prev
    BY <1>2, <1>t DEF ReadEnvelope, Envelope
  <2> QED  BY <1>t, <2>1
<1>3. CASE Release(w) \/ Crash(w)
  <2>1. env'[w].arch = NoArchive /\ env'[w].prev = NoArchive
    BY <1>3, <1>t DEF Release, Crash, NoEnv
  <2> QED  BY <1>t, <2>1
<1>4. CASE ~ (AcquireAsSpawner(w) \/ ReadEnvelope(w) \/ Release(w) \/ Crash(w))
  <2>1. env' = env
    BY <1>4 DEF Process, AcquireLive, AcquireConflict, CreateBox, RecordBox, RecordMisses,
       HydrateWorkspace, CommitBox, CommitMisses, UndoSpawn, SpawnFails, StopFailedSpawn, Rollback,
       WaitForWarm, ResumeById, RestoreRival, AttachFails, WriteFile, Heartbeat, Finish, Reincarnate,
       lifeVars, procVars
  <2> QED  BY <1>t, <2>1
<1> QED  BY <1>1, <1>2, <1>3, <1>4

\* What a turn's capture holds, and the epoch it was started with.
LEMMA CapturesRead ==
  ASSUME LifeInv, [LNext]_vars, NEW t \in TurnHolders
  PROVE  SoFar(cap'[t].arch) /\ cap'[t].epoch <= lease.epoch
<1>t. /\ cap \in [TurnHolders -> {NoCap} \cup [arch : Archives, epoch : Nat]]
      /\ SoFar(cap[t].arch) /\ cap[t].epoch <= lease.epoch /\ SoFar(NoCap.arch)
      /\ NoCap.epoch <= lease.epoch /\ lease.epoch \in Nat /\ NoCap.epoch = 0
  BY DEF LifeInv, LTypeOK, TypeOK, LeaseRows, MemoryTypes, ArchivesSoFar, SoFar, EpochsRead, NoCap
<1>k. cap'[t] \in {cap[t], NoCap} => SoFar(cap'[t].arch) /\ cap'[t].epoch <= lease.epoch
  BY <1>t
<1>1. ASSUME NEW w \in Holders, Process(w) PROVE cap'[t] \in {cap[t], NoCap}
  <2>1. CASE Crash(w)  BY <1>t, <2>1 DEF Crash
  <2>2. CASE ~ Crash(w)
    BY <1>1, <2>2 DEF Process, AcquireAsSpawner, AcquireLive, AcquireConflict, CreateBox, RecordBox,
       RecordMisses, HydrateWorkspace, CommitBox, CommitMisses, UndoSpawn, SpawnFails, StopFailedSpawn,
       Rollback, Release, WaitForWarm, ReadEnvelope, ResumeById, RestoreRival, AttachFails, WriteFile,
       Heartbeat, Finish, Reincarnate, lifeVars
  <2> QED  BY <2>1, <2>2
<1>2. ASSUME NEW u \in TurnHolders, StartCapture(u)
      PROVE  SoFar(cap'[t].arch) /\ cap'[t].epoch <= lease.epoch
  <2>1. CASE u # t  BY <1>k, <1>t, <1>2, <2>1 DEF StartCapture
  <2>2. CASE u = t
    <3>1. mine[t] \in live /\ files[mine[t]] \subseteq 1 .. now
      BY <1>2, <2>2, CaptureIsArchive DEF StartCapture, LifeInv
    <3>2. cap'[t] = [arch |-> [at |-> now, has |-> files[mine[t]]], epoch |-> at[t]]
      BY <1>t, <1>2, <2>2 DEF StartCapture
    <3>3. at[t] <= lease.epoch  BY DEF LifeInv, EpochsRead, Holders
    <3> QED  BY <3>1, <3>2, <3>3 DEF SoFar
  <2> QED  BY <2>1, <2>2
<1>3. ASSUME NEW u \in TurnHolders, EndCapture(u) PROVE cap'[t] \in {cap[t], NoCap}
  BY <1>t, <1>3 DEF EndCapture
<1>4. ASSUME Reaper \/ LeaseExpires \/ (\E b \in Boxes : BoxDies(b)) \/ UNCHANGED vars PROVE cap' = cap
  BY <1>4 DEF Reaper, Sweep, OverLimit, CheckDrain, CaptureDrain, PersistDrain, DeleteDrained,
     ConfirmDrain, ReaperCrash, ReadLiveLeases, KillOrphan, EndOrphanSweep, LeaseExpires, BoxDies,
     lifeVars, vars
<1> QED  BY <1>k, <1>1, <1>2, <1>3, <1>4 DEF LNext

\* No process touches the reaper's and the orphan sweep's state.
LEMMA ProcessLeavesReaper ==
  ASSUME NEW w \in Holders, Process(w) PROVE reaper' = reaper /\ orphan' = orphan
BY DEF Process, AcquireAsSpawner, AcquireLive, AcquireConflict, CreateBox, RecordBox,
   RecordMisses, HydrateWorkspace, CommitBox, CommitMisses, UndoSpawn, SpawnFails, StopFailedSpawn,
   Rollback, Release, WaitForWarm, ReadEnvelope, ResumeById, RestoreRival, AttachFails, WriteFile,
   Heartbeat, Finish, Crash, Reincarnate, lifeVars

\* What the reaper carries.
LEMMA DrainsRead ==
  ASSUME LifeInv, [LNext]_vars
  PROVE  SoFar(reaper'.arch) /\ (reaper'.epoch <= lease.epoch \/ reaper'.epoch = lease'.epoch)
<1> DEFINE Drains == [pc : {"idle", "check", "capture", "persist", "delete", "confirm"},
                      epoch : Nat, box : Boxes \cup {NoBox}, arch : Stored]
<1>t. /\ reaper \in Drains /\ SoFar(reaper.arch) /\ reaper.epoch <= lease.epoch
      /\ SoFar(NoDrain.arch) /\ NoDrain.epoch <= lease.epoch /\ LTypeOK
  BY DEF LifeInv, LTypeOK, TypeOK, LeaseRows, MemoryTypes, ArchivesSoFar, SoFar, EpochsRead, NoDrain
<1>k. ASSUME reaper'.arch \in {reaper.arch, NoDrain.arch}, reaper'.epoch \in {reaper.epoch, NoDrain.epoch}
      PROVE  SoFar(reaper'.arch) /\ (reaper'.epoch <= lease.epoch \/ reaper'.epoch = lease'.epoch)
  BY <1>k, <1>t
<1>1. CASE \E stale \in SUBSET holders : Sweep(stale)
  <2>1. reaper' \in {[NoDrain EXCEPT !.pc = "check", !.epoch = lease'.epoch], reaper}  BY <1>1 DEF Sweep
  <2>2. /\ [NoDrain EXCEPT !.pc = "check", !.epoch = lease'.epoch].arch = NoDrain.arch
        /\ [NoDrain EXCEPT !.pc = "check", !.epoch = lease'.epoch].epoch = lease'.epoch
    BY DEF NoDrain
  <2> QED  BY <1>t, <2>1, <2>2
<1>2. CASE CheckDrain
  <2>1. reaper' \in {NoDrain, [reaper EXCEPT !.pc = "confirm", !.box = lease.instance],
                     [reaper EXCEPT !.pc = "capture", !.box = lease.instance]}
    BY <1>2 DEF CheckDrain
  <2> QED  BY <1>k, <1>t, <2>1
<1>3. CASE CaptureDrain
  <2>1. reaper.box \in live => files[reaper.box] \subseteq 1 .. now  BY <1>t, CaptureIsArchive
  <2>2. \/ reaper' \in {NoDrain, [reaper EXCEPT !.pc = "confirm"]}
        \/ /\ reaper.box \in live
           /\ reaper' = [reaper EXCEPT !.pc = "persist", !.arch = [at |-> now, has |-> files[reaper.box]]]
    BY <1>3 DEF CaptureDrain
  <2>3. CASE reaper' \in {NoDrain, [reaper EXCEPT !.pc = "confirm"]}  BY <1>k, <1>t, <2>3
  <2>4. CASE /\ reaper.box \in live
             /\ reaper' = [reaper EXCEPT !.pc = "persist", !.arch = [at |-> now, has |-> files[reaper.box]]]
    <3>1. reaper'.arch = [at |-> now, has |-> files[reaper.box]] /\ reaper'.epoch = reaper.epoch
      BY <1>t, <2>4
    <3> QED  BY <1>t, <2>1, <2>4, <3>1 DEF SoFar
  <2> QED  BY <2>2, <2>3, <2>4
<1>4. CASE PersistDrain \/ DeleteDrained \/ ConfirmDrain \/ ReaperCrash
  <2>1. reaper' \in {NoDrain, [reaper EXCEPT !.pc = "delete"], [reaper EXCEPT !.pc = "confirm"]}
    BY <1>4 DEF PersistDrain, DeleteDrained, ConfirmDrain, ReaperCrash
  <2> QED  BY <1>k, <1>t, <2>1
<1>5. ASSUME \/ OverLimit \/ ReadLiveLeases \/ (\E b \in Boxes : KillOrphan(b)) \/ EndOrphanSweep
             \/ LeaseExpires \/ (\E b \in Boxes : BoxDies(b)) \/ UNCHANGED vars
      PROVE  reaper' = reaper
  BY <1>5 DEF OverLimit, ReadLiveLeases, KillOrphan, EndOrphanSweep, LeaseExpires, BoxDies, lifeVars, vars
<1>6. ASSUME NEW w \in Holders, Process(w) PROVE reaper' = reaper  BY <1>6, ProcessLeavesReaper
<1>7. ASSUME NEW t \in TurnHolders, StartCapture(t) \/ EndCapture(t) PROVE reaper' = reaper
  BY <1>7 DEF StartCapture, EndCapture
<1> HIDE DEF Drains
<1> QED  BY <1>k, <1>1, <1>2, <1>3, <1>4, <1>5, <1>6, <1>7 DEF LNext, Reaper

\* The epoch never falls, and a process never carries one from the future.
LEMMA EpochNeverFalls ==
  ASSUME LifeInv, [LNext]_vars PROVE lease'.epoch \in Nat /\ lease.epoch <= lease'.epoch
<1>1. [Next]_leaseVars /\ LeaseInv /\ LeaseInv' /\ lease.epoch \in Nat
  BY StepIsLeaseStep, NextKeepsInv DEF LifeInv, LeaseInv, TypeOK, LeaseRows
<1>2. lease'.epoch \in Nat  BY <1>1 DEF LeaseInv, TypeOK, LeaseRows
<1>3. CASE Next  BY <1>1, <1>2, <1>3, StepMovesEpoch DEF EpochStep
<1>4. CASE UNCHANGED leaseVars  BY <1>1, <1>4 DEF leaseVars
<1> QED  BY <1>1, <1>2, <1>3, <1>4

\* The epoch a process carries is one the row has had.
LEMMA ProcessEpochs ==
  ASSUME LifeInv, [LNext]_vars, NEW w \in Holders, Process(w) PROVE at'[w] <= lease'.epoch
<1>t. /\ at \in [Holders -> Nat] /\ at[w] <= lease.epoch /\ lease.epoch \in Nat /\ lease \in LeaseRows
  BY DEF LifeInv, LTypeOK, TypeOK, LeaseRows, EpochsRead
<1>e. lease'.epoch \in Nat /\ lease.epoch <= lease'.epoch  BY EpochNeverFalls
<1>1. CASE CommitBox(w)
  <2>1. lease'.epoch = lease.epoch + 1 /\ at'[w] = lease.epoch + 1
    BY <1>1, <1>t DEF CommitBox, CommitWarmingToWarm, WarmingAt, LeaseRows
  <2> QED  BY <1>e, <2>1
<1>2. CASE AcquireAsSpawner(w) \/ AcquireLive(w) \/ WaitForWarm(w)
  <2>1. at'[w] \in {lease.epoch, at[w]}
    BY <1>2, <1>t DEF AcquireAsSpawner, AcquireLive, WaitForWarm
  <2> QED  BY <1>t, <1>e, <2>1
<1>3. CASE Release(w) \/ Crash(w)
  <2>1. at'[w] = 0  BY <1>3, <1>t DEF Release, Crash
  <2> QED  BY <1>e, <2>1
<1>4. CASE ~ (CommitBox(w) \/ AcquireAsSpawner(w) \/ AcquireLive(w) \/ WaitForWarm(w) \/ Release(w) \/ Crash(w))
  <2>1. at' = at
    BY <1>4 DEF Process, AcquireConflict, CreateBox, RecordBox, RecordMisses, HydrateWorkspace,
       CommitMisses, UndoSpawn, SpawnFails, StopFailedSpawn, Rollback, ReadEnvelope, ResumeById,
       RestoreRival, AttachFails, WriteFile, Heartbeat, Finish, Reincarnate, lifeVars, procVars
  <2> QED  BY <1>t, <1>e, <2>1
<1> QED  BY <1>1, <1>2, <1>3, <1>4

-----------------------------------------------------------------------------
(* Holder rows *)

\* The holder rows after a process step: only its own row comes or goes, and it
\* is there exactly as its program counter says.
LEMMA ProcessRows ==
  ASSUME LifeInv, NEW w \in Holders, Process(w)
  PROVE  /\ \A v \in Holders : v # w => (v \in holders' <=> v \in holders)
         /\ pc'[w] = "idle" => w \notin holders'
         /\ w \in TurnHolders /\ pc'[w] \notin {"idle", "dead"} => w \in holders'
<1>t. /\ pc \in [Holders -> PCs] /\ (pc[w] = "idle" => w \notin holders)
      /\ w \in TurnHolders /\ pc[w] \notin {"idle", "dead"} => w \in holders
  BY DEF LifeInv, LTypeOK, IdleHoldsNothing, TurnsKeepTheirRow
<1>1. CASE AcquireAsSpawner(w) \/ AcquireLive(w)
  <2>1. holders' = holders \cup {w}
    BY <1>1 DEF AcquireAsSpawner, AcquireSpawner, AcquireLive, AcquireRearmed, AcquireAttached
  <2>2. pc'[w] # "idle"
    BY <1>1, <1>t DEF AcquireAsSpawner, AcquireLive, AttachedPc, Goto
  <2> QED  BY <2>1, <2>2
<1>2. CASE Release(w)
  <2>1. holders' = holders \ {w} /\ pc'[w] = "idle"
    BY <1>2, <1>t DEF Release, ReleaseLeaseHolder, Goto
  <2> QED  BY <2>1
<1>3. CASE LocalStep(w)
  <2>1. holders' = holders  BY <1>3, LocalStepsKeepRow DEF leaseVars
  <2>2. CASE AcquireConflict(w) \/ WriteFile(w)
    <3>1. pc' = pc  BY <2>2 DEF AcquireConflict, WriteFile, lifeVars, procVars
    <3> QED  BY <1>t, <2>1, <3>1
  <2>3. CASE Reincarnate(w)
    <3>1. pc'[w] = "idle" /\ w \notin holders  BY <1>t, <2>3 DEF Reincarnate, Goto
    <3> QED  BY <2>1, <3>1
  <2>4. CASE ~ (AcquireConflict(w) \/ WriteFile(w) \/ Reincarnate(w))
    <3>1. CASE CreateBox(w) \/ RecordMisses(w) \/ HydrateWorkspace(w) \/ CommitMisses(w) \/ UndoSpawn(w)
      <4>1. pc[w] \notin {"idle", "dead"} /\ pc'[w] # "idle"
        BY <1>t, <3>1 DEF CreateBox, RecordMisses, Recording, HydrateWorkspace, CommitMisses, UndoSpawn,
           AfterCreate, Goto
      <4> QED  BY <1>t, <2>1, <4>1
    <3>2. CASE SpawnFails(w) \/ StopFailedSpawn(w)
      <4>1. pc[w] \notin {"idle", "dead"} /\ pc'[w] # "idle"
        BY <1>t, <3>2 DEF SpawnFails, Recording, StopFailedSpawn, Goto
      <4> QED  BY <1>t, <2>1, <4>1
    <3>3. CASE \/ WaitForWarm(w) \/ ReadEnvelope(w) \/ ResumeById(w) \/ RestoreRival(w)
               \/ AttachFails(w) \/ Finish(w)
      <4>1. pc[w] \notin {"idle", "dead"} /\ pc'[w] # "idle"
        BY <1>t, <3>3 DEF WaitForWarm, ReadEnvelope, ResumeById, RestoreRival, AttachFails, Finish, Goto
      <4> QED  BY <1>t, <2>1, <4>1
    <3>4. CASE Crash(w)
      <4>1. pc'[w] = "dead"  BY <1>t, <3>4 DEF Crash, Goto
      <4> QED  BY <2>1, <4>1
    <3> QED  BY <1>3, <2>4, <3>1, <3>2, <3>3, <3>4 DEF LocalStep
  <2> QED  BY <2>2, <2>3, <2>4
<1>4. CASE RecordBox(w) \/ CommitBox(w) \/ Rollback(w)
  <2>1. holders' = holders
    BY <1>4 DEF RecordBox, RecordWarmingSandboxCreated, CommitBox, CommitWarmingToWarm, Rollback,
       FailWarmingToCold, leaseVars
  <2>2. pc[w] \notin {"idle", "dead"} /\ pc'[w] # "idle"
    BY <1>4, <1>t DEF RecordBox, Recording, CommitBox, Rollback, Goto
  <2> QED  BY <1>t, <2>1, <2>2
<1>5. CASE Heartbeat(w)
  <2>1. holders' = holders /\ pc' = pc  BY <1>5 DEF Heartbeat, HeartbeatLeaseHolder, lifeVars
  <2> QED  BY <1>t, <2>1
<1> QED  BY <1>1, <1>2, <1>3, <1>4, <1>5 DEF Process, LocalStep

\* Every other step adds no holder row and removes no living turn's.
LEMMA ReaperRows ==
  ASSUME LifeInv, [LNext]_vars, \A w \in Holders : ~ Process(w)
  PROVE  /\ holders' \subseteq holders
         /\ \A t \in TurnHolders : t \in holders /\ pc[t] # "dead" => t \in holders'
<1>d. TurnHolders \cap ViewerHolders = {}  BY HolderAssumption
<1>1. CASE \E stale \in SUBSET holders : Sweep(stale)
  BY <1>1, <1>d DEF Sweep, ReapStaleLeaseHolders, CanBeStale
<1>2. CASE OverLimit  BY <1>2, <1>d DEF OverLimit, ForceDrainViewerOnly
<1>3. ASSUME ~ ((\E stale \in SUBSET holders : Sweep(stale)) \/ OverLimit), Reaper PROVE holders' = holders
  BY <1>3 DEF Reaper, CheckDrain, CaptureDrain, PersistDrain, PersistDrainSnapshot, DeleteDrained,
     ConfirmDrain, ConfirmDrainCold, ReaperCrash, ReadLiveLeases, KillOrphan, EndOrphanSweep, leaseVars
<1>4. ASSUME (\E t \in TurnHolders : StartCapture(t) \/ EndCapture(t)) \/ LeaseExpires
             \/ (\E b \in Boxes : BoxDies(b)) \/ UNCHANGED vars
      PROVE  holders' = holders
  BY <1>4 DEF StartCapture, EndCapture, PersistWarmSnapshot, LeaseExpires, Expire, BoxDies, vars, leaseVars
<1> QED  BY <1>1, <1>2, <1>3, <1>4 DEF LNext

\* No step takes the holder row of a turn that has not let go, and none leaves one
\* to an idle process.
LEMMA RowsKept ==
  ASSUME LifeInv, [LNext]_vars PROVE TurnsKeepTheirRow' /\ IdleHoldsNothing'
<1>t. TurnsKeepTheirRow /\ IdleHoldsNothing /\ TurnHolders \subseteq Holders /\ LTypeOK /\ MemoryTypes
  BY DEF LifeInv, Holders
<1>1. ASSUME NEW w \in Holders, Process(w) PROVE TurnsKeepTheirRow' /\ IdleHoldsNothing'
  <2>1. \A v \in Holders : v # w => pc'[v] = pc[v]  BY <1>1, <1>t, OthersStayPut
  <2>2. /\ \A v \in Holders : v # w => (v \in holders' <=> v \in holders)
        /\ pc'[w] = "idle" => w \notin holders'
        /\ w \in TurnHolders /\ pc'[w] \notin {"idle", "dead"} => w \in holders'
    BY <1>1, ProcessRows
  <2> QED  BY <1>t, <2>1, <2>2 DEF TurnsKeepTheirRow, IdleHoldsNothing
<1>2. CASE \A w \in Holders : ~ Process(w)
  <2>1. pc' = pc  BY <1>2, OnlyProcessesMove DEF procVars
  <2> QED  BY <1>2, <1>t, <2>1, ReaperRows DEF TurnsKeepTheirRow, IdleHoldsNothing
<1> QED  BY <1>1, <1>2

-----------------------------------------------------------------------------
(* A turn's lease *)

\* Where a turn has the row's box or is about to.
Working == {"resume", "attach", "running"}

\* A step that leaves a working turn where it is leaves its warm row alone: the
\* only rebuild SandboxLease allows is by the one holder itself, and a working
\* turn does not acquire.
LEMMA WorkingTurnKeepsRow ==
  ASSUME LifeInv, [LNext]_vars, NEW t \in TurnHolders, pc[t] \in Working, t \in holders'
  PROVE  lease'.liveness = "warm" /\ lease'.epoch = lease.epoch /\ lease'.instance = lease.instance
<1>t. /\ LeaseInv /\ t \in Holders /\ t \in holders /\ lease.liveness = "warm" /\ lease \in LeaseRows
      /\ holders \subseteq Holders
  BY DEF LifeInv, TurnPinsLease, Working, Holders, LTypeOK, TypeOK
<1>1. [Next]_leaseVars  BY StepIsLeaseStep
<1>2. CASE UNCHANGED leaseVars  BY <1>t, <1>2 DEF leaseVars
<1>3. CASE Next
  <2>1. \/ lease'.liveness = "warm" /\ lease'.epoch = lease.epoch /\ lease'.instance = lease.instance
        \/ lease'.liveness = "warming" /\ holders = {t} /\ holders' = {t}
    BY <1>t, <1>3, StepKeepsBox DEF KeepsBoxOf
  <2>2. ASSUME lease'.liveness = "warming", holders = {t}, holders' = {t} PROVE FALSE
    <3>0. lease'.liveness # lease.liveness  BY <1>t, <2>2
    <3>1. ASSUME NEW w \in Holders, Process(w) PROVE FALSE
      <4>1. CASE AcquireAsSpawner(w)
        <5>1. w \in holders' /\ pc[w] = "idle"
          BY <4>1 DEF AcquireAsSpawner, AcquireSpawner, Arrive
        <5> QED  BY <2>2, <5>1 DEF Working
      <4>2. CASE AcquireLive(w)
        <5>1. w \in holders' /\ pc[w] = "idle"
          BY <4>2 DEF AcquireLive, AcquireRearmed, AcquireAttached, Arrive
        <5> QED  BY <2>2, <5>1 DEF Working
      <4>3. CASE LocalStep(w)  BY <3>0, <4>3, LocalStepsKeepRow DEF leaseVars
      <4>4. CASE RecordBox(w) \/ CommitBox(w) \/ Rollback(w)
        <5>1. lease.liveness = "warming" \/ lease' = lease
          BY <4>4 DEF RecordBox, RecordWarmingSandboxCreated, CommitBox, CommitWarmingToWarm, Rollback,
             FailWarmingToCold, WarmingAt, leaseVars
        <5> QED  BY <1>t, <3>0, <5>1
      <4>5. CASE Release(w)
        <5>1. lease'.liveness \in {lease.liveness, "draining"}
          BY <1>t, <4>5, DrainIfIdleEffect DEF Release, ReleaseLeaseHolder
        <5> QED  BY <2>2, <3>0, <5>1
      <4>6. CASE Heartbeat(w)
        BY <1>t, <3>0, <4>6 DEF Heartbeat, HeartbeatLeaseHolder, LeaseRows
      <4> QED  BY <3>1, <4>1, <4>2, <4>3, <4>4, <4>5, <4>6 DEF Process, LocalStep
    <3>2. CASE \E stale \in SUBSET holders : Sweep(stale)
      <4> PICK stale \in SUBSET holders : Sweep(stale)  BY <3>2
      <4> DEFINE d == DrainIfIdle(lease, holders \ stale)
      <4>1. (holders \ stale) \in SUBSET Holders /\ lease' = ResetWarming(d)
        BY <1>t DEF Sweep, ReapStaleLeaseHolders
      <4>2. d \in LeaseRows /\ d.liveness \in {"warm", "draining"}
        BY <1>t, <4>1, DrainIfIdleEffect
      <4> HIDE DEF d
      <4>3. lease' = d  BY <4>1, <4>2, ResetWarmingEffect
      <4> QED  BY <2>2, <4>2, <4>3
    <3>3. CASE OverLimit
      BY <1>t, <2>2, <3>3 DEF OverLimit, ForceDrainViewerOnly, LeaseRows
    <3>4. CASE PersistDrain \/ ConfirmDrain
      <4>1. lease' = lease
        BY <1>t, <3>4 DEF PersistDrain, ConfirmDrain, PersistDrainSnapshot, ConfirmDrainCold, DrainedAt, leaseVars
      <4> QED  BY <3>0, <4>1
    <3>5. CASE \/ CheckDrain \/ CaptureDrain \/ DeleteDrained \/ ReaperCrash
               \/ ReadLiveLeases \/ (\E b \in Boxes : KillOrphan(b)) \/ EndOrphanSweep
               \/ (\E b \in Boxes : BoxDies(b)) \/ UNCHANGED vars
      <4>1. lease' = lease
        BY <3>5 DEF CheckDrain, CaptureDrain, DeleteDrained, ReaperCrash, ReadLiveLeases, KillOrphan,
           EndOrphanSweep, BoxDies, vars, leaseVars
      <4> QED  BY <3>0, <4>1
    <3>6. CASE (\E u \in TurnHolders : StartCapture(u) \/ EndCapture(u)) \/ LeaseExpires
      BY <1>t, <3>0, <3>6 DEF StartCapture, EndCapture, PersistWarmSnapshot, LeaseExpires, Expire,
         leaseVars, LeaseRows
    <3> QED  BY <3>1, <3>2, <3>3, <3>4, <3>5, <3>6 DEF LNext, Reaper
  <2> QED  BY <2>1, <2>2
<1> QED  BY <1>1, <1>2, <1>3

\* How a turn comes to work, and that its epoch does not move while it does.
LEMMA TurnStartsWorking ==
  ASSUME LifeInv, NEW t \in TurnHolders, Process(t), pc'[t] \in Working
  PROVE  \/ pc[t] \in Working /\ at'[t] = at[t]
         \/ lease'.liveness = "warm" /\ at'[t] = lease'.epoch
<1>t. /\ t \in Holders /\ t \notin Viewers /\ pc \in [Holders -> PCs] /\ at \in [Holders -> Nat]
      /\ lease \in LeaseRows /\ holders \in SUBSET Holders /\ (holders \cup {t}) \in SUBSET Holders
  BY HolderAssumption DEF LifeInv, LTypeOK, TypeOK, Holders, Viewers
<1>1. CASE AcquireLive(t)
  <2>1. pc'[t] = AttachedPc(t, lease.liveness) /\ at'[t] = lease.epoch
    BY <1>t, <1>1 DEF AcquireLive, Goto
  <2>2. lease.liveness # "warming"  BY <1>t, <2>1 DEF AttachedPc, Working
  <2>3. lease'.liveness = "warm" /\ lease'.epoch = lease.epoch
    <3>1. CASE AcquireRearmed(t, BuildOf[t])
      <4> DEFINE row == [lease EXCEPT !.liveness = "warm", !.expired = FALSE]
      <4>1. row \in LeaseRows /\ row.liveness = "warm" /\ row.epoch = lease.epoch
        BY <1>t DEF LeaseRows, Livenesses
      <4>2. lease' = Recount(row, holders \cup {t})  BY <3>1 DEF AcquireRearmed
      <4> HIDE DEF row
      <4> QED  BY <1>t, <4>1, <4>2, RecountExact
    <3>2. CASE AcquireAttached(t, BuildOf[t])
      <4> DEFINE row == [lease EXCEPT !.expired = FALSE]
      <4>1. row \in LeaseRows /\ row.liveness = "warm" /\ row.epoch = lease.epoch
        BY <1>t, <2>2, <3>2 DEF LeaseRows, AcquireAttached
      <4>2. lease' = Recount(row, holders \cup {t})  BY <3>2 DEF AcquireAttached
      <4> HIDE DEF row
      <4> QED  BY <1>t, <4>1, <4>2, RecountExact
    <3> QED  BY <1>1, <3>1, <3>2 DEF AcquireLive
  <2> QED  BY <2>1, <2>3
<1>2. CASE CommitBox(t)
  BY <1>t, <1>2 DEF CommitBox, CommitWarmingToWarm, WarmingAt, LeaseRows
<1>3. CASE WaitForWarm(t)
  BY <1>t, <1>3 DEF WaitForWarm, Goto, Working, leaseVars
<1>4. CASE \/ ReadEnvelope(t) \/ ResumeById(t) \/ RestoreRival(t) \/ WriteFile(t) \/ Heartbeat(t)
           \/ AcquireConflict(t)
  BY <1>t, <1>4 DEF ReadEnvelope, ResumeById, RestoreRival, WriteFile, Heartbeat, AcquireConflict, Goto,
     Arrive, Working, procVars, lifeVars
<1>5. CASE AcquireAsSpawner(t) \/ CreateBox(t) \/ RecordBox(t) \/ RecordMisses(t) \/ HydrateWorkspace(t)
  BY <1>t, <1>5 DEF AcquireAsSpawner, CreateBox, AfterCreate, RecordBox, RecordMisses, HydrateWorkspace,
     Goto, Working
<1>6. CASE CommitMisses(t) \/ UndoSpawn(t) \/ SpawnFails(t) \/ StopFailedSpawn(t) \/ Rollback(t)
  BY <1>t, <1>6 DEF CommitMisses, UndoSpawn, SpawnFails, StopFailedSpawn, Rollback, Goto, Working
<1>7. CASE Release(t) \/ AttachFails(t) \/ Finish(t) \/ Crash(t) \/ Reincarnate(t)
  BY <1>t, <1>7 DEF Release, AttachFails, Finish, Crash, Reincarnate, Goto, Working
<1> QED  BY <1>1, <1>2, <1>3, <1>4, <1>5, <1>6, <1>7 DEF Process

\* A turn that works or starts to has the row warm at its own epoch.
LEMMA PinsKept ==
  ASSUME LifeInv, [LNext]_vars PROVE TurnPinsLease'
<1> SUFFICES ASSUME NEW t \in TurnHolders, pc'[t] \in Working
             PROVE  t \in holders' /\ lease'.liveness = "warm" /\ lease'.epoch = at'[t]
  BY DEF TurnPinsLease, Working
<1>1. t \in holders' /\ t \in Holders
  BY RowsKept DEF TurnsKeepTheirRow, Working, Holders
<1>2. ASSUME pc[t] \in Working, at'[t] = at[t] PROVE lease'.liveness = "warm" /\ lease'.epoch = at'[t]
  BY <1>1, <1>2, WorkingTurnKeepsRow DEF LifeInv, TurnPinsLease, Working
<1>3. CASE Process(t)  BY <1>1, <1>2, <1>3, TurnStartsWorking
<1>4. CASE ~ Process(t)
  <2>1. pc'[t] = pc[t] /\ at'[t] = at[t]
    BY <1>1, <1>4, OthersStayPut, OnlyProcessesMove DEF LifeInv, procVars
  <2> QED  BY <1>1, <1>2, <2>1
<1> QED  BY <1>3, <1>4

-----------------------------------------------------------------------------
(* The invariant of the lifecycle *)

\* Nothing has happened yet.
LEMMA InitLifeInv == LInit => LifeInv
<1> SUFFICES ASSUME LInit PROVE LifeInv  OBVIOUS
<1>1. LeaseInv  BY InitLeaseInv DEF LInit
<1>2. LTypeOK
  BY <1>1, EnvironmentAssumption DEF LInit, LTypeOK, LeaseInv, PCs
<1>3. MemoryTypes
  BY DEF LInit, MemoryTypes, Stored, NoEnv, NoCap, NoDrain, NoOrphan
<1>4. ArchivesSoFar /\ EpochsRead
  BY DEF LInit, Init, ArchivesSoFar, SoFar, EpochsRead, NoEnv, NoCap, NoDrain
<1>5. SpawnersHaveABox /\ TurnsKeepTheirRow /\ IdleHoldsNothing /\ TurnPinsLease
  BY DEF LInit, Init, SpawnersHaveABox, TurnsKeepTheirRow, IdleHoldsNothing, TurnPinsLease, Holders
<1> QED  BY <1>1, <1>2, <1>3, <1>4, <1>5 DEF LifeInv

\* Every step keeps the invariant, one part at a time.
LEMMA StepKeepsLifeInv == LifeInv /\ [LNext]_vars => LifeInv'
<1> SUFFICES ASSUME LifeInv, [LNext]_vars PROVE LifeInv'  OBVIOUS
<1>1. LeaseInv'  BY StepIsLeaseStep, NextKeepsInv DEF LifeInv
<1>b. /\ live' \subseteq Boxes /\ tagged' \subseteq live'
      /\ files' \in [Boxes -> SUBSET (1 .. now')]
      /\ now' \in 0 .. MaxWrites /\ now <= now' /\ saved' \subseteq 1 .. now'
      /\ now \in Nat /\ now' \in Nat
  BY BoxTypes, EnvironmentAssumption DEF LifeInv, LTypeOK
<1>e. lease'.epoch \in Nat /\ lease.epoch \in Nat /\ lease.epoch <= lease'.epoch
  BY EpochNeverFalls DEF LifeInv, LTypeOK, TypeOK, LeaseRows
<1>p. /\ pc' \in [Holders -> PCs] /\ at' \in [Holders -> Nat]
      /\ mine' \in [Holders -> Boxes \cup {NoBox}]
      /\ env' \in [Holders -> [box : Boxes \cup {NoBox}, arch : Stored, prev : Stored]]
      /\ SpawnersHaveABox'
      /\ \A v \in Holders : SoFar(env'[v].arch) /\ SoFar(env'[v].prev) /\ at'[v] <= lease'.epoch
  <2>t. /\ pc \in [Holders -> PCs] /\ at \in [Holders -> Nat] /\ SpawnersHaveABox
        /\ mine \in [Holders -> Boxes \cup {NoBox}]
        /\ env \in [Holders -> [box : Boxes \cup {NoBox}, arch : Stored, prev : Stored]]
        /\ \A v \in Holders : SoFar(env[v].arch) /\ SoFar(env[v].prev) /\ at[v] <= lease.epoch
        /\ LTypeOK /\ MemoryTypes
    BY DEF LifeInv, LTypeOK, MemoryTypes, ArchivesSoFar, EpochsRead
  <2>1. ASSUME NEW w \in Holders, Process(w)
        PROVE  /\ SpawnersHaveABox'
               /\ \A v \in Holders : SoFar(env'[v].arch) /\ SoFar(env'[v].prev) /\ at'[v] <= lease'.epoch
    <3>1. \A v \in Holders : v # w =>
            pc'[v] = pc[v] /\ at'[v] = at[v] /\ env'[v] = env[v] /\ mine'[v] = mine[v]
      BY <2>1, <2>t, OthersStayPut
    <3>2. SoFar(env'[w].arch) /\ SoFar(env'[w].prev) /\ at'[w] <= lease'.epoch
      BY <2>1, EnvelopesSoFar, ProcessEpochs
    <3>3. pc'[w] \in {"record", "rerecord", "hydrate", "commit"} => mine'[w] \in Boxes
      BY <2>1, ProcessTypes
    <3>4. \A v \in Holders : at[v] <= lease'.epoch  BY <1>e, <2>t
    <3>5. SpawnersHaveABox'  BY <2>t, <3>1, <3>3 DEF SpawnersHaveABox
    <3> QED  BY <2>t, <3>1, <3>2, <3>4, <3>5
  <2>2. CASE \E w \in Holders : Process(w)  BY <2>1, <2>2, ProcessTypes
  <2>3. CASE \A w \in Holders : ~ Process(w)
    <3>1. pc' = pc /\ at' = at /\ env' = env /\ mine' = mine  BY <2>3, OnlyProcessesMove DEF procVars
    <3>2. \A v \in Holders : at[v] <= lease'.epoch  BY <1>e, <2>t
    <3>3. SpawnersHaveABox'  BY <2>t, <3>1 DEF SpawnersHaveABox
    <3> QED  BY <2>t, <3>1, <3>2, <3>3
  <2> QED  BY <2>2, <2>3
<1>2. LTypeOK'  BY <1>1, <1>b, <1>p DEF LTypeOK, LeaseInv
<1>3. MemoryTypes'  BY <1>p, ActivityTypes DEF MemoryTypes
<1>4. EpochsRead'
  <2>1. \A t \in TurnHolders : cap'[t].epoch <= lease.epoch /\ cap'[t].epoch \in Nat
    BY <1>3, CapturesRead DEF MemoryTypes, NoCap
  <2>2. reaper'.epoch \in Nat /\ (reaper'.epoch <= lease.epoch \/ reaper'.epoch = lease'.epoch)
    BY <1>3, DrainsRead DEF MemoryTypes
  <2>3. \A t \in TurnHolders : cap'[t].epoch <= lease'.epoch  BY <1>e, <2>1
  <2>4. reaper'.epoch <= lease'.epoch  BY <1>e, <2>2
  <2> QED  BY <1>p, <2>3, <2>4 DEF EpochsRead
<1>5. ArchivesSoFar'
  <2>1. ASSUME NEW a, SoFar(a) PROVE a # NoArchive => a.has \subseteq 1 .. now'
    <3>1. 1 .. now \subseteq 1 .. now'  BY <1>b
    <3> QED  BY <2>1, <3>1 DEF SoFar
  <2>2. SoFar(lease'.arch) /\ SoFar(lease'.prev) /\ SoFar(reaper'.arch)
    BY RowArchivesSoFar, DrainsRead
  <2>3. \A t \in TurnHolders : SoFar(cap'[t].arch)  BY CapturesRead
  <2>4. /\ lease'.arch # NoArchive => lease'.arch.has \subseteq 1 .. now'
        /\ lease'.prev # NoArchive => lease'.prev.has \subseteq 1 .. now'
        /\ reaper'.arch # NoArchive => reaper'.arch.has \subseteq 1 .. now'
    BY <2>1, <2>2
  <2>5. \A v \in Holders : /\ env'[v].arch # NoArchive => env'[v].arch.has \subseteq 1 .. now'
                           /\ env'[v].prev # NoArchive => env'[v].prev.has \subseteq 1 .. now'
    BY <1>p, <2>1
  <2>6. \A t \in TurnHolders : cap'[t].arch # NoArchive => cap'[t].arch.has \subseteq 1 .. now'
    BY <2>1, <2>3
  <2> QED  BY <2>4, <2>5, <2>6 DEF ArchivesSoFar, SoFar
<1> QED  BY <1>1, <1>2, <1>3, <1>4, <1>5, <1>p, RowsKept, PinsKept DEF LifeInv

\* The inductive invariant holds in every reachable state, under every set of
\* faults.
THEOREM LifeInvariant == LSpec => []LifeInv
<1> QED  BY InitLifeInv, StepKeepsLifeInv, PTL DEF LSpec

\* Every variable keeps its type; in particular no box, archive or saved set holds
\* a write that has not happened, and only running boxes are tagged.
THEOREM LifecycleTypesHold == LSpec => []LTypeOK
<1>1. LifeInv => LTypeOK  BY DEF LifeInv
<1> QED  BY <1>1, LifeInvariant, PTL

\* resumeBoxForTurn's promise { established, leaseEpoch }: from the attach or the
\* commit to the release the turn's holder row is there, the row is warm and has the
\* turn's epoch, whatever crashes, overruns, box losses, reaps, over-limit drains,
\* rival spawns and re-arms happen around it.
THEOREM TurnsPinTheirLease == LSpec => []TurnPinsLease
<1>1. LifeInv => TurnPinsLease  BY DEF LifeInv
<1> QED  BY <1>1, LifeInvariant, PTL

\* Every way out of resumeBoxForTurn, withChannelA and attachViewer releases: a
\* process that is done has no holder row, so no box stays warm for nobody.
THEOREM IdleProcessesHoldNothing == LSpec => []IdleHoldsNothing
<1>1. LifeInv => IdleHoldsNothing  BY DEF LifeInv
<1> QED  BY <1>1, LifeInvariant, PTL

\* Refinement: the processes, the reaper and the clock implement the lease protocol
\* of SandboxLease, so all that is proved of Spec holds of the whole system.
THEOREM LifecycleImplementsLease == LSpec => LeaseProtocol
<1>1. LInit => Init  BY DEF LInit
<1>2. LifeInv /\ [LNext]_vars => [Next]_leaseVars  BY StepIsLeaseStep
<1> QED  BY <1>1, <1>2, LifeInvariant, PTL DEF LSpec, LeaseProtocol, Spec

-----------------------------------------------------------------------------
(* The drain's stop *)

\* While the reaper is at work on a draining row and nobody acquires, only the
\* reaper itself moves the row on.
LEMMA DrainingRowStays ==
  ASSUME LifeInv, [LNext]_vars, lease.liveness = "draining", reaper.pc # "idle",
         \A w \in Holders : ~ Arrive(w), ~ ConfirmDrain
  PROVE  /\ lease'.liveness = "draining" /\ lease'.instance = lease.instance
         /\ lease'.epoch = lease.epoch /\ lease'.build = lease.build
         /\ ~ PersistDrain => lease'.arch = lease.arch
<1> DEFINE Stays == /\ lease'.liveness = "draining" /\ lease'.instance = lease.instance
                    /\ lease'.epoch = lease.epoch /\ lease'.build = lease.build
<1>t. lease \in LeaseRows /\ holders \in SUBSET Holders  BY DEF LifeInv, LTypeOK, TypeOK
<1>u. UNCHANGED leaseVars => Stays /\ lease'.arch = lease.arch  BY DEF leaseVars
<1>1. ASSUME NEW w \in Holders, Process(w) PROVE Stays /\ lease'.arch = lease.arch
  <2>1. CASE LocalStep(w)  BY <1>u, <2>1, LocalStepsKeepRow
  <2>2. CASE Release(w)
    <3>1. (holders \ {w}) \in SUBSET Holders  BY <1>t
    <3> QED  BY <1>t, <2>2, <3>1, DrainIfIdleEffect DEF Release, ReleaseLeaseHolder
  <2>3. CASE Rollback(w)
    BY <1>u, <2>3 DEF Rollback, FailWarmingToCold, WarmingAt
  <2>4. ~ (AcquireAsSpawner(w) \/ AcquireLive(w) \/ RecordBox(w) \/ CommitBox(w) \/ Heartbeat(w))
    BY DEF AcquireAsSpawner, AcquireLive, RecordBox, RecordWarmingSandboxCreated, CommitBox,
       CommitWarmingToWarm, WarmingAt, Heartbeat, HeartbeatLeaseHolder
  <2> QED  BY <1>1, <2>1, <2>2, <2>3, <2>4 DEF Process, LocalStep
<1>2. ASSUME NEW t \in TurnHolders, StartCapture(t) \/ EndCapture(t) PROVE Stays /\ lease'.arch = lease.arch
  BY <1>u, <1>2 DEF StartCapture, EndCapture, PersistWarmSnapshot, leaseVars
<1>3. CASE PersistDrain
  <2>1. Stays  BY <1>t, <1>u, <1>3 DEF PersistDrain, PersistDrainSnapshot, LeaseRows
  <2> QED  BY <1>3, <2>1
<1>4. ASSUME Reaper, ~ PersistDrain PROVE Stays /\ lease'.arch = lease.arch
  <2>1. ~ ((\E stale \in SUBSET holders : Sweep(stale)) \/ OverLimit)  BY DEF Sweep, OverLimit
  <2> QED  BY <1>4, <1>u, <2>1 DEF Reaper, CheckDrain, CaptureDrain, DeleteDrained, ReaperCrash,
              ReadLiveLeases, KillOrphan, EndOrphanSweep
<1>5. ASSUME LeaseExpires PROVE Stays /\ lease'.arch = lease.arch
  BY <1>t, <1>5 DEF LeaseExpires, Expire, LeaseRows
<1>6. ASSUME (\E b \in Boxes : BoxDies(b)) \/ UNCHANGED vars PROVE Stays /\ lease'.arch = lease.arch
  BY <1>u, <1>6 DEF BoxDies, vars, leaseVars
<1> QED  BY <1>1, <1>2, <1>3, <1>4, <1>5, <1>6 DEF LNext

\* From the drain's last gate to its stop the row is draining.
DrainHoldsRow == reaper.pc = "delete" => lease.liveness = "draining"

\* A viewer keeps a holder row and never a handle on the box.
ViewersOnlyWatch == \A v \in Viewers : pc[v] \notin Working \cup {"waitwarm"}

\* attachViewer commits without a handle and never resumes a box.
LEMMA ViewersKeepWatching ==
  ASSUME LifeInv, ViewersOnlyWatch, [LNext]_vars PROVE ViewersOnlyWatch'
<1> SUFFICES ASSUME NEW v \in Viewers PROVE pc'[v] \notin Working \cup {"waitwarm"}
  BY DEF ViewersOnlyWatch
<1>t. /\ v \in Holders /\ v \notin TurnHolders /\ pc \in [Holders -> PCs] /\ LTypeOK /\ MemoryTypes
      /\ pc[v] \notin Working \cup {"waitwarm"}
  BY HolderAssumption DEF Viewers, Holders, LifeInv, LTypeOK, ViewersOnlyWatch
<1>1. CASE Process(v)
  <2>1. CASE AcquireAsSpawner(v) \/ AcquireLive(v) \/ AcquireConflict(v) \/ CommitBox(v)
    BY <1>t, <2>1 DEF AcquireAsSpawner, AcquireLive, AttachedPc, AcquireConflict, CommitBox, Goto,
       Working, lifeVars
  <2>2. CASE \/ CreateBox(v) \/ RecordBox(v) \/ RecordMisses(v) \/ HydrateWorkspace(v)
             \/ CommitMisses(v) \/ UndoSpawn(v)
    BY <1>t, <2>2 DEF CreateBox, AfterCreate, RecordBox, RecordMisses, HydrateWorkspace, CommitMisses,
       UndoSpawn, Goto, Working
  <2>3. CASE SpawnFails(v) \/ StopFailedSpawn(v) \/ Rollback(v) \/ Release(v)
    BY <1>t, <2>3 DEF SpawnFails, StopFailedSpawn, Rollback, Release, Goto, Working
  <2>4. CASE AttachFails(v) \/ WriteFile(v) \/ Heartbeat(v) \/ Finish(v) \/ Crash(v) \/ Reincarnate(v)
    BY <1>t, <2>4 DEF AttachFails, WriteFile, Heartbeat, Finish, Crash, Reincarnate, Goto, Working,
       procVars, lifeVars
  <2>5. ~ (WaitForWarm(v) \/ ReadEnvelope(v) \/ ResumeById(v) \/ RestoreRival(v))
    BY <1>t DEF WaitForWarm, ReadEnvelope, ResumeById, RestoreRival, Working
  <2> QED  BY <1>1, <2>1, <2>2, <2>3, <2>4, <2>5 DEF Process
<1>2. CASE ~ Process(v)
  <2>1. pc'[v] = pc[v]  BY <1>t, <1>2, OthersStayPut, OnlyProcessesMove DEF procVars
  <2> QED  BY <1>t, <2>1
<1> QED  BY <1>1, <1>2

\* Only an acquire leaves draining while the reaper is between the gate and the stop.
LEMMA DrainKeepsHoldingRow ==
  ASSUME LifeInv, DrainHoldsRow, [LNext]_vars, "lateRearm" \notin Faults PROVE DrainHoldsRow'
<1> SUFFICES ASSUME reaper'.pc = "delete" PROVE lease'.liveness = "draining"
  BY DEF DrainHoldsRow
<1>t. /\ reaper \in [pc : {"idle", "check", "capture", "persist", "delete", "confirm"},
                     epoch : Nat, box : Boxes \cup {NoBox}, arch : Stored]
      /\ lease \in LeaseRows /\ NoDrain.pc = "idle"
  BY DEF LifeInv, LTypeOK, TypeOK, MemoryTypes, NoDrain
<1>1. CASE PersistDrain
  <2>1. PersistDrainSnapshot(reaper.epoch, [reaper.arch EXCEPT !.at = now])
    BY <1>t, <1>1 DEF PersistDrain
  <2> QED  BY <1>t, <2>1 DEF PersistDrainSnapshot, DrainedAt, LeaseRows
<1>2. CASE ~ PersistDrain
  <2>1. reaper' = reaper
    <3>1. ~ ((\E stale \in SUBSET holders : Sweep(stale)) /\ reaper' # reaper)
      <4>1. [NoDrain EXCEPT !.pc = "check", !.epoch = lease'.epoch].pc = "check"  BY DEF NoDrain
      <4> QED  BY <4>1 DEF Sweep
    <3>2. ~ (CheckDrain \/ CaptureDrain \/ DeleteDrained \/ ConfirmDrain \/ ReaperCrash)
      BY <1>t DEF CheckDrain, CaptureDrain, DeleteDrained, ConfirmDrain, ReaperCrash
    <3>3. ASSUME OverLimit \/ ReadLiveLeases \/ (\E b \in Boxes : KillOrphan(b)) \/ EndOrphanSweep
                 \/ LeaseExpires \/ (\E b \in Boxes : BoxDies(b)) \/ UNCHANGED vars
          PROVE  reaper' = reaper
      BY <3>3 DEF OverLimit, ReadLiveLeases, KillOrphan, EndOrphanSweep, LeaseExpires, BoxDies, lifeVars, vars
    <3>4. ASSUME NEW w \in Holders, Process(w) PROVE reaper' = reaper  BY <3>4, ProcessLeavesReaper
    <3>5. ASSUME NEW u \in TurnHolders, StartCapture(u) \/ EndCapture(u) PROVE reaper' = reaper
      BY <3>5 DEF StartCapture, EndCapture
    <3> QED  BY <1>2, <3>1, <3>2, <3>3, <3>4, <3>5 DEF LNext, Reaper
  <2>2. reaper.pc = "delete" /\ lease.liveness = "draining"  BY <2>1 DEF DrainHoldsRow
  <2>3. \A w \in Holders : ~ Arrive(w)  BY <2>2 DEF Arrive
  <2>4. ~ ConfirmDrain  BY <2>2 DEF ConfirmDrain
  <2> QED  BY <2>2, <2>3, <2>4, DrainingRowStays
<1> QED  BY <1>1, <1>2

\* The reaper stops no box a turn works in, also when the row was re-armed during
\* the drain's capture: the gate of persistDrainSnapshot sees it.  An acquire after
\* the gate, and a Channel-A request whose holder row was reaped while it works,
\* are the two windows in which the stop is not fenced.
THEOREM DrainStopsSpareHeldBoxes ==
  ASSUME "lateRearm" \notin Faults, ChannelOps = {}
  PROVE  LSpec => []StopSparesHeldBox
<1> DEFINE Inv == LifeInv /\ ViewersOnlyWatch /\ DrainHoldsRow
<1>1. LInit => Inv
  BY InitLifeInv DEF LInit, ViewersOnlyWatch, DrainHoldsRow, NoDrain, Working, Viewers, Holders
<1>2. Inv /\ [LNext]_vars => Inv'
  BY StepKeepsLifeInv, ViewersKeepWatching, DrainKeepsHoldingRow
<1>3. Inv => StopSparesHeldBox
  <2> SUFFICES ASSUME Inv, reaper.pc = "delete", NEW w \in Holders, pc[w] = "running" PROVE FALSE
    BY DEF StopSparesHeldBox
  <2>1. CASE w \in TurnHolders  BY <2>1 DEF LifeInv, TurnPinsLease, DrainHoldsRow
  <2>2. CASE w \notin TurnHolders  BY <2>2 DEF ViewersOnlyWatch, Viewers, Holders, Working
  <2> QED  BY <2>1, <2>2
<1> HIDE DEF Inv
<1> QED  BY <1>1, <1>2, <1>3, PTL DEF LSpec
=============================================================================
