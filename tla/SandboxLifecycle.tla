-------------------------- MODULE SandboxLifecycle --------------------------
(***************************************************************************)
(* The processes that share one sandbox lease, and the provider's boxes:   *)
(*   - turn workers (resumeBoxForTurn and the end of a turn);              *)
(*   - desktop viewers (attachViewer, heartbeatViewer, detachViewer);      *)
(*   - Channel-A requests (withChannelA), which hold the lease as viewers; *)
(*   - the reaper activity: sweep, drain, terminate, confirm;              *)
(*   - the Modal orphan sweep, which runs at the end of that activity.     *)
(*                                                                         *)
(* Every step is what happens between two awaits.  The database steps are  *)
(* the actions of SandboxLease; this module says who takes them, when, and *)
(* with the values each process read earlier.                              *)
(***************************************************************************)
EXTENDS SandboxLease

CONSTANTS
  ChannelOps,  \* the viewer-kind holders that are Channel-A requests
  BuildOf,     \* the image and rig each process resolves
  MaxWrites,   \* bound on file writes (model bound)
  Faults       \* what the environment may do, a subset of FaultKinds

Viewers == ViewerHolders \ ChannelOps

(***************************************************************************)
(* crash       a process dies between two steps                            *)
(* overrun     a spawn outlives the warming budget, or a heartbeat is late *)
(* boxLoss     the provider loses a box                                    *)
(* stopFails   a provider stop is raised and swallowed                     *)
(* badArchive  an archive does not hydrate                                 *)
(* midRearm    an acquire lands between the drain's re-read and its gate   *)
(* lateRearm   an acquire lands between the drain gate and the cold commit *)
(* orphanSweep the deployment runs the Modal orphan sweep                  *)
(* captureFails the drain's resume or snapshot raises                      *)
(* reaperCrash the reaper activity dies between two steps                  *)
(***************************************************************************)
FaultKinds ==
  {"crash", "overrun", "boxLoss", "stopFails", "badArchive", "midRearm", "lateRearm", "orphanSweep",
   "captureFails", "reaperCrash"}

ASSUME ProcessAssumption ==
  /\ ChannelOps \subseteq ViewerHolders
  /\ BuildOf \in [Holders -> Builds \cup {NoBuild}]
ASSUME EnvironmentAssumption == MaxWrites \in Nat /\ Faults \subseteq FaultKinds
ASSUME CaptureAssumption == Archives = [at : 0 .. MaxWrites, has : SUBSET (1 .. MaxWrites)]

VARIABLES
  pc,      \* where each process is
  at,      \* the lease epoch each process carries
  env,     \* the envelope each process read: [box, arch, prev]
  mine,    \* the box each process has a handle on
  cap,     \* each turn's capture in flight: [arch, epoch]
  live,    \* boxes running at the provider
  files,   \* what each box's /workspace holds, a set of writes
  tagged,  \* boxes tagged with this lease
  now,     \* number of writes so far; the capture clock
  saved,   \* history: every write some landed capture held
  reaper,  \* the reaper activity: [pc, epoch, box, arch]
  orphan   \* the orphan sweep: [pc, known, box, old]

procVars  == <<pc, at, env, mine>>
boxVars   == <<live, files, tagged>>
lifeVars  == <<pc, at, env, mine, cap, live, files, tagged, now, saved, reaper, orphan>>
vars      == <<lease, holders, lifeVars>>

PCs == {"idle", "create", "record", "hydrate", "rerecord", "commit", "undo", "fail", "rollback",
        "release", "waitwarm", "resume", "attach", "running", "attached", "dead"}

NoEnv    == [box |-> NoBox, arch |-> NoArchive, prev |-> NoArchive]
NoCap    == [arch |-> NoArchive, epoch |-> 0]
NoDrain  == [pc |-> "idle", epoch |-> 0, box |-> NoBox, arch |-> NoArchive]
NoOrphan == [pc |-> "idle", known |-> FALSE, box |-> NoBox, old |-> {}]

LInit ==
  /\ Init
  /\ pc = [w \in Holders |-> "idle"] /\ at = [w \in Holders |-> 0]
  /\ env = [w \in Holders |-> NoEnv] /\ mine = [w \in Holders |-> NoBox]
  /\ cap = [t \in TurnHolders |-> NoCap]
  /\ live = {} /\ files = [b \in Boxes |-> {}] /\ tagged = {}
  /\ now = 0 /\ saved = {}
  /\ reaper = NoDrain /\ orphan = NoOrphan

Goto(w, l) == pc' = [pc EXCEPT ![w] = l]
Envelope(row) == [box |-> row.instance, arch |-> row.arch, prev |-> row.prev]

-----------------------------------------------------------------------------
(* The provider *)

\* Ids of boxes not yet created: absent, and no one remembers them.
FreshBoxes ==
  {b \in Boxes : /\ b \notin live /\ b # lease.instance
                 /\ b # reaper.box /\ b # orphan.box /\ b \notin orphan.old
                 /\ \A w \in Holders : b # mine[w] /\ b # env[w].box}

\* box gone (NoBox: none) is stopped and box new is started with contents c.
Swap(gone, new, c) ==
  /\ live' = (live \ {gone}) \cup {new}
  /\ files' = [b \in Boxes |-> IF b = new THEN c ELSE IF b = gone THEN {} ELSE files[b]]
  /\ tagged' = tagged \ {gone}

Stop(gone) ==
  /\ live' = live \ {gone}
  /\ files' = [b \in Boxes |-> IF b = gone THEN {} ELSE files[b]]
  /\ tagged' = tagged \ {gone}

\* A provider stop whose error the caller swallows.
StopMayFail(gone) ==
  \/ Stop(gone)
  \/ "stopFails" \in Faults /\ UNCHANGED boxVars

\* What coldRestore can leave in /workspace: the current archive; if it does not
\* hydrate, the previous one; if neither does, a clean box.
Hydrated(e) ==
  {IF e.arch = NoArchive THEN {} ELSE e.arch.has} \cup
  (IF "badArchive" \in Faults /\ e.arch # NoArchive
   THEN {{}} \cup (IF e.prev = NoArchive THEN {} ELSE {e.prev.has})
   ELSE {})

-----------------------------------------------------------------------------
(* Acquiring: a turn, a viewer or a Channel-A request arrives *)

AttachWithoutWaiting(w, liveness) == IF w \in Viewers THEN "attached" ELSE "resume"

\* Where an attached or re-armed caller goes: a viewer only keeps its holder row,
\* a turn waits for a warming row, a Channel-A request never waits.
AttachedPc(w, liveness) ==
  IF w \in Viewers THEN "attached"
  ELSE IF w \in TurnHolders /\ liveness = "warming" THEN "waitwarm" ELSE "resume"

Arrive(w) ==
  /\ pc[w] = "idle"
  /\ reaper.pc \in {"capture", "persist"} => "midRearm" \in Faults
  /\ reaper.pc \in {"delete", "confirm"} => "lateRearm" \in Faults

AcquireAsSpawner(w) ==
  /\ Arrive(w)
  /\ AcquireSpawner(w, BuildOf[w])
  /\ Goto(w, "create")
  /\ at' = [at EXCEPT ![w] = lease.epoch]
  /\ env' = [env EXCEPT ![w] = Envelope(AfterConflict(w, BuildOf[w]))]
  /\ UNCHANGED <<mine, cap, boxVars, now, saved, reaper, orphan>>

AcquireLive(w) ==
  /\ Arrive(w)
  /\ AcquireRearmed(w, BuildOf[w]) \/ AcquireAttached(w, BuildOf[w])
  /\ Goto(w, AttachedPc(w, lease.liveness))
  /\ at' = [at EXCEPT ![w] = lease.epoch]
  /\ UNCHANGED <<env, mine, cap, boxVars, now, saved, reaper, orphan>>

\* SandboxImageConflictError / SandboxRigConflictError: the caller gives up.
AcquireConflict(w) ==
  /\ Arrive(w)
  /\ AcquireRefused(w, BuildOf[w])
  /\ UNCHANGED lifeVars

-----------------------------------------------------------------------------
(* The spawner branch.  A turn records the created box on the warming row;   *)
(* a viewer or a Channel-A request goes straight to the commit.              *)

AfterCreate(w) ==
  IF w \in TurnHolders THEN "record" ELSE IF env[w].arch # NoArchive THEN "hydrate" ELSE "commit"

CreateBox(w) ==
  /\ pc[w] = "create"
  /\ \E b \in FreshBoxes :
       /\ Swap(NoBox, b, {})
       /\ mine' = [mine EXCEPT ![w] = b]
  /\ Goto(w, AfterCreate(w))
  /\ UNCHANGED <<leaseVars, at, env, cap, now, saved, reaper, orphan>>

\* onSandboxCreated: record the id, then tag the box (best effort).
Recording(w) == pc[w] \in {"record", "rerecord"}

RecordDropsArchive(w) ==
  /\ Recording(w)
  /\ RecordWarmingSandboxCreated(at[w], mine[w], NoArchive)
  /\ Goto(w, IF pc[w] = "record" /\ env[w].arch # NoArchive THEN "hydrate" ELSE "commit")
  /\ tagged' \in {tagged, tagged \cup ({mine[w]} \cap live)}
  /\ UNCHANGED <<at, env, mine, cap, live, files, now, saved, reaper, orphan>>

RecordBox(w) ==
  /\ Recording(w)
  /\ RecordWarmingSandboxCreated(at[w], mine[w], env[w].arch)
  /\ Goto(w, IF pc[w] = "record" /\ env[w].arch # NoArchive THEN "hydrate" ELSE "commit")
  /\ tagged' \in {tagged, tagged \cup ({mine[w]} \cap live)}
  /\ UNCHANGED <<at, env, mine, cap, live, files, now, saved, reaper, orphan>>

RecordMisses(w) ==
  /\ Recording(w) /\ ~ WarmingAt(at[w])
  /\ Goto(w, "undo")
  /\ UNCHANGED <<leaseVars, at, env, mine, cap, boxVars, now, saved, reaper, orphan>>

\* hydrateWorkspace boots a replacement from the archive and stops the placeholder.
HydrateWorkspace(w) ==
  /\ pc[w] = "hydrate"
  /\ \E b \in FreshBoxes, c \in Hydrated(env[w]) :
       /\ Swap(mine[w], b, c)
       /\ mine' = [mine EXCEPT ![w] = b]
  /\ Goto(w, IF w \in TurnHolders THEN "rerecord" ELSE "commit")
  /\ UNCHANGED <<leaseVars, at, env, cap, now, saved, reaper, orphan>>

\* commitWarmingToWarm.  A viewer drops the handle; the lease owns the box.
CommitKeepsEpoch(w) ==
  /\ pc[w] = "commit" /\ WarmingAt(at[w])
  /\ lease' = [lease EXCEPT !.liveness = "warm", !.instance = mine[w], !.expired = FALSE]
  /\ UNCHANGED holders
  /\ Goto(w, IF w \in Viewers THEN "attached" ELSE "running")
  /\ mine' = IF w \in Viewers THEN [mine EXCEPT ![w] = NoBox] ELSE mine
  /\ UNCHANGED <<at, env, cap, boxVars, now, saved, reaper, orphan>>

CommitBox(w) ==
  /\ pc[w] = "commit"
  /\ CommitWarmingToWarm(at[w], mine[w])
  /\ Goto(w, IF w \in Viewers THEN "attached" ELSE "running")
  /\ at' = [at EXCEPT ![w] = lease.epoch + 1]
  /\ mine' = IF w \in Viewers THEN [mine EXCEPT ![w] = NoBox] ELSE mine
  /\ UNCHANGED <<env, cap, boxVars, now, saved, reaper, orphan>>

\* A commit that misses: a turn stops its own box first, the API leaves it.
CommitMissForgets(w) ==
  /\ pc[w] = "commit" /\ ~ WarmingAt(at[w])
  /\ Goto(w, IF w \in TurnHolders THEN "undo" ELSE "idle")
  /\ UNCHANGED <<leaseVars, at, env, mine, cap, boxVars, now, saved, reaper, orphan>>

CommitMisses(w) ==
  /\ pc[w] = "commit" /\ ~ WarmingAt(at[w])
  /\ Goto(w, IF w \in TurnHolders THEN "undo" ELSE "release")
  /\ UNCHANGED <<leaseVars, at, env, mine, cap, boxVars, now, saved, reaper, orphan>>

UndoForgetsRelease(w) ==
  /\ pc[w] = "undo"
  /\ StopMayFail(mine[w])
  /\ Goto(w, "idle")
  /\ UNCHANGED <<leaseVars, at, env, mine, cap, now, saved, reaper, orphan>>

UndoSpawn(w) ==
  /\ pc[w] = "undo"
  /\ StopMayFail(mine[w])
  /\ Goto(w, "release")
  /\ UNCHANGED <<leaseVars, at, env, mine, cap, now, saved, reaper, orphan>>

\* The create, the record callback, the clean box after two bad archives, the
\* display stack, the stream port or the commit raised.  Only a Channel-A request
\* does not roll the row back when it was the commit.
SpawnFails(w) ==
  /\ \/ pc[w] \in {"create", "commit"} /\ UNCHANGED boxVars
     \/ /\ Recording(w) \/ (pc[w] = "hydrate" /\ "badArchive" \in Faults)
        /\ StopMayFail(mine[w])
  /\ Goto(w, IF w \in TurnHolders THEN "fail"
             ELSE IF w \in ChannelOps /\ pc[w] = "commit" THEN "release" ELSE "rollback")
  /\ UNCHANGED <<leaseVars, at, env, mine, cap, now, saved, reaper, orphan>>

\* A turn rolls the row back only if its own box was stopped.
StopFailedSpawn(w) ==
  /\ pc[w] = "fail"
  /\ \/ Stop(mine[w]) /\ Goto(w, "rollback")
     \/ /\ "stopFails" \in Faults /\ mine[w] # NoBox
        /\ UNCHANGED boxVars /\ Goto(w, "release")
  /\ UNCHANGED <<leaseVars, at, env, mine, cap, now, saved, reaper, orphan>>

Rollback(w) ==
  /\ pc[w] = "rollback"
  /\ \/ FailWarmingToCold(at[w])
     \/ ~ WarmingAt(at[w]) /\ UNCHANGED leaseVars
  /\ Goto(w, "release")
  /\ UNCHANGED <<at, env, mine, cap, boxVars, now, saved, reaper, orphan>>

\* release: the holder row goes, and the process with its handle.
Release(w) ==
  /\ pc[w] = "release"
  /\ ReleaseLeaseHolder(w)
  /\ Goto(w, "idle")
  /\ at' = [at EXCEPT ![w] = 0] /\ env' = [env EXCEPT ![w] = NoEnv]
  /\ mine' = [mine EXCEPT ![w] = NoBox]
  /\ UNCHANGED <<cap, boxVars, now, saved, reaper, orphan>>

-----------------------------------------------------------------------------
(* The attached branch *)

\* waitForWarm: one poll.  Draining, cold or the deadline re-dispatch the turn.
WaitForWarm(w) ==
  /\ pc[w] = "waitwarm"
  /\ \/ /\ lease.liveness = "warm"
        /\ Goto(w, "resume") /\ at' = [at EXCEPT ![w] = lease.epoch]
     \/ /\ lease.liveness # "warm"
        /\ Goto(w, "release") /\ UNCHANGED at
  /\ UNCHANGED <<leaseVars, env, mine, cap, boxVars, now, saved, reaper, orphan>>

ReadEnvelope(w) ==
  /\ pc[w] = "resume"
  /\ env' = [env EXCEPT ![w] = Envelope(lease)]
  /\ Goto(w, "attach")
  /\ UNCHANGED <<leaseVars, at, mine, cap, boxVars, now, saved, reaper, orphan>>

\* establishSandboxSessionFromEnvelope: resume by id.
ResumeById(w) ==
  /\ pc[w] = "attach" /\ env[w].box \in live
  /\ mine' = [mine EXCEPT ![w] = env[w].box]
  /\ Goto(w, "running")
  /\ UNCHANGED <<leaseVars, at, env, cap, boxVars, now, saved, reaper, orphan>>

\* NotFound, or no box in the envelope: cold-restore a box no row names.
RestoreRival(w) ==
  /\ pc[w] = "attach" /\ env[w].box \notin live
  /\ \E b \in FreshBoxes, c \in Hydrated(env[w]) :
       /\ Swap(NoBox, b, c)
       /\ mine' = [mine EXCEPT ![w] = b]
  /\ Goto(w, "running")
  /\ UNCHANGED <<leaseVars, at, env, cap, now, saved, reaper, orphan>>

\* A transient resume error: release and give up.
AttachFails(w) ==
  /\ pc[w] = "attach"
  /\ Goto(w, "release")
  /\ UNCHANGED <<leaseVars, at, env, mine, cap, boxVars, now, saved, reaper, orphan>>

-----------------------------------------------------------------------------
(* Holding the box *)

WriteFile(w) ==
  /\ pc[w] = "running" /\ mine[w] \in live /\ now < MaxWrites
  /\ now' = now + 1
  /\ files' = [files EXCEPT ![mine[w]] = @ \cup {now + 1}]
  /\ UNCHANGED <<leaseVars, procVars, cap, live, tagged, saved, reaper, orphan>>

Heartbeat(w) ==
  /\ pc[w] = "attached" \/ (pc[w] = "running" /\ w \in TurnHolders)
  /\ HeartbeatLeaseHolder(w, at[w])
  /\ UNCHANGED lifeVars

\* maybePersistWarmWorkspaceSnapshot: pre-check, then the capture starts.
StartCapture(t) ==
  /\ pc[t] = "running" /\ cap[t] = NoCap
  /\ lease.liveness = "warm" /\ lease.epoch = at[t]
  /\ lease.arch # NoArchive => now >= lease.arch.at + SnapshotInterval
  /\ mine[t] \in live
  /\ cap' = [cap EXCEPT ![t] = [arch |-> [at |-> now, has |-> files[mine[t]]], epoch |-> at[t]]]
  /\ UNCHANGED <<leaseVars, procVars, boxVars, now, saved, reaper, orphan>>

\* The capture ends, possibly after its turn: it lands, is refused, or timed out.
EndCapture(t) ==
  /\ cap[t] # NoCap
  /\ cap' = [cap EXCEPT ![t] = NoCap]
  /\ \/ PersistWarmSnapshot(cap[t].epoch, cap[t].arch) /\ saved' = saved \cup cap[t].arch.has
     \/ UNCHANGED <<leaseVars, saved>>
  /\ UNCHANGED <<procVars, boxVars, now, reaper, orphan>>

\* The turn ends, the request is answered, the viewer detaches.
Finish(w) ==
  /\ pc[w] \in {"running", "attached"}
  /\ Goto(w, "release")
  /\ UNCHANGED <<leaseVars, at, env, mine, cap, boxVars, now, saved, reaper, orphan>>

\* A worker or API process dies, or a viewer vanishes: its row stays behind.
Crash(w) ==
  /\ "crash" \in Faults
  /\ pc[w] \notin {"idle", "dead"}
  /\ Goto(w, "dead")
  /\ at' = [at EXCEPT ![w] = 0] /\ env' = [env EXCEPT ![w] = NoEnv]
  /\ mine' = [mine EXCEPT ![w] = NoBox]
  /\ cap' = IF w \in TurnHolders THEN [cap EXCEPT ![w] = NoCap] ELSE cap
  /\ UNCHANGED <<leaseVars, boxVars, now, saved, reaper, orphan>>

\* Once its row is reaped the id stands for a new execution.
Reincarnate(w) ==
  /\ pc[w] = "dead" /\ w \notin holders
  /\ Goto(w, "idle")
  /\ UNCHANGED <<leaseVars, at, env, mine, cap, boxVars, now, saved, reaper, orphan>>

-----------------------------------------------------------------------------
(* The reaper activity (one at a time: the schedule skips overlaps) *)

\* Rows whose heartbeat can have gone silent for the holder TTL: a dead process,
\* and an API process that is spawning or serving and does not touch its row.
CanBeStale(h) == pc[h] = "dead" \/ (h \in ViewerHolders /\ pc[h] # "attached")

Sweep(stale) ==
  /\ reaper.pc = "idle" /\ orphan.pc = "idle"
  /\ \A h \in stale : CanBeStale(h)
  /\ ReapStaleLeaseHolders(stale)
  /\ reaper' = IF Drainable(lease') THEN [NoDrain EXCEPT !.pc = "check", !.epoch = lease'.epoch]
               ELSE reaper
  /\ UNCHANGED <<procVars, cap, boxVars, now, saved, orphan>>

OverLimit ==
  /\ reaper.pc = "idle" /\ orphan.pc = "idle"
  /\ ForceDrainViewerOnly
  /\ UNCHANGED lifeVars

\* terminateDrainableBox: re-read and check before touching the box.
CheckDrain ==
  /\ reaper.pc = "check"
  /\ reaper' = IF ~ DrainedAt(reaper.epoch) THEN NoDrain
               ELSE [reaper EXCEPT !.pc = IF lease.instance = NoBox THEN "confirm" ELSE "capture",
                                   !.box = lease.instance]
  /\ UNCHANGED <<leaseVars, procVars, cap, boxVars, now, saved, orphan>>

\* Resume by id and persistWorkspace; NotFound goes on to cold, any other error
\* leaves the row draining for the next sweep.
CaptureDrain ==
  /\ reaper.pc = "capture"
  /\ reaper' \in IF reaper.box \in live
                 THEN {[reaper EXCEPT !.pc = "persist", !.arch = [at |-> now, has |-> files[reaper.box]]]}
                        \cup {r \in {NoDrain} : "captureFails" \in Faults}
                 ELSE {[reaper EXCEPT !.pc = "confirm"]}
  /\ UNCHANGED <<leaseVars, procVars, cap, boxVars, now, saved, orphan>>

\* persistDrainSnapshot: the last gate before the stop.  The archive is stamped
\* with the time it is stored, not the time it was captured.
PersistDrain ==
  /\ reaper.pc = "persist"
  /\ \/ /\ PersistDrainSnapshot(reaper.epoch, [reaper.arch EXCEPT !.at = now])
        /\ reaper' = [reaper EXCEPT !.pc = "delete"] /\ saved' = saved \cup reaper.arch.has
     \/ /\ ~ DrainedAt(reaper.epoch)
        /\ reaper' = NoDrain /\ UNCHANGED <<leaseVars, saved>>
  /\ UNCHANGED <<procVars, cap, boxVars, now, orphan>>

DeleteDrained ==
  /\ reaper.pc = "delete"
  /\ StopMayFail(reaper.box)
  /\ reaper' = [reaper EXCEPT !.pc = "confirm"]
  /\ UNCHANGED <<leaseVars, procVars, cap, now, saved, orphan>>

ConfirmDrain ==
  /\ reaper.pc = "confirm"
  /\ \/ ConfirmDrainCold(reaper.epoch)
     \/ ~ DrainedAt(reaper.epoch) /\ UNCHANGED leaseVars
  /\ reaper' = NoDrain
  /\ UNCHANGED <<procVars, cap, boxVars, now, saved, orphan>>

ReaperCrash ==
  /\ "reaperCrash" \in Faults
  /\ reaper.pc # "idle" \/ orphan.pc # "idle"
  /\ reaper' = NoDrain /\ orphan' = NoOrphan
  /\ UNCHANGED <<leaseVars, procVars, cap, boxVars, now, saved>>

-----------------------------------------------------------------------------
(* The Modal orphan sweep *)

Spawning(w) == pc[w] \in {"create", "record", "hydrate", "rerecord", "commit", "fail", "rollback"}

\* listLiveModalSandboxLeaseAttributions, then the provider is listed.  Untagged
\* boxes are judged by age; a spawn in progress is younger than the grace.
ReadLiveLeases ==
  /\ "orphanSweep" \in Faults
  /\ reaper.pc = "idle" /\ orphan.pc = "idle"
  /\ orphan' = [pc |-> "kill", known |-> lease.liveness # "cold", box |-> lease.instance,
                old |-> {b \in live \ tagged : \A w \in Holders : ~ (Spawning(w) /\ mine[w] = b)}]
  /\ UNCHANGED <<leaseVars, procVars, cap, boxVars, now, saved, reaper>>

IsOrphan(b) ==
  /\ b # orphan.box
  /\ IF b \in tagged THEN ~ orphan.known \/ orphan.box # NoBox ELSE b \in orphan.old

KillOrphan(b) ==
  /\ orphan.pc = "kill"
  /\ b \in live /\ IsOrphan(b)
  /\ Stop(b)
  /\ UNCHANGED <<leaseVars, procVars, cap, now, saved, reaper, orphan>>

\* The rest is skipped; the live box's tags are healed.
EndOrphanSweep ==
  /\ orphan.pc = "kill"
  /\ orphan' = NoOrphan
  /\ tagged' = tagged \cup ({orphan.box} \cap live)
  /\ UNCHANGED <<leaseVars, procVars, cap, live, files, now, saved, reaper>>

-----------------------------------------------------------------------------
(* Time and the provider's failures *)

\* w refreshes expires_at in time: a viewer beats twice per lease TTL.
Refreshes(w) == pc[w] = "attached" /\ w \in holders /\ at[w] = lease.epoch

LeaseExpires ==
  /\ Expire
  /\ lease.liveness = "warming" /\ (\E w \in Holders : Spawning(w) \/ Refreshes(w))
        => "overrun" \in Faults
  /\ UNCHANGED lifeVars

BoxDies(b) ==
  /\ "boxLoss" \in Faults /\ b \in live
  /\ Stop(b)
  /\ UNCHANGED <<leaseVars, procVars, cap, now, saved, reaper, orphan>>

Process(w) ==
  \/ AcquireAsSpawner(w) \/ AcquireLive(w) \/ AcquireConflict(w)
  \/ CreateBox(w) \/ RecordBox(w) \/ RecordMisses(w) \/ HydrateWorkspace(w)
  \/ CommitBox(w) \/ CommitMisses(w) \/ UndoSpawn(w)
  \/ SpawnFails(w) \/ StopFailedSpawn(w) \/ Rollback(w) \/ Release(w)
  \/ WaitForWarm(w) \/ ReadEnvelope(w) \/ ResumeById(w) \/ RestoreRival(w) \/ AttachFails(w)
  \/ WriteFile(w) \/ Heartbeat(w) \/ Finish(w) \/ Crash(w) \/ Reincarnate(w)

Reaper ==
  \/ \E stale \in SUBSET holders : Sweep(stale)
  \/ OverLimit \/ CheckDrain \/ CaptureDrain \/ PersistDrain \/ DeleteDrained \/ ConfirmDrain
  \/ ReaperCrash
  \/ ReadLiveLeases \/ (\E b \in Boxes : KillOrphan(b)) \/ EndOrphanSweep

LNext ==
  \/ \E w \in Holders : Process(w)
  \/ \E t \in TurnHolders : StartCapture(t) \/ EndCapture(t)
  \/ Reaper
  \/ LeaseExpires
  \/ \E b \in Boxes : BoxDies(b)

LSpec == LInit /\ [][LNext]_vars

(***************************************************************************)
(* Fairness: time passes, the schedule keeps firing the reaper, and the    *)
(* activity runs on.  Sweeps take turns with the orphan sweep inside one   *)
(* activity, hence strong fairness.  Nothing is assumed of the processes:  *)
(* turns, viewers and requests arrive, stop and die as they like.          *)
(***************************************************************************)
SweepAllStale == Sweep({h \in holders : CanBeStale(h)})

ReaperFairness ==
  /\ WF_vars(LeaseExpires)
  /\ SF_vars(SweepAllStale)
  /\ WF_vars(CheckDrain) /\ WF_vars(CaptureDrain) /\ WF_vars(PersistDrain)
  /\ WF_vars(DeleteDrained) /\ WF_vars(ConfirmDrain)
  /\ SF_vars(ReadLiveLeases) /\ SF_vars(\E b \in Boxes : KillOrphan(b)) /\ WF_vars(EndOrphanSweep)

FairSpec == LSpec /\ ReaperFairness

-----------------------------------------------------------------------------
(* Properties *)

\* Type invariant of the processes, the boxes and the reaper.
LTypeOK ==
  /\ TypeOK
  /\ pc \in [Holders -> PCs] /\ at \in [Holders -> Nat]
  /\ mine \in [Holders -> Boxes \cup {NoBox}]
  /\ live \subseteq Boxes /\ tagged \subseteq live
  /\ files \in [Boxes -> SUBSET (1 .. now)]
  /\ now \in 0 .. MaxWrites /\ saved \subseteq 1 .. now

\* From the moment a turn attaches or commits until it lets go, its holder row is
\* there, the row is warm and the epoch is the one the turn heartbeats and
\* snapshots with, whatever crashes, overruns, reaps or rival spawns happen
\* (the promise of resumeBoxForTurn, which returns { established, leaseEpoch }).
TurnPinsLease ==
  \A t \in TurnHolders : pc[t] \in {"resume", "attach", "running"} =>
    t \in holders /\ lease.liveness = "warm" /\ lease.epoch = at[t]

\* Every way out of a process releases: an idle process has no holder row, so
\* no box stays warm for a holder that is not there.
IdleHoldsNothing == \A w \in Holders : pc[w] = "idle" => w \notin holders

\* Every database step of the processes is a step of the lease protocol.
LeaseProtocol == Spec

\* Writes that some landed capture held can be restored: they are in the archive
\* the row carries or in the running box it names.
Recoverable(ws) ==
  \/ ws = {}
  \/ lease.arch # NoArchive /\ ws \subseteq lease.arch.has
  \/ lease.instance \in live /\ ws \subseteq files[lease.instance]

SavedFilesRecoverable == Recoverable(saved)

\* "SOLE enforcer of one-box-per-group": the processes at work on the group's
\* files share one running box.
OneBoxPerGroup ==
  \A v, w \in Holders :
    pc[v] = "running" /\ pc[w] = "running" /\ {mine[v], mine[w]} \subseteq live => mine[v] = mine[w]

\* The reaper stops a box only while no process works in it, also when a turn
\* or viewer re-arms the row while the drain's capture runs: the gate of
\* persistDrainSnapshot sees it.  Between that gate and the stop nothing is
\* held (the fault lateRearm).
StopSparesHeldBox ==
  reaper.pc = "delete" => \A w \in Holders : pc[w] = "running" => mine[w] # reaper.box

\* Nobody is using or asking for a box.
Quiet == \A w \in Holders : pc[w] \in {"idle", "dead"}

\* Once turns, viewers and requests stop coming, however the last ones died,
\* the row ends cold and no box is left running.
QuietEndsCold == <>[]Quiet => <>[](lease.liveness = "cold" /\ live = {})
=============================================================================
