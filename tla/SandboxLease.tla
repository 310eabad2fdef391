---------------------------- MODULE SandboxLease ----------------------------
(***************************************************************************)
(* The sandbox lease: the one row of sandbox_leases that a session group   *)
(* owns, and its rows of sandbox_lease_holders (packages/db/src/index.ts,  *)
(* "Sandbox singleton lease").  Every action is one database transaction   *)
(* on that row, taken under its row lock, so the actions are atomic.       *)
(*                                                                         *)
(* The module puts no order on the callers: any holder may call any        *)
(* operation at any time, with any epoch it can have read.  What it        *)
(* promises therefore holds whatever the workers, the API processes and    *)
(* the reaper do; SandboxLifecycle models what they do and implements it.  *)
(***************************************************************************)
EXTENDS Integers, FiniteSets

CONSTANTS
  TurnHolders,     \* ids of turn executions (kind = 'turn')
  ViewerHolders,   \* ids of viewer connections (kind = 'viewer')
  Boxes,           \* provider instance ids
  NoBox,           \* instance_id null
  Archives,        \* /workspace archives, records with a capture time "at"
  NoArchive,       \* no archive on resume_state
  Builds,          \* container images / frozen rig versions
  NoBuild,         \* image and rig unknown: never conflicts
  MaxEpoch,        \* bound on lease_epoch (model bound)
  SnapshotInterval \* sandboxSnapshotIntervalMs, in capture-clock units

Holders == TurnHolders \cup ViewerHolders

ASSUME HolderAssumption ==
  /\ IsFiniteSet(TurnHolders) /\ IsFiniteSet(ViewerHolders)
  /\ TurnHolders \cap ViewerHolders = {}
ASSUME NullAssumption == NoBox \notin Boxes /\ NoArchive \notin Archives /\ NoBuild \notin Builds
ASSUME ArchiveAssumption == \A a \in Archives : a.at \in Nat
ASSUME BoundAssumption == MaxEpoch \in Nat /\ SnapshotInterval \in Nat \ {0}

VARIABLES
  lease,    \* the row
  holders   \* ids with a holder row; the id fixes the kind

leaseVars == <<lease, holders>>

Livenesses == {"cold", "warming", "warm", "draining"}

(***************************************************************************)
(* The columns the operations read or write.  refcount is always written   *)
(* as turn_holders + viewer_holders and is that sum here.  "instance" is   *)
(* instance_id together with the provider state in resume_state: every     *)
(* write sets or clears both.  "arch" and "prev" are workspaceArchive and  *)
(* workspaceArchivePrev of resume_state.  "expired" says expires_at has    *)
(* passed.  A row that was never inserted reads like the cold row of Init. *)
(***************************************************************************)
LeaseRows ==
  [liveness : Livenesses, turns : Nat, viewers : Nat, epoch : Nat,
   instance : Boxes \cup {NoBox}, build : Builds \cup {NoBuild},
   arch : Archives \cup {NoArchive}, prev : Archives \cup {NoArchive},
   expired : BOOLEAN]

Refcount == lease.turns + lease.viewers

\* The holder rows are the source of truth for the counts.
TurnRows(hs)   == hs \cap TurnHolders
ViewerRows(hs) == hs \cap ViewerHolders

\* recomputeAndStampLease without the stamp: the counts of the holder rows hs.
Recount(row, hs) ==
  [row EXCEPT !.turns = Cardinality(TurnRows(hs)), !.viewers = Cardinality(ViewerRows(hs))]

\* The live-box columns and resume_state cleared.
Scrubbed(row) ==
  [row EXCEPT !.instance = NoBox, !.arch = NoArchive, !.prev = NoArchive]

\* Cold with an archive-only envelope: the box is dropped, both archives ride
\* along, and with no current archive resume_state is nulled.
ColdWithArchive(row) ==
  [row EXCEPT !.liveness = "cold", !.instance = NoBox,
              !.prev = IF row.arch = NoArchive THEN NoArchive ELSE @]

Init ==
  /\ lease = [liveness |-> "cold", turns |-> 0, viewers |-> 0, epoch |-> 0,
              instance |-> NoBox, build |-> NoBuild, arch |-> NoArchive,
              prev |-> NoArchive, expired |-> FALSE]
  /\ holders = {}

-----------------------------------------------------------------------------
(***************************************************************************)
(* acquireLease: one critical section, one action per branch.              *)
(***************************************************************************)

\* A live box was built from another image or rig than this run resolves.
BuildConflict(build) ==
  /\ lease.liveness # "cold"
  /\ build # NoBuild /\ lease.build # NoBuild /\ build # lease.build

OtherHolders(h) == holders \ {h}

\* The row the branches after the conflict check see: a solo holder's conflict
\* resets the row to cold first.
AfterConflict(h, build) ==
  IF BuildConflict(build) THEN [Scrubbed(lease) EXCEPT !.liveness = "cold"] ELSE lease

\* Conflict with other holders on the box: refused, nothing changes.
AcquireRefused(h, build) ==
  /\ BuildConflict(build) /\ OtherHolders(h) # {}
  /\ UNCHANGED leaseVars

AdmittedAlways(h, build) == TRUE

Admitted(h, build) == ~ (BuildConflict(build) /\ OtherHolders(h) # {})

\* cold -> warming: the caller becomes the spawner.
AcquireSpawner(h, build) ==
  /\ Admitted(h, build)
  /\ AfterConflict(h, build).liveness = "cold"
  /\ lease.epoch < MaxEpoch
  /\ holders' = holders \cup {h}
  /\ lease' = Recount([AfterConflict(h, build) EXCEPT
                         !.liveness = "warming",
                         !.build = IF build = NoBuild THEN @ ELSE build,
                         !.expired = FALSE], holders')

\* draining -> warm: a late arrival re-arms the lease.
RearmNoRecount(h, build) ==
  /\ ~ BuildConflict(build)
  /\ lease.liveness = "draining"
  /\ holders' = holders \cup {h}
  /\ lease' = [lease EXCEPT !.liveness = "warm", !.expired = FALSE]

AcquireRearmed(h, build) ==
  /\ ~ BuildConflict(build)
  /\ lease.liveness = "draining"
  /\ holders' = holders \cup {h}
  /\ lease' = Recount([lease EXCEPT !.liveness = "warm", !.expired = FALSE], holders')

\* warm, and a turn that names another epoch: fenced, no holder row is written.
AcquireFenced(h, build, e) ==
  /\ ~ BuildConflict(build)
  /\ lease.liveness = "warm" /\ h \in TurnHolders /\ e # lease.epoch
  /\ UNCHANGED leaseVars

\* warm or warming: attach, the refcount only.
AcquireAttached(h, build) ==
  /\ ~ BuildConflict(build)
  /\ lease.liveness \in {"warm", "warming"}
  /\ holders' = holders \cup {h}
  /\ lease' = Recount([lease EXCEPT !.expired = FALSE], holders')

-----------------------------------------------------------------------------
(***************************************************************************)
(* The spawner's transitions, each a compare-and-set on (warming, epoch).  *)
(***************************************************************************)
WarmingAt(e) == lease.liveness = "warming" /\ lease.epoch = e

\* recordWarmingSandboxCreated: the created box becomes durable, still warming.
\* a is the archive the interim envelope preserves from the spawn envelope.
RecordWarmingSandboxCreated(e, b, a) ==
  /\ WarmingAt(e)
  /\ lease' = [lease EXCEPT !.instance = b, !.arch = a, !.prev = NoArchive, !.expired = FALSE]
  /\ UNCHANGED holders

\* commitWarmingToWarm: the only lease_epoch++.  The serialized envelope of the
\* live box replaces resume_state and carries no archive.
CommitAnyEpoch(e, b) ==
  /\ lease.liveness = "warming"
  /\ lease' = [lease EXCEPT !.liveness = "warm", !.instance = b, !.epoch = e + 1,
                            !.arch = NoArchive, !.prev = NoArchive, !.expired = FALSE]
  /\ UNCHANGED holders

CommitWarmingToWarm(e, b) ==
  /\ WarmingAt(e)
  /\ lease' = [lease EXCEPT !.liveness = "warm", !.instance = b, !.epoch = e + 1,
                            !.arch = NoArchive, !.prev = NoArchive, !.expired = FALSE]
  /\ UNCHANGED holders

\* failWarmingToCold: a caught spawn failure keeps the archive, drops the box.
FailKeepsInstance(e) ==
  /\ WarmingAt(e)
  /\ lease' = [lease EXCEPT !.liveness = "cold"]
  /\ UNCHANGED holders

FailWarmingToCold(e) ==
  /\ WarmingAt(e)
  /\ lease' = ColdWithArchive(lease)
  /\ UNCHANGED holders

-----------------------------------------------------------------------------
(***************************************************************************)
(* Holders leaving and heartbeating.                                       *)
(***************************************************************************)

\* warm with no holder row left starts the drain grace.
DrainIfIdle(row, hs) ==
  IF row.liveness = "warm" /\ hs = {}
  THEN [Recount(row, hs) EXCEPT !.liveness = "draining", !.expired = FALSE]
  ELSE Recount(row, hs)

\* releaseLeaseHolder: delete-my-row, idempotent.
ReleaseDecrements(h) ==
  /\ holders' = holders \ {h}
  /\ lease' = IF h \in TurnHolders THEN [lease EXCEPT !.turns = @ - 1] ELSE [lease EXCEPT !.viewers = @ - 1]

ReleaseLeaseHolder(h) ==
  /\ holders' = holders \ {h}
  /\ lease' = DrainIfIdle(lease, holders \ {h})

\* heartbeatLeaseHolder: only a holder row at the live epoch of a warm or
\* warming row refreshes expires_at; a refused heartbeat changes nothing here.
HeartbeatLeaseHolder(h, e) ==
  /\ h \in holders
  /\ lease.epoch = e /\ lease.liveness \in {"warm", "warming"}
  /\ lease' = [lease EXCEPT !.expired = FALSE]
  /\ UNCHANGED holders

\* expires_at passes.
Expire ==
  /\ ~ lease.expired
  /\ lease' = [lease EXCEPT !.expired = TRUE]
  /\ UNCHANGED holders

-----------------------------------------------------------------------------
(***************************************************************************)
(* The reaper's transactions.                                              *)
(***************************************************************************)

\* Steps (c1) and (c2) of the sweep, on the row that steps (a) and (b) left.
\* (c1): an expired warming row without an instance goes cold, resume_state
\* nulled.  (c2): one with an instance becomes drainable at once.
ResetAlwaysDrains(row) ==
  IF row.liveness = "warming" /\ row.expired
  THEN [row EXCEPT !.liveness = "draining", !.turns = 0, !.viewers = 0]
  ELSE row

ResetWarming(row) ==
  IF row.liveness = "warming" /\ row.expired
  THEN IF row.instance = NoBox
       THEN [Scrubbed(row) EXCEPT !.liveness = "cold"]
       ELSE [row EXCEPT !.liveness = "draining", !.turns = 0, !.viewers = 0]
  ELSE row

\* reap_sandbox_leases: stale holder rows go, counts are recomputed, an idle
\* warm row starts draining, a dead warming row is reset.
ReapNeverDrains(stale) ==
  /\ holders' = holders \ stale
  /\ lease' = ResetWarming(Recount(lease, holders \ stale))

ReapStaleLeaseHolders(stale) ==
  /\ holders' = holders \ stale
  /\ lease' = ResetWarming(DrainIfIdle(lease, holders \ stale))

\* Step (d): the rows the sweep hands to the terminate loop.
Drainable(row) == row.liveness = "draining" /\ row.expired /\ row.turns + row.viewers = 0

\* Mutant: the gate compares the epoch only.
DrainedAtEpoch(e) == lease.epoch = e

\* The guard of persistDrainSnapshot and confirmDrainCold.
DrainedAt(e) == lease.liveness = "draining" /\ Refcount = 0 /\ lease.epoch = e

\* persistDrainSnapshot: fold the drain archive, or (NoArchive) only check.
PersistDrainSnapshot(e, a) ==
  /\ DrainedAt(e)
  /\ lease' = IF a = NoArchive THEN lease ELSE [lease EXCEPT !.arch = a, !.prev = NoArchive]
  /\ UNCHANGED holders

\* confirmDrainCold: the teardown commit.
ConfirmDrainCold(e) ==
  /\ DrainedAt(e)
  /\ lease' = ColdWithArchive(lease)
  /\ UNCHANGED holders

\* forceDrainOverLimitViewerOnlyBoxes: guarded by the stored turn count.
ForceDrainAnyBox ==
  /\ lease.liveness = "warm"
  /\ holders' = holders \ ViewerHolders
  /\ lease' = [lease EXCEPT !.liveness = "draining", !.turns = 0, !.viewers = 0, !.expired = FALSE]

ForceDrainViewerOnly ==
  /\ lease.liveness = "warm" /\ lease.turns = 0
  /\ holders' = holders \ ViewerHolders
  /\ lease' = [lease EXCEPT !.liveness = "draining", !.turns = 0, !.viewers = 0, !.expired = FALSE]

\* persistWarmSnapshot: a capture that started after the stored one, outside the
\* throttle window, becomes current; the old current is kept as previous.
CaptureLands(a) ==
  lease.arch # NoArchive =>
    a.at > lease.arch.at /\ a.at >= lease.arch.at + SnapshotInterval

PersistWithoutOrder(e, a) ==
  /\ lease.liveness = "warm" /\ lease.epoch = e
  /\ lease' = [lease EXCEPT !.arch = a, !.prev = lease.arch]
  /\ UNCHANGED holders

PersistWarmSnapshot(e, a) ==
  /\ lease.liveness = "warm" /\ lease.epoch = e
  /\ CaptureLands(a)
  /\ lease' = [lease EXCEPT !.arch = a, !.prev = lease.arch]
  /\ UNCHANGED holders

-----------------------------------------------------------------------------
\* An epoch some caller can have read.
Epochs == 0 .. lease.epoch

AcquireLease(h, build) ==
  \/ AcquireRefused(h, build)
  \/ AcquireSpawner(h, build)
  \/ AcquireRearmed(h, build)
  \/ \E e \in Epochs : AcquireFenced(h, build, e)
  \/ AcquireAttached(h, build)

Next ==
  \/ \E h \in Holders, build \in Builds \cup {NoBuild} : AcquireLease(h, build)
  \/ \E e \in Epochs, b \in Boxes, a \in Archives \cup {NoArchive} :
        RecordWarmingSandboxCreated(e, b, a)
  \/ \E e \in Epochs, b \in Boxes : CommitWarmingToWarm(e, b)
  \/ \E e \in Epochs : FailWarmingToCold(e)
  \/ \E h \in Holders : ReleaseLeaseHolder(h)
  \/ \E h \in Holders, e \in Epochs : HeartbeatLeaseHolder(h, e)
  \/ Expire
  \/ \E stale \in SUBSET holders : ReapStaleLeaseHolders(stale)
  \/ \E e \in Epochs, a \in Archives \cup {NoArchive} : PersistDrainSnapshot(e, a)
  \/ \E e \in Epochs : ConfirmDrainCold(e)
  \/ ForceDrainViewerOnly
  \/ \E e \in Epochs, a \in Archives : PersistWarmSnapshot(e, a)

Spec == Init /\ [][Next]_leaseVars

-----------------------------------------------------------------------------
(* Properties *)

\* Type invariant: every column keeps its type and holder rows are known ids.
TypeOK == lease \in LeaseRows /\ holders \in SUBSET Holders

\* While the row is warming or warm the stored turn and viewer counts equal the
\* holder rows: the drain guards of releaseLeaseHolder, the reaper and the force
\* drain all trust the stored counts, and the warming-death drain breaks them on
\* purpose (draining only).
CountsExact ==
  lease.liveness \in {"warming", "warm"} =>
    /\ lease.turns = Cardinality(TurnRows(holders))
    /\ lease.viewers = Cardinality(ViewerRows(holders))

\* A cold row names no box: whichever path led there (caught failure, warming
\* death, drain commit), the next spawner must not resume a dead box by id.
ColdNamesNoBox == lease.liveness = "cold" => lease.instance = NoBox

\* A warm row always names the box it serves.
WarmNamesABox == lease.liveness = "warm" => lease.instance \in Boxes

\* A turn that keeps its holder row on a warm box keeps the box: no release, sweep,
\* force drain or rival spawner makes the row leave warm or changes its epoch or
\* box.  The one exception is the only holder acquiring again with another build.
KeepsBoxOf(t) ==
  lease.liveness = "warm" /\ t \in holders /\ t \in holders' =>
    \/ /\ lease'.liveness = "warm" /\ lease'.epoch = lease.epoch
       /\ lease'.instance = lease.instance
    \/ /\ lease'.liveness = "warming" /\ lease'.build # lease.build
       /\ holders = {t} /\ holders' = {t}

PaidTurnKeepsItsBox == [][\A t \in TurnHolders : KeepsBoxOf(t)]_leaseVars

\* A box that becomes warm opens a new epoch, the next one, and nothing else moves
\* the epoch: two commits never share an epoch, so a write fenced by the epoch of
\* an earlier box always misses (commitWarmingToWarm's compare-and-set).
EpochStep ==
  IF lease.liveness = "warming" /\ lease'.liveness = "warm"
  THEN lease'.epoch = lease.epoch + 1
  ELSE lease'.epoch = lease.epoch

EpochFence == [][EpochStep]_leaseVars

\* Within one epoch a warm row's archive is never replaced by an earlier capture,
\* however late a slow capture lands.
ArchiveStep ==
  /\ lease.liveness = "warm" /\ lease'.liveness = "warm"
  /\ lease'.epoch = lease.epoch /\ lease.arch # NoArchive
  => lease'.arch # NoArchive /\ lease'.arch.at >= lease.arch.at

ArchiveNeverGoesBack == [][ArchiveStep]_leaseVars
=============================================================================
