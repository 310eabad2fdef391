------------------------- MODULE SandboxLeaseProofs -------------------------
(***************************************************************************)
(* What the lease row promises every caller, for any number of turns,      *)
(* viewers, boxes, archives and builds.                                    *)
(*                                                                         *)
(* The inductive invariant is LeaseInv: the types, the exact counts while  *)
(* the row is warming or warm, and the box each liveness names.  "Warm     *)
(* names a box" is not inductive alone: a draining row is re-armed to warm *)
(* as it stands, so draining must name a box too.                          *)
(***************************************************************************)
EXTENDS SandboxLease, FiniteSetTheorems, TLAPS

\* The box columns against liveness: the strengthening of ColdNamesNoBox and
\* WarmNamesABox that every operation preserves.
BoxNaming ==
  /\ ColdNamesNoBox
  /\ lease.liveness \in {"warm", "draining"} => lease.instance \in Boxes

LeaseInv == TypeOK /\ CountsExact /\ BoxNaming

-----------------------------------------------------------------------------
(* Counting holder rows *)

\* The counts recomputeAndStampLease writes are natural numbers.
LEMMA CountsAreNats ==
  ASSUME NEW hs \in SUBSET Holders
  PROVE  /\ IsFiniteSet(TurnRows(hs)) /\ Cardinality(TurnRows(hs)) \in Nat
         /\ IsFiniteSet(ViewerRows(hs)) /\ Cardinality(ViewerRows(hs)) \in Nat
<1>1. TurnRows(hs) \subseteq TurnHolders /\ ViewerRows(hs) \subseteq ViewerHolders
  BY DEF TurnRows, ViewerRows
<1>2. IsFiniteSet(TurnRows(hs)) /\ IsFiniteSet(ViewerRows(hs))
  BY <1>1, HolderAssumption, FS_Subset
<1> QED  BY <1>2, FS_CardinalityType

\* A stored turn count of zero means there is no turn row.
LEMMA NoTurnsCounted ==
  ASSUME NEW hs \in SUBSET Holders, Cardinality(TurnRows(hs)) = 0
  PROVE  hs \cap TurnHolders = {}
<1>1. IsFiniteSet(TurnRows(hs))  BY CountsAreNats
<1> QED  BY <1>1, FS_EmptySet DEF TurnRows

\* recomputeAndStampLease writes a well-typed row whose counts are exact and
\* touches no other column.
LEMMA RecountExact ==
  ASSUME NEW row \in LeaseRows, NEW hs \in SUBSET Holders
  PROVE  /\ Recount(row, hs) \in LeaseRows
         /\ Recount(row, hs) = [row EXCEPT !.turns = Cardinality(TurnRows(hs)),
                                           !.viewers = Cardinality(ViewerRows(hs))]
         /\ Recount(row, hs).turns = Cardinality(TurnRows(hs))
         /\ Recount(row, hs).viewers = Cardinality(ViewerRows(hs))
         /\ Recount(row, hs).liveness = row.liveness
         /\ Recount(row, hs).instance = row.instance
         /\ Recount(row, hs).epoch = row.epoch
         /\ Recount(row, hs).build = row.build
         /\ Recount(row, hs).expired = row.expired
         /\ Recount(row, hs).arch = row.arch
         /\ Recount(row, hs).prev = row.prev
<1>1. Cardinality(TurnRows(hs)) \in Nat /\ Cardinality(ViewerRows(hs)) \in Nat  BY CountsAreNats
<1> QED  BY <1>1 DEF Recount, LeaseRows

\* The sweep's and the release's drain step: an idle warm row starts draining,
\* any other row only has its counts rewritten.
LEMMA DrainIfIdleEffect ==
  ASSUME NEW row \in LeaseRows, NEW hs \in SUBSET Holders
  PROVE  LET d == DrainIfIdle(row, hs) IN
         /\ d \in LeaseRows
         /\ d.turns = Cardinality(TurnRows(hs)) /\ d.viewers = Cardinality(ViewerRows(hs))
         /\ d.instance = row.instance /\ d.epoch = row.epoch /\ d.build = row.build
         /\ d.arch = row.arch /\ d.prev = row.prev
         /\ row.liveness # "warm" => d.expired = row.expired
         /\ d.liveness = IF row.liveness = "warm" /\ hs = {} THEN "draining" ELSE row.liveness
<1> DEFINE r == Recount(row, hs)
           d == [r EXCEPT !.liveness = "draining", !.expired = FALSE]
<1>1. /\ r \in LeaseRows /\ r.turns = Cardinality(TurnRows(hs))
      /\ r.viewers = Cardinality(ViewerRows(hs)) /\ r.liveness = row.liveness
      /\ r.instance = row.instance /\ r.epoch = row.epoch /\ r.arch = row.arch
      /\ r.prev = row.prev /\ r.build = row.build /\ r.expired = row.expired
  BY RecountExact
<1>2. DrainIfIdle(row, hs) = IF row.liveness = "warm" /\ hs = {} THEN d ELSE r
  BY DEF DrainIfIdle
<1> HIDE DEF r
<1>3. /\ d \in LeaseRows /\ d.turns = r.turns /\ d.viewers = r.viewers /\ d.instance = r.instance
      /\ d.epoch = r.epoch /\ d.arch = r.arch /\ d.liveness = "draining"
      /\ d.prev = r.prev /\ d.build = r.build
  BY <1>1 DEF LeaseRows, Livenesses
<1> HIDE DEF d
<1> QED  BY <1>1, <1>2, <1>3

\* Steps (c1) and (c2) of the sweep leave every row alone but an expired warming
\* one, which goes cold without a box or draining with one.
LEMMA ResetWarmingEffect ==
  ASSUME NEW row \in LeaseRows
  PROVE  LET r == ResetWarming(row) IN
         /\ r \in LeaseRows
         /\ r.epoch = row.epoch /\ r.build = row.build
         /\ r.arch \in {row.arch, NoArchive} /\ r.prev \in {row.prev, NoArchive}
         /\ ~ (row.liveness = "warming" /\ row.expired) => r = row
         /\ row.liveness = "warming" =>
              \/ r = row
              \/ r.liveness = "cold" /\ r.instance = NoBox
              \/ r.liveness = "draining" /\ r.instance = row.instance /\ r.instance \in Boxes
<1>1. {"cold", "draining"} \subseteq Livenesses /\ 0 \in Nat  BY DEF Livenesses
<1>2. /\ Scrubbed(row) \in LeaseRows /\ Scrubbed(row).instance = NoBox
      /\ Scrubbed(row).epoch = row.epoch /\ Scrubbed(row).build = row.build
      /\ Scrubbed(row).arch = NoArchive /\ Scrubbed(row).prev = NoArchive
  BY DEF Scrubbed, LeaseRows
<1>3. CASE ~ (row.liveness = "warming" /\ row.expired)
  BY <1>3 DEF ResetWarming
<1>4. CASE row.liveness = "warming" /\ row.expired /\ row.instance = NoBox
  <2>1. ResetWarming(row) = [Scrubbed(row) EXCEPT !.liveness = "cold"]  BY <1>4 DEF ResetWarming
  <2> QED  BY <1>1, <1>2, <1>4, <2>1 DEF LeaseRows
<1>5. CASE row.liveness = "warming" /\ row.expired /\ row.instance # NoBox
  <2>1. ResetWarming(row) = [row EXCEPT !.liveness = "draining", !.turns = 0, !.viewers = 0]
    BY <1>5 DEF ResetWarming
  <2> QED  BY <1>1, <1>5, <2>1 DEF LeaseRows
<1> QED  BY <1>3, <1>4, <1>5

\* The archive-only cold row of confirmDrainCold and failWarmingToCold.
LEMMA ColdWithArchiveEffect ==
  ASSUME NEW row \in LeaseRows
  PROVE  LET c == ColdWithArchive(row) IN
         /\ c \in LeaseRows /\ c.liveness = "cold" /\ c.instance = NoBox /\ c.epoch = row.epoch
         /\ c.arch = row.arch /\ c.prev \in {row.prev, NoArchive} /\ c.build = row.build
<1>1. "cold" \in Livenesses  BY DEF Livenesses
<1> QED  BY <1>1 DEF ColdWithArchive, LeaseRows

\* The row acquireLease works on after its conflict check.
LEMMA AfterConflictEffect ==
  ASSUME lease \in LeaseRows, NEW h, NEW build
  PROVE  LET row == AfterConflict(h, build) IN
         /\ row \in LeaseRows /\ row.epoch = lease.epoch
         /\ ~ BuildConflict(build) => row = lease
         /\ BuildConflict(build) => row.liveness = "cold" /\ row.instance = NoBox
         /\ row.arch \in {lease.arch, NoArchive} /\ row.prev \in {lease.prev, NoArchive}
<1>1. /\ Scrubbed(lease) \in LeaseRows /\ Scrubbed(lease).instance = NoBox
      /\ Scrubbed(lease).epoch = lease.epoch
      /\ Scrubbed(lease).arch = NoArchive /\ Scrubbed(lease).prev = NoArchive
  BY DEF Scrubbed, LeaseRows
<1>2. "cold" \in Livenesses  BY DEF Livenesses
<1> QED  BY <1>1, <1>2 DEF AfterConflict, LeaseRows

-----------------------------------------------------------------------------
(* The inductive invariant *)

\* A row that was never inserted satisfies the invariant.
LEMMA InitLeaseInv == Init => LeaseInv
<1> SUFFICES ASSUME Init PROVE LeaseInv  OBVIOUS
<1>1. TypeOK  BY DEF Init, TypeOK, LeaseRows, Livenesses
<1>2. CountsExact /\ BoxNaming  BY DEF Init, CountsExact, BoxNaming, ColdNamesNoBox
<1> QED  BY <1>1, <1>2 DEF LeaseInv

\* acquireLease: refused and fenced change nothing; the other branches recount.
LEMMA AcquireKeepsInv ==
  ASSUME LeaseInv, NEW h \in Holders, NEW build \in Builds \cup {NoBuild}, AcquireLease(h, build)
  PROVE  LeaseInv'
<1> USE DEF LeaseInv
<1>0. lease \in LeaseRows /\ holders \in SUBSET Holders /\ (holders \cup {h}) \in SUBSET Holders
  BY DEF TypeOK
<1>1. CASE UNCHANGED leaseVars
  BY <1>1 DEF leaseVars, TypeOK, CountsExact, BoxNaming, ColdNamesNoBox
<1>2. ASSUME NEW row \in LeaseRows, row.liveness \in {"warming", "warm"},
             row.liveness = "warm" => row.instance \in Boxes,
             holders' = holders \cup {h}, lease' = Recount(row, holders')
      PROVE  LeaseInv'
  <2>1. /\ lease' \in LeaseRows /\ lease'.turns = Cardinality(TurnRows(holders'))
        /\ lease'.viewers = Cardinality(ViewerRows(holders'))
        /\ lease'.liveness = row.liveness /\ lease'.instance = row.instance
    BY <1>0, <1>2, RecountExact
  <2>2. TypeOK'  BY <1>0, <1>2, <2>1 DEF TypeOK
  <2>3. CountsExact'  BY <2>1 DEF CountsExact, TurnRows, ViewerRows
  <2>4. BoxNaming'  BY <1>2, <2>1 DEF BoxNaming, ColdNamesNoBox
  <2> QED  BY <2>2, <2>3, <2>4
<1>3. CASE AcquireSpawner(h, build)
  <2> DEFINE c == AfterConflict(h, build)
             row == [c EXCEPT !.liveness = "warming",
                              !.build = IF build = NoBuild THEN @ ELSE build, !.expired = FALSE]
  <2>1. c \in LeaseRows  BY <1>0, AfterConflictEffect
  <2>2. holders' = holders \cup {h} /\ lease' = Recount(row, holders')  BY <1>3 DEF AcquireSpawner
  <2> HIDE DEF c
  <2>3. row \in LeaseRows /\ row.liveness = "warming"  BY <2>1 DEF LeaseRows, Livenesses
  <2> HIDE DEF row
  <2> QED  BY <1>2, <2>2, <2>3
<1>4. CASE AcquireRearmed(h, build)
  <2> DEFINE row == [lease EXCEPT !.liveness = "warm", !.expired = FALSE]
  <2>1. holders' = holders \cup {h} /\ lease' = Recount(row, holders')  BY <1>4 DEF AcquireRearmed
  <2>2. row \in LeaseRows /\ row.liveness = "warm" /\ row.instance = lease.instance
    BY <1>0 DEF LeaseRows, Livenesses
  <2>3. lease.instance \in Boxes  BY <1>4 DEF AcquireRearmed, BoxNaming
  <2> HIDE DEF row
  <2> QED  BY <1>2, <2>1, <2>2, <2>3
<1>5. CASE AcquireAttached(h, build)
  <2> DEFINE row == [lease EXCEPT !.expired = FALSE]
  <2>1. holders' = holders \cup {h} /\ lease' = Recount(row, holders')  BY <1>5 DEF AcquireAttached
  <2>2. row \in LeaseRows /\ row.liveness = lease.liveness /\ row.instance = lease.instance
    BY <1>0 DEF LeaseRows
  <2>3. lease.liveness \in {"warming", "warm"} /\ (lease.liveness = "warm" => lease.instance \in Boxes)
    BY <1>5 DEF AcquireAttached, BoxNaming
  <2> HIDE DEF row
  <2> QED  BY <1>2, <2>1, <2>2, <2>3
<1> QED  BY <1>1, <1>3, <1>4, <1>5 DEF AcquireLease, AcquireRefused, AcquireFenced

\* The spawner's compare-and-sets.
LEMMA SpawnerKeepsInv ==
  ASSUME LeaseInv, NEW e \in Nat,
         \/ \E b \in Boxes, a \in Archives \cup {NoArchive} : RecordWarmingSandboxCreated(e, b, a)
         \/ \E b \in Boxes : CommitWarmingToWarm(e, b)
         \/ FailWarmingToCold(e)
  PROVE  LeaseInv'
<1> USE DEF LeaseInv
<1>0. lease \in LeaseRows /\ holders \in SUBSET Holders  BY DEF TypeOK
<1>1. ASSUME NEW b \in Boxes, NEW a \in Archives \cup {NoArchive}, RecordWarmingSandboxCreated(e, b, a)
      PROVE  LeaseInv'
  <2>1. /\ lease' \in LeaseRows /\ lease'.liveness = "warming" /\ lease'.turns = lease.turns
        /\ lease'.viewers = lease.viewers /\ holders' = holders /\ lease.liveness = "warming"
    BY <1>0, <1>1 DEF RecordWarmingSandboxCreated, WarmingAt, LeaseRows
  <2> QED  BY <1>0, <2>1 DEF TypeOK, CountsExact, BoxNaming, ColdNamesNoBox, TurnRows, ViewerRows
<1>2. ASSUME NEW b \in Boxes, CommitWarmingToWarm(e, b) PROVE LeaseInv'
  <2>0. e + 1 \in Nat /\ "warm" \in Livenesses  BY DEF Livenesses
  <2>1. /\ lease' \in LeaseRows /\ lease'.liveness = "warm" /\ lease'.turns = lease.turns
        /\ lease'.viewers = lease.viewers /\ holders' = holders /\ lease.liveness = "warming"
        /\ lease'.instance = b
    BY <1>0, <1>2, <2>0 DEF CommitWarmingToWarm, WarmingAt, LeaseRows
  <2> QED  BY <1>0, <2>1 DEF TypeOK, CountsExact, BoxNaming, ColdNamesNoBox, TurnRows, ViewerRows
<1>3. CASE FailWarmingToCold(e)
  <2>1. lease' = ColdWithArchive(lease) /\ holders' = holders  BY <1>3 DEF FailWarmingToCold
  <2>2. lease' \in LeaseRows /\ lease'.liveness = "cold" /\ lease'.instance = NoBox
    BY <1>0, <2>1, ColdWithArchiveEffect
  <2> QED  BY <1>0, <2>1, <2>2 DEF TypeOK, CountsExact, BoxNaming, ColdNamesNoBox
<1> QED  BY <1>1, <1>2, <1>3

\* Releasing and heartbeating.
LEMMA HolderKeepsInv ==
  ASSUME LeaseInv, NEW h \in Holders, NEW e \in Nat,
         ReleaseLeaseHolder(h) \/ HeartbeatLeaseHolder(h, e)
  PROVE  LeaseInv'
<1> USE DEF LeaseInv
<1>0. lease \in LeaseRows /\ holders \in SUBSET Holders /\ (holders \ {h}) \in SUBSET Holders
  BY DEF TypeOK
<1>1. CASE ReleaseLeaseHolder(h)
  <2>1. holders' = holders \ {h} /\ lease' = DrainIfIdle(lease, holders \ {h})
    BY <1>1 DEF ReleaseLeaseHolder
  <2>2. /\ lease' \in LeaseRows /\ lease'.turns = Cardinality(TurnRows(holders'))
        /\ lease'.viewers = Cardinality(ViewerRows(holders')) /\ lease'.instance = lease.instance
        /\ \/ lease'.liveness = lease.liveness
           \/ lease.liveness = "warm" /\ lease'.liveness = "draining"
    BY <1>0, <2>1, DrainIfIdleEffect
  <2> QED  BY <1>0, <2>1, <2>2 DEF TypeOK, CountsExact, BoxNaming, ColdNamesNoBox, TurnRows, ViewerRows
<1>2. CASE HeartbeatLeaseHolder(h, e)
  <2>1. /\ lease' \in LeaseRows /\ lease'.liveness = lease.liveness /\ lease'.turns = lease.turns
        /\ lease'.viewers = lease.viewers /\ lease'.instance = lease.instance /\ holders' = holders
    BY <1>0, <1>2 DEF HeartbeatLeaseHolder, LeaseRows
  <2> QED  BY <1>0, <2>1 DEF TypeOK, CountsExact, BoxNaming, ColdNamesNoBox, TurnRows, ViewerRows
<1> QED  BY <1>1, <1>2

\* The sweep.  Step (c2) zeroes the counts of a row that may still have holders;
\* that row is draining, where the counts are not promised.
LEMMA SweepKeepsInv ==
  ASSUME LeaseInv, NEW stale \in SUBSET holders, ReapStaleLeaseHolders(stale)
  PROVE  LeaseInv'
<1> USE DEF LeaseInv
<1> DEFINE hs == holders \ stale
           d == DrainIfIdle(lease, hs)
<1>0. lease \in LeaseRows /\ holders \in SUBSET Holders /\ hs \in SUBSET Holders
  BY DEF TypeOK
<1>1. holders' = hs /\ lease' = ResetWarming(d)  BY DEF ReapStaleLeaseHolders
<1>2. /\ d \in LeaseRows /\ d.turns = Cardinality(TurnRows(hs))
      /\ d.viewers = Cardinality(ViewerRows(hs)) /\ d.instance = lease.instance
      /\ \/ d.liveness = lease.liveness
         \/ lease.liveness = "warm" /\ d.liveness = "draining"
  BY <1>0, DrainIfIdleEffect
<1> HIDE DEF d, hs
<1>3. /\ lease' \in LeaseRows
      /\ \/ lease' = d
         \/ lease'.liveness = "cold" /\ lease'.instance = NoBox
         \/ lease'.liveness = "draining" /\ lease'.instance \in Boxes
  BY <1>1, <1>2, ResetWarmingEffect
<1> QED  BY <1>0, <1>1, <1>2, <1>3 DEF TypeOK, CountsExact, BoxNaming, ColdNamesNoBox, TurnRows, ViewerRows

\* The drain's gate and commit, the force drain and the warm snapshot.
LEMMA DrainKeepsInv ==
  ASSUME LeaseInv, NEW e \in Nat,
         \/ \E a \in Archives \cup {NoArchive} : PersistDrainSnapshot(e, a)
         \/ ConfirmDrainCold(e)
         \/ ForceDrainViewerOnly
         \/ \E a \in Archives : PersistWarmSnapshot(e, a)
  PROVE  LeaseInv'
<1> USE DEF LeaseInv
<1>0. lease \in LeaseRows /\ holders \in SUBSET Holders  BY DEF TypeOK
<1>1. ASSUME NEW a \in Archives \cup {NoArchive}, PersistDrainSnapshot(e, a) PROVE LeaseInv'
  <2>1. /\ lease' \in LeaseRows /\ lease'.liveness = lease.liveness /\ lease'.turns = lease.turns
        /\ lease'.viewers = lease.viewers /\ lease'.instance = lease.instance /\ holders' = holders
    BY <1>0, <1>1 DEF PersistDrainSnapshot, LeaseRows
  <2> QED  BY <1>0, <2>1 DEF TypeOK, CountsExact, BoxNaming, ColdNamesNoBox, TurnRows, ViewerRows
<1>2. CASE ConfirmDrainCold(e)
  <2>1. lease' = ColdWithArchive(lease) /\ holders' = holders  BY <1>2 DEF ConfirmDrainCold
  <2>2. lease' \in LeaseRows /\ lease'.liveness = "cold" /\ lease'.instance = NoBox
    BY <1>0, <2>1, ColdWithArchiveEffect
  <2> QED  BY <1>0, <2>1, <2>2 DEF TypeOK, CountsExact, BoxNaming, ColdNamesNoBox
<1>3. CASE ForceDrainViewerOnly
  <2>1. /\ lease' \in LeaseRows /\ lease'.liveness = "draining" /\ lease'.instance = lease.instance
        /\ lease.liveness = "warm" /\ holders' \in SUBSET Holders
    BY <1>0, <1>3 DEF ForceDrainViewerOnly, LeaseRows, Livenesses
  <2> QED  BY <1>0, <2>1 DEF TypeOK, CountsExact, BoxNaming, ColdNamesNoBox
<1>4. ASSUME NEW a \in Archives, PersistWarmSnapshot(e, a) PROVE LeaseInv'
  <2>1. /\ lease' \in LeaseRows /\ lease'.liveness = lease.liveness /\ lease'.turns = lease.turns
        /\ lease'.viewers = lease.viewers /\ lease'.instance = lease.instance /\ holders' = holders
    BY <1>0, <1>4 DEF PersistWarmSnapshot, LeaseRows
  <2> QED  BY <1>0, <2>1 DEF TypeOK, CountsExact, BoxNaming, ColdNamesNoBox, TurnRows, ViewerRows
<1> QED  BY <1>1, <1>2, <1>3, <1>4

\* Every transaction on the row preserves the invariant.
LEMMA NextKeepsInv == LeaseInv /\ [Next]_leaseVars => LeaseInv'
<1> SUFFICES ASSUME LeaseInv, [Next]_leaseVars PROVE LeaseInv'  OBVIOUS
<1>0. lease.epoch \in Nat /\ Epochs \subseteq Nat  BY DEF LeaseInv, TypeOK, LeaseRows, Epochs
<1>1. CASE UNCHANGED leaseVars
  BY <1>1 DEF leaseVars, LeaseInv, TypeOK, CountsExact, BoxNaming, ColdNamesNoBox
<1>2. CASE \E h \in Holders, build \in Builds \cup {NoBuild} : AcquireLease(h, build)
  BY <1>2, AcquireKeepsInv
<1>3. CASE \/ \E e \in Epochs, b \in Boxes, a \in Archives \cup {NoArchive} :
                RecordWarmingSandboxCreated(e, b, a)
           \/ \E e \in Epochs, b \in Boxes : CommitWarmingToWarm(e, b)
           \/ \E e \in Epochs : FailWarmingToCold(e)
  BY <1>0, <1>3, SpawnerKeepsInv
<1>4. CASE \/ \E h \in Holders : ReleaseLeaseHolder(h)
           \/ \E h \in Holders, e \in Epochs : HeartbeatLeaseHolder(h, e)
  BY <1>0, <1>4, HolderKeepsInv
<1>5. CASE Expire
  <2>1. /\ lease' \in LeaseRows /\ lease'.liveness = lease.liveness /\ lease'.turns = lease.turns
        /\ lease'.viewers = lease.viewers /\ lease'.instance = lease.instance /\ holders' = holders
    BY <1>5 DEF Expire, LeaseInv, TypeOK, LeaseRows
  <2> QED  BY <2>1 DEF LeaseInv, TypeOK, CountsExact, BoxNaming, ColdNamesNoBox, TurnRows, ViewerRows
<1>6. CASE \E stale \in SUBSET holders : ReapStaleLeaseHolders(stale)
  BY <1>6, SweepKeepsInv
<1>7. CASE \/ \E e \in Epochs, a \in Archives \cup {NoArchive} : PersistDrainSnapshot(e, a)
           \/ \E e \in Epochs : ConfirmDrainCold(e)
           \/ ForceDrainViewerOnly
           \/ \E e \in Epochs, a \in Archives : PersistWarmSnapshot(e, a)
  BY <1>0, <1>7, DrainKeepsInv
<1> QED  BY <1>1, <1>2, <1>3, <1>4, <1>5, <1>6, <1>7 DEF Next

\* The lease row is well typed, its counts are exact while warming or warm, a
\* cold row names no box and a warm or draining one does, for any number of
\* holders, boxes, archives and builds.
THEOREM LeaseInvariant == Spec => []LeaseInv
<1> QED  BY InitLeaseInv, NextKeepsInv, PTL DEF Spec

\* recomputeAndStampLease, the releases and the sweep keep the stored counts equal
\* to the holder rows whenever a drain decision reads them on a warm row.
THEOREM CountsStayExact == Spec => []CountsExact
<1>1. LeaseInv => CountsExact  BY DEF LeaseInv
<1> QED  BY <1>1, LeaseInvariant, PTL

\* Every transaction on the lease row keeps the types of its columns.
THEOREM LeaseTypesHold == Spec => []TypeOK
<1>1. LeaseInv => TypeOK  BY DEF LeaseInv
<1> QED  BY <1>1, LeaseInvariant, PTL

\* Rollback, reset, drain commit and recreate: whichever path led to cold, the row names no box.
THEOREM ColdRowsNameNoBox == Spec => []ColdNamesNoBox
<1>1. LeaseInv => ColdNamesNoBox  BY DEF LeaseInv, BoxNaming
<1> QED  BY <1>1, LeaseInvariant, PTL

\* Commit and re-arm: whichever path led to warm, the row names a box.
THEOREM WarmRowsNameABox == Spec => []WarmNamesABox
<1>1. LeaseInv => WarmNamesABox  BY DEF LeaseInv, BoxNaming, WarmNamesABox
<1> QED  BY <1>1, LeaseInvariant, PTL

-----------------------------------------------------------------------------
(* What a step may never do *)

\* The step that PaidTurnKeepsItsBox is about, one action at a time.
LEMMA StepKeepsBox ==
  ASSUME LeaseInv, Next, NEW t \in TurnHolders PROVE KeepsBoxOf(t)
<1> SUFFICES ASSUME lease.liveness = "warm", t \in holders, t \in holders'
             PROVE  \/ /\ lease'.liveness = "warm" /\ lease'.epoch = lease.epoch
                       /\ lease'.instance = lease.instance
                    \/ /\ lease'.liveness = "warming" /\ lease'.build # lease.build
                       /\ holders = {t} /\ holders' = {t}
  BY DEF KeepsBoxOf
<1>0. lease \in LeaseRows /\ holders \in SUBSET Holders /\ t \in Holders
  BY DEF LeaseInv, TypeOK, Holders
<1>1. ASSUME NEW h \in Holders, NEW build \in Builds \cup {NoBuild}, AcquireSpawner(h, build)
      PROVE  /\ lease'.liveness = "warming" /\ lease'.build # lease.build
             /\ holders = {t} /\ holders' = {t}
  <2> DEFINE c == AfterConflict(h, build)
             row == [c EXCEPT !.liveness = "warming",
                              !.build = IF build = NoBuild THEN @ ELSE build, !.expired = FALSE]
  <2>1. c \in LeaseRows /\ c.liveness = "cold" /\ (~ BuildConflict(build) => c = lease)
    BY <1>0, <1>1, AfterConflictEffect DEF AcquireSpawner
  <2>2. BuildConflict(build) /\ OtherHolders(h) = {}
    BY <1>1, <2>1 DEF AcquireSpawner, Admitted
  <2>3. holders = {t} /\ holders' = {t}
    BY <1>1, <2>2 DEF OtherHolders, AcquireSpawner
  <2>4. lease' = Recount(row, holders')  BY <1>1 DEF AcquireSpawner
  <2> HIDE DEF c
  <2>5. row \in LeaseRows /\ row.liveness = "warming" /\ row.build = build
    BY <2>1, <2>2 DEF BuildConflict, LeaseRows, Livenesses
  <2> HIDE DEF row
  <2>6. lease'.liveness = "warming" /\ lease'.build = build
    BY <1>0, <2>3, <2>4, <2>5, RecountExact
  <2> QED  BY <2>2, <2>3, <2>6 DEF BuildConflict
<1>2. ASSUME NEW h \in Holders, NEW build \in Builds \cup {NoBuild}, AcquireLease(h, build),
             ~ AcquireSpawner(h, build)
      PROVE  lease'.liveness = "warm" /\ lease'.epoch = lease.epoch /\ lease'.instance = lease.instance
  <2>1. CASE UNCHANGED leaseVars  BY <2>1 DEF leaseVars
  <2>2. CASE AcquireAttached(h, build)
    <3> DEFINE row == [lease EXCEPT !.expired = FALSE]
    <3>1. holders' \in SUBSET Holders /\ lease' = Recount(row, holders')
      BY <1>0, <2>2 DEF AcquireAttached
    <3>2. /\ row \in LeaseRows /\ row.liveness = "warm" /\ row.epoch = lease.epoch
          /\ row.instance = lease.instance
      BY <1>0 DEF LeaseRows
    <3> HIDE DEF row
    <3> QED  BY <3>1, <3>2, RecountExact
  <2>3. ~ AcquireRearmed(h, build)  BY DEF AcquireRearmed
  <2> QED  BY <1>2, <2>1, <2>2, <2>3 DEF AcquireLease, AcquireRefused, AcquireFenced
<1>3. ASSUME NEW hs \in SUBSET Holders, t \in hs, lease' = DrainIfIdle(lease, hs)
      PROVE  lease'.liveness = "warm" /\ lease'.epoch = lease.epoch /\ lease'.instance = lease.instance
  BY <1>0, <1>3, DrainIfIdleEffect
<1>4. ASSUME NEW h \in Holders, ReleaseLeaseHolder(h)
      PROVE  lease'.liveness = "warm" /\ lease'.epoch = lease.epoch /\ lease'.instance = lease.instance
  <2>1. (holders \ {h}) \in SUBSET Holders /\ t \in holders \ {h}
    BY <1>0, <1>4 DEF ReleaseLeaseHolder
  <2> QED  BY <1>3, <1>4, <2>1 DEF ReleaseLeaseHolder
<1>5. ASSUME NEW stale \in SUBSET holders, ReapStaleLeaseHolders(stale)
      PROVE  lease'.liveness = "warm" /\ lease'.epoch = lease.epoch /\ lease'.instance = lease.instance
  <2> DEFINE hs == holders \ stale
             d == DrainIfIdle(lease, hs)
  <2>1. hs \in SUBSET Holders /\ t \in hs /\ lease' = ResetWarming(d)
    BY <1>0, <1>5 DEF ReapStaleLeaseHolders
  <2>2. /\ d \in LeaseRows /\ d.liveness = "warm" /\ d.epoch = lease.epoch
        /\ d.instance = lease.instance
    BY <1>0, <2>1, DrainIfIdleEffect
  <2> HIDE DEF d
  <2> QED  BY <2>1, <2>2, ResetWarmingEffect
<1>6. ~ ForceDrainViewerOnly
  <2>1. lease.turns = Cardinality(TurnRows(holders))  BY DEF LeaseInv, CountsExact
  <2>2. t \in holders \cap TurnHolders  OBVIOUS
  <2> QED  BY <1>0, <2>1, <2>2, NoTurnsCounted DEF ForceDrainViewerOnly
<1>7. ASSUME NEW e, NEW a, NEW h \in Holders,
             HeartbeatLeaseHolder(h, e) \/ PersistWarmSnapshot(e, a)
      PROVE  lease'.liveness = "warm" /\ lease'.epoch = lease.epoch /\ lease'.instance = lease.instance
  BY <1>0, <1>7 DEF HeartbeatLeaseHolder, PersistWarmSnapshot, LeaseRows
<1>8. ASSUME Expire
      PROVE  lease'.liveness = "warm" /\ lease'.epoch = lease.epoch /\ lease'.instance = lease.instance
  BY <1>0, <1>8 DEF Expire, LeaseRows
<1>9. ASSUME NEW e, NEW a, NEW b
      PROVE  /\ ~ RecordWarmingSandboxCreated(e, b, a) /\ ~ CommitWarmingToWarm(e, b)
             /\ ~ FailWarmingToCold(e) /\ ~ PersistDrainSnapshot(e, a) /\ ~ ConfirmDrainCold(e)
  BY DEF RecordWarmingSandboxCreated, CommitWarmingToWarm, FailWarmingToCold, WarmingAt,
         PersistDrainSnapshot, ConfirmDrainCold, DrainedAt
<1> QED  BY <1>0, <1>1, <1>2, <1>4, <1>5, <1>6, <1>7, <1>8, <1>9 DEF Next

\* "A paying turn is NEVER killed": whatever the other holders, the reaper and the
\* force drain do, a turn that keeps its holder row keeps its warm box.
THEOREM PaidTurnsKeepTheirBox == Spec => PaidTurnKeepsItsBox
<1>1. LeaseInv /\ [Next]_leaseVars => [\A t \in TurnHolders : KeepsBoxOf(t)]_leaseVars
  BY StepKeepsBox
<1> QED  BY <1>1, LeaseInvariant, PTL DEF Spec, PaidTurnKeepsItsBox

\* The row each step writes, for the two properties below: the epoch moves only in
\* the commit, and the archive of a warm row only in persistWarmSnapshot.
LEMMA StepMovesEpoch ==
  ASSUME LeaseInv, Next
  PROVE  EpochStep /\ ArchiveStep
<1>0. lease \in LeaseRows /\ holders \in SUBSET Holders /\ lease.epoch \in Nat
  BY DEF LeaseInv, TypeOK, LeaseRows
<1> DEFINE Commits == lease.liveness = "warming" /\ lease'.liveness = "warm"
           Same == ~ Commits /\ lease'.epoch = lease.epoch /\ lease'.arch = lease.arch
           Leaves == /\ ~ Commits /\ lease'.epoch = lease.epoch
                     /\ ~ (lease.liveness = "warm" /\ lease'.liveness = "warm")
<1>1. Same \/ Leaves => EpochStep /\ ArchiveStep
  <2>1. lease.arch # NoArchive => lease.arch.at >= lease.arch.at
    BY <1>0, ArchiveAssumption DEF LeaseRows
  <2> QED  BY <2>1 DEF EpochStep, ArchiveStep
<1>2. ASSUME NEW h \in Holders, NEW build \in Builds \cup {NoBuild}, AcquireLease(h, build)
      PROVE  Same \/ Leaves
  <2>1. CASE UNCHANGED leaseVars  BY <2>1 DEF leaseVars
  <2>2. CASE AcquireAttached(h, build)
    <3> DEFINE row == [lease EXCEPT !.expired = FALSE]
    <3>1. holders' \in SUBSET Holders /\ lease' = Recount(row, holders')
      BY <1>0, <2>2 DEF AcquireAttached
    <3>2. /\ row \in LeaseRows /\ row.epoch = lease.epoch /\ row.arch = lease.arch
          /\ row.liveness = lease.liveness
      BY <1>0 DEF LeaseRows
    <3> HIDE DEF row
    <3> QED  BY <3>1, <3>2, RecountExact
  <2>3. CASE AcquireRearmed(h, build)
    <3> DEFINE row == [lease EXCEPT !.liveness = "warm", !.expired = FALSE]
    <3>1. holders' \in SUBSET Holders /\ lease' = Recount(row, holders')
      BY <1>0, <2>3 DEF AcquireRearmed
    <3>2. row \in LeaseRows /\ row.epoch = lease.epoch /\ row.arch = lease.arch
      BY <1>0 DEF LeaseRows, Livenesses
    <3>3. lease.liveness = "draining"  BY <2>3 DEF AcquireRearmed
    <3> HIDE DEF row
    <3> QED  BY <3>1, <3>2, <3>3, RecountExact
  <2>4. CASE AcquireSpawner(h, build)
    <3> DEFINE c == AfterConflict(h, build)
               row == [c EXCEPT !.liveness = "warming",
                                !.build = IF build = NoBuild THEN @ ELSE build, !.expired = FALSE]
    <3>1. c \in LeaseRows /\ c.epoch = lease.epoch  BY <1>0, AfterConflictEffect
    <3>2. holders' \in SUBSET Holders /\ lease' = Recount(row, holders')
      BY <1>0, <2>4 DEF AcquireSpawner
    <3> HIDE DEF c
    <3>3. row \in LeaseRows /\ row.epoch = c.epoch /\ row.liveness = "warming"
      BY <3>1 DEF LeaseRows, Livenesses
    <3> HIDE DEF row
    <3> QED  BY <3>1, <3>2, <3>3, RecountExact
  <2> QED  BY <1>2, <2>1, <2>2, <2>3, <2>4 DEF AcquireLease, AcquireRefused, AcquireFenced
<1>3. ASSUME NEW e \in Epochs, NEW b \in Boxes, CommitWarmingToWarm(e, b)
      PROVE  EpochStep /\ ArchiveStep
  <2>1. /\ lease.liveness = "warming" /\ lease'.liveness = "warm"
        /\ lease'.epoch = lease.epoch + 1
    BY <1>0, <1>3 DEF CommitWarmingToWarm, WarmingAt, LeaseRows
  <2> QED  BY <2>1 DEF EpochStep, ArchiveStep
<1>4. ASSUME NEW e \in Epochs, NEW b, NEW a \in Archives \cup {NoArchive},
             RecordWarmingSandboxCreated(e, b, a) \/ PersistDrainSnapshot(e, a)
      PROVE  Leaves
  BY <1>0, <1>4 DEF RecordWarmingSandboxCreated, PersistDrainSnapshot, WarmingAt, DrainedAt, LeaseRows
<1>5. ASSUME NEW e \in Epochs, FailWarmingToCold(e) \/ ConfirmDrainCold(e)
      PROVE  Leaves
  <2>1. lease' = ColdWithArchive(lease)  BY <1>5 DEF FailWarmingToCold, ConfirmDrainCold
  <2> QED  BY <1>0, <2>1, ColdWithArchiveEffect
<1>6. ASSUME NEW h \in Holders, ReleaseLeaseHolder(h)
      PROVE  Same
  BY <1>0, <1>6, DrainIfIdleEffect DEF ReleaseLeaseHolder
<1>7. ASSUME NEW stale \in SUBSET holders, ReapStaleLeaseHolders(stale)
      PROVE  Same \/ Leaves
  <2> DEFINE hs == holders \ stale
             d == DrainIfIdle(lease, hs)
  <2>1. hs \in SUBSET Holders /\ lease' = ResetWarming(d)
    BY <1>0, <1>7 DEF ReapStaleLeaseHolders
  <2>2. /\ d \in LeaseRows /\ d.epoch = lease.epoch /\ d.arch = lease.arch
        /\ d.liveness = lease.liveness \/ lease.liveness = "warm"
        /\ lease.liveness # "warming" => d.liveness # "warming"
    BY <1>0, <2>1, DrainIfIdleEffect
  <2> HIDE DEF d
  <2> QED  BY <2>1, <2>2, ResetWarmingEffect
<1>8. ASSUME ForceDrainViewerOnly
      PROVE  Leaves
  BY <1>0, <1>8 DEF ForceDrainViewerOnly, LeaseRows
<1>9. ASSUME NEW h \in Holders, NEW e \in Epochs, HeartbeatLeaseHolder(h, e)
      PROVE  Same
  BY <1>0, <1>9 DEF HeartbeatLeaseHolder, LeaseRows
<1>10. ASSUME Expire
       PROVE  Same
  BY <1>0, <1>10 DEF Expire, LeaseRows
<1>11. ASSUME NEW e \in Epochs, NEW a \in Archives, PersistWarmSnapshot(e, a)
       PROVE  EpochStep /\ ArchiveStep
  <2>1. lease'.epoch = lease.epoch /\ lease'.arch = a /\ lease.liveness = "warm"
    BY <1>0, <1>11 DEF PersistWarmSnapshot, LeaseRows
  <2>2. a # NoArchive /\ a.at \in Nat  BY NullAssumption, ArchiveAssumption
  <2>3. lease.arch # NoArchive => lease.arch.at \in Nat /\ a.at > lease.arch.at
    BY <1>0, <1>11, ArchiveAssumption DEF PersistWarmSnapshot, CaptureLands, LeaseRows
  <2> QED  BY <2>1, <2>2, <2>3 DEF EpochStep, ArchiveStep
<1> HIDE DEF Same, Leaves
<1> QED
  BY <1>1, <1>2, <1>3, <1>4, <1>5, <1>6, <1>7, <1>8, <1>9, <1>10, <1>11 DEF Next

\* The fencing token: every commit out of warming opens the next lease_epoch and
\* nothing else moves it, so an epoch names at most one committed box of the row.
THEOREM EpochsFence == Spec => EpochFence
<1>1. LeaseInv /\ [Next]_leaseVars => [EpochStep]_leaseVars  BY StepMovesEpoch
<1> QED  BY <1>1, LeaseInvariant, PTL DEF Spec, EpochFence

\* However late a slow capture lands, it never replaces a later one on a warm row.
THEOREM LateCapturesLose == Spec => ArchiveNeverGoesBack
<1>1. LeaseInv /\ [Next]_leaseVars => [ArchiveStep]_leaseVars  BY StepMovesEpoch
<1> QED  BY <1>1, LeaseInvariant, PTL DEF Spec, ArchiveNeverGoesBack
=============================================================================
