-------------------------- MODULE SandboxFilesProofs --------------------------
(***************************************************************************)
(* Where a group's files are, when nothing goes wrong but the drain's own  *)
(* capture: no process or reaper dies, no spawn overruns, no box is lost,  *)
(* no stop fails, every archive hydrates and nobody acquires while a drain *)
(* is under way; no Channel-A request, and one build per group.  README.md *)
(* says which of these the properties cannot do without.                   *)
(***************************************************************************)
EXTENDS SandboxLifecycleProofs

\* The hypothesis of both theorems.  With any one more fault, but four cases the
\* README names, TLC refutes the theorem's property.
Calm ==
  /\ Faults \subseteq {"captureFails"}
  /\ ChannelOps = {}
  /\ \A v, w \in Holders : NoBuild \in {BuildOf[v], BuildOf[w]} \/ BuildOf[v] = BuildOf[w]

\* The spawner branch, where it has a box, and a drain that is past its check.
SpawnPCs == {"create", "record", "hydrate", "rerecord", "commit", "fail", "rollback"}
BoxedPCs == {"record", "rerecord", "hydrate", "commit"}
DrainPCs == {"capture", "persist", "delete", "confirm"}

\* The row was built for some process of the group.
OneBuild == lease.build = NoBuild \/ \E w \in Holders : lease.build = BuildOf[w]

\* A warming row has one spawner, which knows its epoch and its archive, and does
\* not expire under it.  Nobody is dead or lost its spawn.
SpawnerKnowsRow(w) ==
  /\ lease.liveness = "warming" /\ at[w] = lease.epoch /\ env[w].arch = lease.arch
  /\ \A v \in Holders : pc[v] \in SpawnPCs => v = w

OneSpawner ==
  /\ \A w \in Holders : pc[w] \in SpawnPCs => SpawnerKnowsRow(w)
  /\ lease.liveness = "warming" => ~ lease.expired /\ \E w \in Holders : pc[w] \in SpawnPCs
  /\ \A w \in Holders : pc[w] \notin {"undo", "dead"}
  /\ orphan.pc = "idle"

\* The spawner's box runs, and once hydrated it holds what the archive holds.
SpawnHydrated(w) ==
  /\ pc[w] \in BoxedPCs => mine[w] \in live
  /\ pc[w] \in {"rerecord", "commit"} /\ env[w].arch # NoArchive => env[w].arch.has \subseteq files[mine[w]]

SpawnsHydrated == \A w \in Holders : SpawnHydrated(w)

\* The saved writes are in the row's archive, or in the running box it names.
Archived == saved = {} \/ (lease.arch # NoArchive /\ saved \subseteq lease.arch.has)
InTheBox == lease.instance \in live /\ saved \subseteq files[lease.instance]

RowKeepsFiles ==
  /\ lease.liveness \in {"cold", "warming"} => Archived
  /\ reaper.pc \in {"delete", "confirm"} => Archived
  /\ lease.liveness \in {"warm", "draining"} /\ reaper.pc # "confirm" => InTheBox

\* A drain past its check works on the draining row's box and captures all of it.
DrainSeesBox ==
  /\ reaper.pc \in DrainPCs => lease.liveness = "draining" /\ reaper.box = lease.instance
  /\ reaper.pc = "persist" => reaper.arch.has = files[reaper.box]

\* Turns at work share the box the row names.
SharesBox(t) ==
  /\ pc[t] = "attach" => env[t].box = lease.instance
  /\ pc[t] = "running" => mine[t] = lease.instance

\* ... every one of them.
TurnsShareBox == \A t \in TurnHolders : SharesBox(t)

\* A capture of the current epoch is one of the box the row names.
CaptureOfBox(t) ==
  /\ cap[t] # NoCap /\ cap[t].epoch = lease.epoch
  /\ lease.liveness \in {"warm", "draining"} /\ reaper.pc # "confirm"
  => cap[t].arch.has \subseteq files[lease.instance]

CapturesOfBox == \A t \in TurnHolders : CaptureOfBox(t)

\* Where the files are: the part of the invariant about the row, the boxes and the
\* captures in flight.
FilesInv ==
  /\ OneBuild /\ OneSpawner /\ SpawnsHydrated /\ RowKeepsFiles /\ DrainSeesBox
  /\ TurnsShareBox /\ CapturesOfBox

-----------------------------------------------------------------------------
(* The shapes of steps *)

\* A process the step does not concern.
Still(v) == pc'[v] = pc[v] /\ at'[v] = at[v] /\ env'[v] = env[v] /\ mine'[v] = mine[v]

\* A process that neither spawns nor starts to, and that attaches to the row's box.
Beside(v) ==
  /\ pc[v] \notin SpawnPCs /\ pc'[v] \notin SpawnPCs \cup {"undo", "dead"}
  /\ pc'[v] = "attach" => env'[v].box = lease.instance
  /\ pc'[v] = "running" => mine'[v] = lease.instance

\* A step that moves no box, no capture and nothing on the row but its liveness,
\* between warm and draining, its counts and its expiry.
LEMMA BesideStep ==
  ASSUME FilesInv, UNCHANGED <<live, files, saved, cap, orphan>>,
         lease'.arch = lease.arch, lease'.instance = lease.instance,
         lease'.epoch = lease.epoch, lease'.build = lease.build,
         lease.liveness \in Livenesses,
         lease.liveness \in {"cold", "warming"} => lease'.liveness = lease.liveness,
         lease.liveness \in {"warm", "draining"} => lease'.liveness \in {"warm", "draining"},
         lease'.liveness = "warming" => ~ lease'.expired,
         reaper'.pc \in DrainPCs \/ reaper.pc = "confirm" => reaper' = reaper,
         reaper'.pc \in DrainPCs => lease'.liveness = "draining",
         \A v \in Holders : Still(v) \/ Beside(v)
  PROVE  FilesInv'
<1>1. OneBuild'  BY DEF FilesInv, OneBuild
<1>2. \A v \in Holders : pc'[v] \in SpawnPCs => pc[v] = pc'[v] /\ Still(v)
  BY DEF Still, Beside
<1>3. \A v \in Holders : pc[v] \in SpawnPCs => pc[v] = pc'[v]
  BY DEF Still, Beside
<1>4. OneSpawner'
  <2>1. \A w \in Holders : pc'[w] \in SpawnPCs => SpawnerKnowsRow(w)'
    BY <1>2 DEF FilesInv, OneSpawner, SpawnerKnowsRow, Still
  <2>2. lease'.liveness = "warming" => ~ lease'.expired /\ \E w \in Holders : pc'[w] \in SpawnPCs
    BY <1>3 DEF FilesInv, OneSpawner, Livenesses
  <2>3. \A w \in Holders : pc'[w] \notin {"undo", "dead"}
    BY DEF FilesInv, OneSpawner, Still, Beside
  <2>4. orphan'.pc = "idle"  BY DEF FilesInv, OneSpawner
  <2> QED  BY <2>1, <2>2, <2>3, <2>4 DEF OneSpawner
<1>5. SpawnsHydrated'
  BY <1>2 DEF FilesInv, SpawnsHydrated, SpawnHydrated, Still, SpawnPCs, BoxedPCs
<1>6. RowKeepsFiles'
  <2>1. Archived' <=> Archived  BY DEF Archived
  <2>2. InTheBox' <=> InTheBox  BY DEF InTheBox
  <2>3. reaper'.pc \in {"delete", "confirm"} => reaper' = reaper  BY DEF DrainPCs
  <2>4. lease'.liveness \in {"cold", "warming"} => lease.liveness = lease'.liveness
    BY DEF Livenesses
  <2>5. lease'.liveness \in {"warm", "draining"} => lease.liveness \in {"warm", "draining"}
    BY DEF Livenesses
  <2>6. reaper.pc = "confirm" => reaper'.pc = "confirm"  OBVIOUS
  <2> QED  BY <2>1, <2>2, <2>3, <2>4, <2>5, <2>6 DEF FilesInv, RowKeepsFiles
<1>7. DrainSeesBox'
  <2>1. reaper'.pc \in DrainPCs => reaper' = reaper /\ lease'.liveness = "draining"  OBVIOUS
  <2> QED  BY <2>1 DEF FilesInv, DrainSeesBox, DrainPCs
<1>8. TurnsShareBox'
  BY DEF FilesInv, TurnsShareBox, SharesBox, Still, Beside, Holders
<1>9. CapturesOfBox'
  <2>5. lease'.liveness \in {"warm", "draining"} => lease.liveness \in {"warm", "draining"}
    BY DEF Livenesses
  <2>6. reaper'.pc # "confirm" => reaper.pc # "confirm"  OBVIOUS
  <2> QED  BY <2>5, <2>6 DEF FilesInv, CapturesOfBox, CaptureOfBox
<1> QED  BY <1>1, <1>4, <1>5, <1>6, <1>7, <1>8, <1>9 DEF FilesInv

\* A step of the spawner that leaves the row warming with its archive.
LEMMA SpawnerStep ==
  ASSUME LifeInv, FilesInv, NEW w \in Holders, pc[w] \in SpawnPCs,
         UNCHANGED <<saved, cap, reaper, orphan>>,
         lease'.liveness = "warming", ~ lease'.expired, lease'.arch = lease.arch,
         lease'.epoch = lease.epoch, lease'.build = lease.build,
         \A v \in Holders : v # w => Still(v),
         pc'[w] \in SpawnPCs, at'[w] = at[w], env'[w] = env[w],
         pc'[w] \in BoxedPCs => mine'[w] \in live',
         pc'[w] \in {"rerecord", "commit"} /\ env[w].arch # NoArchive
           => env[w].arch.has \subseteq files'[mine'[w]]
  PROVE  FilesInv'
<1>1. OneBuild'  BY DEF FilesInv, OneBuild
<1>2. SpawnerKnowsRow(w) /\ \A v \in Holders : v # w => pc[v] \notin SpawnPCs /\ pc'[v] = pc[v]
  BY DEF FilesInv, OneSpawner, SpawnerKnowsRow, Still
<1>3. lease.liveness = "warming"  BY <1>2 DEF SpawnerKnowsRow
<1>4. OneSpawner'
  <2>1. SpawnerKnowsRow(w)'  BY <1>2 DEF SpawnerKnowsRow
  <2>2. \A v \in Holders : pc'[v] \notin {"undo", "dead"}
    BY <1>2 DEF FilesInv, OneSpawner, SpawnPCs
  <2> QED  BY <1>2, <2>1, <2>2 DEF FilesInv, OneSpawner
<1>5. SpawnsHydrated'
  <2>1. SpawnHydrated(w)'  BY DEF SpawnHydrated
  <2>2. \A v \in Holders : v # w => pc'[v] \notin BoxedPCs \cup {"rerecord", "commit"}
    BY <1>2 DEF SpawnPCs, BoxedPCs
  <2> QED  BY <2>1, <2>2 DEF SpawnsHydrated, SpawnHydrated
<1>6. reaper.pc \notin DrainPCs  BY <1>3 DEF FilesInv, DrainSeesBox
<1>7. RowKeepsFiles'
  BY <1>3, <1>6 DEF FilesInv, RowKeepsFiles, Archived, DrainPCs
<1>8. DrainSeesBox'  BY <1>6 DEF DrainSeesBox, DrainPCs
<1>9. TurnsShareBox'
  <2>1. \A t \in TurnHolders : pc[t] \notin Working
    BY <1>3 DEF LifeInv, TurnPinsLease, Working
  <2>2. \A t \in TurnHolders : pc'[t] \notin {"attach", "running"}
    BY <1>2, <2>1 DEF Working, SpawnPCs, Holders
  <2> QED  BY <2>2 DEF TurnsShareBox, SharesBox
<1>10. CapturesOfBox'  BY DEF CapturesOfBox, CaptureOfBox
<1> QED  BY <1>1, <1>4, <1>5, <1>7, <1>8, <1>9, <1>10 DEF FilesInv

-----------------------------------------------------------------------------
(* The processes *)

\* One build per group: nobody's build conflicts with the row's.
LEMMA BuildsAgree ==
  ASSUME Calm, OneBuild, NEW w \in Holders PROVE ~ BuildConflict(BuildOf[w])
BY DEF Calm, OneBuild, BuildConflict

\* A warm row's box runs: no drain is past its check.
LEMMA WarmBoxRuns ==
  ASSUME FilesInv, lease.liveness = "warm"
  PROVE  InTheBox /\ reaper.pc \notin DrainPCs
BY DEF FilesInv, RowKeepsFiles, DrainSeesBox, DrainPCs

\* The branches that a calm group never takes.
LEMMA CalmBranches ==
  ASSUME Calm, LifeInv, ViewersOnlyWatch, FilesInv, NEW w \in Holders
  PROVE  ~ (\/ AcquireConflict(w) \/ RecordMisses(w) \/ CommitMisses(w) \/ UndoSpawn(w)
            \/ RestoreRival(w) \/ Crash(w) \/ Reincarnate(w))
<1>1. ~ AcquireConflict(w)
  BY BuildsAgree DEF FilesInv, AcquireConflict, AcquireRefused
<1>2. pc[w] \in SpawnPCs => WarmingAt(at[w])
  BY DEF FilesInv, OneSpawner, SpawnerKnowsRow, WarmingAt
<1>3. ~ (RecordMisses(w) \/ CommitMisses(w))
  BY <1>2 DEF RecordMisses, Recording, CommitMisses, SpawnPCs
<1>4. ~ (UndoSpawn(w) \/ Crash(w) \/ Reincarnate(w))
  BY DEF UndoSpawn, Crash, Reincarnate, Calm, FilesInv, OneSpawner
<1>5. ~ RestoreRival(w)
  <2> SUFFICES ASSUME RestoreRival(w) PROVE FALSE  OBVIOUS
  <2>1. pc[w] = "attach" /\ env[w].box \notin live  BY DEF RestoreRival
  <2>2. w \in TurnHolders  BY <2>1 DEF ViewersOnlyWatch, Viewers, Working, Holders, Calm
  <2>3. lease.liveness = "warm" /\ env[w].box = lease.instance
    BY <2>1, <2>2 DEF LifeInv, TurnPinsLease, FilesInv, TurnsShareBox, SharesBox
  <2> QED  BY <2>1, <2>3, WarmBoxRuns DEF InTheBox
<1> QED  BY <1>1, <1>3, <1>4, <1>5

\* cold -> warming.
LEMMA AcquireAsSpawnerFiles ==
  ASSUME Calm, LifeInv, FilesInv, NEW w \in Holders, AcquireAsSpawner(w), \A v \in Holders : v # w => Still(v)
  PROVE  FilesInv'
<1>t. /\ lease \in LeaseRows /\ holders \in SUBSET Holders /\ pc \in [Holders -> PCs]
      /\ at \in [Holders -> Nat] /\ (holders \cup {w}) \in SUBSET Holders
      /\ env \in [Holders -> [box : Boxes \cup {NoBox}, arch : Stored, prev : Stored]]
  BY DEF LifeInv, LTypeOK, TypeOK, MemoryTypes
<1>1. AfterConflict(w, BuildOf[w]) = lease /\ lease.liveness = "cold"
  BY <1>t, BuildsAgree, AfterConflictEffect DEF FilesInv, AcquireAsSpawner, AcquireSpawner
<1> DEFINE row == [lease EXCEPT !.liveness = "warming",
                                !.build = IF BuildOf[w] = NoBuild THEN @ ELSE BuildOf[w], !.expired = FALSE]
<1>2. lease' = Recount(row, holders \cup {w})
  BY <1>1 DEF AcquireAsSpawner, AcquireSpawner
<1>3. /\ row \in LeaseRows /\ row.liveness = "warming" /\ row.epoch = lease.epoch /\ row.arch = lease.arch
      /\ row.expired = FALSE /\ row.build \in {lease.build, BuildOf[w]}
  BY <1>t, ProcessAssumption DEF LeaseRows, Livenesses
<1> HIDE DEF row
<1>4. /\ lease'.liveness = "warming" /\ lease'.epoch = lease.epoch /\ lease'.arch = lease.arch
      /\ ~ lease'.expired /\ lease'.build \in {lease.build, BuildOf[w]}
  BY <1>t, <1>2, <1>3, RecountExact
<1>5. /\ pc'[w] = "create" /\ at'[w] = lease.epoch /\ env'[w].arch = lease.arch
      /\ UNCHANGED <<mine, cap, live, files, saved, reaper, orphan>>
  BY <1>t, <1>1 DEF AcquireAsSpawner, Goto, Envelope, boxVars
<1>6. \A v \in Holders : pc[v] \notin SpawnPCs
  BY <1>1 DEF FilesInv, OneSpawner, SpawnerKnowsRow
<1>7. \A v \in Holders : v # w => pc'[v] = pc[v]  BY DEF Still
<1>8. OneBuild'  BY <1>4 DEF FilesInv, OneBuild
<1>9. OneSpawner'
  <2>1. SpawnerKnowsRow(w)'  BY <1>4, <1>5, <1>6, <1>7 DEF SpawnerKnowsRow
  <2>2. pc'[w] \in SpawnPCs  BY <1>5 DEF SpawnPCs
  <2>3. \A v \in Holders : pc'[v] \notin {"undo", "dead"}
    BY <1>5, <1>7 DEF FilesInv, OneSpawner
  <2> QED  BY <1>4, <1>5, <1>6, <1>7, <2>1, <2>2, <2>3 DEF FilesInv, OneSpawner
<1>10. SpawnsHydrated'
  <2>1. \A v \in Holders : pc'[v] \notin BoxedPCs \cup {"rerecord", "commit"}
    BY <1>5, <1>6, <1>7 DEF SpawnPCs, BoxedPCs
  <2> QED  BY <2>1 DEF SpawnsHydrated, SpawnHydrated
<1>11. reaper.pc \notin DrainPCs  BY <1>1 DEF FilesInv, DrainSeesBox
<1>12. RowKeepsFiles'
  BY <1>1, <1>4, <1>5, <1>11 DEF FilesInv, RowKeepsFiles, Archived, DrainPCs
<1>13. DrainSeesBox'  BY <1>5, <1>11 DEF DrainSeesBox, DrainPCs
<1>14. TurnsShareBox'
  <2>1. \A t \in TurnHolders : pc[t] \notin Working
    BY <1>1 DEF LifeInv, TurnPinsLease, Working
  <2>2. \A t \in TurnHolders : pc'[t] \notin {"attach", "running"}
    BY <1>5, <1>7, <2>1 DEF Working, Holders
  <2> QED  BY <2>2 DEF TurnsShareBox, SharesBox
<1>15. CapturesOfBox'  BY <1>4 DEF CapturesOfBox, CaptureOfBox
<1> QED  BY <1>8, <1>9, <1>10, <1>12, <1>13, <1>14, <1>15 DEF FilesInv

\* The spawner at work: create, record, hydrate, fail.
LEMMA SpawnFiles ==
  ASSUME Calm, LifeInv, FilesInv, NEW w \in Holders, \A v \in Holders : v # w => Still(v),
         CreateBox(w) \/ RecordBox(w) \/ HydrateWorkspace(w) \/ SpawnFails(w) \/ StopFailedSpawn(w)
  PROVE  FilesInv'
<1>t. /\ lease \in LeaseRows /\ pc \in [Holders -> PCs] /\ at \in [Holders -> Nat]
      /\ mine \in [Holders -> Boxes \cup {NoBox}]
      /\ env \in [Holders -> [box : Boxes \cup {NoBox}, arch : Stored, prev : Stored]]
      /\ files \in [Boxes -> SUBSET (1 .. now)] /\ live \subseteq Boxes
  BY DEF LifeInv, LTypeOK, TypeOK, MemoryTypes
<1>f. FreshBoxes \subseteq Boxes  BY DEF FreshBoxes
<1>1. pc[w] \in SpawnPCs
  BY DEF CreateBox, RecordBox, Recording, HydrateWorkspace, SpawnFails, StopFailedSpawn, SpawnPCs
<1>2. /\ SpawnerKnowsRow(w) /\ SpawnHydrated(w) /\ lease.liveness = "warming" /\ ~ lease.expired
      /\ env[w].arch = lease.arch
  BY <1>1 DEF FilesInv, OneSpawner, SpawnerKnowsRow, SpawnsHydrated
<1>u. lease' = lease => /\ lease'.liveness = "warming" /\ ~ lease'.expired /\ lease'.arch = lease.arch
                        /\ lease'.epoch = lease.epoch /\ lease'.build = lease.build
  BY <1>2
<1>3. CASE CreateBox(w)
  <2>1. PICK b \in FreshBoxes : Swap(NoBox, b, {}) /\ mine' = [mine EXCEPT ![w] = b]
    BY <1>3 DEF CreateBox
  <2>2. mine'[w] = b /\ b \in live'  BY <1>t, <2>1 DEF Swap
  <2>3. /\ lease' = lease /\ UNCHANGED <<saved, cap, reaper, orphan, at, env>>
        /\ pc'[w] = AfterCreate(w)
    BY <1>3, <1>t DEF CreateBox, Goto, leaseVars
  <2>4. pc'[w] \in SpawnPCs /\ pc'[w] # "rerecord" /\ (pc'[w] = "commit" => env[w].arch = NoArchive)
    BY <2>3 DEF AfterCreate, SpawnPCs
  <2> QED  BY <1>1, <1>u, <2>2, <2>3, <2>4, SpawnerStep
<1>4. CASE RecordBox(w)
  <2>1. /\ pc[w] \in {"record", "rerecord"}
        /\ pc'[w] = IF pc[w] = "record" /\ env[w].arch # NoArchive THEN "hydrate" ELSE "commit"
        /\ UNCHANGED <<saved, cap, reaper, orphan, at, env, mine, live, files>>
    BY <1>4, <1>t DEF RecordBox, Recording, Goto
  <2>2. /\ lease'.liveness = "warming" /\ ~ lease'.expired /\ lease'.arch = env[w].arch
        /\ lease'.epoch = lease.epoch /\ lease'.build = lease.build
    BY <1>4, <1>t, <1>2 DEF RecordBox, RecordWarmingSandboxCreated, LeaseRows
  <2>3. mine[w] \in live  BY <1>2, <2>1 DEF SpawnHydrated, BoxedPCs
  <2>4. /\ pc'[w] \in SpawnPCs /\ pc'[w] # "rerecord"
        /\ pc'[w] = "commit" /\ env[w].arch # NoArchive => env[w].arch.has \subseteq files[mine[w]]
    BY <1>2, <2>1 DEF SpawnHydrated, SpawnPCs
  <2> QED  BY <1>1, <1>2, <2>1, <2>2, <2>3, <2>4, SpawnerStep
<1>5. CASE HydrateWorkspace(w)
  <2>1. PICK b \in FreshBoxes, c \in Hydrated(env[w]) : Swap(mine[w], b, c) /\ mine' = [mine EXCEPT ![w] = b]
    BY <1>5 DEF HydrateWorkspace
  <2>2. c = IF env[w].arch = NoArchive THEN {} ELSE env[w].arch.has
    BY DEF Hydrated, Calm
  <2>3. mine'[w] = b /\ b \in live' /\ files'[b] = c  BY <1>t, <1>f, <2>1 DEF Swap
  <2>4. /\ lease' = lease /\ UNCHANGED <<saved, cap, reaper, orphan, at, env>>
        /\ pc'[w] \in {"rerecord", "commit"}
    BY <1>5, <1>t DEF HydrateWorkspace, Goto, leaseVars
  <2>5. pc'[w] \in SpawnPCs  BY <2>4 DEF SpawnPCs
  <2> QED  BY <1>1, <1>u, <2>2, <2>3, <2>4, <2>5, SpawnerStep
<1>6. CASE SpawnFails(w) \/ StopFailedSpawn(w)
  <2>1. /\ lease' = lease /\ UNCHANGED <<saved, cap, reaper, orphan, at, env, mine>>
        /\ pc'[w] \in {"fail", "rollback"}
    BY <1>6, <1>t DEF SpawnFails, StopFailedSpawn, Goto, Calm, leaseVars
  <2>2. pc'[w] \in SpawnPCs /\ pc'[w] \notin BoxedPCs \cup {"rerecord", "commit"}
    BY <2>1 DEF SpawnPCs, BoxedPCs
  <2> QED  BY <1>1, <1>u, <2>1, <2>2, SpawnerStep
<1> QED  BY <1>3, <1>4, <1>5, <1>6

\* The commit and the rollback end the spawn: nobody spawns, and no turn works yet
\* but the spawner.
LEMMA EndSpawnFiles ==
  ASSUME Calm, LifeInv, FilesInv, NEW w \in Holders, \A v \in Holders : v # w => Still(v),
         CommitBox(w) \/ Rollback(w)
  PROVE  FilesInv'
<1>t. /\ lease \in LeaseRows /\ pc \in [Holders -> PCs] /\ at \in [Holders -> Nat]
      /\ mine \in [Holders -> Boxes \cup {NoBox}] /\ lease.epoch \in Nat
      /\ TurnHolders \subseteq Holders /\ (w \in TurnHolders => w \notin Viewers)
  BY HolderAssumption DEF LifeInv, LTypeOK, TypeOK, LeaseRows, Holders, Viewers
<1>1. pc[w] \in SpawnPCs  BY DEF CommitBox, Rollback, SpawnPCs
<1>2. SpawnerKnowsRow(w) /\ SpawnHydrated(w)  BY <1>1 DEF FilesInv, OneSpawner, SpawnsHydrated
<1>3. /\ lease.liveness = "warming" /\ at[w] = lease.epoch /\ env[w].arch = lease.arch /\ Archived
      /\ reaper.pc \notin DrainPCs
  BY <1>2 DEF SpawnerKnowsRow, FilesInv, RowKeepsFiles, DrainSeesBox
<1>4. \A v \in Holders : v # w => pc[v] \notin SpawnPCs /\ pc'[v] = pc[v]
  BY <1>2 DEF SpawnerKnowsRow, Still
<1>5. \A t \in TurnHolders : pc[t] \notin Working  BY <1>3 DEF LifeInv, TurnPinsLease, Working
<1>6. UNCHANGED <<live, files, saved, cap, reaper, orphan>>
  BY DEF CommitBox, Rollback, boxVars
<1>7. ASSUME pc'[w] \in {"attached", "running", "release"},
             lease'.liveness # "warming", lease'.build = lease.build
      PROVE  OneBuild' /\ OneSpawner' /\ SpawnsHydrated' /\ DrainSeesBox'
  <2>1. \A v \in Holders : pc'[v] \notin SpawnPCs  BY <1>4, <1>7 DEF SpawnPCs
  <2>2. \A v \in Holders : pc'[v] \notin {"undo", "dead"}
    BY <1>4, <1>7 DEF FilesInv, OneSpawner
  <2>3. OneBuild'  BY <1>7 DEF FilesInv, OneBuild
  <2>4. OneSpawner'  BY <1>6, <1>7, <2>1, <2>2 DEF FilesInv, OneSpawner
  <2>5. SpawnsHydrated'  BY <2>1 DEF SpawnsHydrated, SpawnHydrated, SpawnPCs, BoxedPCs
  <2>6. DrainSeesBox'  BY <1>3, <1>6 DEF DrainSeesBox, DrainPCs
  <2> QED  BY <2>3, <2>4, <2>5, <2>6
<1>8. CASE CommitBox(w)
  <2>1. /\ pc[w] = "commit" /\ pc'[w] = (IF w \in Viewers THEN "attached" ELSE "running")
        /\ mine' = (IF w \in Viewers THEN [mine EXCEPT ![w] = NoBox] ELSE mine)
    BY <1>8, <1>t DEF CommitBox, Goto
  <2>2. /\ lease'.liveness = "warm" /\ lease'.instance = mine[w] /\ lease'.epoch = lease.epoch + 1
        /\ lease'.build = lease.build
    BY <1>8, <1>t, <1>3 DEF CommitBox, CommitWarmingToWarm, LeaseRows
  <2>3. mine[w] \in live /\ saved \subseteq files[mine[w]]
    BY <1>2, <1>3, <2>1 DEF SpawnHydrated, BoxedPCs, Archived
  <2>4. RowKeepsFiles'
    BY <1>3, <1>6, <2>2, <2>3 DEF RowKeepsFiles, InTheBox, DrainPCs
  <2>5. TurnsShareBox'
    <3>1. w \in TurnHolders => mine'[w] = lease'.instance  BY <1>t, <2>1, <2>2
    <3>2. \A t \in TurnHolders : t # w => pc'[t] \notin {"attach", "running"}
      BY <1>t, <1>4, <1>5 DEF Working
    <3>3. pc'[w] # "attach"  BY <2>1
    <3> QED  BY <3>1, <3>2, <3>3 DEF TurnsShareBox, SharesBox
  <2>6. CapturesOfBox'
    <3>1. \A t \in TurnHolders : cap[t].epoch <= lease.epoch /\ cap[t].epoch \in Nat
      BY DEF LifeInv, EpochsRead, MemoryTypes, NoCap
    <3>2. \A t \in TurnHolders : cap'[t].epoch # lease'.epoch  BY <1>t, <1>6, <2>2, <3>1
    <3> QED  BY <3>2 DEF CapturesOfBox, CaptureOfBox
  <2> QED  BY <1>7, <2>1, <2>2, <2>4, <2>5, <2>6 DEF FilesInv
<1>9. CASE Rollback(w)
  <2>1. lease' = ColdWithArchive(lease)
    BY <1>9, <1>3 DEF Rollback, FailWarmingToCold, WarmingAt
  <2>2. lease'.liveness = "cold" /\ lease'.arch = lease.arch /\ lease'.build = lease.build
    BY <1>t, <2>1, ColdWithArchiveEffect
  <2>3. pc'[w] = "release"  BY <1>9, <1>t DEF Rollback, Goto
  <2>4. RowKeepsFiles'  BY <1>3, <1>6, <2>2 DEF RowKeepsFiles, Archived, DrainPCs
  <2>5. TurnsShareBox'
    <3>1. \A t \in TurnHolders : pc'[t] \notin {"attach", "running"}
      BY <1>t, <1>4, <1>5, <2>3 DEF Working
    <3> QED  BY <3>1 DEF TurnsShareBox, SharesBox
  <2>6. CapturesOfBox'  BY <2>2 DEF CapturesOfBox, CaptureOfBox
  <2> QED  BY <1>7, <2>2, <2>3, <2>4, <2>5, <2>6 DEF FilesInv
<1> QED  BY <1>8, <1>9

\* Arriving at a live row, holding it, and letting go.
LEMMA AttachFiles ==
  ASSUME Calm, LifeInv, ViewersOnlyWatch, FilesInv, NEW w \in Holders,
         \A v \in Holders : v # w => Still(v),
         \/ AcquireLive(w) \/ Release(w) \/ WaitForWarm(w) \/ ReadEnvelope(w) \/ ResumeById(w)
         \/ AttachFails(w) \/ Heartbeat(w) \/ Finish(w)
  PROVE  FilesInv'
<1>t. /\ lease \in LeaseRows /\ pc \in [Holders -> PCs] /\ mine \in [Holders -> Boxes \cup {NoBox}]
      /\ env \in [Holders -> [box : Boxes \cup {NoBox}, arch : Stored, prev : Stored]]
      /\ holders \in SUBSET Holders /\ (holders \cup {w}) \in SUBSET Holders
      /\ (holders \ {w}) \in SUBSET Holders /\ lease.liveness \in Livenesses
  BY DEF LifeInv, LTypeOK, TypeOK, MemoryTypes, LeaseRows
<1>d. /\ reaper.pc \in DrainPCs => lease.liveness = "draining"
      /\ lease.liveness = "warming" => ~ lease.expired
  BY DEF FilesInv, DrainSeesBox, OneSpawner
<1>1. UNCHANGED <<live, files, saved, cap, orphan, reaper>>
  BY DEF AcquireLive, Release, WaitForWarm, ReadEnvelope, ResumeById, AttachFails, Heartbeat, Finish,
     boxVars, lifeVars
<1>2. /\ lease'.arch = lease.arch /\ lease'.instance = lease.instance
      /\ lease'.epoch = lease.epoch /\ lease'.build = lease.build
      /\ lease.liveness \in {"cold", "warming"} => lease'.liveness = lease.liveness
      /\ lease.liveness \in {"warm", "draining"} => lease'.liveness \in {"warm", "draining"}
      /\ lease'.liveness = "warming" => ~ lease'.expired
      /\ reaper.pc \in DrainPCs => lease'.liveness = "draining"
  <2>1. CASE AcquireLive(w)
    <3>1. reaper.pc \notin DrainPCs  BY <2>1 DEF AcquireLive, Arrive, Calm, DrainPCs
    <3>2. CASE AcquireRearmed(w, BuildOf[w])
      <4> DEFINE row == [lease EXCEPT !.liveness = "warm", !.expired = FALSE]
      <4>1. /\ row \in LeaseRows /\ row.liveness = "warm" /\ row.epoch = lease.epoch
            /\ row.arch = lease.arch /\ row.instance = lease.instance /\ row.build = lease.build
        BY <1>t DEF LeaseRows, Livenesses
      <4>2. lease' = Recount(row, holders \cup {w}) /\ lease.liveness = "draining"
        BY <3>2 DEF AcquireRearmed
      <4> HIDE DEF row
      <4> QED  BY <1>t, <3>1, <4>1, <4>2, RecountExact
    <3>3. CASE AcquireAttached(w, BuildOf[w])
      <4> DEFINE row == [lease EXCEPT !.expired = FALSE]
      <4>1. /\ row \in LeaseRows /\ row.liveness = lease.liveness /\ row.epoch = lease.epoch
            /\ row.arch = lease.arch /\ row.instance = lease.instance /\ row.build = lease.build
            /\ row.expired = FALSE
        BY <1>t DEF LeaseRows
      <4>2. lease' = Recount(row, holders \cup {w})  BY <3>3 DEF AcquireAttached
      <4> HIDE DEF row
      <4> QED  BY <1>t, <3>1, <4>1, <4>2, RecountExact
    <3> QED  BY <2>1, <3>2, <3>3 DEF AcquireLive
  <2>2. CASE Release(w)
    <3>1. lease' = DrainIfIdle(lease, holders \ {w})  BY <2>2 DEF Release, ReleaseLeaseHolder
    <3> QED  BY <1>t, <1>d, <3>1, DrainIfIdleEffect
  <2>3. CASE Heartbeat(w)
    BY <1>t, <1>d, <2>3 DEF Heartbeat, HeartbeatLeaseHolder, LeaseRows
  <2>4. CASE \/ WaitForWarm(w) \/ ReadEnvelope(w) \/ ResumeById(w) \/ AttachFails(w) \/ Finish(w)
    <3>1. lease' = lease
      BY <2>4 DEF WaitForWarm, ReadEnvelope, ResumeById, AttachFails, Finish, leaseVars
    <3> QED  BY <1>d, <3>1
  <2> QED  BY <2>1, <2>2, <2>3, <2>4
<1>3. Still(w) \/ Beside(w)
  <2>1. CASE AcquireLive(w)
    <3>1. pc[w] = "idle" /\ pc'[w] \in {"attached", "waitwarm", "resume"}
      BY <1>t, <2>1 DEF AcquireLive, Arrive, AttachedPc, Goto
    <3> QED  BY <3>1 DEF Beside, SpawnPCs
  <2>2. CASE Release(w) \/ WaitForWarm(w) \/ AttachFails(w) \/ Finish(w)
    <3>1. /\ pc[w] \in {"release", "waitwarm", "attach", "running", "attached"}
          /\ pc'[w] \in {"idle", "resume", "release"}
      BY <1>t, <2>2 DEF Release, WaitForWarm, AttachFails, Finish, Goto
    <3> QED  BY <3>1 DEF Beside, SpawnPCs
  <2>3. CASE ReadEnvelope(w)
    <3>1. pc[w] = "resume" /\ pc'[w] = "attach" /\ env'[w].box = lease.instance
      BY <1>t, <2>3 DEF ReadEnvelope, Goto, Envelope
    <3> QED  BY <3>1 DEF Beside, SpawnPCs
  <2>4. CASE ResumeById(w)
    <3>1. pc[w] = "attach" /\ pc'[w] = "running" /\ mine'[w] = env[w].box
      BY <1>t, <2>4 DEF ResumeById, Goto
    <3>2. w \in TurnHolders  BY <3>1 DEF ViewersOnlyWatch, Viewers, Working, Holders, Calm
    <3>3. env[w].box = lease.instance  BY <3>1, <3>2 DEF FilesInv, TurnsShareBox, SharesBox
    <3> QED  BY <3>1, <3>3 DEF Beside, SpawnPCs
  <2>5. CASE Heartbeat(w)  BY <2>5 DEF Heartbeat, Still, lifeVars
  <2> QED  BY <2>1, <2>2, <2>3, <2>4, <2>5
<1>4. \A v \in Holders : Still(v) \/ Beside(v)  BY <1>3
<1> QED  BY <1>t, <1>1, <1>2, <1>4, BesideStep

\* A write lands in the box the row names.
LEMMA WriteFiles ==
  ASSUME Calm, LifeInv, ViewersOnlyWatch, FilesInv, NEW w \in Holders, WriteFile(w) PROVE FilesInv'
<1>t. files \in [Boxes -> SUBSET (1 .. now)] /\ live \subseteq Boxes /\ mine \in [Holders -> Boxes \cup {NoBox}]
  BY DEF LifeInv, LTypeOK
<1>1. /\ pc[w] = "running" /\ mine[w] \in live /\ lease' = lease
      /\ files' = [files EXCEPT ![mine[w]] = @ \cup {now + 1}]
      /\ UNCHANGED <<pc, at, env, mine, cap, live, saved, reaper, orphan>>
  BY DEF WriteFile, procVars, leaseVars
<1>2. w \in TurnHolders  BY <1>1 DEF ViewersOnlyWatch, Viewers, Working, Holders, Calm
<1>3. lease.liveness = "warm" /\ reaper.pc \notin DrainPCs
  BY <1>1, <1>2, WarmBoxRuns DEF LifeInv, TurnPinsLease
<1>4. \A b \in Boxes : files[b] \subseteq files'[b]  BY <1>t, <1>1
<1>5. \A v \in Holders : pc[v] \notin SpawnPCs
  BY <1>3 DEF FilesInv, OneSpawner, SpawnerKnowsRow
<1>6. OneBuild' /\ OneSpawner' /\ TurnsShareBox'
  BY <1>1 DEF FilesInv, OneBuild, OneSpawner, SpawnerKnowsRow, TurnsShareBox, SharesBox
<1>7. SpawnsHydrated'
  BY <1>1, <1>5 DEF SpawnsHydrated, SpawnHydrated, SpawnPCs, BoxedPCs
<1>8. lease.instance \in Boxes  BY <1>3 DEF LifeInv, LeaseInv, BoxNaming
<1>9. RowKeepsFiles'
  BY <1>1, <1>3, <1>4, <1>8 DEF FilesInv, RowKeepsFiles, InTheBox, Archived, DrainPCs
<1>10. DrainSeesBox'  BY <1>1, <1>3 DEF DrainSeesBox, DrainPCs
<1>11. CapturesOfBox'
  BY <1>1, <1>4, <1>8 DEF FilesInv, CapturesOfBox, CaptureOfBox
<1> QED  BY <1>6, <1>7, <1>9, <1>10, <1>11 DEF FilesInv

\* Captures start in the box the row names, and one that lands is of that box.
LEMMA CaptureFiles ==
  ASSUME Calm, LifeInv, FilesInv, NEW t \in TurnHolders, StartCapture(t) \/ EndCapture(t) PROVE FilesInv'
<1>t. /\ cap \in [TurnHolders -> {NoCap} \cup [arch : Archives, epoch : Nat]] /\ lease \in LeaseRows
  BY DEF LifeInv, LTypeOK, TypeOK, MemoryTypes
<1>1. UNCHANGED <<pc, at, env, mine, live, files, reaper, orphan>>
  BY DEF StartCapture, EndCapture, procVars, boxVars
<1>2. /\ lease'.liveness = lease.liveness /\ lease'.epoch = lease.epoch /\ lease'.build = lease.build
      /\ lease'.instance = lease.instance /\ lease'.expired = lease.expired
      /\ lease'.arch # lease.arch => lease.liveness = "warm"
  BY <1>t DEF StartCapture, EndCapture, PersistWarmSnapshot, LeaseRows, leaseVars
<1>3. lease.liveness = "warm" =>
        reaper.pc \notin DrainPCs /\ InTheBox /\ \A v \in Holders : pc[v] \notin SpawnPCs
  BY WarmBoxRuns DEF FilesInv, OneSpawner, SpawnerKnowsRow
<1>4. OneBuild' /\ DrainSeesBox' /\ TurnsShareBox' /\ SpawnsHydrated'
  BY <1>1, <1>2 DEF FilesInv, OneBuild, DrainSeesBox, TurnsShareBox, SharesBox, SpawnsHydrated, SpawnHydrated
<1>5. OneSpawner'
  <2>1. \A v \in Holders : pc'[v] \in SpawnPCs => SpawnerKnowsRow(v)'
    BY <1>1, <1>2, <1>3 DEF FilesInv, OneSpawner, SpawnerKnowsRow
  <2> QED  BY <1>1, <1>2, <2>1 DEF FilesInv, OneSpawner
<1>6. CASE StartCapture(t)
  <2>1. /\ pc[t] = "running" /\ lease.epoch = at[t] /\ lease' = lease /\ saved' = saved
        /\ cap' = [cap EXCEPT ![t] = [arch |-> [at |-> now, has |-> files[mine[t]]], epoch |-> at[t]]]
    BY <1>6 DEF StartCapture, leaseVars
  <2>2. mine[t] = lease.instance  BY <2>1 DEF FilesInv, TurnsShareBox, SharesBox
  <2>3. cap'[t].arch.has = files[lease.instance]  BY <1>t, <2>1, <2>2
  <2>4. \A u \in TurnHolders : u # t => cap'[u] = cap[u]  BY <1>t, <2>1
  <2>5. CapturesOfBox'
    BY <1>1, <2>1, <2>3, <2>4 DEF FilesInv, CapturesOfBox, CaptureOfBox
  <2>6. RowKeepsFiles'
    BY <1>1, <2>1 DEF FilesInv, RowKeepsFiles, Archived, InTheBox
  <2> QED  BY <1>4, <1>5, <2>5, <2>6 DEF FilesInv
<1>7. CASE EndCapture(t)
  <2>1. \A u \in TurnHolders : cap'[u] \in {cap[u], NoCap}  BY <1>7, <1>t DEF EndCapture
  <2>2. CapturesOfBox'
    BY <1>1, <1>2, <2>1 DEF FilesInv, CapturesOfBox, CaptureOfBox
  <2>3. RowKeepsFiles'
    <3>1. CASE UNCHANGED <<leaseVars, saved>>
      BY <1>1, <3>1 DEF FilesInv, RowKeepsFiles, Archived, InTheBox, leaseVars
    <3>2. CASE PersistWarmSnapshot(cap[t].epoch, cap[t].arch) /\ saved' = saved \cup cap[t].arch.has
      <4>1. lease.liveness = "warm" /\ cap[t].epoch = lease.epoch /\ cap[t] # NoCap
        BY <1>7, <3>2 DEF PersistWarmSnapshot, EndCapture
      <4>2. cap[t].arch.has \subseteq files[lease.instance]
        BY <1>3, <4>1 DEF FilesInv, CapturesOfBox, CaptureOfBox, DrainPCs
      <4> QED  BY <1>1, <1>2, <1>3, <3>2, <4>1, <4>2 DEF RowKeepsFiles, InTheBox, DrainPCs
    <3> QED  BY <1>7, <3>1, <3>2 DEF EndCapture
  <2> QED  BY <1>4, <1>5, <2>2, <2>3 DEF FilesInv
<1> QED  BY <1>6, <1>7

-----------------------------------------------------------------------------
(* The reaper *)

\* The sweep and the over-limit drain start drains; a drain that finds the row
\* re-armed gives up.
LEMMA SweepFiles ==
  ASSUME Calm, LifeInv, FilesInv,
         \/ \E stale \in SUBSET holders : Sweep(stale)
         \/ OverLimit
         \/ CheckDrain /\ ~ DrainedAt(reaper.epoch)
         \/ LeaseExpires
         \/ UNCHANGED vars
  PROVE  FilesInv'
<1>t. lease \in LeaseRows /\ holders \in SUBSET Holders /\ lease.liveness \in Livenesses
  BY DEF LifeInv, LTypeOK, TypeOK, LeaseRows
<1>n. NoDrain.pc = "idle" /\ [NoDrain EXCEPT !.pc = "check", !.epoch = lease'.epoch].pc = "check"
  BY DEF NoDrain
<1>d. /\ reaper.pc \in DrainPCs => lease.liveness = "draining"
      /\ lease.liveness = "warming" => ~ lease.expired
  BY DEF FilesInv, DrainSeesBox, OneSpawner
<1>1. UNCHANGED <<pc, at, env, mine, live, files, saved, cap, orphan>>
  BY DEF Sweep, OverLimit, CheckDrain, LeaseExpires, procVars, boxVars, lifeVars, vars
<1>2. \A v \in Holders : Still(v)  BY <1>1 DEF Still
<1>3. CASE \E stale \in SUBSET holders : Sweep(stale)
  <2> PICK stale \in SUBSET holders : Sweep(stale)  BY <1>3
  <2> DEFINE d == DrainIfIdle(lease, holders \ stale)
  <2>1. (holders \ stale) \in SUBSET Holders /\ lease' = ResetWarming(d)
    BY <1>t DEF Sweep, ReapStaleLeaseHolders
  <2>2. /\ d \in LeaseRows /\ d.arch = lease.arch /\ d.instance = lease.instance
        /\ d.epoch = lease.epoch /\ d.build = lease.build
        /\ d.liveness = (IF lease.liveness = "warm" /\ holders \ stale = {} THEN "draining" ELSE lease.liveness)
        /\ lease.liveness # "warm" => d.expired = lease.expired
    BY <1>t, <2>1, DrainIfIdleEffect
  <2> HIDE DEF d
  <2>3. ~ (d.liveness = "warming" /\ d.expired)  BY <1>d, <2>2
  <2>4. lease' = d  BY <2>1, <2>2, <2>3, ResetWarmingEffect
  <2>5. reaper.pc = "idle" /\ reaper'.pc \in {"idle", "check"}  BY <1>n DEF Sweep
  <2> QED  BY <1>t, <1>1, <1>2, <2>2, <2>3, <2>4, <2>5, BesideStep DEF DrainPCs
<1>4. CASE OverLimit
  <2>1. reaper.pc = "idle" /\ reaper' = reaper  BY <1>4 DEF OverLimit, lifeVars
  <2>2. /\ lease.liveness = "warm" /\ lease'.liveness = "draining" /\ lease'.arch = lease.arch
        /\ lease'.instance = lease.instance /\ lease'.epoch = lease.epoch /\ lease'.build = lease.build
    BY <1>t, <1>4 DEF OverLimit, ForceDrainViewerOnly, LeaseRows
  <2> QED  BY <1>t, <1>1, <1>2, <2>1, <2>2, BesideStep
<1>5. CASE CheckDrain /\ ~ DrainedAt(reaper.epoch)
  <2>1. reaper.pc = "check" /\ reaper' = NoDrain /\ lease' = lease  BY <1>5 DEF CheckDrain, leaseVars
  <2> QED  BY <1>t, <1>n, <1>d, <1>1, <1>2, <2>1, BesideStep DEF DrainPCs
<1>6. CASE LeaseExpires
  <2>1. reaper' = reaper  BY <1>6 DEF LeaseExpires, lifeVars
  <2>2. lease.liveness # "warming"
    <3> SUFFICES ASSUME lease.liveness = "warming" PROVE FALSE  OBVIOUS
    <3>1. \E v \in Holders : Spawning(v)  BY DEF FilesInv, OneSpawner, Spawning, SpawnPCs
    <3> QED  BY <1>6, <3>1 DEF LeaseExpires, Calm
  <2>3. /\ lease'.liveness = lease.liveness /\ lease'.arch = lease.arch
        /\ lease'.instance = lease.instance /\ lease'.epoch = lease.epoch /\ lease'.build = lease.build
    BY <1>t, <1>6 DEF LeaseExpires, Expire, LeaseRows
  <2> QED  BY <1>t, <1>d, <1>1, <1>2, <2>1, <2>2, <2>3, BesideStep
<1>7. CASE UNCHANGED vars
  <2>1. lease' = lease /\ reaper' = reaper  BY <1>7 DEF vars, lifeVars
  <2> QED  BY <1>t, <1>d, <1>1, <1>2, <2>1, BesideStep
<1> QED  BY <1>3, <1>4, <1>5, <1>6, <1>7

\* A draining row has no holder row, and a drain past its check is of its epoch.
DrainingIsEmpty ==
  lease.liveness = "draining" => holders = {} /\ lease.turns = 0 /\ lease.viewers = 0

DrainIsCurrent == reaper.pc \in DrainPCs => reaper.epoch = lease.epoch

\* So the gates of persistDrainSnapshot and confirmDrainCold let it through.
LEMMA DrainGate ==
  ASSUME FilesInv, DrainingIsEmpty, DrainIsCurrent, reaper.pc \in DrainPCs
  PROVE  DrainedAt(reaper.epoch)
BY DEF FilesInv, DrainSeesBox, DrainingIsEmpty, DrainIsCurrent, DrainedAt, Refcount

\* The row starts draining when its last holder row goes; only the death of a
\* warming row drains one with holders left.
LEMMA DrainsAreEmpty ==
  ASSUME LeaseInv, DrainingIsEmpty, lease.liveness = "warming" => ~ lease.expired, [Next]_leaseVars
  PROVE  DrainingIsEmpty'
<1> SUFFICES ASSUME lease'.liveness = "draining"
             PROVE  holders' = {} /\ lease'.turns = 0 /\ lease'.viewers = 0
  BY DEF DrainingIsEmpty
<1>t. lease \in LeaseRows /\ holders \in SUBSET Holders  BY DEF LeaseInv, TypeOK
<1>c. Cardinality(TurnRows({})) = 0 /\ Cardinality(ViewerRows({})) = 0
  BY FS_EmptySet DEF TurnRows, ViewerRows
<1>1. ASSUME NEW hs \in SUBSET holders, holders' = hs,
             lease' = DrainIfIdle(lease, hs) \/ lease' = ResetWarming(DrainIfIdle(lease, hs))
      PROVE  holders' = {} /\ lease'.turns = 0 /\ lease'.viewers = 0
  <2> DEFINE d == DrainIfIdle(lease, hs)
  <2>1. hs \in SUBSET Holders  BY <1>t
  <2>2. /\ d \in LeaseRows /\ d.turns = Cardinality(TurnRows(hs)) /\ d.viewers = Cardinality(ViewerRows(hs))
        /\ lease.liveness # "warm" => d.expired = lease.expired
        /\ d.liveness = IF lease.liveness = "warm" /\ hs = {} THEN "draining" ELSE lease.liveness
    BY <1>t, <2>1, DrainIfIdleEffect
  <2>3. lease' = d \/ lease' = ResetWarming(d)  BY <1>1
  <2> HIDE DEF d
  <2>4. ~ (d.liveness = "warming" /\ d.expired)  BY <2>2
  <2>5. lease' = d  BY <2>2, <2>3, <2>4, ResetWarmingEffect
  <2>6. hs = {}  BY <1>1, <2>2, <2>5 DEF DrainingIsEmpty
  <2> QED  BY <1>1, <1>c, <2>2, <2>5, <2>6
<1>2. ASSUME NEW h \in Holders, NEW build \in Builds \cup {NoBuild}, AcquireLease(h, build)
      PROVE  holders' = {} /\ lease'.turns = 0 /\ lease'.viewers = 0
  <2>1. CASE UNCHANGED leaseVars  BY <2>1 DEF leaseVars, DrainingIsEmpty
  <2>2. ASSUME NEW row \in LeaseRows, row.liveness \in {"warming", "warm"},
               lease' = Recount(row, holders \cup {h})
        PROVE  FALSE
    <3>1. (holders \cup {h}) \in SUBSET Holders  BY <1>t, <1>2
    <3> QED  BY <2>2, <3>1, RecountExact
  <2>3. CASE AcquireSpawner(h, build)
    <3> DEFINE c == AfterConflict(h, build)
               row == [c EXCEPT !.liveness = "warming",
                                !.build = IF build = NoBuild THEN @ ELSE build, !.expired = FALSE]
    <3>1. c \in LeaseRows  BY <1>t, AfterConflictEffect
    <3>2. lease' = Recount(row, holders \cup {h})  BY <2>3 DEF AcquireSpawner
    <3> HIDE DEF c
    <3>3. row \in LeaseRows /\ row.liveness = "warming"  BY <1>2, <3>1 DEF LeaseRows, Livenesses
    <3> HIDE DEF row
    <3> QED  BY <2>2, <3>2, <3>3
  <2>4. CASE AcquireRearmed(h, build)
    <3> DEFINE row == [lease EXCEPT !.liveness = "warm", !.expired = FALSE]
    <3>1. lease' = Recount(row, holders \cup {h})  BY <2>4 DEF AcquireRearmed
    <3>2. row \in LeaseRows /\ row.liveness = "warm"  BY <1>t DEF LeaseRows, Livenesses
    <3> HIDE DEF row
    <3> QED  BY <2>2, <3>1, <3>2
  <2>5. CASE AcquireAttached(h, build)
    <3> DEFINE row == [lease EXCEPT !.expired = FALSE]
    <3>1. lease' = Recount(row, holders \cup {h}) /\ lease.liveness \in {"warming", "warm"}
      BY <2>5 DEF AcquireAttached
    <3>2. row \in LeaseRows /\ row.liveness = lease.liveness  BY <1>t DEF LeaseRows
    <3> HIDE DEF row
    <3> QED  BY <2>2, <3>1, <3>2
  <2> QED  BY <1>2, <2>1, <2>3, <2>4, <2>5 DEF AcquireLease, AcquireRefused, AcquireFenced
<1>3. ASSUME NEW h \in Holders, ReleaseLeaseHolder(h)
      PROVE  holders' = {} /\ lease'.turns = 0 /\ lease'.viewers = 0
  BY <1>1, <1>3 DEF ReleaseLeaseHolder
<1>4. ASSUME NEW stale \in SUBSET holders, ReapStaleLeaseHolders(stale)
      PROVE  holders' = {} /\ lease'.turns = 0 /\ lease'.viewers = 0
  BY <1>1, <1>4 DEF ReapStaleLeaseHolders
<1>5. CASE ForceDrainViewerOnly
  <2>1. Cardinality(TurnRows(holders)) = 0
    BY <1>5 DEF ForceDrainViewerOnly, LeaseInv, CountsExact
  <2>2. holders \cap TurnHolders = {}  BY <1>t, <2>1, NoTurnsCounted
  <2>3. holders' = {}  BY <1>t, <1>5, <2>2 DEF ForceDrainViewerOnly, Holders
  <2> QED  BY <1>t, <1>5, <2>3 DEF ForceDrainViewerOnly, LeaseRows
<1>6. ASSUME NEW e, NEW b, NEW a,
             \/ RecordWarmingSandboxCreated(e, b, a) \/ CommitWarmingToWarm(e, b)
             \/ FailWarmingToCold(e) \/ ConfirmDrainCold(e)
      PROVE  FALSE
  BY <1>t, <1>6, ColdWithArchiveEffect DEF RecordWarmingSandboxCreated, CommitWarmingToWarm, WarmingAt,
     FailWarmingToCold, ConfirmDrainCold, LeaseRows
<1>7. ASSUME NEW h, NEW e, NEW a,
             \/ HeartbeatLeaseHolder(h, e) \/ Expire \/ PersistDrainSnapshot(e, a)
             \/ PersistWarmSnapshot(e, a) \/ UNCHANGED leaseVars
      PROVE  holders' = {} /\ lease'.turns = 0 /\ lease'.viewers = 0
  BY <1>t, <1>7 DEF HeartbeatLeaseHolder, Expire, PersistDrainSnapshot, PersistWarmSnapshot, leaseVars,
     LeaseRows, DrainingIsEmpty
<1> QED  BY <1>2, <1>3, <1>4, <1>5, <1>6, <1>7 DEF Next

\* Nobody acquires while a drain is past its check, so it stays current.
LEMMA DrainsStayCurrent ==
  ASSUME Calm, LifeInv, FilesInv, DrainIsCurrent, [LNext]_vars PROVE DrainIsCurrent'
<1> SUFFICES ASSUME reaper'.pc \in DrainPCs PROVE reaper'.epoch = lease'.epoch  BY DEF DrainIsCurrent
<1>t. /\ reaper \in [pc : {"idle", "check", "capture", "persist", "delete", "confirm"},
                     epoch : Nat, box : Boxes \cup {NoBox}, arch : Stored]
      /\ NoDrain.pc \notin DrainPCs
      /\ [NoDrain EXCEPT !.pc = "check", !.epoch = lease'.epoch].pc \notin DrainPCs
  BY DEF LifeInv, MemoryTypes, NoDrain, DrainPCs
<1>1. CASE CheckDrain
  <2>1. DrainedAt(reaper.epoch) /\ lease' = lease  BY <1>t, <1>1 DEF CheckDrain, leaseVars
  <2>2. reaper'.epoch = reaper.epoch  BY <1>t, <1>1, <2>1 DEF CheckDrain
  <2> QED  BY <2>1, <2>2 DEF DrainedAt
<1>2. CASE ~ CheckDrain
  <2>1. reaper.pc \in DrainPCs /\ reaper'.epoch = reaper.epoch
    <3>1. CASE CaptureDrain
      <4> DEFINE a == [at |-> now, has |-> files[reaper.box]]
      <4>1. reaper' \in {[reaper EXCEPT !.pc = "persist", !.arch = a], [reaper EXCEPT !.pc = "confirm"]}
        BY <1>t, <3>1 DEF CaptureDrain
      <4> HIDE DEF a
      <4> QED  BY <1>t, <3>1, <4>1 DEF CaptureDrain, DrainPCs
    <3>2. CASE PersistDrain \/ DeleteDrained
      BY <1>t, <3>2 DEF PersistDrain, DeleteDrained, DrainPCs
    <3>3. ~ (ConfirmDrain \/ ReaperCrash)  BY <1>t DEF ConfirmDrain, ReaperCrash
    <3>4. ASSUME NEW stale, Sweep(stale) PROVE reaper' = reaper  BY <1>t, <3>4 DEF Sweep
    <3>5. ASSUME OverLimit \/ ReadLiveLeases \/ (\E b \in Boxes : KillOrphan(b)) \/ EndOrphanSweep
                 \/ LeaseExpires \/ (\E b \in Boxes : BoxDies(b)) \/ UNCHANGED vars
          PROVE  reaper' = reaper
      BY <3>5 DEF OverLimit, ReadLiveLeases, KillOrphan, EndOrphanSweep, LeaseExpires, BoxDies, lifeVars, vars
    <3>6. ASSUME NEW w \in Holders, Process(w) PROVE reaper' = reaper  BY <3>6, ProcessLeavesReaper
    <3>7. ASSUME NEW u \in TurnHolders, StartCapture(u) \/ EndCapture(u) PROVE reaper' = reaper
      BY <3>7 DEF StartCapture, EndCapture
    <3> QED  BY <1>2, <3>1, <3>2, <3>3, <3>4, <3>5, <3>6, <3>7 DEF LNext, Reaper
  <2>2. lease.liveness = "draining" /\ reaper.epoch = lease.epoch /\ reaper.pc # "idle"
    BY <2>1 DEF FilesInv, DrainSeesBox, DrainIsCurrent, DrainPCs
  <2>3. \A w \in Holders : ~ Arrive(w)  BY <2>1 DEF Arrive, Calm, DrainPCs
  <2>4. ~ ConfirmDrain  BY <1>t DEF ConfirmDrain
  <2>5. lease'.epoch = lease.epoch  BY <2>2, <2>3, <2>4, DrainingRowStays
  <2> QED  BY <2>1, <2>2, <2>5
<1> QED  BY <1>1, <1>2

\* The drain from its check to the cold commit: nobody spawns and nobody works.
LEMMA DrainFiles ==
  ASSUME Calm, LifeInv, FilesInv, DrainingIsEmpty, DrainIsCurrent,
         \/ CheckDrain /\ DrainedAt(reaper.epoch)
         \/ CaptureDrain \/ PersistDrain \/ DeleteDrained \/ ConfirmDrain
  PROVE  FilesInv'
<1>t. /\ lease \in LeaseRows
      /\ reaper \in [pc : {"idle", "check", "capture", "persist", "delete", "confirm"},
                     epoch : Nat, box : Boxes \cup {NoBox}, arch : Stored]
      /\ files \in [Boxes -> SUBSET (1 .. now)] /\ live \subseteq Boxes /\ NoDrain.pc = "idle"
  BY DEF LifeInv, LTypeOK, TypeOK, MemoryTypes, NoDrain
<1>1. lease.liveness = "draining" /\ lease.instance \in Boxes
  BY DEF CheckDrain, CaptureDrain, PersistDrain, DeleteDrained, ConfirmDrain, DrainedAt, FilesInv,
     DrainSeesBox, DrainPCs, LifeInv, LeaseInv, BoxNaming
<1>2. /\ \A v \in Holders : pc[v] \notin SpawnPCs
      /\ \A t \in TurnHolders : pc[t] \notin Working
  BY <1>1 DEF FilesInv, OneSpawner, SpawnerKnowsRow, LifeInv, TurnPinsLease, Working
<1>3. UNCHANGED <<pc, at, env, mine, cap, orphan>>
  BY DEF CheckDrain, CaptureDrain, PersistDrain, DeleteDrained, ConfirmDrain, procVars
<1>4. ASSUME lease'.build = lease.build, lease'.liveness # "warming"
      PROVE  OneBuild' /\ OneSpawner' /\ SpawnsHydrated' /\ TurnsShareBox'
  <2>1. OneBuild'  BY <1>4 DEF FilesInv, OneBuild
  <2>2. OneSpawner'  BY <1>2, <1>3, <1>4 DEF FilesInv, OneSpawner
  <2>3. SpawnsHydrated'  BY <1>2, <1>3 DEF SpawnsHydrated, SpawnHydrated, SpawnPCs, BoxedPCs
  <2>4. TurnsShareBox'  BY <1>2, <1>3 DEF TurnsShareBox, SharesBox, Working
  <2> QED  BY <2>1, <2>2, <2>3, <2>4
<1>b. reaper.pc # "confirm" => InTheBox  BY <1>1 DEF FilesInv, RowKeepsFiles
<1>5. CASE CheckDrain /\ DrainedAt(reaper.epoch)
  <2>1. UNCHANGED <<lease, live, files, saved>> /\ reaper.pc = "check"
    BY <1>5 DEF CheckDrain, leaseVars, boxVars
  <2>2. reaper'.pc = "capture" /\ reaper'.box = lease.instance
    BY <1>t, <1>1, <1>5, NullAssumption DEF CheckDrain
  <2>3. RowKeepsFiles' /\ DrainSeesBox' /\ CapturesOfBox'
    BY <1>1, <1>3, <2>1, <2>2 DEF FilesInv, RowKeepsFiles, InTheBox, DrainSeesBox, CapturesOfBox, CaptureOfBox
  <2> QED  BY <1>1, <1>4, <2>1, <2>3 DEF FilesInv
<1>6. CASE CaptureDrain
  <2>1. UNCHANGED <<lease, live, files, saved>> /\ reaper.pc = "capture"
    BY <1>6 DEF CaptureDrain, leaseVars, boxVars
  <2>2. reaper.box = lease.instance /\ reaper.box \in live
    BY <1>b, <2>1 DEF FilesInv, DrainSeesBox, DrainPCs, InTheBox
  <2> DEFINE a == [at |-> now, has |-> files[reaper.box]]
             caught == [reaper EXCEPT !.pc = "persist", !.arch = a]
  <2>c. caught.pc = "persist" /\ caught.box = reaper.box /\ caught.arch = a  BY <1>t
  <2>d. reaper' \in {caught, NoDrain}  BY <1>6, <2>2 DEF CaptureDrain
  <2>h. a.has = files[reaper.box]  OBVIOUS
  <2> HIDE DEF a, caught
  <2>3. \/ reaper'.pc = "idle"
        \/ reaper'.pc = "persist" /\ reaper'.box = reaper.box /\ reaper'.arch.has = files[reaper.box]
    BY <1>t, <2>c, <2>d, <2>h
  <2>4. RowKeepsFiles' /\ DrainSeesBox' /\ CapturesOfBox'
    BY <1>1, <1>3, <1>b, <2>1, <2>2, <2>3
       DEF FilesInv, RowKeepsFiles, InTheBox, DrainSeesBox, DrainPCs, CapturesOfBox, CaptureOfBox
  <2> QED  BY <1>1, <1>4, <2>1, <2>4 DEF FilesInv
<1>7. CASE PersistDrain
  <2>1. reaper.pc = "persist" /\ UNCHANGED <<live, files>>
    BY <1>7 DEF PersistDrain, boxVars
  <2>2. /\ reaper.box = lease.instance /\ reaper.arch.has = files[lease.instance]
        /\ reaper.arch \in Archives /\ saved \subseteq files[lease.instance] /\ lease.instance \in live
    BY <1>b, <2>1 DEF FilesInv, DrainSeesBox, DrainPCs, InTheBox, LifeInv, MemoryTypes
  <2>3. CASE PersistDrainSnapshot(reaper.epoch, [reaper.arch EXCEPT !.at = now])
             /\ reaper' = [reaper EXCEPT !.pc = "delete"] /\ saved' = saved \cup reaper.arch.has
    <3> DEFINE a == [reaper.arch EXCEPT !.at = now]
    <3>1. a.has = reaper.arch.has /\ a \in Archives
      <4>1. now \in 0 .. MaxWrites  BY DEF LifeInv, LTypeOK
      <4> QED  BY <2>2, <4>1, CaptureAssumption
    <3>2. a # NoArchive  BY <3>1, NullAssumption
    <3>3. lease' = [lease EXCEPT !.arch = a, !.prev = NoArchive]
      BY <2>3, <3>2 DEF PersistDrainSnapshot
    <3> HIDE DEF a
    <3>4. /\ lease'.arch = a /\ lease'.liveness = "draining" /\ lease'.instance = lease.instance
          /\ lease'.epoch = lease.epoch /\ lease'.build = lease.build
      BY <1>t, <1>1, <3>3 DEF LeaseRows
    <3>5. reaper'.pc = "delete" /\ reaper'.box = reaper.box  BY <1>t, <2>3
    <3>6. saved' = files[lease.instance]  BY <2>2, <2>3
    <3>7. RowKeepsFiles'
      BY <2>1, <2>2, <3>1, <3>2, <3>4, <3>5, <3>6 DEF RowKeepsFiles, Archived, InTheBox
    <3>8. DrainSeesBox' /\ CapturesOfBox'
      BY <1>1, <1>3, <2>1, <2>2, <3>4, <3>5 DEF FilesInv, DrainSeesBox, CapturesOfBox, CaptureOfBox
    <3> QED  BY <1>4, <3>4, <3>7, <3>8 DEF FilesInv
  <2>4. CASE reaper' = NoDrain /\ UNCHANGED <<leaseVars, saved>>
    <3>1. lease' = lease /\ saved' = saved /\ reaper'.pc = "idle"  BY <1>t, <2>4 DEF leaseVars
    <3>2. RowKeepsFiles' /\ DrainSeesBox' /\ CapturesOfBox'
      BY <1>1, <1>3, <2>1, <2>2, <3>1
         DEF FilesInv, RowKeepsFiles, InTheBox, DrainSeesBox, DrainPCs, CapturesOfBox, CaptureOfBox
    <3> QED  BY <1>1, <1>4, <3>1, <3>2 DEF FilesInv
  <2> QED  BY <1>7, <2>3, <2>4 DEF PersistDrain
<1>8. CASE DeleteDrained
  <2>1. reaper.pc = "delete" /\ UNCHANGED <<lease, saved>>  BY <1>8 DEF DeleteDrained, leaseVars
  <2>2. reaper'.pc = "confirm" /\ reaper'.box = reaper.box  BY <1>t, <1>8 DEF DeleteDrained
  <2>3. Archived /\ reaper.box = lease.instance
    BY <2>1 DEF FilesInv, RowKeepsFiles, DrainSeesBox, DrainPCs
  <2>4. RowKeepsFiles' /\ DrainSeesBox' /\ CapturesOfBox'
    BY <1>1, <2>1, <2>2, <2>3 DEF RowKeepsFiles, Archived, DrainSeesBox, CapturesOfBox, CaptureOfBox
  <2> QED  BY <1>1, <1>4, <2>1, <2>4 DEF FilesInv
<1>9. CASE ConfirmDrain
  <2>1. reaper.pc = "confirm" /\ reaper'.pc = "idle" /\ UNCHANGED <<live, files, saved>>
    BY <1>t, <1>9 DEF ConfirmDrain, boxVars
  <2>2. Archived  BY <2>1 DEF FilesInv, RowKeepsFiles
  <2>3. ConfirmDrainCold(reaper.epoch)
    <3>1. DrainedAt(reaper.epoch)  BY <2>1, DrainGate DEF DrainPCs
    <3> QED  BY <1>9, <3>1 DEF ConfirmDrain
  <2>4. lease'.liveness = "cold" /\ lease'.arch = lease.arch /\ lease'.build = lease.build
    BY <1>t, <2>3, ColdWithArchiveEffect DEF ConfirmDrainCold
  <2>5. RowKeepsFiles' /\ DrainSeesBox' /\ CapturesOfBox'
    BY <2>1, <2>2, <2>4 DEF RowKeepsFiles, Archived, DrainSeesBox, DrainPCs, CapturesOfBox, CaptureOfBox
  <2> QED  BY <1>4, <2>4, <2>5 DEF FilesInv
<1> QED  BY <1>5, <1>6, <1>7, <1>8, <1>9

-----------------------------------------------------------------------------
(* The theorems *)

\* The inductive invariant of a calm group.
CalmInv == LifeInv /\ ViewersOnlyWatch /\ FilesInv /\ DrainingIsEmpty /\ DrainIsCurrent

\* Nothing has happened yet.
LEMMA InitCalmInv == LInit => CalmInv
<1> SUFFICES ASSUME LInit PROVE CalmInv  OBVIOUS
<1>1. LifeInv  BY InitLifeInv
<1>2. \A w \in Holders : pc[w] = "idle"  BY DEF LInit
<1>3. lease.liveness = "cold" /\ lease.build = NoBuild /\ saved = {}  BY DEF LInit, Init
<1>4. reaper.pc = "idle" /\ orphan.pc = "idle"  BY DEF LInit, NoDrain, NoOrphan
<1>5. \A t \in TurnHolders : cap[t] = NoCap  BY DEF LInit
<1>6. ViewersOnlyWatch  BY <1>2 DEF ViewersOnlyWatch, Working, Viewers, Holders
<1>7. OneBuild /\ OneSpawner  BY <1>2, <1>3, <1>4 DEF OneBuild, OneSpawner, SpawnPCs
<1>8. SpawnsHydrated  BY <1>2 DEF SpawnsHydrated, SpawnHydrated, BoxedPCs
<1>9. RowKeepsFiles /\ DrainSeesBox  BY <1>3, <1>4 DEF RowKeepsFiles, Archived, DrainSeesBox, DrainPCs
<1>10. TurnsShareBox  BY <1>2 DEF TurnsShareBox, SharesBox, Holders
<1>11. CapturesOfBox  BY <1>5 DEF CapturesOfBox, CaptureOfBox
<1>12. DrainingIsEmpty /\ DrainIsCurrent  BY <1>3, <1>4 DEF DrainingIsEmpty, DrainIsCurrent, DrainPCs
<1> QED  BY <1>1, <1>6, <1>7, <1>8, <1>9, <1>10, <1>11, <1>12 DEF CalmInv, FilesInv

\* Every step of a calm group keeps it.
LEMMA StepKeepsCalmInv ==
  ASSUME Calm, CalmInv, [LNext]_vars PROVE CalmInv'
<1>1. LifeInv /\ ViewersOnlyWatch /\ FilesInv /\ DrainingIsEmpty /\ DrainIsCurrent  BY DEF CalmInv
<1>2. LifeInv' /\ ViewersOnlyWatch' /\ DrainIsCurrent'
  BY <1>1, StepKeepsLifeInv, ViewersKeepWatching, DrainsStayCurrent
<1>3. DrainingIsEmpty'
  <2>1. LeaseInv  BY <1>1 DEF LifeInv
  <2>2. lease.liveness = "warming" => ~ lease.expired  BY <1>1 DEF FilesInv, OneSpawner
  <2>3. [Next]_leaseVars  BY <1>1, StepIsLeaseStep
  <2> QED  BY <1>1, <2>1, <2>2, <2>3, DrainsAreEmpty
<1>4. ASSUME NEW w \in Holders, Process(w) PROVE FilesInv'
  <2>1. \A v \in Holders : v # w => Still(v)
    <3>1. LTypeOK /\ MemoryTypes  BY <1>1 DEF LifeInv
    <3> QED  BY <1>4, <3>1, OthersStayPut DEF Still
  <2>2. ~ (\/ AcquireConflict(w) \/ RecordMisses(w) \/ CommitMisses(w) \/ UndoSpawn(w)
           \/ RestoreRival(w) \/ Crash(w) \/ Reincarnate(w))
    BY <1>1, CalmBranches
  <2> QED  BY <1>1, <1>4, <2>1, <2>2, AcquireAsSpawnerFiles, SpawnFiles, EndSpawnFiles, AttachFiles,
              WriteFiles DEF Process
<1>5. ASSUME NEW t \in TurnHolders, StartCapture(t) \/ EndCapture(t) PROVE FilesInv'
  BY <1>1, <1>5, CaptureFiles
<1>6. ASSUME Reaper PROVE FilesInv'
  <2>1. ~ (ReaperCrash \/ ReadLiveLeases)  BY DEF ReaperCrash, ReadLiveLeases, Calm
  <2>2. ~ ((\E b \in Boxes : KillOrphan(b)) \/ EndOrphanSweep)
    BY <1>1 DEF KillOrphan, EndOrphanSweep, FilesInv, OneSpawner
  <2> QED  BY <1>1, <1>6, <2>1, <2>2, SweepFiles, DrainFiles DEF Reaper
<1>7. ~ (\E b \in Boxes : BoxDies(b))  BY DEF BoxDies, Calm
<1>8. FilesInv'
  BY <1>1, <1>4, <1>5, <1>6, <1>7, SweepFiles DEF LNext
<1> QED  BY <1>2, <1>3, <1>8 DEF CalmInv

\* Writes that some landed capture held are never lost: from the capture to the
\* next box they are in the archive the row carries (persistWarmSnapshot,
\* persistDrainSnapshot, confirmDrainCold, failWarmingToCold) or in the running box
\* it names (commitWarmingToWarm drops the archive of a box hydrated from it).
THEOREM CapturedFilesSurvive == ASSUME Calm PROVE LSpec => []SavedFilesRecoverable
<1>1. CalmInv /\ [LNext]_vars => CalmInv'  BY StepKeepsCalmInv
<1>2. CalmInv => SavedFilesRecoverable
  <2> SUFFICES ASSUME CalmInv PROVE SavedFilesRecoverable  OBVIOUS
  <2>1. lease.liveness \in Livenesses  BY DEF CalmInv, LifeInv, LTypeOK, TypeOK, LeaseRows
  <2>2. Archived \/ InTheBox  BY <2>1 DEF CalmInv, FilesInv, RowKeepsFiles, Livenesses
  <2> QED  BY <2>2 DEF Archived, InTheBox, SavedFilesRecoverable, Recoverable
<1> HIDE DEF CalmInv
<1> QED  BY <1>1, <1>2, InitCalmInv, PTL DEF LSpec

\* "SOLE enforcer of one-box-per-group": however many turns come and go, the ones
\* at work share the box the row names, across re-arms, failed spawns, failed
\* drain captures and concurrent arrivals.
THEOREM TurnsShareOneBox == ASSUME Calm PROVE LSpec => []OneBoxPerGroup
<1>1. CalmInv /\ [LNext]_vars => CalmInv'  BY StepKeepsCalmInv
<1>2. CalmInv => OneBoxPerGroup
  <2> SUFFICES ASSUME CalmInv, NEW v \in Holders, pc[v] = "running" PROVE mine[v] = lease.instance
    BY DEF OneBoxPerGroup
  <2>1. v \in TurnHolders  BY DEF CalmInv, ViewersOnlyWatch, Viewers, Working, Holders, Calm
  <2> QED  BY <2>1 DEF CalmInv, FilesInv, TurnsShareBox, SharesBox
<1> HIDE DEF CalmInv
<1> QED  BY <1>1, <1>2, InitCalmInv, PTL DEF LSpec
=============================================================================
