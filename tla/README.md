# TLA+ specifications of the Hygon HCU DRA driver

These modules specify, model-check and partly prove the node plugin in this
repository: a Kubernetes Dynamic Resource Allocation (DRA) kubelet plugin that
publishes the HCU cards of a node, creates a virtual HCU (vHCU) when a
ResourceClaim is prepared, destroys it when the claim is unprepared, and keeps the
files the container runtime and the exporter read in step with that.

The code is small (about 2000 lines of Go), but it is a transaction over six kinds
of state kept in four places (process memory, dcgm, files, API server), run by two
goroutines that share one mutex, and it can be interrupted at any point. That is what
the specifications are about.

Paths below are relative to the repository: `driver.go` stands for
`internal/driver/driver.go`, `main.go` for `cmd/hcu-dra-driver/main.go`.

- [1 The system](#1-the-system)
- [2 Modules and how they correspond to the code](#2-modules-and-how-they-correspond-to-the-code)
- [3 Properties](#3-properties)
- [4 Runs, instances and bounds](#4-runs-instances-and-bounds)
- [5 Fairness](#5-fairness)
- [6 Proofs](#6-proofs)
- [7 Abstractions and what is not modelled](#7-abstractions-and-what-is-not-modelled)
- [8 Plan](#8-plan)
- [9 Running it](#9-running-it)

## 1 The system

### Components

| Component | State it keeps | Operations | Correct when |
|---|---|---|---|
| Prepare/Unprepare, `driver.go`, `driver_prepare.go` | local list of created devices; `DeviceState.prepared` | `nodePrepareResource` (existing claim, loop over the allocation results, finalize, undo), `nodeUnprepareResource` | what it answers exists, is recorded, and stays until Unprepare; a failed call leaves nothing another claim could miss |
| DeviceState, `device_state.go`, `device_enum.go`, `device_types.go` | `prepared`, `allocatable`, `mu` | `NewDeviceState`, `CleanupOrphanPreparedClaims`, `reconcileStaleHostVDevices`, `RefreshAllocatable` | it destroys vHCUs of no living claim, and all others eventually |
| main, `main.go` | order of startup; ticker | start, cleanup, refresh, publish; every 2 minutes again | the published slice follows `allocatable` |
| State file, `state_persistence.go` | the prepared map on disk | `savePreparedState`, `loadPreparedState` | a restarted driver knows the claims the kubelet holds |
| CDI spec files, `cdi_spec.go` | one spec per vHCU, one for the physical cards | `syncVDeviceCDISpecFiles`, `vdeviceCDISpecFilesNeedRepair`, `createStandardCDISpecFile` | a device that was handed out has a spec and it is the right one |
| Dynamic marks, `vdev_dynamic.go` | `/etc/vdev/dynamic/*` | create, remove, sweep by claim UID, `syncDynamicMarkFiles` | every device in use has its mark, stale ones go |
| Claim consumer, `claim_consumer.go` | none | `resolveClaimConsumer` | names the container that uses the claim |
| Devices and capacity, `allocatable_device.go`, `driver.go` | none | `GetDevice`, `requestCapacityFor` | what the scheduler accounts is what is created |
| Discovery, `card_render.go` | none | PCI address to `/dev/dri` nodes | the right device nodes are injected |
| Outside the code: dcgm, API server, kubelet, scheduler | vHCUs on the host; claims; running pods | create/destroy/list vHCUs; delete a claim; Prepare/Unprepare calls | |

### Interaction

```
   kubelet ---- Prepare/Unprepare (serialized) ----> RPC goroutine --+
                                                                     | mu
   ticker ---- cleanup, refresh, publish ----> maintenance goroutine-+
                                                                     |
     prepared map, allocatable  <------------------------------------+
     state file, CDI specs, marks, dcgm   (some accesses under mu, some not)
```

`kubeletplugin.Serialize(true)` (main.go:99) orders the RPCs among themselves and
nothing else. `DeviceState.mu` protects the prepared map and the syncs, but *not*
the creation and destruction of vHCUs: `prepareAllocatedDevices` creates them before
it takes `mu` (driver_prepare.go:160), Unprepare and the undo of a failed Prepare
destroy them after it was released. `allocatable` is read without `mu`
(driver_prepare.go:91, driver.go:158).

### What is hard here

1. *Two sources of truth.* A vHCU exists on the host before it is in the map and
   after it has left it; `reconcileStaleHostVDevices` destroys what it does not find
   in the map, and dcgm reuses the index.
2. *Crashes.* The process dies between any two steps; only the state file is read
   back. Whatever the file does not say is destroyed at the next start.
3. *Errors that are logged and ignored.* Saves, syncs, destroys and mark removals
   fail without failing the call.
4. *Syncs on behalf of others.* Every Prepare and Unprepare rewrites the files of all claims.
5. *Claims vanish.* A ResourceClaim may be deleted while it is being prepared,
   prepared, or unprepared.

`PROJECT.json` lists the hazards at the lines where they bite, each with the
properties that would notice.

## 2 Modules and how they correspond to the code

```
 The driver: two goroutines, crashes, failures        What it is built from and stands for

 HcuState         constants, variables, helpers       ClaimLedger       what it promises the kubelet
   |        \                                         PreparedRegister  what it counts on of its file
 HcuPrepare  HcuMaintenance   a module per goroutine     ^  ^
   \        /                                            |  |  INSTANCE ... WITH
    HcuDriver                 composition, properties ---+--+

 StateFile        the state file, file operation by file operation; implements PreparedRegister

 Capacity    ClaimConsumer    RenderNodes             pure operators
     \            |             /
              ClaimData                               what a claim gets, on one card

 MCHcuDriver, MCStateFile, MCClaimData                instances for TLC
 HcuDriverProofs <- HcuOwnershipProofs <- HcuLedgerProofs, HcuFilesProofs
 ClaimDataProofs <- ClaimCapacityProofs, StateFileProofs, ClaimLedgerProofs    proofs
```

**HcuState** has the whole state as variables (see the comments at their
declaration) and the helpers the code shares, under the names the code gives them:
`preparedVDvIndSet`, `activePreparedVDevices`, `syncVDeviceCDISpecFiles`,
`syncDynamicMarkFiles`, `savePreparedState`, ... dcgm is modelled as the code uses
it: creation returns any free index, destroying a missing vHCU is an error.

**HcuPrepare** is the goroutine that serves the kubelet. `rpcPc` is where it is. An
action is the longest stretch of code in which nobody can interfere: it ends where
`mu` is taken or released, at a dcgm call, or where a crash would leave different
files or a different host.

| Action | Code |
|---|---|
| `PrepareResourceClaims`, `UnprepareResourceClaims` | the kubelet's call (driver.go:31, 41) |
| `CheckExisting`, `RepairCDI`, `RepairMarks` | `prepareExistingClaim`, its two critical sections |
| `SkipForeign`, `LookupFails`, `LookupDevice`, `prepareWholeCardDevice`, `CreateVHCU`, `AttachVHCU`, `AttachFails` | one turn of the loop of `prepareAllocatedDevices`; the device is used as the lookup found it, though a refresh may have replaced `allocatable` since; errors go to `rollbackCreatedVDevices` |
| `FinalCDI`, `FinalMarks`, `FinalSave`, `Reply` | `finalizePreparedClaim` and the answer |
| `Undo`, `UndoCDI`, `UndoMarks`, `UndoSave` | its error path |
| `UnprepCDI`, `UnprepMarks`, `UnprepSave`, `Sweep` | `nodeUnprepareResource` |
| `DestroyNext`, `DestroyEnds` | the destroy loops of rollback, undo and Unprepare |

**HcuMaintenance** is the rest of the process: `Start` to `RestoreMarks` are
`NewDeviceState`, then main's cleanup, refresh and publishing, then the ticks. main
and the ticker goroutine never overlap (the goroutine is started after main's own
publishing), so one program counter `mPc` stands for both; `boot` says that main has
not yet published, when an error of refresh or publishing is fatal
(`klog.Fatalf`) and not only logged. `ProcessEnds` is the end of the process, by a
fatal error or, in `Crash`, at any step: memory is lost; files, host and published
slice stay. `up` is set once `kubeletplugin.Start` was called; RPCs are then served
*before* main's cleanup and refresh, as in the code.

**HcuDriver** adds the initial state (a node on which the driver never ran), the
deletion of claims from the API server and the properties.

**StateFile** is `state_persistence.go` step by step: `OpenTmp` (os.WriteFile truncates
`stateFile + ".tmp"`), `WritePart`, `WriteTmp`, `WriteFails`, `Rename`, and
`loadPreparedState`, which makes an empty map of a missing, an empty and a corrupt file
alike. Two goroutines save through the same temporary file, under `mu`; `ProcessEnds`
may come between any two operations and in the middle of a write; `Damage` is somebody
else, or a power loss, spoiling the file.

**PreparedRegister** is what the rest of the driver takes the file for: a start reads
what was saved last. StateFile implements it (`ImplementsRegister`, with the
loaded map as the register), and HcuDriver uses it (`UsesRegister`), so the one step
`savePreparedState` of HcuState stands for the file operations of StateFile.

**ClaimLedger** is what the kubelet may count on, without map, file, mutex, maintenance
or restarts: a claim is given devices that are there for it, is given the same again
when it asks again, and nothing happens to them until it gives them back or
is deleted. HcuDriver implements it (`ImplementsLedger`; `held` is `handed`, `sound` is
`hist = {}`: what happens after an incident is no longer promised).

**ClaimData** follows the data of a claim on one card, through the operators of three
modules:

| Module | Code |
|---|---|
| Capacity | the request policies of `GetDevice`, `requestCapacityFor`; the scheduler's accounting of consumable capacity, external |
| ClaimConsumer | `containerUsingResourceClaim` and the choice within one pod of `resolveClaimConsumer` |
| RenderNodes | `pciPathCandidates`, `discoverDRINodes`, `getCardAndRender`, `resolvePCIForVDeviceDRI`, the CDI entries of `cdi_spec.go` |

Its actions are `CreateClaim`, `Allocate`, `Deallocate` and `DeleteClaim`, external, the last
two also while the claim is prepared, as after a forced deletion of its pod; `Refresh`, which
may leave the card out of `allocatable` and looks for its nodes; `prepareAllocatedDevices`,
after which the search for the consumer goes call by call (`GetPod`, `EndOfRefs`, `ListPods`)
while pods go and are scheduled (`PodChanges`); and `finalizePreparedClaim`,
`nodeUnprepareResource` and `CleanupOrphanPreparedClaims`, which write the entries of all
prepared vHCUs again. `entry` is the CDI entry that the last step wrote. The capacity of a
claim that loses the card goes to others at once, while what Prepare made for it stays until
it is released. Failed Prepares and crashes are left to HcuDriver: here a claim is prepared
or it is not, and a vHCU that is on the card but in no claim of the map is not counted.

### Data

- The prepared map is a function from claims to `NoEntry` or `Entry(devices)`: a claim
  without devices of this driver gets an *empty entry*, which is not the same as none
  (it is saved, and orphan cleanup looks at it), although a later Prepare treats it as new.
- A prepared device keeps what decisions depend on: request, parent card, whole card
  or vHCU, index, mark. The index of a whole card is 0, the zero value of its field,
  as in the code: a release that forgot to skip whole cards would destroy vdev0.
- A CDI spec file is `NoFile`, `Torn` (truncated by a failed write in place) or says for a
  vHCU of which card it was built (`card`) and whether that card was in `allocatable` and gave
  its PCI address (`listed`); if not, the address is the one dcgm reported for the vHCU, or
  there is none and all of `/dev/dri` is mounted. A mark is identified by its file name: holder,
  card, index.
- In Capacity cores are asked for in thousandths (`Quantity.Value()` rounds up) and memory in
  bytes; `Unset` is a capacity that the request leaves out.
- A PCI address in RenderNodes has a bus address, a domain or none, and "pci:" before it
  or not. What the code does to the string of an address is done to these parts; the text after
  the first colon of an address without domain is no address (`Scrap`).
- A pod in ClaimConsumer is where it runs, how it refers to the claim (by name, through a
  template, not at all) and the containers that use it.
- Results of claims are a set, taken in any order; the code takes them in list order.

### History variables

`handed` is what the kubelet got as the answer of a Prepare and may pass to a
container, until it calls Unprepare. `host[v].claim` remembers for which claim a vHCU
was created. `dirty` says that the last save failed. `hist` collects *incidents*, the
windows in which the code as it is does lose a vHCU:

| Incident | Window | Shown by |
|---|---|---|
| `steal` | reconcile destroys a vHCU (or removes the configuration file of an index) that a Prepare still in its loop has just created | v_prepare_vs_reconcile |
| `dirtyCrash` | the process ends after a save that failed and was only logged | v_save_lost |
| `orphanCrash` | the process ends inside orphan cleanup, after the first destroy and before the save | v_orphan_crash |
| `undoCrash` | the process ends while a failed Prepare is being undone, its claim still in the map and perhaps saved by an orphan cleanup | v_undo_crash |

A property that says "outside the open windows" is conditional on `hist`. Each window
is shown to be real by a run that must find a violation, so no condition is there for
convenience. Once the code closes a window, its incident can be dropped from the
condition and the passing run shows the repair.

## 3 Properties

| Property | Says | Would be broken by |
|---|---|---|
| `HandedVHCUsKept` | a vHCU the kubelet holds is on the host, on its card, created for its claim, with its conf file | reconcile, orphan cleanup, rollback or release touching another claim's index |
| `NoSharedVHCU` | no two prepared devices have one index | a map entry that survives the destruction of its vHCU |
| `HandedRemembered` | a running driver's map has exactly what each living claim was given, also after restarts | an answer before the save, an entry lost or changed |
| `StateFileCurrent` | with `mu` free, file = map, unless the last save failed or an undo is under way | a critical section that changes the map and does not save |
| `HandedSpecsPresent`, `HandedSpecsRight` | the CDI spec of a vHCU in use is there / is whole and was built for a vHCU of its card, be it with the card's address or without | a sync for one claim that drops another's; a spec left by an earlier owner of the index |
| `HandedMarked` | the marks of devices in use are there | a sync or removal on behalf of another claim |
| `OrphanCleanupSafe` | orphan cleanup destroys vHCUs of deleted claims only (action property) | an orphan list computed from a stale map or claim list |
| `UntrackedReclaimed` | no untracked vHCU stays for ever (liveness) | leaks of crashes, failed rollbacks and failed destroys |
| `OrphansReleased` | a deleted claim is forgotten and its vHCUs are gone, for good | a deletion in the middle of Prepare |
| `ParentsRepublished` | a card with a prepared claim does not stay out of the slice | the occupied-card filter of `buildAllocatableFromDeviceInfos` |
| `CallsEnd` | every RPC ends | a mutex kept on an error path |
| `ImplementsLedger` | the driver is a ClaimLedger (refinement) | a repeated Prepare that answers differently; a vHCU handed out or kept that is not there |
| `UsesRegister` | the driver's steps on map and file are those of a PreparedRegister (refinement) | a save that does not write the whole map, a start that does not read it |
| `ImplementsRegister` | temporary file and rename are a PreparedRegister (refinement) | a save without `mu`, in place, or of a stale map |
| `NeverCorrupt` | the driver itself never leaves a file it would "start fresh" from | an unchecked write error, a rename of a half-written file |
| `CardNotOvercommitted` | what is made of the claims that are allocated a card does not exceed it, but for one core and one MiB for each request of 0 | capacities published, defaulted or rounded other than Prepare does |
| `VHCUWorthItsCharge` | a vHCU has the cores its claim is charged for and no more memory; less memory only by rounding: less than a MiB less than was asked, up to one whole MiB less than is charged | a default or rounding on one side only |
| `HolderUsesClaim` | the container in a mark uses the claim, or its pod is listed and does not say which does; never on another node | a container or pod that is not looked for |
| `SearchFinds` | without failing calls, a pod that names the claim and stays on the node is found | a consumer that is skipped ending the search |
| `EntryOfItsCard` | CDI entries written while the card is allocatable, shown by sysfs and told from other cards by every name without a domain have its nodes, its sysfs directory, and not all of `/dev/dri` | an address that dcgm reports for a vHCU taken before its parent's |

Six further properties state what the documentation or a comment promises and the code
does not keep: `HandedVHCUsIntact`, `HandedInMap`, `UndoneNotRestored`,
`OrphanCleanupCrashSafe`, `RepeatedPrepareRepairs`, `HandedSpecsOfParent`. Their runs
end in a counterexample; "findings" in `PROJECT.json` quotes the promise.

Some behaviours that a reader of the code should know are neither:

- A refresh that reads the prepared parents before a claim enters the map, and
  `VDeviceCount` after its vHCU was created, takes the card out of the slice
  although device_enum.go:28-30 says that parents must stay published. The next tick puts
  it back, which is what `ParentsRepublished` says.
- A request of 0 cores or memory is charged 0 (the minimum of the policy) and
  prepared as 1, so that such claims may together exceed the card;
  `CardNotOvercommitted` says by how much.
- For the same reason a whole card is not exclusive: README.md:55 of the repository documents
  a claim without capacities as having the card to itself (独占整卡), and a claim for 0 cores
  and 0 bytes fits beside it and is given a vHCU on it. ClaimData has these states, and no
  property calls them right; none excludes them either.
- A claim that is deleted, or loses its allocation, while it is prepared frees its capacity
  for the scheduler at once, and its vHCU stays until the orphan cleanup (or the kubelet's
  Unprepare) comes to it. Until then the card may hold more than it has, by all that is left
  over: `CardNotOvercommitted` counts the claims that are allocated only.
- A claim made from a template has its name in the pod's *status*;
  `containerUsingResourceClaim` reads only the spec. Its mark names the first container
  of a listed pod, or, when no pod is listed, the claim.
- The shipped manifest grants no access to pods, and then every search fails and
  every mark carries the claim's UID.
- When the parent of a vHCU is not in `allocatable`, the spec is built from the address dcgm
  reports for the vHCU, which may be another card's; with no node found, the container
  gets all of `/dev/dri`. It needs no failure: a refresh that runs between `CreateVDevices` and
  `finalizePreparedClaim` sees a used card whose vHCU is in no claim and drops it
  (v_parent_dropped). The file is not made good by a repeated Prepare, which only looks
  whether it exists (cdi_spec.go:357); the next sync for any claim writes it again.
  `HandedSpecsRight` leaves the address open, `EntryOfItsCard` excludes the case.
- An address without a domain that fits cards of two domains is taken for whichever sysfs
  shows (domain 0 where `normalizePCIAddr` completes it), and the container may be given the
  nodes of the other card. `EntryOfItsCard` is conditional on there being no such name.
- A state file damaged by somebody else is an empty map with a warning: the next
  start destroys every vHCU on the host. `NeverCorrupt` says that the driver does not do
  this to itself.

## 4 Runs, instances and bounds

Each run has its configuration `MC_<run>.cfg`; those on claims of the driver use `MCHcuDriver`.

| Run | Claims | Calls that may fail | What it shows |
|---|---|---|---|
| crash_restart | two, on two cards, with two containers | save, removal of marks | all interleavings of prepare, unprepare, deletion, cleanup, reconcile, one crash: vHCUs, sharing, what a restarted driver remembers, specs, orphan cleanup |
| file_failure | two of one card | CDI sync, mark sync, removal of marks | one claim's half-failed sync does not harm another's files; undo of a failed Prepare |
| call_failure | one for two vHCUs, one for a whole card and another driver's device | all of dcgm, mark creation, claim list, base spec, publish | rollback of a half-prepared claim; fatal errors at boot; whole cards |
| progress | one | destroy, consumer lookup | the liveness properties; marks that keep the name they were made with, the claim's if the search failed |
| state_file (`MCStateFile`) | two maps, two goroutines | open, write, rename | the file is a register; the driver never corrupts it |
| device_inputs (`MCClaimData`) | two of one card, deleted while prepared, too | pod get, pod list | capacities, marks, CDI entries |
| v_... | two of one card | as needed | the disagreements above |

Bounds, all named in the configurations:

- **Two claims** (one in *progress*). The hazards relate a claim to one other: the
  one that takes over an index, whose sync rewrites the file, or whose cleanup runs. In
  *crash_restart* the claims differ (cards, containers); in *file_failure* and *device_inputs*,
  and in four of the runs of the disagreements, they are interchangeable and `ClaimSymmetry`
  is used. None of these checks a liveness property.
- **Two vHCU indices**: one can be reused while another is held, and two are enough to
  run out (`CreateVHCU` fails when none is free).
- **One crash** (`MaxCrashes`), at any step, including startup. A second crash
  meets the states a first one leaves, which startup makes good from the file alone;
  the theorems of section 6 hold for any number.
- **Faults** is a set of kinds; an operation of such a kind may fail every time. Splitting
  the kinds over runs keeps each run small; a run has the kinds that bear on its properties.
- The calls of the kubelet are unbounded and in any order, duplicates included:
  Prepare of a claim already prepared, Unprepare of one never prepared.

- **device_inputs**: a card of 3 cores and 4 MiB, with requests for nothing, for 1.5 cores and
  0 bytes and for 1.5 MiB, of which two fit, just fit, or do not. A list of a consumer that is
  no pod and one pod; the second pod is found on the node only. Two cards with one bus address
  in two domains: this card's address is reported with "pci:" and domain, and the vHCU's own
  without domain, or this card's is reported without domain and the vHCU's own is the other
  card's. sysfs shows one of the cards only (which is this one for one of the reports); no card
  on the bus and both under the driver; or both on the bus, with the neighbour, or a name without domain, in the older place that is
  searched first. Larger cards and more pods only repeat these cases, and the theorems
  hold for all.
- **state_file**: two goroutines are all the driver has that save.

`CONSTRAINT NoIncident` (crash_restart, file_failure, call_failure) cuts the search
where an incident has happened; `hist` only grows (lemma `HistGrows`). The properties of
these runs are conditional on `hist = {}`, for which it loses nothing, but for
four that claim more: `TypeOK`, `StateFileCurrent` and `UsesRegister`, without any condition,
and `HandedRemembered`, which excludes "dirtyCrash" only. What they say after an incident
the run does not check; the theorems of section 6 do, which have no constraint.
`CHECK_DEADLOCK` is on everywhere: the ticker always has a next step, a process can always end
or start, and a card be refreshed.

Each property has a mutant in `PROJECT.json`: a definition changed as a plausible bug
would change it (an entry not deleted, a save forgotten, an error swallowed, the mutex
kept), with which the run must fail. The mutated operators stand before the
definition they replace and are marked as mutants; nothing else uses them.

## 5 Fairness

`FairSpec` assumes, beside the safety part:

- strong fairness of the steps of a call and of the maintenance goroutine. Both wait
  for `mu` again and again, so weak fairness would allow one to starve the other; Go's
  mutex does not (in starvation mode it is handed to a goroutine that has waited a
  millisecond), and the ticker does not stop;
- strong fairness of a *successful* destroy in reconcile for each index: dcgm does not
  refuse for ever to destroy a vHCU it lists.

Nothing is assumed of the kubelet, of deletions or of crashes. Without the last
assumption `UntrackedReclaimed` would be false: a failing destroy is only logged.

## 6 Proofs

The proofs are checked by TLAPS to the last leaf, and every safety property that a
passing run checks is stated by a theorem (two of them, on the content of spec files, for
the case that writes of spec files do not fail). Assumed of the driver is only
`ConstantsAssumption`: no number of claims, cards, indices or crashes is fixed and any
set of calls may fail.

`HcuDriverProofs`: what a restarted driver remembers.

- **TypeCorrect**, `Spec => []TypeOK`. Lemmas first give the types of the helpers (what
  a sync, a mark removal or a destroy loop may return), then each action.
- **InvCorrect**, `Spec => []IInv`, the inductive invariant:
  - `MutexInv`: who holds `mu` is a function of the two program counters; RPCs run
    only when the process is up. It is what excludes two critical sections at once.
  - `CallInv`: a claim being prepared or released is held by nobody; from
    `FinalCDI` on, the map has the list that will be answered. The first half needs
    `HandedRemembered` itself (a Prepare enters the loop only when the map has no
    devices for the claim), so the two can only be proved together.
  - `FileInv`: file and map agree on every claim but the one in hand between its
    change and its save, or orphans being cleaned up, or after a failed save.
  - `HandedInv`: what a living claim was given is in the map; while the process is down,
    in the file.
  - `OrphanInv`, `DownInv`: orphans stay deleted; a stopped process has nothing unsaved.
- **HandedClaimsRemembered**, `Spec => []HandedRemembered`. A crash is the interesting
  step (lemma `InvEnds`): the map is gone, and the file has the claim because it
  differs from the map only for a claim that nobody holds yet or any more.
- **FileHoldsMap**, `Spec => []StateFileCurrent`, from `FileInv` and `MutexInv`.

`HcuOwnershipProofs`: who owns a vHCU, outside the open windows.

- **OwnershipCorrect**, `Spec => []OwnInv`. `HandedVHCUsKept` is far from inductive: that
  nothing destroys a vHCU in use depends on the lists both goroutines work
  through, some of them computed long before. `OwnInv` says of each where its indices
  can still be:
  - `MapInv`, `DiskInv`: vHCUs in the map are intact (in the file, while the process is
    down), but for a claim whose failed Prepare is being undone, whose vHCUs may be gone.
  - `LocalInv`: those of the call in hand are intact while it prepares them and gone or
    its own while it releases them. That the RPC goroutine alone creates vHCUs, and
    works on one claim at a time, is used here: no index it frees is taken before it
    is done with it.
  - `AloneInv`: the claim in hand has no other devices in map or file. It makes
    a crash in the middle of Prepare or Unprepare harmless (lemma `OwnEnds`).
  - `CleanupInv`, `ReconcileInv`: what cleanup or reconcile is going to destroy is in no
    entry of the map. Cleanup also meets nothing the call in hand works on, except
    where it releases a deleted claim that is being undone; reconcile may, which is
    the window `steal`.
  - `DistinctInv`: within a claim no index occurs twice.
- **HandedVHCUsStay**, `Spec => []HandedVHCUsKept`, from `MapInv`, `DiskInv` and
  `HandedInv`: both invariants are needed, one for what is remembered and one for what
  is still there.
- **VHCUsNotShared**, `Spec => []NoSharedVHCU`, from `MapInv` (a vHCU was created for one
  claim) and `DistinctInv`.
- **CleanupDestroysOrphansOnly**, `Spec => OrphanCleanupSafe`, from `CleanupInv`.

That orphan cleanup acts on a list taken earlier is harmless because a deleted UID does
not come back (`DeleteClaim` is the only action on `api`). Lemma `HistGrows` is the
reason why `CONSTRAINT NoIncident` loses nothing.

`HcuLedgerProofs`: the driver implements its two abstractions.

- **DriverIsLedger**, `Spec => ImplementsLedger`. Lemma `KubeSteps` says which steps change
  what the kubelet sees at all; `SameAnswer` that a repeated Prepare answers with what is
  held (from `HandedRemembered` and `CallInv`); `LedgerStep` that any step is one of the
  ledger or hidden from it, where `HandedVHCUsKept` in both states is the condition
  under which the host may change.
- **AnswersTheSame**: while no incident has happened, a living claim that holds devices
  holds the same ones after every step, or none because the kubelet gave them back. A
  Prepare that is repeated after a lost answer or a restart is answered with these.
- **DriverUsesRegister**, `Spec => UsesRegister`, by goroutine (`RegisterRpc`, `RegisterMaint`)
  and for the end of the process (`RegisterEnds`). `MutexInv` and `DownInv` are needed: RPCs
  change and save the map only while the process is up, and a process that is down has none.

`HcuFilesProofs`: the files of what the kubelet holds. CDI specs and marks lie in
directories that all claims share, and every sync rewrites them from the whole map.

- **PreparedAsAllocated**, `Spec => []AllocInv`: a device in map or file, or of the call in
  hand, is one of its claim's allocation results, and its mark names its card, its index
  and the claim or its container. It is what tells the marks of two claims apart.
- **HandedSpecsStay**, `Spec => []HandedSpecsPresent`, from `PresentInv`: the files are
  there from the sync of a Prepare to its answer (`Synced`), and from then on with
  what is held. `SyncKeeps`: a sync removes no file of a vHCU in the map, even when it
  fails half-way, and `HandedInv` says that what is held is in the map.
- **HandedSpecsStayRight**, `Spec => []HandedSpecsRight`, if no write of a spec file fails:
  the file is whole and was built for a vHCU of the card. Whether it has the card's address
  is left open, since without any failure it may not (v_parent_dropped).
  Where writes fail the property is false: such a write truncates the file, and
  one that never came to it leaves a file of the index's last owner. `RightInv` says that
  no vHCU of the map (of the file, while the process is down; of the claim being released)
  has another card's file. An index gets a new owner with the old file only if the release
  of the old owner never synced, and `NoSharedVHCU` makes the file a sync writes for an
  index the one of its only owner.
- **RepairsUnlessTorn**, `Spec => RepeatedPrepareRepairs` under the same condition.
  The run v_torn_spec refutes the property where writes fail: that a file is torn, or was
  built for another card's vHCU, takes a failing write. A file without the parent's address
  is neither, and is not repaired either.
- **HandedMarksStay**, `Spec => []HandedMarked`, from `MarksInv`. Marks are removed by
  name, too, in rollback, undo, Unprepare and cleanup. Lemma `OthersKept` says that
  the names removed for one claim are none of another's: two claims can have one mark only
  for one vHCU (`MarksApart`), which cannot be intact for the one and belong to
  the other (`OwnInv`). Whole cards need `HoldersAssumption`: no pod has one
  whole card from two claims, since the scheduler gives a whole card to one claim at a time
  and the claims of a pod do not change.

`ClaimLedgerProofs`: **LedgerKeepsApart**, no vHCU is held for two living claims of the
ledger. With `DriverIsLedger` the driver inherits it.

`StateFileProofs`, from `FileAssumption`: **TypeCorrect**, **FileNeverCorrupt** and
**StateFileIsRegister**. The
inductive invariant says that only the holder of `mu` is outside "idle", and what the
temporary file is where it stands: at "rename" it is the whole map.

`ClaimDataProofs`, from the assumptions on a card (positive cores, memory a positive
multiple of a MiB, which the API server requires of the policy's maximum), on pods and
on sysfs:

- `PodAssumption`: a pod has a container and stays the same pod when it is bound; a mark
  that names a container is none that names a claim.
- `SysfsAssumption`: sysfs names PCI devices with their domain, and a card that the bus
  shows is a device. The older path under the driver's module may leave the domain out.

That no name without a domain fits cards of two domains is no assumption but the condition
`Clear` of `EntryOfItsCard`.

The theorems are:

- **VHCUsWorthTheirCharge**, `Spec => []VHCUWorthItsCharge`. `WorthLemma` is arithmetic,
  for one request; the invariant `GivenAsAsked` says that what is prepared for a claim is what
  Prepare makes of its request, also after the claim has lost the card or was deleted.
- **MarkNamesAUser**, `Spec => []HolderUsesClaim`. That a first container exists
  (`FirstLemma`) is well-foundedness of the natural numbers.
- **SearchMissesNoUser**, `Spec => []SearchFinds`: the search gives up only after a list
  of the pods on the node, in which a pod that stayed there is. `SearchType` gives
  `stayed` its meaning: such a pod is on the node now.
- **EntriesOfTheirCard**, `Spec => []EntryOfItsCard`. Lemmas follow an address through the
  code: what `normalizePCIAddr` and `pciPathCandidates` make of it (`NormalLemma`,
  `ReportLemma`), which nodes the two places in sysfs give for it (`BusLemma`,
  `LegacyLemma`, `NodesLemma`; here `Clear` is used), and that a vHCU's entry is found by its
  parent's address (`VDeviceLemma`). The invariant `AllocOfReport` says that a card in
  `allocatable` has the address that was reported, so that a vHCU's entry, written much later
  and under another sysfs, depends on the names as they are then.
- **TypeCorrect**, `Spec => []TypeOK`: no vHCU is without a core or a MiB, a holder exists.

`ClaimCapacityProofs`: the claims of a card together.

- **CardsNotOvercommitted**, `Spec => []CardNotOvercommitted`. The inductive invariant `CapInv`
  adds to `GivenAsAsked` that the scheduler has charged the allocated claims no more than there
  is (`ChargedWithin`; `OneCharge` takes a claim in or out of the sum, whether it is prepared
  or not). `HeldCharged`: those that are allocated and prepared are some of them. `GotLemma`
  compares, for one request, what Prepare makes of it with what is charged: no more, but
  for the one core and the one MiB of a request of 0. `SumBound` carries it over to
  all claims (`HeldWithin`).
- The sums are those of the community module Functions, defined over a set by choosing
  one element after the other. `SumExists` and `SumStep` show that this definition has a
  value, `SumTake` that any element may be taken first. They rest on `SetInduct`, induction
  over the subsets of a finite set for one family of sets, proved from `NatSet` and so
  from the order of the natural numbers: the library's theorem takes an operator
  as a parameter and cannot be used.

TLC checked `IInv` (on the instance of crash_restart), the
conjuncts of `OwnInv` (crash_restart, file_failure, call_failure), `AllocInv`, `PresentInv`,
`RightInv` and `MarksInv` (crash_restart, file_failure, call_failure; `RightInv` where no
write of a spec fails), and `GivenAsAsked`, `ChargedWithin` and `AllocOfReport`
(device_inputs) before they were proved.

Only model-checked: the liveness properties `UntrackedReclaimed`, `OrphansReleased`,
`ParentsRepublished` and `CallsEnd`, which the proof system cannot reach.

## 7 Abstractions and what is not modelled

- One claim per RPC. The code works through the claims of a call one by one and nothing
  depends on the grouping. A claim without an allocation is refused before anything
  happens and is left out.
- In HcuState the state file is an atomic register, justified by StateFile. A file that
  cannot be read ends the process before it has changed anything, as does a failing
  `dcgm.Init`; both are left out. A power loss is `Damage` in StateFile: the file is not
  synced before the rename.
- A crash inside a sync of files is a sync that fails half-way followed by a crash, so
  torn files and crashes meet only where the instance lets that sync fail.
- A mark whose creation fails leaves no file. A failed `CreateVDevices` leaves no vHCU.
- The node does not reboot and dcgm does not lose vHCUs by itself.
- Publishing is immediate: kubeletplugin's resource slice controller has no delay.
- `allocatable` is replaced atomically. The unsynchronized read in
  `prepareAllocatedDevices` is a read of the old or of the new map; what was read is used in a
  later step, when the card may have been dropped.
- The order of a Go map's iteration decides which of two entries with one index
  gets the spec file: either may.
- `requestCapacityFor` is reduced to its outcome, a mode of the result. An instance whose
  claim names a request its spec does not have is not among the runs (the proofs cover
  it); its path, `LookupFails`, is taken for cards that are not allocatable.
- NODE_NAME and the client are always there: main sets both, so the branches of
  `resolveClaimConsumer` for a missing one are never taken. Pods are known by name;
  that a name may be used again by a pod with another UID (which the code does not
  compare) is a change of the pod.
- ClaimData has one card and one device per claim; `given` is set where Prepare starts, and
  counts until the claim leaves the map. That the vHCU is destroyed a little later, and that
  a destroy may fail, is HcuDriver's. A deleted claim's UID comes back only as a new claim,
  after the release of the old one: UIDs are reused to keep the instance finite.
- Entries leave out what is the same for all devices (`commonGlobalContainerEdits`); files
  of an older format are not modelled.
- Not modelled: flags and environment (`const.go`; DEVICE_SPLIT_COUNT is a constant), manifests,
  build scripts.

## 8 Plan

Done: the modules of section 2, their runs, and the proofs of section 6.

What is left: liveness stays with TLC. Of the safety side,

1. the invariants that the driver's theorems need beside the properties (`FileInv`,
   `OwnInv`, `AllocInv`) are candidates for properties of their own once the code closes a
   window: the conditions on `hist` then go from the theorems, too;
2. what can be said of spec files when writes do fail (which files a sync that failed
   leaves torn, and which call makes them good again).

The runs are kept few: a new module brings one passing run, and its disagreements one
run each.

## 9 Running it

```
tlc -workers 2 -config MC_crash_restart.cfg MCHcuDriver.tla
tlc -workers 2 -config MC_state_file.cfg MCStateFile.tla
tlc -workers 2 -config MC_device_inputs.cfg MCClaimData.tla
tlapm HcuDriverProofs.tla
tlapm HcuOwnershipProofs.tla
tlapm HcuLedgerProofs.tla
tlapm HcuFilesProofs.tla
tlapm ClaimLedgerProofs.tla
tlapm StateFileProofs.tla
tlapm ClaimDataProofs.tla
tlapm ClaimCapacityProofs.tla
```

The passing runs take up to four minutes each with two workers (state_file a second); the
proofs take one to two minutes a module.
