------------------------------ MODULE HcuState ------------------------------
(***************************************************************************)
(* The state of the HCU DRA driver on one node and the helpers all of its  *)
(* goroutines share: the DeviceState struct and its mutex, the host        *)
(* (dcgm), the files the driver keeps (state file, CDI specs, dynamic      *)
(* marks), the local variables of the two goroutines that work on them,    *)
(* and a few history variables the properties are stated with.             *)
(*                                                                         *)
(* HcuPrepare has the kubelet-facing goroutine, HcuMaintenance the startup *)
(* and the periodic one, HcuDriver puts them together.                     *)
(***************************************************************************)
EXTENDS Integers, FiniteSets

CONSTANTS
    Claims,      \* UIDs of the ResourceClaims of this node
    Cards,       \* physical HCUs, by ResourceSlice device name
    VDevs,       \* vHCU indices dcgm may hand out (bound)
    Requests,    \* request names
    Results,     \* Results[c]: the allocation results of claim c
    Consumers,   \* "podUID_containerName" of consuming containers
    Consumer,    \* Consumer[c]: what resolveClaimConsumer finds for c
    Faults,      \* the calls that may fail in this instance (bound)
    MaxCrashes,  \* number of process crashes (bound)
    NoDev,       \* "no such vHCU" on the host
    NoFile,      \* "no such file"
    Torn,        \* a file truncated by a failed write
    Nobody       \* nobody holds the mutex / nothing in hand

(* How an allocation result is treated: another driver's result is skipped,*)
(* a request name without an Exactly request is an error, a request        *)
(* without cores and memory is a whole card, any other a vHCU.             *)
Modes == {"foreign", "missing", "whole", "vhcu"}

Result == [req : Requests, dev : Cards, mode : Modes]

(* {podUID}_{containerName}_{dvInd}_{vdevIdx}, or {claimUID}_dra_... when  *)
(* the consumer is not known; index -1 is a whole card.                    *)
Mark == [holder : Claims \cup Consumers, card : Cards, idx : VDevs \cup {-1}]

PreparedDevice ==
    [req : Requests, parent : Cards, whole : BOOLEAN, vdv : VDevs, mark : Mark]

(* A CDI spec file: for a vHCU of which card it was built, and whether that *)
(* card was in allocatable then and gave its PCI address.                  *)
SpecFile == [card : Cards, listed : BOOLEAN]

FaultNames == {"list", "vinfos", "infos", "base", "publish", "create",
               "info", "consumer", "mark", "rmMark", "cdi", "marks", "save",
               "destroy"}

ASSUME ConstantsAssumption ==
    /\ 0 \in VDevs /\ VDevs \subseteq Nat
    /\ Results \in [Claims -> SUBSET Result]
    /\ Consumer \in [Claims -> Consumers]
    /\ Faults \subseteq FaultNames
    /\ MaxCrashes \in Nat
    /\ \A d \in Cards, c \in Claims : NoDev # [card |-> d, claim |-> c]
    /\ Torn # NoFile /\ {Torn, NoFile} \cap SpecFile = {}
    /\ Nobody \notin {"rpc", "maint"} /\ Nobody \notin VDevs /\ Nobody \notin Claims

(* Who a mark file is for: a pod's UID is no claim's UID, and the scheduler*)
(* gives a whole card to one claim at a time, so that no container has it  *)
(* from two claims (a pod's claims do not change while it lives).          *)
ASSUME HoldersAssumption ==
    /\ Claims \cap Consumers = {}
    /\ \A c, d \in Claims :
         c # d /\ Consumer[c] = Consumer[d] =>
           \A r \in Results[c], s \in Results[d] :
             r.mode = "whole" /\ s.mode = "whole" => r.dev # s.dev

VARIABLES
    api,          \* claims that exist in the API server
    handed,       \* handed[c]: devices the kubelet holds for c (history)
    host,         \* vHCUs on the host; .claim, for whom, is history
    conf,         \* vHCUs with an /etc/vdev/vdevN.conf
    cdi,          \* per-vHCU CDI spec file
    base,         \* cards in the physical CDI spec file
    marks,        \* files in /etc/vdev/dynamic
    disk,         \* the prepared map in the state file
    up,           \* the kubelet plugin is started: RPCs are served
    mu,           \* DeviceState.mu
    prepared,     \* DeviceState.prepared
    allocatable,  \* DeviceState.allocatable
    published,    \* devices of the last published ResourceSlice
    rpcPc,        \* where the RPC goroutine is
    claim,        \* the claim of its current call
    todo,         \* allocation results still to prepare
    created,      \* its local list of prepared devices
    fresh,        \* the result in hand and, once created, its vHCU
    pend,         \* vHCUs its destroy loop has still to destroy
    mPc,          \* where main and, after it, the ticker goroutine is
    orphans,      \* orphanUIDs still to clean up
    mPend,        \* vHCUs it has still to destroy
    rmConf,       \* the vHCU whose configuration file it removes next
    boot,         \* main has not published yet: errors are fatal
    crashes,      \* crashes so far
    dirty,        \* the last save of the prepared map failed (history)
    hist          \* incidents so far (history)

kubeVars  == <<api, handed>>
hostVars  == <<host, conf>>
cdiVars   == <<cdi, base>>
rpcVars   == <<claim, todo, created, fresh, pend>>
mVars     == <<orphans, mPend, rmConf, boot>>
enumVars  == <<allocatable, published>>
vars == <<api, handed, host, conf, cdi, base, marks, disk, up, mu, prepared,
          allocatable, published, rpcPc, claim, todo, created, fresh, pend,
          mPc, orphans, mPend, rmConf, boot, crashes, dirty, hist>>

(* An operation of the given kind may succeed (TRUE) or fail (FALSE).      *)
Outcome(op) == IF op \in Faults THEN BOOLEAN ELSE {TRUE}

-----------------------------------------------------------------------------
(* The prepared map                                                        *)

(* m[c] holds the list stored under the key c: Entry(devs), or NoEntry     *)
(* when there is no such key. An empty list is not NoEntry.                *)
NoEntry == {}

Entry(devs) == {devs}

PreparedMap ==
    {m \in [Claims -> SUBSET SUBSET PreparedDevice] :
       \A c \in Claims : \A s, t \in m[c] : s = t}

EmptyMap == [c \in Claims |-> NoEntry]

(* m[c] of a Go map: the nil slice when the key is missing.                *)
Devices(m, c) == UNION m[c]

AllDevices(m) == UNION {Devices(m, c) : c \in Claims}

VHCUs(devs) == {p \in devs : ~p.whole}

(* Mutant: whole cards are not skipped.                                    *)
VDvIndsWithWhole(devs) == {p.vdv : p \in devs}

(* What a destroy loop over devs destroys: whole cards are skipped.        *)
VDvInds(devs) == {p.vdv : p \in VHCUs(devs)}

MarkFiles(devs) == {p.mark : p \in devs}

preparedVDvIndSet(m) == VDvInds(AllDevices(m))

preparedParentDeviceNames(m) == {p.parent : p \in AllDevices(m)}

-----------------------------------------------------------------------------
(* dcgm (external): vHCUs and their configuration files come and go        *)
(* together. Creation takes any free index, so indices are reused.         *)

CreateVDevices(card, v) ==
    /\ host[v] = NoDev
    /\ host' = [host EXCEPT ![v] = [card |-> card, claim |-> claim]]
    /\ conf' = conf \cup {v}

DestroySingleVDevice(v, ok) ==
    /\ host' = IF ok THEN [host EXCEPT ![v] = NoDev] ELSE host
    /\ conf' = IF ok THEN conf \ {v} ELSE conf

(* A vHCU that is not there cannot be destroyed.                          *)
DestroyOutcomes(v) ==
    {ok \in BOOLEAN : IF ok THEN host[v] # NoDev
                      ELSE host[v] = NoDev \/ "destroy" \in Faults}

VDeviceInfos(h) == {v \in VDevs : h[v] # NoDev}

VDeviceCount(h, card) ==
    Cardinality({v \in VDeviceInfos(h) : h[v].card = card})

(* Mutant: a card with vHCUs is left out, tracked or not.                  *)
OnlyEmptyCards(h, m) == {card \in Cards : VDeviceCount(h, card) = 0}

(* A card with vHCUs is left out unless some prepared claim is on it.      *)
buildAllocatableFromDeviceInfos(h, m) ==
    {card \in Cards : \/ VDeviceCount(h, card) = 0
                      \/ card \in preparedParentDeviceNames(m)}

-----------------------------------------------------------------------------
(* CDI spec files. Two devices with one index compete for one file; which  *)
(* one wins depends on the iteration order of a Go map.                    *)

activePreparedVDevices(m) ==
    [v \in VDevs |-> {p.parent : p \in {q \in VHCUs(AllDevices(m)) : q.vdv = v}}]

vdeviceCDISpecFilesNeedRepair(m) ==
    \E v \in VDevs : activePreparedVDevices(m)[v] # {} /\ cdi[v] = NoFile

CdiFiles == [VDevs -> SpecFile \cup {NoFile, Torn}]

(* A vHCU's entry has the PCI address of its parent, if that is allocatable*)
(* now; else what dcgm said of the vHCU itself, or all of /dev/dri.        *)
buildVDeviceEntry(card) == [card |-> card, listed |-> card \in allocatable]

(* What a sync may write for an index.                                     *)
Written(m, v) == {buildVDeviceEntry(card) : card \in activePreparedVDevices(m)[v]}

(* Mutant: a file that is there is taken to be right.                      *)
SyncedIfMissing(m, f) ==
    \A v \in VDevs :
      CASE Written(m, v) = {} -> f[v] = NoFile
        [] Written(m, v) # {} /\ cdi[v] # NoFile -> f[v] = cdi[v]
        [] OTHER -> f[v] \in Written(m, v)

(* All active files are written, then stale ones are removed. A failing    *)
(* write leaves its file torn and ends the sync; a failing removal ends it *)
(* with some stale files left.                                             *)
SyncedCDI(m, f) ==
    \A v \in VDevs : IF Written(m, v) = {} THEN f[v] = NoFile ELSE f[v] \in Written(m, v)

InterruptedCDI(m, f) ==
    \/ \E w \in VDevs :
         \A v \in VDevs :
           IF Written(m, v) = {}
           THEN f[v] = cdi[v]
           ELSE f[v] \in Written(m, v) \cup {cdi[v]} \cup (IF v = w THEN {Torn} ELSE {})
    \/ \A v \in VDevs :
         IF Written(m, v) = {} THEN f[v] \in {cdi[v], NoFile} ELSE f[v] \in Written(m, v)

syncVDeviceCDISpecFiles(m, ok) ==
    cdi' \in {f \in CdiFiles : IF ok THEN SyncedCDI(m, f) ELSE InterruptedCDI(m, f)}

(* The physical spec file lists exactly the allocatable cards.             *)
createStandardCDISpecFile(cards, ok) ==
    base' \in IF ok THEN {cards} ELSE {base, Torn}

-----------------------------------------------------------------------------
(* Dynamic mark files                                                      *)

dynamicMarkVDevIndex(whole, v) == IF whole THEN -1 ELSE v

dynamicMarkFileName(holder, card, whole, v) ==
    [holder |-> holder, card |-> card, idx |-> dynamicMarkVDevIndex(whole, v)]

(* Whom resolveClaimConsumer may name as the holder of claim c's marks:    *)
(* the consuming container, or the claim itself when the lookup fails.     *)
MarkHolders(c) == {IF ok THEN Consumer[c] ELSE c : ok \in Outcome("consumer")}

(* Every mark is tried; the ones whose removal fails stay.                 *)
removePreparedDynamicMarks(devs) ==
    marks' \in {marks \ (MarkFiles(devs) \ kept) :
                  kept \in IF "rmMark" \in Faults THEN SUBSET MarkFiles(devs)
                           ELSE {{}}}

removeDynamicMarksByClaimUID(c) ==
    LET fallback == {f \in marks : f.holder = c} IN
    marks' \in {marks \ (fallback \ kept) :
                  kept \in IF "rmMark" \in Faults THEN SUBSET fallback ELSE {{}}}

(* Missing marks of prepared devices are recreated, then every other file  *)
(* of the directory is removed; an error ends the sync where it happens.   *)
syncDynamicMarkFiles(m, ok) ==
    LET active == MarkFiles(AllDevices(m)) IN
    marks' \in IF ok THEN {active}
               ELSE {marks \cup some : some \in SUBSET (active \ marks)}
                    \cup {active \cup some : some \in SUBSET (marks \ active)}

-----------------------------------------------------------------------------
(* The state file: written to a temporary file and renamed. StateFile has  *)
(* the steps in between.                                                   *)

(* Mutant: the file is written in place.                                   *)
SavesInPlace(m, ok) ==
    /\ disk' = IF ok THEN m ELSE EmptyMap
    /\ dirty' = ~ok

savePreparedState(m, ok) ==
    /\ disk' = IF ok THEN m ELSE disk
    /\ dirty' = ~ok

=============================================================================
