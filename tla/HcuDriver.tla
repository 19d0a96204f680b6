------------------------------ MODULE HcuDriver ------------------------------
(***************************************************************************)
(* The driver on one node: the goroutine that serves the kubelet, the      *)
(* maintenance goroutine, the API server and crashes, with the properties  *)
(* that make the driver correct.                                           *)
(***************************************************************************)
EXTENDS HcuPrepare, HcuMaintenance

(* A node on which the driver was never started.                           *)
Init ==
    /\ api = Claims /\ handed = [c \in Claims |-> {}]
    /\ host = [v \in VDevs |-> NoDev] /\ conf = {}
    /\ cdi = [v \in VDevs |-> NoFile] /\ base = {} /\ marks = {}
    /\ disk = EmptyMap /\ dirty = FALSE /\ published = {}
    /\ up = FALSE /\ mu = Nobody /\ prepared = EmptyMap /\ allocatable = {}
    /\ rpcPc = "idle" /\ claim = Nobody /\ todo = {}
    /\ created = {} /\ fresh = Nobody /\ pend = {}
    /\ mPc = "down" /\ orphans = {} /\ mPend = {} /\ rmConf = Nobody /\ boot = TRUE
    /\ crashes = 0 /\ hist = {}

(* A ResourceClaim disappears from the API server (external), at any time: *)
(* its pod was force-deleted. A UID does not come back.                    *)
DeleteClaim(c) ==
    /\ c \in api
    /\ api' = api \ {c}
    /\ UNCHANGED <<handed, hostVars, cdiVars, marks, disk, dirty, up, mu, prepared,
                   enumVars, rpcPc, rpcVars, mPc, mVars, crashes, hist>>

Next ==
    \/ RpcCall \/ RpcStep
    \/ MaintStep
    \/ \E c \in api : DeleteClaim(c)
    \/ Crash

Spec == Init /\ [][Next]_vars

(* Strong fairness of a goroutine: Go's mutex hands itself over to a       *)
(* goroutine that has waited for a millisecond, and the ticker goes on     *)
(* ticking. The kubelet need not call, claims need not be deleted. The     *)
(* destruction of a stale vHCU does not fail for ever.                     *)
FairSpec ==
    /\ Spec
    /\ SF_vars(RpcStep) /\ SF_vars(MaintStep)
    /\ \A v \in VDevs : SF_vars(ReconcileDestroy(v) /\ host'[v] = NoDev)

-----------------------------------------------------------------------------
RpcPcs ==
    {"idle", "check", "repair", "repairMarks", "reply", "loop", "found", "created",
     "rollback", "finalMarks", "finalSave", "undo", "undoDestroy", "undoMarks", "undoSave",
     "unprep", "unprepMarks", "unprepSave", "sweep", "unprepDestroy"}

MaintPcs ==
    {"down", "tick", "orphan", "orphanMarks", "orphanSave", "refresh", "reconcile",
     "rmConf", "base", "restore", "restoreMarks", "publish"}

(* Every variable has its type; a vHCU in hand goes with its program point.*)
TypeOK ==
    /\ api \subseteq Claims
    /\ handed \in [Claims -> SUBSET PreparedDevice]
    /\ host \in [VDevs -> {NoDev} \cup [card : Cards, claim : Claims]]
    /\ conf \subseteq VDevs
    /\ cdi \in CdiFiles
    /\ base \in {Torn} \cup SUBSET Cards
    /\ marks \subseteq Mark
    /\ disk \in PreparedMap /\ dirty \in BOOLEAN
    /\ up \in BOOLEAN /\ mu \in {"rpc", "maint", Nobody}
    /\ prepared \in PreparedMap
    /\ allocatable \subseteq Cards /\ published \subseteq Cards
    /\ rpcPc \in RpcPcs
    /\ claim \in IF rpcPc = "idle" THEN {Nobody} ELSE Claims
    /\ todo \subseteq Result
    /\ created \subseteq PreparedDevice
    /\ fresh \in CASE rpcPc = "found" -> [res : Result]
                  [] rpcPc = "created" -> [res : Result, vdv : VDevs]
                  [] OTHER -> {Nobody}
    /\ pend \subseteq VDevs
    /\ mPc \in MaintPcs
    /\ orphans \subseteq Claims /\ mPend \subseteq VDevs
    /\ rmConf \in IF mPc = "rmConf" THEN VDevs ELSE {Nobody}
    /\ boot \in BOOLEAN
    /\ crashes \in 0..MaxCrashes
    /\ hist \subseteq {"dirtyCrash", "orphanCrash", "undoCrash", "steal"}

-----------------------------------------------------------------------------
(* Safety                                                                  *)

NoIncident == hist = {}

VHCUIntact(c, p) == host[p.vdv] = [card |-> p.parent, claim |-> c] /\ p.vdv \in conf

(* A vHCU that Prepare handed to the kubelet is on the host, on the card   *)
(* the claim was allocated, created for that claim, with its configuration *)
(* file, until the kubelet calls Unprepare (or the claim is gone).         *)
HandedVHCUsIntact == \A c \in api : \A p \in VHCUs(handed[c]) : VHCUIntact(c, p)

(* The same, outside the four windows the code leaves open: neither the    *)
(* interleavings of prepare, unprepare, orphan cleanup and reconcile nor   *)
(* crashes and restarts take a vHCU from the claim that uses it.           *)
HandedVHCUsKept == NoIncident => HandedVHCUsIntact

(* The same, but for the window of finalizePreparedClaim's undo: a claim   *)
(* whose Prepare failed and was undone is not restored after a crash.      *)
UndoneNotRestored ==
    hist \cap {"dirtyCrash", "orphanCrash", "steal"} = {} => HandedVHCUsIntact

(* A running driver remembers every claim the kubelet holds, with exactly  *)
(* the devices it handed out, whatever was restarted in between.           *)
HandedInMap == up => \A c \in api : handed[c] # {} => prepared[c] = Entry(handed[c])

(* The same, when no crash came before a failed save was made good.        *)
HandedRemembered == "dirtyCrash" \notin hist => HandedInMap

(* Between critical sections the state file holds the prepared map, unless *)
(* the last save failed or a failed Prepare is being undone.               *)
StateFileCurrent ==
    (up /\ mu = Nobody /\ ~dirty /\ rpcPc \notin UndoPcs) => disk = prepared

(* No two prepared devices share a vHCU (activePreparedVDevices would let  *)
(* one claim's CDI spec override another's).                               *)
NoSharedVHCU ==
    NoIncident =>
      \A c, d \in Claims :
        \A p \in VHCUs(Devices(prepared, c)), q \in VHCUs(Devices(prepared, d)) :
          p.vdv = q.vdv => c = d /\ p = q

(* While the driver runs, a vHCU the kubelet holds has its CDI spec file,  *)
(* however many syncs on behalf of other claims failed half-way.           *)
HandedSpecsPresent ==
    up /\ NoIncident => \A c \in api : \A p \in VHCUs(handed[c]) : cdi[p.vdv] # NoFile

SpecsOf(card) == {f \in SpecFile : f.card = card}

(* When file writes do not fail, that file was built for a vHCU of its     *)
(* card: no file of an earlier owner of the index survives, not even one   *)
(* written by a Prepare that a crash cut short.                            *)
HandedSpecsRight ==
    up /\ NoIncident =>
      \A c \in api : \A p \in VHCUs(handed[c]) : cdi[p.vdv] \in SpecsOf(p.parent)

(* The same, and the file has the PCI address of the parent card, which is *)
(* "authoritative": resolvePCIForVDeviceDRI finds it in allocatable.       *)
HandedSpecsOfParent ==
    up /\ NoIncident =>
      \A c \in api : \A p \in VHCUs(handed[c]) :
        cdi[p.vdv] = [card |-> p.parent, listed |-> TRUE]

(* While the driver runs, every device the kubelet holds has its dynamic   *)
(* mark, though others come and go and their syncs fail half-way.          *)
HandedMarked ==
    up /\ NoIncident => \A c \in api : \A p \in handed[c] : p.mark \in marks

-----------------------------------------------------------------------------
(* Action properties                                                       *)

(* CleanupOrphanPreparedClaims destroys a vHCU only if it belongs to a     *)
(* claim that no longer exists: its mPend changes when it destroys one.    *)
DestroysOrphansOnly(v) ==
    (mPc = "orphan" /\ v \in mPend /\ mPend' # mPend
       /\ host[v] # NoDev /\ host'[v] = NoDev) => host[v].claim \notin api

(* The same as a property, outside the open windows ...                    *)
OrphanCleanupSafe == [][NoIncident => \A v \in VDevs : DestroysOrphansOnly(v)]_vars

(* ... and with the crash inside orphan cleanup.                           *)
OrphanCleanupCrashSafe == [][hist \subseteq {"orphanCrash"} =>
                               \A v \in VDevs : DestroysOrphansOnly(v)]_vars

(* When a repeated Prepare has repaired the artifacts of its claim and     *)
(* answers, their CDI spec files were built for them, and are whole.       *)
RepeatedPrepareRepairs ==
    [][(NoIncident /\ rpcPc = "repairMarks" /\ rpcPc' = "reply") =>
         \A p \in VHCUs(Devices(prepared, claim)) : cdi[p.vdv] \in SpecsOf(p.parent)]_vars

-----------------------------------------------------------------------------
(* Liveness                                                                *)

(* No vHCU stays on the host for ever that no claim in the map has and no  *)
(* Prepare is about to put there: crashes, failed rollbacks and failed     *)
(* destroys are made up for by reconcileStaleHostVDevices.                 *)
UntrackedReclaimed ==
    \A v \in VDevs :
      []<>(host[v] # NoDev => v \in preparedVDvIndSet(prepared) \cup InFlight)

(* A deleted claim is forgotten and its vHCUs are destroyed, for good, even*)
(* if the claim was deleted while it was being prepared.                   *)
OrphansReleased ==
    \A c \in Claims :
      [](c \notin api =>
           <>[](NoIncident => /\ prepared[c] = NoEntry
                              /\ \A v \in VDevs : host[v] # NoDev => host[v].claim # c))

(* A card with a prepared claim is not left out of the published slice for *)
(* good, so that later claims can share it.                                *)
ParentsRepublished ==
    \A d \in Cards : []<>(d \in preparedParentDeviceNames(prepared) => d \in published)

(* Every call of the kubelet comes to an end: the goroutines do not block  *)
(* each other, and no error path keeps the mutex.                          *)
CallsEnd == []<>(rpcPc = "idle")

-----------------------------------------------------------------------------
(* Refinement                                                              *)

Ledger == INSTANCE ClaimLedger WITH held <- handed, sound <- NoIncident

(* To the kubelet, the driver with its two goroutines, its files, its      *)
(* failures and its restarts is the ledger, outside the open windows: a    *)
(* claim has the devices it was given until it gives them back, and when   *)
(* Prepare is called again (a lost answer, a restarted kubelet) it is      *)
(* given the same ones, whatever happened to the driver in between.        *)
ImplementsLedger == Ledger!Spec

Register == INSTANCE PreparedRegister
            WITH Maps <- PreparedMap, Empty <- EmptyMap,
                 running <- mPc # "down", damaged <- FALSE

(* All that the driver demands of the state file is a register, which is   *)
(* what StateFile makes of it.                                             *)
UsesRegister == Register!Spec

=============================================================================
