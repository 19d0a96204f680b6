------------------------ MODULE HcuOwnershipProofs ------------------------
(***************************************************************************)
(* Who owns a vHCU. Outside the open windows (NoIncident) the vHCUs of     *)
(* prepared claims are kept, are not shared, and orphan cleanup destroys   *)
(* orphans only; the inductive invariant relates the host, the prepared    *)
(* map, the file and the lists both goroutines work through.               *)
(***************************************************************************)
EXTENDS HcuDriverProofs

(* The host does not have v for a claim other than c.                      *)
OwnedOrGone(c, v) == host[v] = NoDev \/ host[v].claim = c

AllIntact(c, devs) == \A p \in VHCUs(devs) : VHCUIntact(c, p)

Distinct(devs) == \A p, q \in VHCUs(devs) : p.vdv = q.vdv => p = q

(* Every vHCU in the map is intact, but for a claim being undone.          *)
MapInv ==
    mPc # "down" =>
      \A c \in Claims :
        IF c = claim /\ rpcPc = "undoDestroy"
        THEN \A p \in VHCUs(Devices(prepared, c)) : OwnedOrGone(c, p.vdv)
        ELSE AllIntact(c, Devices(prepared, c))

(* ... or in the file, which is all there is while the process is down.    *)
DiskInv == mPc = "down" => \A c \in Claims : AllIntact(c, Devices(disk, c))

(* No claim has one vHCU twice, in the map, the file or in hand.           *)
DistinctInv ==
    /\ \A c \in Claims : Distinct(Devices(prepared, c)) /\ Distinct(Devices(disk, c))
    /\ rpcPc \in {"loop", "found", "created", "finalMarks", "finalSave"} => Distinct(created)

(* The local list of the call in hand: its vHCUs are intact while they are *)
(* prepared, and while mu is held to release them. Afterwards they may be  *)
(* gone, destroyed by either goroutine, but are never another claim's.     *)
LocalInv ==
    /\ rpcPc \in {"loop", "found", "created", "finalMarks", "finalSave", "unprepMarks",
                  "unprepSave"} => AllIntact(claim, created)
    /\ rpcPc = "created" =>
         /\ host[fresh.vdv] = [card |-> fresh.res.dev, claim |-> claim]
         /\ fresh.vdv \in conf
         /\ fresh.vdv \notin VDvInds(created)
    /\ rpcPc \in {"undo", "sweep"} => \A v \in VDvInds(created) : OwnedOrGone(claim, v)
    /\ rpcPc \in {"rollback", "undoDestroy", "unprepDestroy"} =>
         \A v \in pend : OwnedOrGone(claim, v)

(* The claim in hand has no devices but the ones in the local list.        *)
AloneInv ==
    /\ rpcPc \in {"loop", "found", "created", "rollback", "unprepMarks", "unprepSave", "sweep",
                  "unprepDestroy"} => Devices(prepared, claim) = {}
    /\ (rpcPc \in {"loop", "found", "created", "finalMarks", "finalSave"} /\ ~dirty)
         => Devices(disk, claim) = {}
    /\ (rpcPc \in {"unprepMarks", "unprepSave"} /\ ~dirty)
         => Devices(disk, claim) \subseteq created

(* The vHCUs the call in hand works on without mu.                         *)
InHand ==
    CASE rpcPc \in {"loop", "found", "created"} -> InFlight
      [] rpcPc = "sweep" -> VDvInds(created)
      [] rpcPc \in {"rollback", "unprepDestroy"} -> pend
      [] OTHER -> {}

(* What orphan cleanup is about to destroy is a deleted claim's, in no     *)
(* entry and in nobody's hand, and still there unless a failed Prepare of  *)
(* that claim destroys it too.                                             *)
CleanupInv ==
    mPc = "orphan" =>
      \A v \in mPend :
        /\ v \notin preparedVDvIndSet(prepared)
        /\ host[v] # NoDev => host[v].claim \notin api
        /\ rpcPc = "undoDestroy" \/ (host[v] # NoDev /\ v \notin InHand)

(* What reconcile is about to destroy is in no entry.                      *)
ReconcileInv ==
    /\ mPc \in {"reconcile", "rmConf"} => mPend \cap preparedVDvIndSet(prepared) = {}
    /\ mPc \notin {"orphan", "reconcile", "rmConf"} => mPend = {}

(* All of it, for as long as no incident has happened.                     *)
OwnInv ==
    NoIncident =>
      /\ MapInv /\ DiskInv /\ DistinctInv /\ LocalInv /\ AloneInv
      /\ CleanupInv /\ ReconcileInv

-----------------------------------------------------------------------------
(* Operators                                                               *)

LEMMA VHCUsOf ==
    ASSUME NEW devs, NEW p
    PROVE  /\ p \in VHCUs(devs) <=> p \in devs /\ ~p.whole
           /\ p \in VHCUs(devs) => p.vdv \in VDvInds(devs)
BY DEF VHCUs, VDvInds

(* The devices of a claim follow from its entry.                           *)
LEMMA DevicesOf ==
    ASSUME NEW m, NEW n, NEW c
    PROVE  /\ m[c] = n[c] => Devices(m, c) = Devices(n, c)
           /\ \A devs : m[c] = Entry(devs) => Devices(m, c) = devs
           /\ m[c] = NoEntry => Devices(m, c) = {}
BY DEF Devices, Entry, NoEntry

LEMMA PreparedIndices ==
    ASSUME NEW m, NEW c \in Claims, NEW p \in VHCUs(Devices(m, c))
    PROVE  p.vdv \in preparedVDvIndSet(m)
BY DEF preparedVDvIndSet, VDvInds, VHCUs, AllDevices

LEMMA IndexPrepared ==
    ASSUME NEW m, NEW v \in preparedVDvIndSet(m)
    PROVE  \E c \in Claims : \E p \in VHCUs(Devices(m, c)) : p.vdv = v
BY DEF preparedVDvIndSet, VDvInds, VHCUs, AllDevices

(* A destruction touches one index and gives it to nobody.                 *)
LEMMA Destroyed ==
    ASSUME TypeOK, NEW v \in VDevs, NEW ok, DestroySingleVDevice(v, ok)
    PROVE  /\ \A w \in VDevs \ {v} : host'[w] = host[w] /\ (w \in conf' <=> w \in conf)
           /\ host'[v] = NoDev \/ (UNCHANGED <<host, conf>>)
BY DEF TypeOK, DestroySingleVDevice

(* A vHCU has one owner, and an intact one is on the host.                 *)
LEMMA IntactOwner ==
    ASSUME TypeOK, NEW c \in Claims, NEW devs \in SUBSET PreparedDevice,
           AllIntact(c, devs), NEW p \in VHCUs(devs)
    PROVE  /\ p.vdv \in VDevs /\ p.vdv \in conf
           /\ host[p.vdv] # NoDev /\ host[p.vdv].claim = c
<1>1. p \in PreparedDevice /\ VHCUIntact(c, p)
  BY DEF VHCUs, AllIntact
<1>2. p.vdv \in VDevs /\ p.parent \in Cards
  BY <1>1 DEF PreparedDevice
<1>3. host[p.vdv] = [card |-> p.parent, claim |-> c] /\ p.vdv \in conf
  BY <1>1 DEF VHCUIntact
<1>4. QED
  BY <1>2, <1>3, ConstantsAssumption

LEMMA IntactOwned ==
    ASSUME TypeOK, NEW c \in Claims, NEW devs \in SUBSET PreparedDevice,
           AllIntact(c, devs), NEW v \in VDvInds(devs)
    PROVE  host[v] # NoDev /\ host[v].claim = c
BY IntactOwner DEF VDvInds
-----------------------------------------------------------------------------
(* Steps                                                                   *)

(* The end of the process: the file has only devices that are intact, for  *)
(* the entry that is being changed is empty in the file, or still intact.  *)
LEMMA OwnEnds ==
    ASSUME IInv, OwnInv, NoIncident', ProcessEnds, mPc # "down"
    PROVE  OwnInv'
<1>1. /\ NoIncident /\ ~dirty /\ mPc \notin OrphanPcs /\ rpcPc \notin UndoPcs
      /\ mPc' = "down" /\ rpcPc' = "idle" /\ mPend' = {}
      /\ UNCHANGED <<host, conf, disk>>
  BY DEF ProcessEnds, NoIncident, Incidents, hostVars
<1>2. DiskInv'
  <2>1. SUFFICES ASSUME NEW c \in Claims PROVE AllIntact(c, Devices(disk, c))
    BY <1>1 DEF DiskInv, AllIntact, VHCUIntact
  <2>2. AllIntact(c, Devices(prepared, c))
    BY <1>1 DEF OwnInv, MapInv, UndoPcs
  <2>3. CASE disk[c] = prepared[c]
    BY <2>2, <2>3 DEF Devices
  <2>4. CASE c = claim /\ rpcPc \in {"finalMarks", "finalSave"}
    BY <1>1, <2>4 DEF OwnInv, AloneInv, AllIntact, VHCUs
  <2>5. CASE c = claim /\ rpcPc \in {"unprepMarks", "unprepSave"}
    BY <1>1, <2>5 DEF OwnInv, AloneInv, LocalInv, AllIntact, VHCUs
  <2>6. QED
    BY <1>1, <2>3, <2>4, <2>5 DEF IInv, FileInv, Unsaved
<1>3. DistinctInv'
  <2>1. \A c \in Claims : Devices(EmptyMap, c) = {}
    BY DEF Devices, EmptyMap, NoEntry
  <2>2. prepared' = EmptyMap
    BY DEF ProcessEnds
  <2>3. QED
    BY <1>1, <2>1, <2>2 DEF OwnInv, DistinctInv, Distinct, VHCUs
<1>4. QED
  BY <1>1, <1>2, <1>3
     DEF OwnInv, MapInv, LocalInv, AloneInv, CleanupInv, ReconcileInv

(* A Prepare that gives up in its loop has only vHCUs of its own in hand.  *)
LEMMA OwnRollback ==
    ASSUME IInv, OwnInv, NoIncident', TypeOK',
           rpcPc \in {"loop", "found", "created"},
           rollbackCreatedVDevices("rollback"),
           UNCHANGED <<host, conf>>
             \/ (rpcPc = "created" /\ \E ok : DestroySingleVDevice(fresh.vdv, ok)),
           UNCHANGED <<api, disk, dirty, prepared, mPc, mPend, claim, created, hist>>
    PROVE  OwnInv'
<1> USE DEF OwnInv, NoIncident
<1>1. /\ TypeOK /\ hist = {} /\ claim \in Claims /\ mPc # "down"
      /\ rpcPc' = "rollback" /\ pend' = VDvInds(created)
  BY DEF IInv, TypeOK, MutexInv, StartupPcs, rollbackCreatedVDevices, Goto
<1>2. created \in SUBSET PreparedDevice /\ AllIntact(claim, created)
  BY <1>1 DEF TypeOK, LocalInv
<1>3. rpcPc = "created" => /\ host[fresh.vdv] = [card |-> fresh.res.dev, claim |-> claim]
                           /\ fresh.vdv \notin VDvInds(created) /\ fresh.vdv \in VDevs
  BY <1>1 DEF LocalInv, TypeOK
<1>4. \A w \in VDevs :
        \/ host'[w] = host[w] /\ (w \in conf' <=> w \in conf)
        \/ rpcPc = "created" /\ w = fresh.vdv /\ host'[w] = NoDev
  BY <1>1, <1>3, Destroyed
<1>5. \A v \in VDvInds(created) : host[v] # NoDev /\ host[v].claim = claim
  BY <1>1, <1>2, IntactOwned
<1>6. Devices(prepared, claim) = {}
  BY <1>1 DEF AloneInv
<1>7. MapInv'
  <2>1. SUFFICES ASSUME NEW c \in Claims, NEW p \in VHCUs(Devices(prepared, c))
                 PROVE  VHCUIntact(c, p)'
    BY <1>1 DEF MapInv, AllIntact
  <2>2. c # claim
    BY <1>6 DEF VHCUs
  <2>3. Devices(prepared, c) \in SUBSET PreparedDevice /\ AllIntact(c, Devices(prepared, c))
    BY <1>1, <2>2, DevicesType DEF MapInv, TypeOK
  <2>4. p.vdv \in VDevs /\ host[p.vdv].claim = c /\ VHCUIntact(c, p)
    BY <1>1, <2>3, IntactOwner DEF AllIntact
  <2>5. QED
    BY <1>3, <1>4, <2>2, <2>4 DEF VHCUIntact
<1>8. LocalInv'
  BY <1>1, <1>4, <1>5 DEF LocalInv, OwnedOrGone, VDvInds, VHCUs, TypeOK, PreparedDevice
<1>9. CleanupInv'
  <2>1. SUFFICES ASSUME mPc = "orphan", NEW v \in mPend
                 PROVE  /\ v \notin preparedVDvIndSet(prepared)
                        /\ host'[v] # NoDev => host'[v].claim \notin api
                        /\ host'[v] # NoDev /\ v \notin VDvInds(created)
    BY <1>1 DEF CleanupInv, InHand
  <2>2. /\ v \notin preparedVDvIndSet(prepared) /\ v \notin InFlight
        /\ host[v] # NoDev /\ host[v].claim \notin api
    BY <1>1, <2>1 DEF CleanupInv, InHand
  <2>3. v \in VDevs
    BY <1>1 DEF TypeOK
  <2>4. QED
    BY <1>3, <1>4, <2>2, <2>3 DEF InFlight
<1>10. DiskInv' /\ DistinctInv' /\ AloneInv' /\ ReconcileInv'
  BY <1>1, <1>6 DEF DiskInv, DistinctInv, Distinct, AloneInv, ReconcileInv
<1>11. QED
  BY <1>7, <1>8, <1>9, <1>10

(* The steps of a call of the kubelet.                                     *)
LEMMA OwnRpc ==
    ASSUME IInv, OwnInv, NoIncident', RpcCall \/ RpcStep
    PROVE  OwnInv'
<1> USE DEF OwnInv, NoIncident, MapInv, DiskInv, DistinctInv, LocalInv, AloneInv,
            CleanupInv, ReconcileInv, InHand, InFlight, OwnedOrGone, AllIntact, VHCUIntact,
            Distinct, MutexInv, RpcHolds, MaintHolds, StartupPcs, UndoPcs, OrphanPcs,
            rpcFrame, stateVars, enumVars, mVars, hostVars, rpcVars, Goto
<1>0. TypeOK /\ TypeOK' /\ MutexInv /\ MutexInv' /\ Nobody \notin {"rpc", "maint"}
  BY InvRpc, ConstantsAssumption DEF IInv
<1>t. /\ prepared \in PreparedMap /\ disk \in PreparedMap
      /\ created \in SUBSET PreparedDevice
      /\ mPend \subseteq VDevs /\ pend \subseteq VDevs /\ conf \subseteq VDevs
      /\ rpcPc # "idle" => claim \in Claims /\ mPc # "down"
  BY <1>0 DEF TypeOK
<1>p. \A c \in Claims : /\ Devices(prepared, c) \in SUBSET PreparedDevice
                        /\ Devices(disk, c) \in SUBSET PreparedDevice
  BY <1>t, DevicesType
<1>h. hist = {}
  <2>1. UNCHANGED hist
    BY DEF RpcCall, RpcStep, PrepareResourceClaims, UnprepareResourceClaims, CheckExisting,
       RepairCDI, RepairMarks, Reply, SkipForeign, LookupFails, LookupDevice, prepareWholeCardDevice,
       CreateVHCU, AttachVHCU, AttachFails, FinalCDI, FinalMarks, FinalSave, Undo, UndoCDI,
       UndoMarks, UndoSave, UnprepCDI, UnprepMarks, UnprepSave, Sweep, DestroyNext,
       DestroyEnds
  <2>2. QED
    BY <2>1
<1>o. ASSUME rpcPc # "idle", AllIntact(claim, created)
      PROVE  \A v \in VDvInds(created) : host[v] # NoDev /\ host[v].claim = claim
  BY <1>0, <1>t, <1>o, IntactOwned
<1>1. ASSUME NEW c \in Claims, PrepareResourceClaims(c) PROVE OwnInv'
  BY <1>0, <1>h, <1>1 DEF PrepareResourceClaims
<1>2. ASSUME NEW c \in Claims, UnprepareResourceClaims(c) PROVE OwnInv'
  BY <1>0, <1>h, <1>2 DEF UnprepareResourceClaims
<1>3. CASE CheckExisting
  <2>1. AloneInv'
    <3>1. ~dirty => disk[claim] = prepared[claim]
      BY <1>0, <1>t, <1>3 DEF CheckExisting, IInv, FileInv, Unsaved
    <3>2. ~dirty => Devices(disk, claim) = Devices(prepared, claim)
      BY <3>1 DEF Devices
    <3>3. QED
      BY <1>0, <1>3, <3>2 DEF CheckExisting
  <2>2. MapInv' /\ DiskInv' /\ DistinctInv' /\ LocalInv' /\ CleanupInv' /\ ReconcileInv'
    BY <1>0, <1>h, <1>3 DEF CheckExisting, VHCUs, VDvInds
  <2>3. QED
    BY <2>1, <2>2
<1>4. CASE RepairCDI
  BY <1>0, <1>h, <1>4 DEF RepairCDI, Done
<1>5. CASE RepairMarks
  BY <1>0, <1>h, <1>5 DEF RepairMarks, Done
<1>6. CASE Reply
  BY <1>0, <1>h, <1>6 DEF Reply, Done
<1>7. ASSUME NEW r \in todo, SkipForeign(r) PROVE OwnInv'
  BY <1>0, <1>h, <1>7 DEF SkipForeign
<1>8. ASSUME NEW r \in todo, LookupFails(r) PROVE OwnInv'
  BY <1>0, <1>8, OwnRollback DEF LookupFails
<1>26. ASSUME NEW r \in todo, LookupDevice(r) PROVE OwnInv'
  BY <1>0, <1>t, <1>h, <1>26 DEF LookupDevice
<1>9. CASE prepareWholeCardDevice
  <2>1. CASE attachDynamicMark(fresh.res, TRUE, 0) /\ rpcPc' = "loop" /\ pend' = pend
    <3>0. PICK p : p.whole /\ created' = created \cup {p}
      BY <2>1 DEF attachDynamicMark, Record
    <3>1. /\ VHCUs(created') = VHCUs(created) /\ rpcPc = "found" /\ rpcPc' = "loop"
          /\ UNCHANGED <<api, host, conf, disk, dirty, prepared, mPc, mPend, claim, hist>>
      <4>1. VHCUs(created') = VHCUs(created)
        BY <3>0 DEF VHCUs
      <4>2. pend' = pend /\ rpcPc' = "loop"
        BY <2>1
      <4>3. QED
        BY <1>9, <4>1, <4>2 DEF prepareWholeCardDevice
    <3>2. VDvInds(created') = VDvInds(created)
      BY <3>1 DEF VDvInds
    <3>3. QED
      BY <1>0, <1>h, <3>1, <3>2
  <2>2. CASE rollbackCreatedVDevices("rollback")
    BY <1>0, <1>9, <2>2, OwnRollback DEF prepareWholeCardDevice, rollbackCreatedVDevices
  <2>3. QED
    BY <1>9, <2>1, <2>2 DEF prepareWholeCardDevice
<1>10. CASE CreateVHCU
  <2>1. ASSUME NEW v \in VDevs, CreateVDevices(fresh.res.dev, v),
               fresh' = [res |-> fresh.res, vdv |-> v], rpcPc' = "created"
        PROVE  OwnInv'
    <3>1. /\ rpcPc = "found" /\ host[v] = NoDev /\ mPc # "down"
          /\ host' = [host EXCEPT ![v] = [card |-> fresh.res.dev, claim |-> claim]]
          /\ conf' = conf \cup {v}
          /\ UNCHANGED <<api, disk, dirty, prepared, mPc, mPend, claim, created, hist>>
      BY <1>0, <1>10, <2>1 DEF CreateVHCU, CreateVDevices
    <3>2. /\ \A w \in VDevs \ {v} : host'[w] = host[w]
          /\ host'[v] = [card |-> fresh.res.dev, claim |-> claim]
      BY <1>0, <3>1 DEF TypeOK
    <3>3. ASSUME NEW c \in Claims, NEW devs \in SUBSET PreparedDevice, AllIntact(c, devs)
          PROVE  AllIntact(c, devs)' /\ v \notin VDvInds(devs)
      <4>1. \A p \in VHCUs(devs) : p.vdv \in VDevs /\ p.vdv # v /\ VHCUIntact(c, p)
        BY <1>0, <3>1, <3>3, IntactOwner
      <4>2. QED
        BY <3>1, <3>2, <4>1 DEF VDvInds
    <3>4. MapInv'
      BY <1>p, <1>h, <2>1, <3>1, <3>3
    <3>5. LocalInv'
      BY <1>t, <1>h, <2>1, <3>1, <3>2, <3>3
    <3>6. CleanupInv'
      BY <1>t, <1>h, <2>1, <3>1, <3>2
    <3>7. DiskInv' /\ DistinctInv' /\ AloneInv' /\ ReconcileInv'
      BY <1>h, <2>1, <3>1
    <3>8. QED
      BY <3>4, <3>5, <3>6, <3>7
  <2>2. CASE rollbackCreatedVDevices("rollback") /\ UNCHANGED hostVars
    BY <1>0, <1>10, <2>2, OwnRollback DEF CreateVHCU
  <2>3. QED
    BY <1>10, <2>1, <2>2 DEF CreateVHCU
<1>11. CASE AttachVHCU
  <2>1. PICK holder \in MarkHolders(claim) :
          created' = created \cup {Record(fresh.res, FALSE, fresh.vdv, holder)}
    BY <1>11 DEF AttachVHCU, attachDynamicMark
  <2> DEFINE new == Record(fresh.res, FALSE, fresh.vdv, holder)
  <2>2. /\ new.vdv = fresh.vdv /\ new.parent = fresh.res.dev /\ ~new.whole
    BY DEF Record
  <2> HIDE DEF new
  <2>3. VHCUs(created') = VHCUs(created) \cup {new}
    BY <2>1, <2>2 DEF VHCUs, new
  <2>4. VDvInds(created') = VDvInds(created) \cup {fresh.vdv}
    BY <2>2, <2>3 DEF VDvInds
  <2>5. /\ rpcPc = "created" /\ rpcPc' = "loop"
        /\ UNCHANGED <<api, host, conf, disk, dirty, prepared, mPc, mPend, claim, hist>>
    BY <1>11 DEF AttachVHCU
  <2>6. Distinct(created')
    BY <1>h, <2>2, <2>3, <2>5, VHCUsOf
  <2>7. LocalInv'
    BY <1>h, <2>2, <2>3, <2>5
  <2>8. CleanupInv'
    BY <1>h, <2>4, <2>5
  <2>9. MapInv' /\ DiskInv' /\ DistinctInv' /\ AloneInv' /\ ReconcileInv'
    BY <1>h, <2>5, <2>6
  <2>10. QED
    BY <2>7, <2>8, <2>9
<1>12. CASE AttachFails
  BY <1>0, <1>12, OwnRollback DEF AttachFails
<1>13. CASE FinalCDI
  <2>1. /\ prepared' = [prepared EXCEPT ![claim] = Entry(created)]
        /\ rpcPc = "loop" /\ rpcPc' \in {"finalMarks", "undo"}
        /\ mPc # "orphan" /\ mPc \notin {"reconcile", "rmConf"}
        /\ UNCHANGED <<api, host, conf, disk, dirty, mPc, mPend, claim, created, hist>>
    BY <1>0, <1>13 DEF FinalCDI
  <2>2. \A c \in Claims : Devices(prepared', c) = IF c = claim THEN created
                                                  ELSE Devices(prepared, c)
    <3>1. \A c \in Claims : prepared'[c] = IF c = claim THEN Entry(created) ELSE prepared[c]
      BY <1>t, <2>1 DEF PreparedMap
    <3>2. QED
      BY <3>1, DevicesOf
  <2>3. \A v \in VDvInds(created) : host[v].claim = claim
    BY <1>h, <1>o, <2>1
  <2>4. QED
    BY <1>h, <2>1, <2>2, <2>3
<1>14. CASE FinalMarks
  <2>1. \A v \in VDvInds(created) : host[v].claim = claim
    BY <1>h, <1>o, <1>14 DEF FinalMarks
  <2>2. QED
    BY <1>0, <1>h, <1>14, <2>1 DEF FinalMarks
<1>15. CASE FinalSave
  BY <1>0, <1>h, <1>15 DEF FinalSave, savePreparedState
<1>16. CASE Undo
  <2>1. /\ rpcPc = "undo" /\ rpcPc' = "undoDestroy" /\ pend' = VDvInds(created)
        /\ UNCHANGED <<api, host, conf, disk, dirty, prepared, mPc, mPend, claim, hist>>
    BY <1>16 DEF Undo, rollbackCreatedVDevices
  <2>2. \A p \in VHCUs(Devices(prepared, claim)) : OwnedOrGone(claim, p.vdv)
    BY <1>0, <1>t, <1>p, <1>h, <2>1, IntactOwner
  <2>3. QED
    BY <1>h, <2>1, <2>2
<1>17. CASE UndoCDI
  <2>1. /\ prepared' = [prepared EXCEPT ![claim] = NoEntry]
        /\ rpcPc = "undoDestroy" /\ rpcPc' = "undoMarks"
        /\ mPc # "orphan" /\ mPc \notin {"reconcile", "rmConf"}
        /\ UNCHANGED <<api, host, conf, disk, dirty, mPc, mPend, claim, created, hist>>
    BY <1>0, <1>17 DEF UndoCDI
  <2>2. \A c \in Claims : Devices(prepared', c) = IF c = claim THEN {}
                                                  ELSE Devices(prepared, c)
    <3>1. \A c \in Claims : prepared'[c] = IF c = claim THEN NoEntry ELSE prepared[c]
      BY <1>t, <2>1 DEF PreparedMap
    <3>2. QED
      BY <3>1, DevicesOf
  <2>3. QED
    BY <1>h, <2>1, <2>2 DEF VHCUs
<1>18. CASE UndoMarks
  BY <1>0, <1>h, <1>18 DEF UndoMarks
<1>19. CASE UndoSave
  BY <1>0, <1>h, <1>19 DEF UndoSave, savePreparedState, Done
<1>20. CASE UnprepCDI
  <2>1. /\ prepared' = [prepared EXCEPT ![claim] = NoEntry]
        /\ created' = Devices(prepared, claim)
        /\ rpcPc = "unprep" /\ rpcPc' = "unprepMarks"
        /\ mPc \notin {"orphan", "orphanMarks", "orphanSave", "reconcile", "rmConf"}
        /\ UNCHANGED <<api, host, conf, disk, dirty, mPc, mPend, claim, hist>>
    BY <1>0, <1>20 DEF UnprepCDI
  <2>2. \A c \in Claims : Devices(prepared', c) = IF c = claim THEN {}
                                                  ELSE Devices(prepared, c)
    <3>1. \A c \in Claims : prepared'[c] = IF c = claim THEN NoEntry ELSE prepared[c]
      BY <1>t, <2>1 DEF PreparedMap
    <3>2. QED
      BY <3>1, DevicesOf
  <2>3. ~dirty => Devices(disk, claim) = created'
    <3>1. ~dirty => disk[claim] = prepared[claim]
      BY <1>t, <2>1 DEF IInv, FileInv, Unsaved
    <3>2. QED
      BY <2>1, <3>1 DEF Devices
  <2>4. AllIntact(claim, created')
    BY <1>t, <1>h, <2>1
  <2>5. QED
    BY <1>h, <1>t, <2>1, <2>2, <2>3, <2>4 DEF VHCUs
<1>21. CASE UnprepMarks
  BY <1>0, <1>h, <1>21 DEF UnprepMarks
<1>22. CASE UnprepSave
  <2>1. \A v \in VDvInds(created) : host[v].claim = claim
    BY <1>h, <1>o, <1>22 DEF UnprepSave
  <2>2. QED
    BY <1>0, <1>h, <1>22, <2>1 DEF UnprepSave, savePreparedState
<1>23. CASE Sweep
  BY <1>0, <1>h, <1>23 DEF Sweep
<1>24. ASSUME NEW v \in pend, DestroyNext(v) PROVE OwnInv'
  <2>1. /\ rpcPc \in {"rollback", "undoDestroy", "unprepDestroy"} /\ v \in VDevs
        /\ OwnedOrGone(claim, v) /\ pend' = pend \ {v} /\ mPc # "down"
        /\ UNCHANGED <<api, disk, dirty, prepared, rpcPc, mPc, mPend, claim, created, hist>>
    BY <1>t, <1>h, <1>24 DEF DestroyNext
  <2>2. /\ \A w \in VDevs \ {v} : host'[w] = host[w] /\ (w \in conf' <=> w \in conf)
        /\ host'[v] = NoDev \/ (UNCHANGED <<host, conf>>)
    BY <1>0, <2>1, <1>24, Destroyed DEF DestroyNext
  <2>3. MapInv'
    <3>1. SUFFICES ASSUME NEW c \in Claims, NEW p \in VHCUs(Devices(prepared, c))
                   PROVE  IF c = claim /\ rpcPc = "undoDestroy" THEN OwnedOrGone(c, p.vdv)'
                          ELSE VHCUIntact(c, p)'
      BY <2>1
    <3>2. p.vdv \in VDevs
      BY <1>p DEF VHCUs, PreparedDevice
    <3>3. CASE c = claim
      BY <1>h, <2>1, <2>2, <3>2, <3>3 DEF VHCUs
    <3>4. CASE c # claim
      <4>1. host[p.vdv] # NoDev /\ host[p.vdv].claim = c /\ VHCUIntact(c, p)
        BY <1>0, <1>p, <1>h, <2>1, <3>4, IntactOwner
      <4>2. QED
        BY <2>1, <2>2, <3>2, <3>4, <4>1
    <3>5. QED
      BY <3>3, <3>4
  <2>4. LocalInv'
    BY <1>t, <1>h, <2>1, <2>2
  <2>5. CleanupInv'
    BY <1>t, <1>h, <2>1, <2>2
  <2>6. DiskInv' /\ DistinctInv' /\ AloneInv' /\ ReconcileInv'
    BY <1>h, <2>1
  <2>7. QED
    BY <2>3, <2>4, <2>5, <2>6
<1>25. CASE DestroyEnds
  BY <1>0, <1>h, <1>25 DEF DestroyEnds, Done
<1>27. QED
  BY <1>1, <1>2, <1>3, <1>4, <1>5, <1>6, <1>7, <1>8, <1>9, <1>10, <1>11, <1>12, <1>13,
     <1>14, <1>15, <1>16, <1>17, <1>18, <1>19, <1>20, <1>21, <1>22, <1>23, <1>24, <1>25,
     <1>26 DEF RpcCall, RpcStep

(* The steps of startup and of the maintenance goroutine.                  *)
LEMMA OwnMaint ==
    ASSUME IInv, OwnInv, NoIncident', MaintStep
    PROVE  OwnInv'
<1> USE DEF OwnInv, NoIncident, MapInv, DiskInv, DistinctInv, LocalInv, AloneInv,
            CleanupInv, ReconcileInv, InHand, InFlight, OwnedOrGone, AllIntact, VHCUIntact,
            Distinct, MutexInv, RpcHolds, MaintHolds, StartupPcs, UndoPcs, OrphanPcs,
            stepFrame, kubeVars, enumVars, mVars, hostVars, rpcVars
<1>0. TypeOK /\ TypeOK' /\ MutexInv /\ MutexInv' /\ Nobody \notin {"rpc", "maint"}
  BY InvMaint, ConstantsAssumption DEF IInv
<1>t. /\ prepared \in PreparedMap /\ disk \in PreparedMap
      /\ created \in SUBSET PreparedDevice
      /\ mPend \subseteq VDevs /\ pend \subseteq VDevs /\ conf \subseteq VDevs
      /\ rpcPc # "idle" => claim \in Claims
  BY <1>0 DEF TypeOK
<1>p. \A c \in Claims : /\ Devices(prepared, c) \in SUBSET PreparedDevice
                        /\ Devices(disk, c) \in SUBSET PreparedDevice
  BY <1>t, DevicesType
<1>d. ASSUME NEW v \in mPend, NEW ok, DestroySingleVDevice(v, ok)
      PROVE  /\ \A w \in VDevs \ {v} : host'[w] = host[w] /\ (w \in conf' <=> w \in conf)
             /\ host'[v] = NoDev \/ (UNCHANGED <<host, conf>>)
  BY <1>0, <1>t, <1>d, Destroyed
<1>e. ASSUME mPc # "down", ProcessEnds PROVE OwnInv'
  BY <1>e, OwnEnds
<1>1. CASE Start
  <2>1. \A v \in mPend' : v \notin preparedVDvIndSet(prepared')
    BY <1>1 DEF Start, Untracked
  <2>2. \A c \in Claims : Devices(prepared', c) = Devices(disk, c)
    BY <1>1 DEF Start
  <2>3. rpcPc = "idle" /\ rpcPc' = "idle" /\ mPc = "down" /\ mPc' = "reconcile"
    BY <1>0, <1>1 DEF Start
  <2>4. hist = {} /\ UNCHANGED <<host, conf, disk>>
    BY <1>1 DEF Start
  <2>5. QED
    BY <2>1, <2>2, <2>3, <2>4
<1>2. CASE CleanupOrphanPreparedClaims
  BY <1>0, <1>2 DEF CleanupOrphanPreparedClaims
<1>3. ASSUME NEW c \in orphans, OrphanDrop(c) PROVE OwnInv'
  <2>1. /\ c \in Claims /\ c \notin api /\ hist = {} /\ mu = "maint"
    BY <1>0, <1>3 DEF IInv, OrphanInv, OrphanDrop, TypeOK
  <2>2. /\ prepared' = [prepared EXCEPT ![c] = NoEntry]
        /\ mPend' = VDvInds(Devices(prepared, c)) /\ mPend = {}
        /\ mPc = "orphan" /\ mPc' = "orphan" /\ rpcPc \notin RpcHolds
        /\ UNCHANGED <<api, host, conf, disk, dirty, rpcPc, claim, created, fresh, pend, hist>>
    BY <1>0, <1>3, <2>1 DEF OrphanDrop
  <2>3. \A d \in Claims : Devices(prepared', d) = IF d = c THEN {} ELSE Devices(prepared, d)
    <3>1. \A d \in Claims : prepared'[d] = IF d = c THEN NoEntry ELSE prepared[d]
      BY <1>t, <2>1, <2>2 DEF PreparedMap
    <3>2. QED
      BY <3>1, DevicesOf
  <2>4. ASSUME NEW v \in mPend'
        PROVE  /\ OwnedOrGone(c, v)
               /\ host[v] # NoDev \/ (c = claim /\ rpcPc = "undoDestroy")
    <3>1. PICK p \in VHCUs(Devices(prepared, c)) : v = p.vdv
      BY <2>2, <2>4 DEF VDvInds
    <3>2. CASE c = claim /\ rpcPc = "undoDestroy"
      BY <2>1, <2>2, <3>1, <3>2
    <3>3. CASE ~(c = claim /\ rpcPc = "undoDestroy")
      BY <1>0, <1>p, <2>1, <2>2, <3>1, <3>3, IntactOwner
    <3>4. QED
      BY <3>2, <3>3
  <2>5. ASSUME NEW v \in mPend' PROVE v \notin preparedVDvIndSet(prepared')
    <3>1. SUFFICES ASSUME v \in preparedVDvIndSet(prepared') PROVE FALSE
      OBVIOUS
    <3>2. PICK d \in Claims : \E p \in VHCUs(Devices(prepared', d)) : p.vdv = v
      BY <3>1, IndexPrepared
    <3>3. d # c /\ \E p \in VHCUs(Devices(prepared, d)) : p.vdv = v
      BY <2>3, <3>2 DEF VHCUs
    <3>4. CASE d = claim /\ rpcPc = "undoDestroy"
      BY <2>1, <2>2, <2>4, <2>5, <3>3, <3>4
    <3>5. CASE ~(d = claim /\ rpcPc = "undoDestroy")
      BY <1>0, <1>p, <2>1, <2>2, <2>4, <2>5, <3>3, <3>5, IntactOwner
    <3>6. QED
      BY <3>4, <3>5
  <2>6. CleanupInv'
    <3>1. SUFFICES ASSUME NEW v \in mPend', rpcPc # "undoDestroy"
                   PROVE  host[v] # NoDev /\ v \notin InHand
      BY <2>1, <2>2, <2>4, <2>5
    <3>2. host[v] # NoDev /\ host[v].claim = c
      BY <2>4, <3>1
    <3>3. CASE rpcPc \in {"loop", "found", "created"}
      <4>1. c # claim
        BY <2>1, <2>2, <3>1, <3>3 DEF VDvInds, VHCUs
      <4>2. \A w \in VDvInds(created) : host[w].claim = claim
        BY <1>0, <1>t, <2>1, <3>3, IntactOwned
      <4>3. rpcPc = "created" => host[fresh.vdv].claim = claim
        BY <2>1
      <4>4. QED
        BY <3>2, <3>3, <4>1, <4>2, <4>3
    <3>4. CASE rpcPc \in {"sweep", "rollback", "unprepDestroy"}
      <4>1. c # claim
        BY <2>1, <2>2, <3>1, <3>4 DEF VDvInds, VHCUs
      <4>2. QED
        BY <2>1, <3>2, <3>4, <4>1
    <3>5. QED
      BY <3>2, <3>3, <3>4
  <2>7. MapInv'
    BY <2>1, <2>2, <2>3 DEF VHCUs
  <2>8. DistinctInv'
    BY <2>1, <2>2, <2>3 DEF VHCUs
  <2>9. AloneInv'
    BY <2>1, <2>2, <2>3, <1>t
  <2>10. DiskInv' /\ LocalInv' /\ ReconcileInv'
    BY <2>1, <2>2
  <2>11. QED
    BY <2>6, <2>7, <2>8, <2>9, <2>10
<1>4. ASSUME NEW v \in mPend, OrphanDestroy(v) PROVE OwnInv'
  <2>1. /\ mPc = "orphan" /\ mPc' = "orphan" /\ mPend' = mPend \ {v} /\ v \in VDevs
        /\ hist = {} /\ rpcPc \notin RpcHolds
        /\ UNCHANGED <<api, disk, dirty, prepared, rpcPc, claim, created, fresh, pend, hist>>
    BY <1>0, <1>t, <1>4 DEF OrphanDestroy
  <2>2. /\ \A w \in VDevs \ {v} : host'[w] = host[w] /\ (w \in conf' <=> w \in conf)
        /\ host'[v] = NoDev \/ (UNCHANGED <<host, conf>>)
    BY <1>4, <1>d DEF OrphanDestroy
  <2>3. v \notin preparedVDvIndSet(prepared) /\ (rpcPc # "undoDestroy" => v \notin InHand)
    BY <2>1
  <2>4. MapInv'
    <3>1. SUFFICES ASSUME NEW c \in Claims, NEW p \in VHCUs(Devices(prepared, c))
                   PROVE  IF c = claim /\ rpcPc = "undoDestroy" THEN OwnedOrGone(c, p.vdv)'
                          ELSE VHCUIntact(c, p)'
      BY <2>1
    <3>2. p.vdv \in VDevs \ {v}
      BY <1>p, <2>3, PreparedIndices DEF VHCUs, PreparedDevice
    <3>3. QED
      BY <2>1, <2>2, <3>2
  <2>5. LocalInv'
    <3>1. \A p \in VHCUs(created) : p.vdv \in VDevs
      BY <1>t DEF VHCUs, PreparedDevice
    <3>2. /\ VDvInds(created) \subseteq VDevs
          /\ \A p \in VHCUs(created) : p.vdv \in VDvInds(created)
      BY <3>1 DEF VDvInds
    <3>3. rpcPc = "created" => fresh.vdv \in VDevs
      BY <1>0 DEF TypeOK
    <3>4. QED
      BY <1>t, <2>1, <2>2, <2>3, <3>1, <3>2, <3>3
  <2>6. CleanupInv'
    BY <1>t, <2>1, <2>2
  <2>7. DiskInv' /\ DistinctInv' /\ AloneInv' /\ ReconcileInv'
    BY <2>1
  <2>8. QED
    BY <2>4, <2>5, <2>6, <2>7
<1>5. CASE OrphanCDI
  BY <1>0, <1>5 DEF OrphanCDI
<1>6. CASE OrphanMarks
  BY <1>0, <1>6 DEF OrphanMarks
<1>7. CASE OrphanSave
  BY <1>0, <1>7 DEF OrphanSave, savePreparedState
<1>8. CASE RefreshAllocatable
  <2>1. \A v \in mPend' : v \notin preparedVDvIndSet(prepared)
    BY <1>8 DEF RefreshAllocatable, Untracked
  <2>2. QED
    BY <1>0, <1>8, <2>1 DEF RefreshAllocatable
<1>9. ASSUME NEW v \in mPend, ReconcileDestroy(v) PROVE OwnInv'
  <2>1. /\ mPc = "reconcile" /\ mPc' \in {"reconcile", "rmConf"}
        /\ mPend' = mPend \ {v} /\ v \in VDevs
        /\ hist = {} /\ rpcPc \notin RpcHolds
        /\ UNCHANGED <<api, disk, dirty, prepared, rpcPc, claim, created, fresh, pend, hist>>
    BY <1>0, <1>t, <1>9 DEF ReconcileDestroy
  <2>2. /\ \A w \in VDevs \ {v} : host'[w] = host[w] /\ (w \in conf' <=> w \in conf)
        /\ host'[v] = NoDev \/ (UNCHANGED <<host, conf>>)
    BY <1>9, <1>d DEF ReconcileDestroy
  <2>3. v \notin InFlight \/ (UNCHANGED <<host, conf>>)
    BY <1>9, <2>1 DEF ReconcileDestroy, DestroySingleVDevice
  <2>4. MapInv'
    <3>1. SUFFICES ASSUME NEW c \in Claims, NEW p \in VHCUs(Devices(prepared, c))
                   PROVE  IF c = claim /\ rpcPc = "undoDestroy" THEN OwnedOrGone(c, p.vdv)'
                          ELSE VHCUIntact(c, p)'
      BY <2>1
    <3>2. p.vdv \in VDevs \ {v}
      BY <1>p, <2>1, PreparedIndices DEF VHCUs, PreparedDevice
    <3>3. QED
      BY <2>1, <2>2, <3>2
  <2>5. LocalInv'
    <3>1. \A p \in VHCUs(created) : p.vdv \in VDevs
      BY <1>t DEF VHCUs, PreparedDevice
    <3>2. /\ VDvInds(created) \subseteq VDevs
          /\ \A p \in VHCUs(created) : p.vdv \in VDvInds(created)
      BY <3>1 DEF VDvInds
    <3>3. rpcPc = "created" => fresh.vdv \in VDevs
      BY <1>0 DEF TypeOK
    <3>4. QED
      BY <1>t, <2>1, <2>2, <2>3, <3>1, <3>2, <3>3
  <2>6. DiskInv' /\ DistinctInv' /\ AloneInv' /\ CleanupInv' /\ ReconcileInv'
    BY <2>1
  <2>7. QED
    BY <2>4, <2>5, <2>6
<1>10. CASE ReconcileRmConf
  <2>1. /\ mPc = "rmConf" /\ mPc' = "reconcile" /\ host[rmConf] = NoDev
        /\ conf' = conf \ {rmConf} /\ hist = {} /\ rpcPc \notin RpcHolds
        /\ UNCHANGED <<api, host, disk, dirty, prepared, mPend, rpcPc, claim, created, fresh,
                       pend, hist>>
    BY <1>0, <1>10 DEF ReconcileRmConf
  <2>2. ASSUME NEW c \in Claims, NEW devs \in SUBSET PreparedDevice, AllIntact(c, devs)
        PROVE  AllIntact(c, devs)'
    BY <1>0, <2>1, <2>2, IntactOwner
  <2>3. MapInv'
    BY <1>p, <2>1, <2>2
  <2>4. rpcPc = "created" => host[fresh.vdv] # NoDev
    <3>1. rpcPc = "created" => fresh.res.dev \in Cards
      BY <1>0 DEF TypeOK, Result
    <3>2. rpcPc = "created" => host[fresh.vdv] = [card |-> fresh.res.dev, claim |-> claim]
      BY <2>1
    <3>3. QED
      BY <1>t, <3>1, <3>2, ConstantsAssumption
  <2>5. LocalInv'
    BY <1>t, <2>1, <2>2, <2>4
  <2>6. DiskInv' /\ DistinctInv' /\ AloneInv' /\ CleanupInv' /\ ReconcileInv'
    BY <2>1
  <2>7. QED
    BY <2>3, <2>5, <2>6
<1>11. CASE Enumerate
  <2>1. CASE ProcessEnds
    BY <1>11, <1>e, <2>1 DEF Enumerate
  <2>2. CASE ~ProcessEnds
    BY <1>0, <1>11, <2>2 DEF Enumerate
  <2>3. QED
    BY <2>1, <2>2
<1>12. CASE WriteBase
  <2>1. CASE ProcessEnds
    BY <1>12, <1>e, <2>1 DEF WriteBase
  <2>2. CASE ~ProcessEnds
    <3>1. /\ mPc = "base" /\ mPc' \in {"publish", "restore"}
          /\ UNCHANGED <<api, host, conf, disk, dirty, prepared, rpcPc, claim, created, fresh,
                         pend, mPend, hist>>
      BY <1>12, <2>2 DEF WriteBase
    <3>2. QED
      BY <3>1
  <2>3. QED
    BY <2>1, <2>2
<1>13. CASE RestoreCDI
  BY <1>0, <1>13 DEF RestoreCDI
<1>14. CASE RestoreMarks
  BY <1>0, <1>14 DEF RestoreMarks
<1>15. CASE PublishResources
  <2>1. CASE ProcessEnds
    BY <1>15, <1>e, <2>1 DEF PublishResources
  <2>2. CASE ~ProcessEnds
    BY <1>0, <1>15, <2>2 DEF PublishResources
  <2>3. QED
    BY <2>1, <2>2
<1>16. QED
  BY <1>1, <1>2, <1>3, <1>4, <1>5, <1>6, <1>7, <1>8, <1>9, <1>10, <1>11, <1>12,
     <1>13, <1>14, <1>15 DEF MaintStep

LEMMA OwnInit == Init => OwnInv
<1>1. Init => \A c \in Claims : Devices(prepared, c) = {} /\ Devices(disk, c) = {}
  BY DEF Init, EmptyMap, Devices, NoEntry
<1>2. QED
  BY <1>1
     DEF Init, OwnInv, MapInv, DiskInv, DistinctInv, LocalInv, AloneInv, CleanupInv,
         ReconcileInv, AllIntact, Distinct, VHCUs

(* Incidents are not forgotten: a search for states without one may stop   *)
(* where the first has happened.                                           *)
LEMMA HistGrows ==
    ASSUME [Next]_vars
    PROVE  hist \subseteq hist'
<1>1. CASE RpcCall \/ RpcStep
  BY <1>1
     DEF rpcFrame, RpcCall, RpcStep, PrepareResourceClaims, UnprepareResourceClaims,
       CheckExisting,
       RepairCDI, RepairMarks, Reply, SkipForeign, LookupFails, LookupDevice, prepareWholeCardDevice,
       CreateVHCU, AttachVHCU, AttachFails, FinalCDI, FinalMarks, FinalSave, Undo, UndoCDI,
       UndoMarks, UndoSave, UnprepCDI, UnprepMarks, UnprepSave, Sweep, DestroyNext,
       DestroyEnds
<1>2. CASE MaintStep
  BY <1>2
     DEF MaintStep, Start, CleanupOrphanPreparedClaims, OrphanDrop, OrphanDestroy, OrphanCDI,
       OrphanMarks, OrphanSave, RefreshAllocatable, ReconcileDestroy, ReconcileRmConf,
       Enumerate, WriteBase, RestoreCDI, RestoreMarks, PublishResources, ProcessEnds
<1>3. CASE (\E c \in api : DeleteClaim(c)) \/ Crash \/ UNCHANGED vars
  BY <1>3 DEF DeleteClaim, Crash, ProcessEnds, vars
<1>4. QED
  BY <1>1, <1>2, <1>3 DEF Next

LEMMA OwnNext ==
    ASSUME IInv, OwnInv, [Next]_vars
    PROVE  OwnInv'
<1>1. SUFFICES ASSUME NoIncident' PROVE OwnInv'
  BY DEF OwnInv
<1>2. CASE RpcCall \/ RpcStep
  BY <1>1, <1>2, OwnRpc
<1>3. CASE MaintStep
  BY <1>1, <1>3, OwnMaint
<1>4. CASE (\E c \in api : DeleteClaim(c)) \/ UNCHANGED vars
  <2>1. /\ UNCHANGED <<host, conf, disk, dirty, prepared, rpcPc, claim, created, fresh, pend,
                       mPc, mPend, hist>>
        /\ api' \subseteq api
    BY <1>4 DEF DeleteClaim, vars, hostVars, cdiVars, enumVars, rpcVars, mVars
  <2>2. QED
    BY <2>1
       DEF OwnInv, NoIncident, MapInv, DiskInv, DistinctInv, LocalInv, AloneInv, CleanupInv,
           ReconcileInv, InHand, InFlight, OwnedOrGone, AllIntact, VHCUIntact, Distinct
<1>5. CASE Crash
  BY <1>1, <1>5, OwnEnds DEF Crash
<1>6. QED
  BY <1>2, <1>3, <1>4, <1>5 DEF Next

(* Outside the open windows, ownership of vHCUs is as described throughout.*)
THEOREM OwnershipCorrect == Spec => []OwnInv
<1>1. Init /\ IInv => OwnInv
  BY OwnInit
<1>2. IInv /\ OwnInv /\ [Next]_vars => OwnInv'
  BY OwnNext
<1>3. QED
  BY <1>1, <1>2, InvCorrect, PTL DEF Spec

(* What was handed out is in the map, or in the file while the process is  *)
(* down, and is intact there.                                              *)
LEMMA HandedIntact == IInv /\ OwnInv => HandedVHCUsKept
<1>1. SUFFICES ASSUME IInv, OwnInv, NoIncident, NEW c \in api, NEW p \in VHCUs(handed[c])
               PROVE  VHCUIntact(c, p)
  BY DEF HandedVHCUsKept, HandedVHCUsIntact
<1>2. c \in Claims /\ handed[c] # {} /\ "dirtyCrash" \notin hist
  BY <1>1 DEF IInv, TypeOK, VHCUs, NoIncident
<1>3. CASE mPc = "down"
  <2>1. Devices(disk, c) = handed[c]
    BY <1>1, <1>2, <1>3, DevicesOf DEF IInv, HandedInv
  <2>2. QED
    BY <1>1, <1>2, <1>3, <2>1 DEF OwnInv, DiskInv, AllIntact
<1>4. CASE mPc # "down"
  <2>1. Devices(prepared, c) = handed[c]
    BY <1>1, <1>2, <1>4, DevicesOf DEF IInv, HandedInv
  <2>2. ~(c = claim /\ rpcPc = "undoDestroy")
    BY <1>1, <1>2 DEF IInv, CallInv, Preparing, UndoPcs
  <2>3. QED
    BY <1>1, <1>2, <1>4, <2>1, <2>2 DEF OwnInv, MapInv, AllIntact
<1>5. QED
  BY <1>3, <1>4

(* Outside the open windows, a vHCU that Prepare handed to the kubelet     *)
(* stays on the host, on its card, for its claim and with its file, until  *)
(* the kubelet gives it back or the claim is deleted.                      *)
THEOREM HandedVHCUsStay == Spec => []HandedVHCUsKept
BY HandedIntact, InvCorrect, OwnershipCorrect, PTL

(* Who is intact is not shared: what the invariant says of the vHCUs of    *)
(* prepared claims keeps them apart.                                       *)
LEMMA IntactNotShared == IInv /\ OwnInv => NoSharedVHCU
<1>1. SUFFICES ASSUME IInv, OwnInv, NoIncident, NEW c \in Claims, NEW d \in Claims,
                      NEW p \in VHCUs(Devices(prepared, c)),
                      NEW q \in VHCUs(Devices(prepared, d)), p.vdv = q.vdv
               PROVE  c = d /\ p = q
  BY DEF NoSharedVHCU
<1>2. CASE c = d
  BY <1>1, <1>2 DEF OwnInv, DistinctInv, Distinct
<1>3. CASE c # d
  <2>1. TypeOK /\ mPc # "down"
    <3>1. mPc = "down" => prepared = EmptyMap
      BY <1>1 DEF IInv, DownInv
    <3>2. Devices(EmptyMap, c) = {}
      BY DEF Devices, EmptyMap, NoEntry
    <3>3. QED
      BY <1>1, <3>1, <3>2 DEF IInv, VHCUs
  <2>2. \A e \in Claims : Devices(prepared, e) \in SUBSET PreparedDevice
    BY <2>1, DevicesType DEF TypeOK
  <2>3. ASSUME NEW e \in Claims, ~(e = claim /\ rpcPc = "undoDestroy"),
               NEW o \in VHCUs(Devices(prepared, e))
        PROVE  host[o.vdv] # NoDev /\ host[o.vdv].claim = e
    BY <1>1, <2>1, <2>2, <2>3, IntactOwner DEF OwnInv, MapInv
  <2>4. ASSUME NEW e \in Claims, e = claim /\ rpcPc = "undoDestroy",
               NEW o \in VHCUs(Devices(prepared, e))
        PROVE  OwnedOrGone(e, o.vdv)
    BY <1>1, <2>1, <2>4 DEF OwnInv, MapInv
  <2>5. QED
    BY <1>1, <1>3, <2>3, <2>4 DEF OwnedOrGone
<1>4. QED
  BY <1>2, <1>3

(* Outside the open windows, no two prepared devices have the same vHCU.   *)
THEOREM VHCUsNotShared == Spec => []NoSharedVHCU
BY IntactNotShared, InvCorrect, OwnershipCorrect, PTL

(* Outside the open windows, orphan cleanup destroys a vHCU only if its    *)
(* claim was deleted.                                                      *)
THEOREM CleanupDestroysOrphansOnly == Spec => OrphanCleanupSafe
<1>1. IInv /\ OwnInv /\ [Next]_vars
        => [NoIncident => \A v \in VDevs : DestroysOrphansOnly(v)]_vars
  BY DEF OwnInv, CleanupInv, DestroysOrphansOnly
<1>2. QED
  BY <1>1, InvCorrect, OwnershipCorrect, PTL DEF Spec, OrphanCleanupSafe
=============================================================================
