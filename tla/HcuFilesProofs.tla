--------------------------- MODULE HcuFilesProofs ---------------------------
(***************************************************************************)
(* The files of what the kubelet holds. Each claim's CDI spec files and    *)
(* dynamic marks live in directories all claims share, and every sync, on  *)
(* behalf of whichever claim, rewrites them from the prepared map: the     *)
(* theorems say that this never takes a file from a claim in use.          *)
(***************************************************************************)
EXTENDS HcuOwnershipProofs

-----------------------------------------------------------------------------
(* Devices and marks of a claim are those of its allocation results        *)

AllocatedTo(c, p) ==
    /\ p.mark.holder \in {c, Consumer[c]}
    /\ p.mark.card = p.parent
    /\ p.mark.idx = dynamicMarkVDevIndex(p.whole, p.vdv)
    /\ \E r \in Results[c] : /\ r.req = p.req /\ r.dev = p.parent
                             /\ r.mode = IF p.whole THEN "whole" ELSE "vhcu"

AllAllocated(c, devs) == \A p \in devs : AllocatedTo(c, p)

AllocInv ==
    /\ \A c \in Claims : /\ AllAllocated(c, Devices(prepared, c))
                         /\ AllAllocated(c, Devices(disk, c))
    /\ rpcPc \notin {"idle", "check", "unprep"} => AllAllocated(claim, created)
    /\ rpcPc \in {"loop", "found", "created"} => todo \subseteq Results[claim]
    /\ rpcPc \in {"found", "created"} => fresh.res \in Results[claim]
    /\ rpcPc = "created" => fresh.res.mode = "vhcu"

(* What attachDynamicMark records is the result it was called for.         *)
LEMMA AttachAllocated ==
    ASSUME NEW r \in Results[claim], NEW whole \in BOOLEAN, NEW v \in VDevs,
           r.mode = (IF whole THEN "whole" ELSE "vhcu"),
           attachDynamicMark(r, whole, v), AllAllocated(claim, created)
    PROVE  AllAllocated(claim, created')
<1>1. PICK holder \in MarkHolders(claim) :
        created' = created \cup {Record(r, whole, v, holder)}
  BY DEF attachDynamicMark
<1>2. holder \in {claim, Consumer[claim]}
  BY DEF MarkHolders
<1>3. AllocatedTo(claim, Record(r, whole, v, holder))
  BY <1>2 DEF AllocatedTo, Record, dynamicMarkFileName
<1>4. QED
  BY <1>1, <1>3 DEF AllAllocated

LEMMA AllocEntries ==
    ASSUME NEW m \in PreparedMap, NEW c \in Claims, NEW devs, NEW entry,
           \A d \in Claims : AllAllocated(d, Devices(m, d)), AllAllocated(c, devs),
           entry = Entry(devs) \/ entry = NoEntry
    PROVE  \A d \in Claims : AllAllocated(d, Devices([m EXCEPT ![c] = entry], d))
<1> DEFINE n == [m EXCEPT ![c] = entry]
<1>1. n[c] = entry /\ \A d \in Claims : d # c => n[d] = m[d]
  BY DEF PreparedMap
<1>2. Devices(n, c) = devs \/ Devices(n, c) = {}
  BY <1>1, DevicesOf
<1>3. \A d \in Claims : d # c => Devices(n, d) = Devices(m, d)
  BY <1>1 DEF Devices
<1>4. QED
  <2> HIDE DEF n
  <2>1. AllAllocated(c, {})
    BY DEF AllAllocated
  <2>2. \A d \in Claims : AllAllocated(d, Devices(n, d))
    BY <1>2, <1>3, <2>1
  <2>3. QED
    BY <2>2 DEF n

LEMMA NothingAllocated == \A c \in Claims : AllAllocated(c, Devices(EmptyMap, c))
BY DEF AllAllocated, Devices, EmptyMap, NoEntry

LEMMA NothingInitially ==
    Init => \A c \in Claims : Devices(prepared, c) = {} /\ Devices(disk, c) = {}
BY DEF Init, EmptyMap, Devices, NoEntry

LEMMA AllocInit == Init => AllocInv
BY NothingAllocated DEF Init, AllocInv

LEMMA AllocRpc ==
    ASSUME IInv, AllocInv, RpcCall \/ RpcStep
    PROVE  AllocInv'
<1> USE DEF AllocInv, AllAllocated, rpcFrame, stateVars, rpcVars, Goto
<1>t. /\ TypeOK
      /\ prepared \in PreparedMap /\ created \in SUBSET PreparedDevice
      /\ rpcPc # "idle" => claim \in Claims
      /\ 0 \in VDevs
  BY ConstantsAssumption DEF IInv, TypeOK
<1>1. ASSUME NEW c \in Claims, PrepareResourceClaims(c) \/ UnprepareResourceClaims(c)
      PROVE  AllocInv'
  BY <1>1 DEF PrepareResourceClaims, UnprepareResourceClaims
<1>2. CASE CheckExisting
  BY <1>t, <1>2 DEF CheckExisting
<1>3. CASE RepairCDI \/ RepairMarks \/ Reply \/ DestroyEnds
  BY <1>3 DEF RepairCDI, RepairMarks, Reply, DestroyEnds, Done
<1>4. ASSUME NEW r \in todo, SkipForeign(r) \/ LookupFails(r) \/ LookupDevice(r)
      PROVE  AllocInv'
  BY <1>4 DEF SkipForeign, LookupFails, LookupDevice, rollbackCreatedVDevices
<1>5. CASE prepareWholeCardDevice
  <2>1. CASE attachDynamicMark(fresh.res, TRUE, 0) /\ rpcPc' = "loop"
    <3>1. AllAllocated(claim, created')
      BY <1>t, <1>5, <2>1, AttachAllocated DEF prepareWholeCardDevice
    <3>2. todo' \subseteq todo /\ rpcPc = "found"
      BY <1>5, <2>1 DEF prepareWholeCardDevice, attachDynamicMark
    <3>3. QED
      BY <1>5, <2>1, <3>1, <3>2 DEF prepareWholeCardDevice
  <2>2. CASE rollbackCreatedVDevices("rollback")
    BY <1>5, <2>2 DEF prepareWholeCardDevice, rollbackCreatedVDevices
  <2>3. QED
    BY <1>5, <2>1, <2>2 DEF prepareWholeCardDevice
<1>6. CASE CreateVHCU
  BY <1>6 DEF CreateVHCU, rollbackCreatedVDevices
<1>7. CASE AttachVHCU
  <2>1. fresh.res \in Results[claim] /\ fresh.res.mode = "vhcu" /\ fresh.vdv \in VDevs
    BY <1>t, <1>7 DEF AttachVHCU, TypeOK
  <2>2. attachDynamicMark(fresh.res, FALSE, fresh.vdv) /\ AllAllocated(claim, created)
    BY <1>7 DEF AttachVHCU
  <2>3. AllAllocated(claim, created')
    BY <2>1, <2>2, AttachAllocated
  <2>4. todo' \subseteq todo
    BY <2>2 DEF attachDynamicMark
  <2>5. QED
    BY <1>7, <2>3, <2>4 DEF AttachVHCU
<1>8. CASE AttachFails
  BY <1>8 DEF AttachFails, rollbackCreatedVDevices
<1>9. CASE FinalCDI \/ UndoCDI
  BY <1>t, <1>9, AllocEntries DEF FinalCDI, UndoCDI
<1>10. CASE FinalMarks \/ UndoMarks \/ UnprepMarks
  BY <1>10 DEF FinalMarks, UndoMarks, UnprepMarks
<1>11. CASE FinalSave \/ UndoSave \/ UnprepSave
  BY <1>11 DEF FinalSave, UndoSave, UnprepSave, savePreparedState, Done
<1>12. CASE Undo \/ Sweep
  BY <1>12 DEF Undo, Sweep, rollbackCreatedVDevices
<1>13. CASE UnprepCDI
  <2>1. Devices(prepared, claim) \in SUBSET PreparedDevice
    BY <1>t, <1>13, DevicesType DEF UnprepCDI
  <2>2. QED
    BY <1>t, <1>13, <2>1, AllocEntries DEF UnprepCDI
<1>14. ASSUME NEW v \in pend, DestroyNext(v) PROVE AllocInv'
  BY <1>14 DEF DestroyNext
<1>15. QED
  BY <1>1, <1>2, <1>3, <1>4, <1>5, <1>6, <1>7, <1>8, <1>9, <1>10, <1>11, <1>12, <1>13,
     <1>14 DEF RpcCall, RpcStep

LEMMA AllocNext ==
    ASSUME IInv, AllocInv, [Next]_vars
    PROVE  AllocInv'
<1> USE DEF AllocInv, AllAllocated, stepFrame, rpcVars
<1>t. /\ prepared \in PreparedMap /\ orphans \subseteq Claims
      /\ \A c \in Claims : Devices(prepared, c) \in SUBSET PreparedDevice
  BY DevicesType DEF IInv, TypeOK
<1>e. ASSUME ProcessEnds PROVE AllocInv'
  BY <1>e, NothingAllocated DEF ProcessEnds
<1>1. CASE RpcCall \/ RpcStep
  BY <1>1, AllocRpc
<1>2. CASE Start
  BY <1>2 DEF Start
<1>3. ASSUME NEW c \in orphans, OrphanDrop(c) PROVE AllocInv'
  BY <1>t, <1>3, AllocEntries DEF OrphanDrop
<1>4. CASE OrphanSave
  BY <1>4 DEF OrphanSave, savePreparedState
<1>5. CASE Enumerate \/ WriteBase \/ PublishResources
  <2>1. CASE ProcessEnds
    BY <1>e, <2>1
  <2>2. CASE ~ProcessEnds
    <3>1. UNCHANGED <<stepFrame, prepared, disk>>
      BY <1>5, <2>2 DEF Enumerate, WriteBase, PublishResources
    <3>2. QED
      BY <3>1
  <2>3. QED
    BY <2>1, <2>2
<1>6. CASE \/ CleanupOrphanPreparedClaims \/ (\E v \in mPend : OrphanDestroy(v))
           \/ OrphanCDI \/ OrphanMarks \/ RefreshAllocatable
           \/ (\E v \in mPend : ReconcileDestroy(v)) \/ ReconcileRmConf
           \/ RestoreCDI \/ RestoreMarks
  <2>1. UNCHANGED <<stepFrame, prepared, disk>>
    BY <1>6 DEF CleanupOrphanPreparedClaims, OrphanDestroy, OrphanCDI, OrphanMarks,
       RefreshAllocatable, ReconcileDestroy, ReconcileRmConf, RestoreCDI, RestoreMarks
  <2>2. QED
    BY <2>1
<1>7. CASE (\E c \in api : DeleteClaim(c)) \/ UNCHANGED vars
  BY <1>7 DEF DeleteClaim, vars
<1>8. CASE Crash
  BY <1>e, <1>8 DEF Crash
<1>9. QED
  BY <1>1, <1>2, <1>3, <1>4, <1>5, <1>6, <1>7, <1>8 DEF Next, MaintStep

(* Whatever is prepared, and whatever a restart reads back, is a device of *)
(* one of the claim's allocation results, on the card of that result, whole*)
(* or a vHCU as the result asks; its mark names that card and index, and   *)
(* as its holder the consumer found or the claim itself.                   *)
THEOREM PreparedAsAllocated == Spec => []AllocInv
BY AllocInit, AllocNext, InvCorrect, PTL DEF Spec

-----------------------------------------------------------------------------
(* CDI spec files                                                          *)

Present(devs) == \A p \in VHCUs(devs) : cdi[p.vdv] # NoFile

(* No file built for another card's vHCU is left for a vHCU of the map.    *)
RightIfPresent(devs) ==
    \A p \in VHCUs(devs) : cdi[p.vdv] \in SpecsOf(p.parent) \cup {NoFile}

(* The claim in hand has its files from the sync to the answer.            *)
Synced == \/ rpcPc \in {"repairMarks", "finalMarks", "finalSave"}
          \/ rpcPc = "reply" /\ claim \in api

PresentInv ==
    NoIncident => /\ \A c \in api : Present(handed[c])
                  /\ Synced => Present(Devices(prepared, claim))

(* While mu is held to release a claim its files are gone: after a crash   *)
(* the state file still has the claim, but no file says otherwise.         *)
RightInv ==
    NoIncident =>
      /\ mPc # "down" => \A c \in Claims : RightIfPresent(Devices(prepared, c))
      /\ mPc = "down" => \A c \in Claims : RightIfPresent(Devices(disk, c))
      /\ rpcPc \in {"unprepMarks", "unprepSave"} => RightIfPresent(created)

(* A sync, even one that fails half-way, removes no file of the map; one   *)
(* that does not fail writes every one of them, for a device of that index.*)
LEMMA SyncKeeps ==
    ASSUME NEW m \in PreparedMap, NEW ok \in BOOLEAN, syncVDeviceCDISpecFiles(m, ok),
           NEW c \in Claims, NEW p \in VHCUs(Devices(m, c))
    PROVE  /\ cdi[p.vdv] # NoFile => cdi'[p.vdv] # NoFile
           /\ ok => /\ cdi'[p.vdv] # NoFile
                    /\ \E d \in Claims : \E q \in VHCUs(Devices(m, d)) :
                         q.vdv = p.vdv /\ cdi'[p.vdv] \in SpecsOf(q.parent)
<1> DEFINE active == activePreparedVDevices(m)
<1>1. p \in PreparedDevice /\ p.vdv \in VDevs /\ p \in VHCUs(AllDevices(m))
  BY DevicesType DEF VHCUs, PreparedDevice, AllDevices
<1>2. /\ p.parent \in active[p.vdv]
      /\ \A x \in active[p.vdv] :
           \E q \in VHCUs(AllDevices(m)) : q.vdv = p.vdv /\ x = q.parent
  BY <1>1 DEF activePreparedVDevices
<1>3. active[p.vdv] \subseteq Cards
  BY <1>1, <1>2, AllDevicesType DEF VHCUs, PreparedDevice
<1>4. SpecFile \cap {NoFile, Torn} = {} /\ Torn # NoFile
  BY ConstantsAssumption
<1> DEFINE written == Written(m, p.vdv)
<1>w. written # {} /\ \A f \in written : \E x \in active[p.vdv] : f \in SpecsOf(x)
  <2>1. \A x \in active[p.vdv] : buildVDeviceEntry(x) \in SpecsOf(x)
    BY <1>3 DEF buildVDeviceEntry, SpecsOf, SpecFile
  <2>2. QED
    BY <1>2, <2>1 DEF Written
<1>5. ok => cdi'[p.vdv] \in written
  BY <1>1, <1>w DEF syncVDeviceCDISpecFiles, SyncedCDI
<1>6. ~ok => cdi'[p.vdv] \in written \cup {cdi[p.vdv], Torn}
  <2> HIDE DEF active, written
  <2>1. InterruptedCDI(m, cdi') => cdi'[p.vdv] \in written \cup {cdi[p.vdv], Torn}
    BY <1>1, <1>w DEF InterruptedCDI, written
  <2>2. QED
    BY <2>1 DEF syncVDeviceCDISpecFiles
<1>7. \A q \in VHCUs(AllDevices(m)) : \E d \in Claims : q \in VHCUs(Devices(m, d))
  BY DEF VHCUs, AllDevices
<1> HIDE DEF active, written
<1>8. cdi'[p.vdv] \in written =>
        /\ cdi'[p.vdv] # NoFile
        /\ \E d \in Claims : \E q \in VHCUs(Devices(m, d)) :
             q.vdv = p.vdv /\ cdi'[p.vdv] \in SpecsOf(q.parent)
  BY <1>2, <1>4, <1>7, <1>w DEF SpecsOf
<1>9. QED
  BY <1>4, <1>5, <1>6, <1>8

(* What a sync that does not fail leaves of an index nobody has.           *)
LEMMA SyncRemoves ==
    ASSUME NEW m, syncVDeviceCDISpecFiles(m, TRUE), NEW v \in VDevs,
           v \notin preparedVDvIndSet(m)
    PROVE  cdi'[v] = NoFile
<1>1. activePreparedVDevices(m)[v] = {}
  BY DEF activePreparedVDevices, preparedVDvIndSet, VDvInds
<1>2. QED
  BY <1>1 DEF Written, syncVDeviceCDISpecFiles, SyncedCDI

(* What a step may do to the files and to what they are about: every sync  *)
(* is a sync of the map as the step leaves it.                             *)
LEMMA FileSteps ==
    ASSUME IInv, [Next]_vars
    PROVE  /\ api' \subseteq api
           /\ \/ UNCHANGED handed
              \/ \E c \in Claims : handed' = [handed EXCEPT ![c] = {}]
              \/ Reply
           /\ \/ UNCHANGED cdi
              \/ /\ mPc' # "down"
                 /\ \E ok \in Outcome("cdi") : syncVDeviceCDISpecFiles(prepared', ok)
           /\ mPc' = "down" => \/ mPc # "down" /\ ProcessEnds
                               \/ mPc = "down" /\ UNCHANGED <<cdi, disk, rpcPc>>
<1> USE DEF rpcFrame, stateVars, stepFrame, kubeVars, cdiVars, mVars, enumVars, Goto
<1>u. rpcPc # "idle" => mPc # "down"
  BY DEF IInv, MutexInv, StartupPcs
<1>1. CASE RpcCall
  <2>1. up /\ mPc' = mPc
    BY <1>1 DEF RpcCall, PrepareResourceClaims, UnprepareResourceClaims
  <2>2. mPc' # "down"
    BY <2>1 DEF IInv, MutexInv
  <2>3. QED
    BY <1>1, <2>2 DEF RpcCall, PrepareResourceClaims, UnprepareResourceClaims
<1>2. CASE RpcStep
  <2>1. /\ UNCHANGED <<api, mPc>> /\ rpcPc # "idle"
        /\ UNCHANGED handed \/ Reply
    BY <1>2
       DEF RpcStep, CheckExisting, RepairCDI, RepairMarks, Reply, SkipForeign, LookupFails,
           LookupDevice,
           prepareWholeCardDevice, CreateVHCU, AttachVHCU, AttachFails, FinalCDI, FinalMarks,
           FinalSave, Undo, UndoCDI, UndoMarks, UndoSave, UnprepCDI, UnprepMarks, UnprepSave,
           Sweep, DestroyNext, DestroyEnds
  <2>2. CASE RepairCDI \/ FinalCDI \/ UndoCDI \/ UnprepCDI
    <3>1. UNCHANGED cdi \/ \E ok \in Outcome("cdi") : syncVDeviceCDISpecFiles(prepared', ok)
      BY <2>2 DEF RepairCDI, FinalCDI, UndoCDI, UnprepCDI, Outcome
    <3>2. QED
      BY <1>u, <2>1, <3>1
  <2>3. CASE ~(RepairCDI \/ FinalCDI \/ UndoCDI \/ UnprepCDI)
    <3>1. UNCHANGED cdi
      BY <1>2, <2>3
         DEF RpcStep, CheckExisting, RepairMarks, Reply, SkipForeign, LookupFails,
             LookupDevice, prepareWholeCardDevice, CreateVHCU, AttachVHCU, AttachFails, FinalMarks,
             FinalSave, Undo, UndoMarks, UndoSave, UnprepMarks, UnprepSave, Sweep,
             DestroyNext, DestroyEnds
    <3>2. QED
      BY <1>u, <2>1, <3>1
  <2>4. QED
    BY <2>2, <2>3
<1>3. CASE MaintStep
  <2>1. UNCHANGED <<api, handed>>
    BY <1>3
       DEF MaintStep, Start, CleanupOrphanPreparedClaims, OrphanDrop, OrphanDestroy,
           OrphanCDI, OrphanMarks, OrphanSave, RefreshAllocatable, ReconcileDestroy,
           ReconcileRmConf, Enumerate, WriteBase, RestoreCDI, RestoreMarks,
           PublishResources, ProcessEnds
  <2>2. CASE OrphanCDI \/ RestoreCDI
    BY <2>1, <2>2 DEF OrphanCDI, RestoreCDI
  <2>3. CASE ~(OrphanCDI \/ RestoreCDI)
    <3>1. UNCHANGED cdi
      BY <1>3, <2>3
         DEF MaintStep, Start, CleanupOrphanPreparedClaims, OrphanDrop, OrphanDestroy,
             OrphanMarks, OrphanSave, RefreshAllocatable, ReconcileDestroy,
             ReconcileRmConf, Enumerate, WriteBase, RestoreMarks, PublishResources,
             ProcessEnds
    <3>2. mPc' = "down" => mPc # "down" /\ ProcessEnds
      BY <1>3, <2>3
         DEF MaintStep, Start, CleanupOrphanPreparedClaims, OrphanDrop, OrphanDestroy,
             OrphanMarks, OrphanSave, RefreshAllocatable, ReconcileDestroy,
             ReconcileRmConf, Enumerate, WriteBase, RestoreMarks, PublishResources
    <3>3. QED
      BY <2>1, <3>1, <3>2
  <2>4. QED
    BY <2>2, <2>3
<1>4. CASE (\E c \in api : DeleteClaim(c)) \/ UNCHANGED vars
  BY <1>4 DEF DeleteClaim, vars
<1>5. CASE Crash
  BY <1>5 DEF Crash, ProcessEnds
<1>6. QED
  BY <1>1, <1>2, <1>3, <1>4, <1>5 DEF Next

(* How a call comes to have its files, and that it keeps its entry then.   *)
LEMMA SyncedSteps ==
    ASSUME IInv, [Next]_vars, Synced'
    PROVE  \/ RepairCDI \/ FinalCDI
           \/ Synced /\ claim' = claim /\ Devices(prepared', claim) = Devices(prepared, claim)
<1> USE DEF Synced, rpcFrame, stateVars, stepFrame, kubeVars, rpcVars, Goto
<1>t. prepared \in PreparedMap /\ orphans \cap api = {}
  BY DEF IInv, TypeOK, OrphanInv
<1>m. rpcPc \in RpcHolds => mu = "rpc" /\ up
  BY DEF IInv, MutexInv, RpcHolds
<1>1. CASE RpcCall
  BY <1>1 DEF RpcCall, PrepareResourceClaims, UnprepareResourceClaims
<1>2. CASE RpcStep
  BY <1>2
     DEF RpcStep, CheckExisting, RepairMarks, Reply, SkipForeign, LookupFails,
         LookupDevice, prepareWholeCardDevice, CreateVHCU, AttachVHCU, AttachFails, FinalMarks,
         FinalSave, Undo, UndoCDI, UndoMarks, UndoSave, UnprepCDI, UnprepMarks,
         UnprepSave, Sweep, DestroyNext, DestroyEnds, rollbackCreatedVDevices, Done
<1>3. ASSUME NEW c \in orphans, OrphanDrop(c)
      PROVE  Synced /\ claim' = claim /\ Devices(prepared', claim) = Devices(prepared, claim)
  <2>1. c \notin api /\ mPc = "orphan" /\ UNCHANGED <<api, rpcPc, claim>>
    BY <1>t, <1>3 DEF OrphanDrop
  <2>2. rpcPc = "reply" /\ claim \in api
    BY <1>m, <2>1 DEF IInv, MutexInv, RpcHolds, MaintHolds
  <2>3. prepared'[claim] = prepared[claim]
    BY <1>t, <1>3, <2>1, <2>2 DEF OrphanDrop, PreparedMap
  <2>4. QED
    BY <2>1, <2>2, <2>3 DEF Devices
<1>4. CASE Start
  <2>1. rpcPc = "idle" /\ rpcPc' = rpcPc
    BY <1>4 DEF Start, IInv, MutexInv, StartupPcs
  <2>2. QED
    BY <2>1
<1>5. CASE MaintStep /\ ~Start /\ ~(\E c \in orphans : OrphanDrop(c))
  <2>1. CASE ProcessEnds
    BY <2>1 DEF ProcessEnds
  <2>2. CASE ~ProcessEnds
    BY <1>5, <2>2
       DEF MaintStep, CleanupOrphanPreparedClaims, OrphanDestroy, OrphanCDI, OrphanMarks,
           OrphanSave, RefreshAllocatable, ReconcileDestroy, ReconcileRmConf, Enumerate,
           WriteBase, RestoreCDI, RestoreMarks, PublishResources
  <2>3. QED
    BY <2>1, <2>2
<1>6. CASE (\E c \in api : DeleteClaim(c)) \/ UNCHANGED vars
  BY <1>6 DEF DeleteClaim, vars
<1>7. CASE Crash
  BY <1>7 DEF Crash, ProcessEnds
<1>8. QED
  BY <1>1, <1>2, <1>3, <1>4, <1>5, <1>6, <1>7 DEF Next, MaintStep

LEMMA PresentNext ==
    ASSUME IInv, PresentInv, [Next]_vars
    PROVE  PresentInv'
<1>1. SUFFICES ASSUME NoIncident'
               PROVE  /\ \A c \in api' : Present(handed[c])'
                      /\ Synced' => Present(Devices(prepared, claim))'
  BY DEF PresentInv
<1>2. /\ IInv' /\ NoIncident /\ "dirtyCrash" \notin hist'
      /\ \A c \in api : Present(handed[c])
      /\ Synced => Present(Devices(prepared, claim))
  BY <1>1, InvNext, HistGrows DEF NoIncident, PresentInv
<1>t. /\ prepared \in PreparedMap /\ prepared' \in PreparedMap
      /\ api \subseteq Claims /\ handed \in [Claims -> SUBSET PreparedDevice]
      /\ rpcPc # "idle" => claim \in Claims
      /\ rpcPc' # "idle" => claim' \in Claims
      /\ Outcome("cdi") \subseteq BOOLEAN
  BY <1>2 DEF IInv, TypeOK, Outcome
<1>3. ASSUME NEW c \in Claims, Present(Devices(prepared', c))
      PROVE  Present(Devices(prepared, c))'
  <2>1. SUFFICES ASSUME NEW p \in VHCUs(Devices(prepared', c)) PROVE cdi'[p.vdv] # NoFile
    BY DEF Present
  <2>2. cdi[p.vdv] # NoFile
    BY <1>3 DEF Present
  <2>3. ASSUME NEW ok \in Outcome("cdi"), syncVDeviceCDISpecFiles(prepared', ok)
        PROVE  cdi'[p.vdv] # NoFile
    BY <1>t, <2>2, <2>3, SyncKeeps
  <2>4. QED
    BY <2>2, <2>3, FileSteps
<1>4. ASSUME NEW c \in api' PROVE Present(handed[c])'
  <2>1. c \in api /\ c \in Claims
    BY <1>t, <1>4, FileSteps
  <2>2. CASE handed'[c] = {}
    BY <2>2 DEF Present, VHCUs
  <2>3. CASE handed'[c] = handed[c] /\ handed'[c] # {}
    <3>1. CASE mPc' = "down"
      BY <1>2, <2>1, <2>3, <3>1, FileSteps DEF Present, ProcessEnds
    <3>2. CASE mPc' # "down"
      <4>1. Devices(prepared', c) = handed[c]
        BY <1>2, <1>4, <2>3, <3>2, DevicesOf DEF IInv, HandedInv
      <4>2. Present(Devices(prepared, c))'
        BY <1>2, <1>3, <2>1, <4>1
      <4>3. QED
        BY <2>3, <4>1, <4>2 DEF Present
    <3>3. QED
      BY <3>1, <3>2
  <2>4. CASE Reply /\ handed'[c] # handed[c]
    <3>1. c = claim /\ handed'[c] = created /\ rpcPc = "reply" /\ UNCHANGED cdi
      BY <1>t, <2>1, <2>4 DEF Reply
    <3>2. Devices(prepared, claim) = created
      BY <2>1, <3>1, DevicesOf DEF IInv, CallInv, Answering
    <3>3. QED
      BY <1>2, <2>1, <3>1, <3>2 DEF Synced, Present
  <2>5. QED
    BY <1>t, <2>1, <2>2, <2>3, <2>4, FileSteps
<1>5. ASSUME Synced' PROVE Present(Devices(prepared, claim))'
  <2>1. CASE RepairCDI
    <3>1. rpcPc = "repair" /\ UNCHANGED <<prepared, claim>>
      BY <1>5, <2>1 DEF RepairCDI, Synced, rpcVars, Done
    <3>2. CASE syncVDeviceCDISpecFiles(prepared, TRUE)
      BY <1>t, <3>1, <3>2, SyncKeeps DEF Present
    <3>3. CASE UNCHANGED cdi /\ ~vdeviceCDISpecFilesNeedRepair(prepared)
      <4>1. SUFFICES ASSUME NEW p \in VHCUs(Devices(prepared, claim))
                     PROVE  cdi[p.vdv] # NoFile
        BY <3>1, <3>3 DEF Present
      <4>2. p.vdv \in VDevs /\ p \in VHCUs(AllDevices(prepared))
        BY <1>t, <3>1, DevicesType DEF VHCUs, PreparedDevice, AllDevices
      <4>3. activePreparedVDevices(prepared)[p.vdv] # {}
        BY <4>2 DEF activePreparedVDevices
      <4>4. QED
        BY <3>3, <4>2, <4>3 DEF vdeviceCDISpecFilesNeedRepair
    <3>4. QED
      BY <1>5, <2>1, <3>2, <3>3 DEF RepairCDI, Done, Synced
  <2>2. CASE FinalCDI
    <3>1. syncVDeviceCDISpecFiles(prepared', TRUE) /\ claim' = claim /\ rpcPc = "loop"
      BY <1>5, <2>2 DEF FinalCDI, Synced, Goto, Outcome, rpcVars
    <3>2. QED
      BY <1>t, <3>1, SyncKeeps DEF Present
  <2>3. CASE Synced /\ claim' = claim /\ Devices(prepared', claim) = Devices(prepared, claim)
    <3>1. claim \in Claims
      BY <1>t, <2>3 DEF Synced
    <3>2. Present(Devices(prepared', claim))
      BY <1>2, <2>3
    <3>3. QED
      BY <1>3, <2>3, <3>1, <3>2
  <2>4. QED
    BY <1>5, <2>1, <2>2, <2>3, SyncedSteps
<1>6. QED
  BY <1>4, <1>5

(* While no incident has happened, a vHCU the kubelet holds has its CDI    *)
(* spec file, however many syncs for other claims fail half-way, and also  *)
(* right after a restart whose own sync failed.                            *)
THEOREM HandedSpecsStay == Spec => []HandedSpecsPresent
<1>1. Init => PresentInv
  BY DEF Init, PresentInv, Present, Synced, VHCUs
<1>2. IInv /\ PresentInv /\ [Next]_vars => PresentInv'
  BY PresentNext
<1>3. PresentInv => HandedSpecsPresent
  BY DEF PresentInv, Present, HandedSpecsPresent
<1>4. QED
  BY <1>1, <1>2, <1>3, InvCorrect, PTL DEF Spec

(* While the process lives, a step that does not sync adds nothing to the  *)
(* map, and leaves the files alone.                                        *)
LEMMA EntrySteps ==
    ASSUME IInv, [Next]_vars, mPc # "down"
    PROVE  \/ \E ok \in Outcome("cdi") : syncVDeviceCDISpecFiles(prepared', ok)
           \/ /\ UNCHANGED cdi
              /\ \A c \in Claims : Devices(prepared', c) \subseteq Devices(prepared, c)
<1> USE DEF rpcFrame, stateVars, stepFrame, cdiVars
<1>t. prepared \in PreparedMap /\ orphans \subseteq Claims
  BY DEF IInv, TypeOK
<1>1. UNCHANGED cdi \/ \E ok \in Outcome("cdi") : syncVDeviceCDISpecFiles(prepared', ok)
  BY FileSteps
<1>2. CASE FinalCDI \/ UndoCDI \/ UnprepCDI
  BY <1>2 DEF FinalCDI, UndoCDI, UnprepCDI
<1>3. ASSUME NEW d \in orphans, OrphanDrop(d), NEW c \in Claims
      PROVE  Devices(prepared', c) \subseteq Devices(prepared, c)
  <2>1. prepared'[c] = prepared[c] \/ prepared'[c] = NoEntry
    BY <1>t, <1>3 DEF OrphanDrop, PreparedMap
  <2>2. QED
    BY <2>1 DEF Devices, NoEntry
<1>4. ASSUME NEW d \in orphans, OrphanDrop(d) PROVE UNCHANGED cdi
  BY <1>4 DEF OrphanDrop
<1>5. ASSUME prepared' = prepared \/ prepared' = EmptyMap, NEW c \in Claims
      PROVE  Devices(prepared', c) \subseteq Devices(prepared, c)
  BY <1>5 DEF Devices, EmptyMap, NoEntry
<1>6. CASE (RpcCall \/ RpcStep) /\ ~(FinalCDI \/ UndoCDI \/ UnprepCDI)
  <2>1. UNCHANGED prepared
    BY <1>6
       DEF RpcCall, PrepareResourceClaims, UnprepareResourceClaims, RpcStep, CheckExisting,
           RepairCDI, RepairMarks, Reply, SkipForeign, LookupFails, LookupDevice,
           prepareWholeCardDevice, CreateVHCU, AttachVHCU, AttachFails, FinalMarks,
           FinalSave, Undo, UndoMarks,
           UndoSave, UnprepMarks, UnprepSave, Sweep, DestroyNext, DestroyEnds
  <2>2. QED
    BY <1>1, <1>5, <2>1
<1>7. CASE MaintStep /\ ~(\E d \in orphans : OrphanDrop(d))
  <2>1. UNCHANGED prepared \/ prepared' = EmptyMap
    BY <1>7
       DEF MaintStep, Start, CleanupOrphanPreparedClaims, OrphanDestroy, OrphanCDI,
           OrphanMarks, OrphanSave, RefreshAllocatable, ReconcileDestroy, ReconcileRmConf,
           Enumerate, WriteBase, RestoreCDI, RestoreMarks, PublishResources, ProcessEnds
  <2>2. QED
    BY <1>1, <1>5, <2>1
<1>8. CASE (\E c \in api : DeleteClaim(c)) \/ Crash \/ UNCHANGED vars
  <2>1. UNCHANGED prepared \/ prepared' = EmptyMap
    BY <1>8 DEF DeleteClaim, Crash, ProcessEnds, vars
  <2>2. QED
    BY <1>1, <1>5, <2>1
<1>9. QED
  BY <1>2, <1>3, <1>4, <1>6, <1>7, <1>8 DEF Next

(* The end of the process leaves in the file claims whose files are right, *)
(* or gone because the claim was just being released.                      *)
LEMMA RightEnds ==
    ASSUME IInv, OwnInv, RightInv, NoIncident', ProcessEnds, mPc # "down",
           NEW c \in Claims
    PROVE  RightIfPresent(Devices(disk, c))
<1>1. /\ NoIncident /\ ~dirty /\ mPc \notin OrphanPcs /\ rpcPc \notin UndoPcs
  BY DEF ProcessEnds, NoIncident, Incidents
<1>2. CASE disk[c] = prepared[c]
  BY <1>1, <1>2 DEF RightInv, Devices
<1>3. CASE c = claim /\ rpcPc \in {"finalMarks", "finalSave"}
  BY <1>1, <1>3 DEF OwnInv, AloneInv, RightIfPresent, VHCUs
<1>4. CASE c = claim /\ rpcPc \in {"unprepMarks", "unprepSave"}
  BY <1>1, <1>4 DEF OwnInv, AloneInv, RightInv, RightIfPresent, VHCUs
<1>5. QED
  BY <1>1, <1>2, <1>3, <1>4 DEF IInv, FileInv, Unsaved

LEMMA RightNext ==
    ASSUME "cdi" \notin Faults, IInv, OwnInv, RightInv, [Next]_vars
    PROVE  RightInv'
<1>1. SUFFICES ASSUME NoIncident'
               PROVE  /\ mPc' # "down" =>
                           \A c \in Claims : RightIfPresent(Devices(prepared, c))'
                      /\ mPc' = "down" =>
                           \A c \in Claims : RightIfPresent(Devices(disk, c))'
                      /\ rpcPc' \in {"unprepMarks", "unprepSave"} => RightIfPresent(created)'
  BY DEF RightInv
<1>2. IInv' /\ OwnInv' /\ NoIncident /\ NoSharedVHCU /\ NoSharedVHCU'
  <2>1. IInv' /\ OwnInv'
    BY InvNext, OwnNext
  <2>2. NoSharedVHCU /\ NoSharedVHCU'
    BY <2>1, IntactNotShared, PTL
  <2>3. QED
    BY <1>1, <2>1, <2>2, HistGrows DEF NoIncident
<1>t. /\ prepared \in PreparedMap /\ prepared' \in PreparedMap
      /\ rpcPc # "idle" => claim \in Claims
      /\ Outcome("cdi") = {TRUE}
  BY <1>2 DEF IInv, TypeOK, Outcome
<1>s. ASSUME syncVDeviceCDISpecFiles(prepared', TRUE), NEW c \in Claims
      PROVE  RightIfPresent(Devices(prepared, c))'
  <2>1. SUFFICES ASSUME NEW p \in VHCUs(Devices(prepared', c))
                 PROVE  cdi'[p.vdv] \in SpecsOf(p.parent)
    BY DEF RightIfPresent, SpecsOf
  <2>2. PICK d \in Claims : \E q \in VHCUs(Devices(prepared', d)) :
          q.vdv = p.vdv /\ cdi'[p.vdv] \in SpecsOf(q.parent)
    BY <1>t, <1>s, SyncKeeps
  <2>3. PICK q \in VHCUs(Devices(prepared', d)) :
          q.vdv = p.vdv /\ cdi'[p.vdv] \in SpecsOf(q.parent)
    BY <2>2
  <2>4. p = q
    BY <1>1, <1>2, <2>3 DEF NoSharedVHCU
  <2>5. QED
    BY <2>3, <2>4
<1>3. ASSUME mPc' # "down", NEW c \in Claims PROVE RightIfPresent(Devices(prepared, c))'
  <2>1. CASE mPc # "down"
    BY <1>2, <1>3, <1>s, <1>t, <2>1, EntrySteps DEF RightInv, RightIfPresent, VHCUs
  <2>2. CASE mPc = "down"
    <3>1. rpcPc = "idle" /\ ~up
      BY <2>2 DEF IInv, MutexInv
    <3>2. Start
      BY <1>3, <2>2, <3>1
         DEF Next, RpcCall, PrepareResourceClaims, UnprepareResourceClaims, RpcStep,
             CheckExisting, RepairCDI, RepairMarks, Reply, SkipForeign, LookupFails,
             LookupDevice, prepareWholeCardDevice, CreateVHCU, AttachVHCU, AttachFails, FinalCDI,
             FinalMarks, FinalSave, Undo, UndoCDI, UndoMarks, UndoSave, UnprepCDI,
             UnprepMarks, UnprepSave, Sweep, DestroyNext, DestroyEnds, MaintStep,
             CleanupOrphanPreparedClaims, OrphanDrop, OrphanDestroy, OrphanCDI, OrphanMarks,
             OrphanSave, RefreshAllocatable, ReconcileDestroy, ReconcileRmConf, Enumerate,
             WriteBase, RestoreCDI, RestoreMarks, PublishResources, DeleteClaim, Crash, vars
    <3>3. Devices(prepared', c) = Devices(disk, c) /\ UNCHANGED cdi
      BY <3>2 DEF Start, Devices, cdiVars
    <3>4. RightIfPresent(Devices(disk, c))
      BY <1>2, <2>2 DEF RightInv
    <3>5. QED
      BY <3>3, <3>4 DEF RightIfPresent
  <2>3. QED
    BY <2>1, <2>2
<1>4. ASSUME mPc' = "down", NEW c \in Claims PROVE RightIfPresent(Devices(disk, c))'
  <2>1. RightIfPresent(Devices(disk, c))
    BY <1>1, <1>2, <1>4, FileSteps, RightEnds DEF RightInv
  <2>2. UNCHANGED <<cdi, disk>>
    BY <1>4, FileSteps DEF ProcessEnds
  <2>3. QED
    BY <2>1, <2>2 DEF RightIfPresent
<1>5. ASSUME rpcPc' \in {"unprepMarks", "unprepSave"} PROVE RightIfPresent(created)'
  <2>1. CASE UnprepCDI
    <3>1. /\ syncVDeviceCDISpecFiles(prepared', TRUE) /\ created' = Devices(prepared, claim)
          /\ prepared' = [prepared EXCEPT ![claim] = NoEntry] /\ claim \in Claims
      BY <1>t, <2>1 DEF UnprepCDI
    <3>2. SUFFICES ASSUME NEW p \in VHCUs(Devices(prepared, claim))
                   PROVE  cdi'[p.vdv] = NoFile
      BY <3>1 DEF RightIfPresent
    <3>3. p.vdv \in VDevs
      BY <1>t, <3>1, DevicesType DEF VHCUs, PreparedDevice
    <3>4. ASSUME NEW d \in Claims, NEW q \in VHCUs(Devices(prepared', d)), q.vdv = p.vdv
          PROVE  FALSE
      <4>1. prepared'[d] = IF d = claim THEN NoEntry ELSE prepared[d]
        BY <1>t, <3>1 DEF PreparedMap
      <4>2. d # claim /\ q \in VHCUs(Devices(prepared, d))
        BY <4>1, <3>4 DEF Devices, NoEntry, VHCUs
      <4>3. QED
        BY <1>2, <3>1, <3>4, <4>2 DEF NoSharedVHCU
    <3>5. p.vdv \notin preparedVDvIndSet(prepared')
      BY <3>4, IndexPrepared
    <3>6. QED
      BY <3>1, <3>3, <3>5, SyncRemoves
  <2>2. CASE ~UnprepCDI
    <3>1. ~RpcCall
      BY <1>5 DEF RpcCall, PrepareResourceClaims, UnprepareResourceClaims, Goto
    <3>2. rpcPc \in {"unprepMarks", "unprepSave"} /\ UNCHANGED created
      BY <1>5, <2>2, <3>1
         DEF Next, RpcStep, CheckExisting, RepairCDI, RepairMarks, Reply, SkipForeign,
             LookupFails, LookupDevice, prepareWholeCardDevice, CreateVHCU, AttachVHCU,
             AttachFails,
             FinalCDI, FinalMarks, FinalSave, Undo, UndoCDI, UndoMarks, UndoSave,
             UnprepMarks, UnprepSave, Sweep, DestroyNext, DestroyEnds,
             rollbackCreatedVDevices, Done, Goto, rpcVars, rpcFrame, stepFrame, MaintStep,
             Start, CleanupOrphanPreparedClaims, OrphanDrop, OrphanDestroy, OrphanCDI,
             OrphanMarks, OrphanSave, RefreshAllocatable, ReconcileDestroy, ReconcileRmConf,
             Enumerate, WriteBase, RestoreCDI, RestoreMarks, PublishResources, DeleteClaim,
             Crash, ProcessEnds, vars
    <3>3. up /\ mu = "rpc" /\ mPc \notin {"orphan", "restore"}
      BY <3>2, ConstantsAssumption DEF IInv, MutexInv, RpcHolds, MaintHolds
    <3>4. UNCHANGED cdi
      BY <1>5, <2>2, <3>1, <3>2, <3>3
         DEF Next, RpcStep, CheckExisting, RepairCDI, RepairMarks, Reply, SkipForeign,
             LookupFails, LookupDevice, prepareWholeCardDevice, CreateVHCU, AttachVHCU,
             AttachFails,
             FinalCDI, FinalMarks, FinalSave, Undo, UndoCDI, UndoMarks, UndoSave,
             UnprepMarks, UnprepSave, Sweep, DestroyNext, DestroyEnds, MaintStep,
             Start, CleanupOrphanPreparedClaims, OrphanDrop, OrphanDestroy, OrphanCDI,
             OrphanMarks, OrphanSave, RefreshAllocatable, ReconcileDestroy, ReconcileRmConf,
             Enumerate, WriteBase, RestoreCDI, RestoreMarks, PublishResources, DeleteClaim,
             Crash, ProcessEnds, vars, cdiVars
    <3>5. QED
      BY <1>2, <3>2, <3>4 DEF RightInv, RightIfPresent
  <2>3. QED
    BY <2>1, <2>2
<1>6. QED
  BY <1>3, <1>4, <1>5

(* When no write of a spec file fails, the file of a vHCU the kubelet holds*)
(* was built for a vHCU of that card, while no incident has happened: it   *)
(* is neither torn nor left over from an earlier owner of the index,       *)
(* whatever was prepared, released or restarted in between. Whether the    *)
(* card was in allocatable at the time is left open.                       *)
THEOREM HandedSpecsStayRight ==
    ASSUME "cdi" \notin Faults
    PROVE  Spec => []HandedSpecsRight
<1>1. Init => PresentInv /\ RightInv
  BY NothingInitially
     DEF Init, PresentInv, RightInv, Present, RightIfPresent, Synced, VHCUs
<1>2. IInv /\ PresentInv /\ [Next]_vars => PresentInv'
  BY PresentNext
<1>3. IInv /\ OwnInv /\ RightInv /\ [Next]_vars => RightInv'
  BY RightNext
<1>4. IInv /\ PresentInv /\ RightInv => HandedSpecsRight
  <2>1. SUFFICES ASSUME IInv, PresentInv, RightInv, up, NoIncident, NEW c \in api,
                        NEW p \in VHCUs(handed[c])
                 PROVE  cdi[p.vdv] \in SpecsOf(p.parent)
    BY DEF HandedSpecsRight
  <2>2. c \in Claims /\ handed[c] # {} /\ mPc # "down"
    BY <2>1 DEF IInv, TypeOK, MutexInv, VHCUs
  <2>3. Devices(prepared, c) = handed[c]
    BY <2>1, <2>2, DevicesOf DEF IInv, HandedInv, NoIncident
  <2>4. QED
    BY <2>1, <2>2, <2>3 DEF PresentInv, Present, RightInv, RightIfPresent
<1>5. QED
  BY <1>1, <1>2, <1>3, <1>4, InvCorrect, OwnershipCorrect, PTL DEF Spec

(* ... and then a repeated Prepare answers with every file of its claim    *)
(* whole and built for a vHCU of its card: RepeatedPrepareRepairs can be   *)
(* violated only when a write of a spec file fails.                        *)
THEOREM RepairsUnlessTorn ==
    ASSUME "cdi" \notin Faults
    PROVE  Spec => RepeatedPrepareRepairs
<1>1. Init => PresentInv /\ RightInv
  BY NothingInitially
     DEF Init, PresentInv, RightInv, Present, RightIfPresent, Synced, VHCUs
<1>2. IInv /\ PresentInv /\ [Next]_vars => PresentInv'
  BY PresentNext
<1>3. IInv /\ OwnInv /\ RightInv /\ [Next]_vars => RightInv'
  BY RightNext
<1>4. IInv /\ PresentInv /\ RightInv /\ [Next]_vars =>
        [(NoIncident /\ rpcPc = "repairMarks" /\ rpcPc' = "reply") =>
           \A p \in VHCUs(Devices(prepared, claim)) : cdi[p.vdv] \in SpecsOf(p.parent)]_vars
  <2>1. ASSUME IInv, rpcPc = "repairMarks" PROVE claim \in Claims /\ mPc # "down"
    BY <2>1 DEF IInv, TypeOK, MutexInv, StartupPcs
  <2>2. QED
    BY <2>1 DEF PresentInv, Present, Synced, RightInv, RightIfPresent
<1>5. QED
  BY <1>1, <1>2, <1>3, <1>4, InvCorrect, OwnershipCorrect, PTL
     DEF Spec, RepeatedPrepareRepairs

-----------------------------------------------------------------------------
(* Dynamic marks                                                           *)

(* The claim in hand has its marks from the sync to the answer.            *)
Marked == \/ rpcPc = "finalSave"
          \/ rpcPc = "reply"

MarksInv ==
    NoIncident => /\ \A c \in api : MarkFiles(handed[c]) \subseteq marks
                  /\ (Marked /\ claim \in api) => MarkFiles(created) \subseteq marks

(* Two claims have one mark only for one vHCU.                             *)
LEMMA MarksApart ==
    ASSUME NEW c \in Claims, NEW d \in Claims, c # d,
           NEW p \in PreparedDevice, NEW q \in PreparedDevice,
           AllocatedTo(c, p), AllocatedTo(d, q), p.mark = q.mark
    PROVE  ~p.whole /\ ~q.whole /\ p.vdv = q.vdv
<1>1. p.whole \in BOOLEAN /\ q.whole \in BOOLEAN /\ p.vdv \in Nat /\ q.vdv \in Nat
  BY ConstantsAssumption DEF PreparedDevice
<1>2. p.whole = q.whole /\ (~p.whole => p.vdv = q.vdv)
  BY <1>1 DEF AllocatedTo, dynamicMarkVDevIndex
<1>3. CASE p.whole
  <2>1. p.mark.holder \in {c, Consumer[c]} /\ p.mark.holder \in {d, Consumer[d]}
    BY DEF AllocatedTo
  <2>2. Consumer[c] = Consumer[d]
    BY <2>1, ConstantsAssumption, HoldersAssumption
  <2>3. PICK r \in Results[c] : r.dev = p.parent /\ r.mode = "whole"
    BY <1>3 DEF AllocatedTo
  <2>4. PICK t \in Results[d] : t.dev = q.parent /\ t.mode = "whole"
    BY <1>2, <1>3 DEF AllocatedTo
  <2>5. p.parent = q.parent
    BY DEF AllocatedTo
  <2>6. QED
    BY <2>2, <2>3, <2>4, <2>5, HoldersAssumption
<1>4. QED
  BY <1>1, <1>2, <1>3

(* Removing the marks of one claim's devices leaves another claim's marks  *)
(* if its vHCUs are intact and the first claim's are its own or gone.      *)
LEMMA OthersKept ==
    ASSUME TypeOK, NEW c \in Claims, NEW d \in Claims, c # d,
           NEW mine \in SUBSET PreparedDevice, AllAllocated(c, mine), AllIntact(c, mine),
           NEW devs \in SUBSET PreparedDevice, AllAllocated(d, devs),
           \A v \in VDvInds(devs) : OwnedOrGone(d, v)
    PROVE  MarkFiles(mine) \cap MarkFiles(devs) = {}
<1>1. SUFFICES ASSUME NEW p \in mine, NEW q \in devs, p.mark = q.mark PROVE FALSE
  BY DEF MarkFiles
<1>2. ~p.whole /\ ~q.whole /\ p.vdv = q.vdv
  BY <1>1, MarksApart DEF AllAllocated
<1>3. p \in VHCUs(mine) /\ q.vdv \in VDvInds(devs)
  BY <1>2 DEF VHCUs, VDvInds
<1>4. host[p.vdv] # NoDev /\ host[p.vdv].claim = c
  BY <1>3, IntactOwner
<1>5. QED
  BY <1>2, <1>3, <1>4 DEF OwnedOrGone

LEMMA OwnedIfIntact ==
    ASSUME NEW d, NEW devs, AllIntact(d, devs)
    PROVE  \A v \in VDvInds(devs) : OwnedOrGone(d, v)
<1>1. ASSUME NEW p \in VHCUs(devs) PROVE host[p.vdv].claim = d
  <2>1. host[p.vdv] = [card |-> p.parent, claim |-> d]
    BY DEF AllIntact, VHCUIntact
  <2>2. QED
    BY <2>1
<1>2. QED
  BY <1>1 DEF VDvInds, OwnedOrGone

(* A sync removes no mark of the map; one that does not fail writes all.   *)
LEMMA SyncMarksKeeps ==
    ASSUME NEW m, NEW ok, syncDynamicMarkFiles(m, ok), NEW c \in Claims
    PROVE  /\ MarkFiles(Devices(m, c)) \cap marks \subseteq marks'
           /\ ok => MarkFiles(Devices(m, c)) \subseteq marks'
<1>1. MarkFiles(Devices(m, c)) \subseteq MarkFiles(AllDevices(m))
  BY DEF MarkFiles, AllDevices
<1>2. QED
  BY <1>1 DEF syncDynamicMarkFiles

(* The steps that take marks away.                                         *)
LEMMA MarkSteps ==
    ASSUME IInv, [Next]_vars
    PROVE  \/ marks \subseteq marks'
           \/ /\ mPc' # "down"
              /\ \E ok \in Outcome("marks") : syncDynamicMarkFiles(prepared', ok)
           \/ /\ rpcPc \in {"loop", "found", "created", "undo"} /\ ~Marked'
              /\ removePreparedDynamicMarks(created)
           \/ UnprepCDI
           \/ Sweep
           \/ \E c \in orphans : OrphanDrop(c)
<1> USE DEF rpcFrame, stateVars, stepFrame, enumVars, mVars, Goto, Marked
<1>u. rpcPc # "idle" => mPc # "down"
  BY DEF IInv, MutexInv, StartupPcs
<1>1. CASE RpcCall
  BY <1>1 DEF RpcCall, PrepareResourceClaims, UnprepareResourceClaims
<1>2. CASE RepairMarks \/ FinalMarks \/ UndoMarks \/ UnprepMarks
  BY <1>u, <1>2 DEF RepairMarks, FinalMarks, UndoMarks, UnprepMarks
<1>3. CASE prepareWholeCardDevice \/ CreateVHCU \/ \E r \in todo : LookupFails(r)
  BY <1>3
     DEF prepareWholeCardDevice, CreateVHCU, LookupFails, attachDynamicMark,
         rollbackCreatedVDevices
<1>4. CASE AttachVHCU \/ AttachFails \/ Undo
  BY <1>4 DEF AttachVHCU, AttachFails, Undo, attachDynamicMark, rollbackCreatedVDevices
<1>5. CASE /\ RpcStep
           /\ ~(RepairMarks \/ FinalMarks \/ UndoMarks \/ UnprepMarks \/ AttachVHCU
                  \/ AttachFails \/ Undo \/ UnprepCDI \/ Sweep
                  \/ prepareWholeCardDevice \/ CreateVHCU)
           /\ ~(\E r \in todo : LookupFails(r))
  BY <1>5
     DEF RpcStep, CheckExisting, RepairCDI, Reply, SkipForeign, LookupDevice, FinalCDI,
         FinalSave, UndoCDI, UndoSave, UnprepSave, DestroyNext, DestroyEnds
<1>6. CASE OrphanMarks \/ RestoreMarks
  BY <1>6 DEF OrphanMarks, RestoreMarks
<1>7. CASE MaintStep /\ ~(OrphanMarks \/ RestoreMarks)
  <2>1. UNCHANGED marks \/ \E c \in orphans : OrphanDrop(c)
    BY <1>7
       DEF MaintStep, Start, CleanupOrphanPreparedClaims, OrphanDestroy, OrphanCDI,
           OrphanSave, RefreshAllocatable, ReconcileDestroy, ReconcileRmConf, Enumerate,
           WriteBase, RestoreCDI, PublishResources, ProcessEnds
  <2>2. QED
    BY <2>1
<1>8. CASE (\E c \in api : DeleteClaim(c)) \/ Crash \/ UNCHANGED vars
  BY <1>8 DEF DeleteClaim, Crash, ProcessEnds, vars
<1>9. QED
  BY <1>1, <1>2, <1>3, <1>4, <1>5, <1>6, <1>7, <1>8 DEF Next

(* How a call comes to have its marks.                                     *)
LEMMA MarkedSteps ==
    ASSUME IInv, [Next]_vars, Marked'
    PROVE  \/ /\ rpcPc \in {"repairMarks", "finalMarks"}
              /\ syncDynamicMarkFiles(prepared, TRUE)
              /\ UNCHANGED <<api, prepared, claim, created>>
           \/ Marked /\ UNCHANGED <<claim, created>>
<1> USE DEF Marked, rpcFrame, stateVars, stepFrame, rpcVars, kubeVars, Goto
<1>1. CASE RepairMarks \/ FinalMarks
  BY <1>1 DEF RepairMarks, FinalMarks, Done, Outcome
<1>2. CASE (RpcCall \/ RpcStep) /\ ~(RepairMarks \/ FinalMarks)
  BY <1>2
     DEF RpcCall, PrepareResourceClaims, UnprepareResourceClaims, RpcStep, CheckExisting,
         RepairCDI, Reply, SkipForeign, LookupFails, LookupDevice, prepareWholeCardDevice,
         CreateVHCU, AttachVHCU, AttachFails, FinalCDI, FinalSave, Undo, UndoCDI,
         UndoMarks, UndoSave,
         UnprepCDI, UnprepMarks, UnprepSave, Sweep, DestroyNext, DestroyEnds,
         rollbackCreatedVDevices, Done
<1>3. CASE MaintStep
  BY <1>3
     DEF MaintStep, Start, CleanupOrphanPreparedClaims, OrphanDrop, OrphanDestroy,
         OrphanCDI, OrphanMarks, OrphanSave, RefreshAllocatable, ReconcileDestroy,
         ReconcileRmConf, Enumerate, WriteBase, RestoreCDI, RestoreMarks,
         PublishResources, ProcessEnds
<1>4. CASE (\E c \in api : DeleteClaim(c)) \/ Crash \/ UNCHANGED vars
  BY <1>4 DEF DeleteClaim, Crash, ProcessEnds, vars
<1>5. QED
  BY <1>1, <1>2, <1>3, <1>4 DEF Next

(* No step takes the marks of an intact list of a claim that exists, when  *)
(* the map has that list before and after the step and no call is preparing*)
(* or releasing that claim.                                                *)
LEMMA MarksStay ==
    ASSUME IInv, OwnInv, AllocInv, NoIncident, [Next]_vars, NEW c \in api,
           NEW mine \in SUBSET PreparedDevice,
           AllAllocated(c, mine), AllIntact(c, mine), MarkFiles(mine) \subseteq marks,
           mPc' # "down" => Devices(prepared', c) = mine,
           c = claim => rpcPc \notin {"loop", "found", "created", "undo"} \cup Unpreparing
    PROVE  MarkFiles(mine) \subseteq marks'
<1>t. /\ TypeOK /\ c \in Claims /\ created \in SUBSET PreparedDevice
      /\ prepared \in PreparedMap /\ orphans \subseteq Claims /\ orphans \cap api = {}
      /\ rpcPc # "idle" => claim \in Claims /\ mPc # "down" /\ up
  BY DEF IInv, TypeOK, MutexInv, StartupPcs, OrphanInv
<1>k. ASSUME NEW d \in Claims, d # c, NEW devs \in SUBSET PreparedDevice,
             AllAllocated(d, devs), \A v \in VDvInds(devs) : OwnedOrGone(d, v),
             removePreparedDynamicMarks(devs)
      PROVE  MarkFiles(mine) \subseteq marks'
  <2>1. MarkFiles(mine) \cap MarkFiles(devs) = {}
    BY <1>t, <1>k, OthersKept
  <2>2. QED
    BY <1>k, <2>1 DEF removePreparedDynamicMarks
<1>1. CASE mPc' # "down" /\ \E ok \in Outcome("marks") : syncDynamicMarkFiles(prepared', ok)
  BY <1>t, <1>1, SyncMarksKeeps
<1>2. CASE /\ rpcPc \in {"loop", "found", "created", "undo"} /\ ~Marked'
           /\ removePreparedDynamicMarks(created)
  <2>1. claim \in Claims /\ claim # c /\ AllAllocated(claim, created)
    BY <1>t, <1>2 DEF AllocInv
  <2>2. \A v \in VDvInds(created) : OwnedOrGone(claim, v)
    BY <1>2, OwnedIfIntact DEF OwnInv, LocalInv
  <2>3. QED
    BY <1>t, <1>2, <1>k, <2>1, <2>2
<1>3. CASE UnprepCDI
  <2>1. rpcPc = "unprep" /\ claim \in Claims /\ claim # c /\ mPc # "down"
    BY <1>t, <1>3 DEF UnprepCDI, Unpreparing
  <2>2. removePreparedDynamicMarks(Devices(prepared, claim))
    BY <1>3 DEF UnprepCDI, removePreparedDynamicMarks
  <2>3. AllIntact(claim, Devices(prepared, claim))
    BY <2>1 DEF OwnInv, MapInv
  <2>4. QED
    BY <1>t, <1>k, <2>1, <2>2, <2>3, OwnedIfIntact, DevicesType DEF AllocInv
<1>4. CASE Sweep
  <2>1. claim \in Claims /\ claim # c /\ removeDynamicMarksByClaimUID(claim)
    BY <1>t, <1>4 DEF Sweep, Unpreparing
  <2>2. Consumer[c] # claim
    BY <1>t, <2>1, ConstantsAssumption, HoldersAssumption
  <2>3. \A f \in MarkFiles(mine) : f.holder # claim
    BY <2>1, <2>2 DEF MarkFiles, AllAllocated, AllocatedTo
  <2>4. QED
    BY <2>1, <2>3 DEF removeDynamicMarksByClaimUID
<1>5. ASSUME NEW d \in orphans, OrphanDrop(d) PROVE MarkFiles(mine) \subseteq marks'
  <2>1. d \in Claims /\ d # c /\ mPc = "orphan"
    BY <1>t, <1>5 DEF OrphanDrop
  <2>2. removePreparedDynamicMarks(Devices(prepared, d))
    BY <1>5 DEF OrphanDrop
  <2>3. \A v \in VDvInds(Devices(prepared, d)) : OwnedOrGone(d, v)
    <3>1. CASE d = claim /\ rpcPc = "undoDestroy"
      BY <2>1, <3>1 DEF OwnInv, MapInv, VDvInds
    <3>2. CASE ~(d = claim /\ rpcPc = "undoDestroy")
      BY <2>1, <3>2, OwnedIfIntact DEF OwnInv, MapInv
    <3>3. QED
      BY <3>1, <3>2
  <2>4. QED
    BY <1>t, <1>k, <2>1, <2>2, <2>3, DevicesType DEF AllocInv
<1>6. QED
  BY <1>1, <1>2, <1>3, <1>4, <1>5, MarkSteps

LEMMA MarksNext ==
    ASSUME IInv, OwnInv, AllocInv, MarksInv, [Next]_vars
    PROVE  MarksInv'
<1>1. SUFFICES ASSUME NoIncident', NEW c \in api'
               PROVE  /\ MarkFiles(handed'[c]) \subseteq marks'
                      /\ (Marked' /\ claim' = c) => MarkFiles(created') \subseteq marks'
  BY DEF MarksInv
<1>2. /\ IInv' /\ NoIncident /\ "dirtyCrash" \notin hist /\ "dirtyCrash" \notin hist'
      /\ MarkFiles(handed[c]) \subseteq marks
      /\ (Marked /\ claim = c) => MarkFiles(created) \subseteq marks
  BY <1>1, InvNext, HistGrows, FileSteps DEF NoIncident, MarksInv
<1>t. /\ c \in api /\ c \in Claims
      /\ created \in SUBSET PreparedDevice /\ prepared \in PreparedMap
      /\ handed[c] \in SUBSET PreparedDevice /\ handed \in [Claims -> SUBSET PreparedDevice]
      /\ rpcPc # "idle" => mPc # "down"
      /\ rpcPc' # "idle" => mPc' # "down"
  BY <1>1, <1>2, FileSteps DEF IInv, TypeOK, MutexInv, StartupPcs
<1>3. ASSUME handed'[c] = handed[c] PROVE MarkFiles(handed'[c]) \subseteq marks'
  <2>1. CASE handed[c] = {}
    BY <1>3, <2>1 DEF MarkFiles
  <2>2. CASE handed[c] # {}
    <3>1. AllAllocated(c, handed[c])
      BY <1>2, <1>t, <2>2, DevicesOf DEF AllocInv, IInv, HandedInv
    <3>2. AllIntact(c, handed[c])
      BY <1>2, <1>t, HandedIntact DEF HandedVHCUsKept, HandedVHCUsIntact, AllIntact
    <3>3. mPc' # "down" => Devices(prepared', c) = handed[c]
      BY <1>1, <1>2, <1>3, <2>2, DevicesOf DEF IInv, HandedInv
    <3>4. c = claim => rpcPc \notin {"loop", "found", "created", "undo"} \cup Unpreparing
      BY <1>2, <1>t, <2>2 DEF IInv, CallInv, Preparing, UndoPcs
    <3>5. MarkFiles(handed[c]) \subseteq marks'
      BY <1>2, <1>t, <3>1, <3>2, <3>3, <3>4, MarksStay
    <3>6. QED
      BY <1>3, <3>5
  <2>3. QED
    BY <2>1, <2>2
<1>4. ASSUME handed'[c] # handed[c], Reply PROVE MarkFiles(handed'[c]) \subseteq marks'
  <2>1. c = claim /\ rpcPc = "reply" /\ handed'[c] = created /\ UNCHANGED marks
    BY <1>t, <1>4 DEF Reply
  <2>2. QED
    BY <1>2, <2>1 DEF Marked
<1>5. ASSUME handed'[c] = {} PROVE MarkFiles(handed'[c]) \subseteq marks'
  BY <1>5 DEF MarkFiles
<1>6. ASSUME Marked', claim' = c PROVE MarkFiles(created') \subseteq marks'
  <2>1. CASE /\ rpcPc \in {"repairMarks", "finalMarks"}
             /\ syncDynamicMarkFiles(prepared, TRUE)
             /\ UNCHANGED <<api, prepared, claim, created>>
    <3>1. Devices(prepared, c) = created
      BY <1>t, <1>6, <2>1, DevicesOf DEF IInv, CallInv, Answering
    <3>2. QED
      BY <1>t, <2>1, <3>1, SyncMarksKeeps
  <2>2. CASE Marked /\ UNCHANGED <<claim, created>>
    <3>1. Devices(prepared, c) = created /\ rpcPc \in {"reply", "finalSave"}
      BY <1>t, <1>6, <2>2, DevicesOf DEF IInv, CallInv, Answering, Marked
    <3>2. mPc' # "down" /\ Devices(prepared', c) = created
      BY <1>1, <1>2, <1>t, <1>6, <2>2, DevicesOf
         DEF IInv, CallInv, Answering, Marked
    <3>3. AllAllocated(c, created) /\ AllIntact(c, created)
      BY <1>2, <1>t, <3>1 DEF AllocInv, OwnInv, MapInv
    <3>4. MarkFiles(created) \subseteq marks
      BY <1>2, <1>6, <2>2
    <3>5. rpcPc \notin {"loop", "found", "created", "undo"} \cup Unpreparing
      BY <3>1 DEF Unpreparing
    <3>6. MarkFiles(created) \subseteq marks'
      BY <1>2, <1>t, <3>2, <3>3, <3>4, <3>5, MarksStay
    <3>7. QED
      BY <2>2, <3>6
  <2>3. QED
    BY <1>6, <2>1, <2>2, MarkedSteps
<1>7. QED
  <2>1. handed'[c] = handed[c] \/ handed'[c] = {} \/ Reply
    BY <1>t, FileSteps
  <2>2. QED
    BY <1>3, <1>4, <1>5, <1>6, <2>1

(* While no incident has happened, every device the kubelet holds has its  *)
(* dynamic mark: no rollback, release or orphan cleanup of another claim,  *)
(* no sweep by claim UID and no sync that fails half-way takes it.         *)
THEOREM HandedMarksStay == Spec => []HandedMarked
<1>1. Init => MarksInv
  BY DEF Init, MarksInv, MarkFiles, Marked
<1>2. IInv /\ OwnInv /\ AllocInv /\ MarksInv /\ [Next]_vars => MarksInv'
  BY MarksNext
<1>3. IInv /\ MarksInv => HandedMarked
  BY DEF MarksInv, MarkFiles, HandedMarked
<1>4. QED
  BY <1>1, <1>2, <1>3, PreparedAsAllocated, InvCorrect, OwnershipCorrect, PTL DEF Spec
=============================================================================
