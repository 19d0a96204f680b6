-------------------------- MODULE HcuDriverProofs --------------------------
(***************************************************************************)
(* Theorems about HcuDriver, for every set of claims, cards, vHCUs and     *)
(* allocation results, every choice of failing calls and every number of   *)
(* crashes.                                                                *)
(***************************************************************************)
EXTENDS HcuDriver, TLAPS

-----------------------------------------------------------------------------
(* Types                                                                   *)

(* The prepared map and its helpers.                                       *)
LEMMA DevicesType ==
    ASSUME NEW m \in PreparedMap, NEW c \in Claims
    PROVE  Devices(m, c) \subseteq PreparedDevice
BY DEF Devices, PreparedMap

LEMMA EmptyMapType == EmptyMap \in PreparedMap
BY DEF EmptyMap, PreparedMap, NoEntry

LEMMA AllDevicesType ==
    ASSUME NEW m \in PreparedMap
    PROVE  AllDevices(m) \subseteq PreparedDevice
BY DevicesType DEF AllDevices

LEMMA VDvIndsType ==
    ASSUME NEW devs \in SUBSET PreparedDevice
    PROVE  VDvInds(devs) \subseteq VDevs
BY DEF VDvInds, VHCUs, PreparedDevice

LEMMA MarkFilesType ==
    ASSUME NEW devs \in SUBSET PreparedDevice
    PROVE  MarkFiles(devs) \subseteq Mark
BY DEF MarkFiles, PreparedDevice

LEMMA UpdateType ==
    ASSUME NEW m \in PreparedMap, NEW c \in Claims
    PROVE  /\ [m EXCEPT ![c] = NoEntry] \in PreparedMap
           /\ \A devs \in SUBSET PreparedDevice :
                [m EXCEPT ![c] = Entry(devs)] \in PreparedMap
BY DEF PreparedMap, NoEntry, Entry

(* What the shared operations do to the files they write.                  *)
LEMMA SyncMarksType ==
    ASSUME NEW m \in PreparedMap, NEW ok, marks \subseteq Mark,
           syncDynamicMarkFiles(m, ok)
    PROVE  marks' \subseteq Mark
<1>1. MarkFiles(AllDevices(m)) \subseteq Mark
  BY AllDevicesType, MarkFilesType
<1>2. QED
  BY <1>1 DEF syncDynamicMarkFiles

LEMMA RemoveMarksType ==
    ASSUME NEW devs, marks \subseteq Mark, removePreparedDynamicMarks(devs)
    PROVE  marks' \subseteq Mark
BY DEF removePreparedDynamicMarks

LEMMA DestroyType ==
    ASSUME TypeOK, NEW v \in VDevs, NEW ok \in BOOLEAN, DestroySingleVDevice(v, ok)
    PROVE  /\ host' \in [VDevs -> {NoDev} \cup [card : Cards, claim : Claims]]
           /\ conf' \subseteq VDevs
BY DEF DestroySingleVDevice, TypeOK

LEMMA CreateType ==
    ASSUME TypeOK, NEW card \in Cards, NEW v \in VDevs, claim \in Claims,
           CreateVDevices(card, v)
    PROVE  /\ host' \in [VDevs -> {NoDev} \cup [card : Cards, claim : Claims]]
           /\ conf' \subseteq VDevs
BY DEF CreateVDevices, TypeOK

LEMMA SyncCDIType ==
    ASSUME NEW m, NEW ok, syncVDeviceCDISpecFiles(m, ok)
    PROVE  cdi' \in CdiFiles
BY DEF syncVDeviceCDISpecFiles

LEMMA SaveType ==
    ASSUME TypeOK, NEW m \in PreparedMap, NEW ok \in BOOLEAN, savePreparedState(m, ok)
    PROVE  disk' \in PreparedMap /\ dirty' \in BOOLEAN
BY DEF savePreparedState, TypeOK

LEMMA OutcomeType == \A op : Outcome(op) \subseteq BOOLEAN
BY DEF Outcome

LEMMA ConstantsType ==
    /\ \A c \in Claims : Results[c] \subseteq Result
    /\ \A c \in Claims : Consumer[c] \in Consumers
    /\ 0 \in VDevs /\ MaxCrashes \in Nat
    /\ Nobody \notin Claims
BY ConstantsAssumption

(* A device that attachDynamicMark records.                                *)
LEMMA AttachType ==
    ASSUME TypeOK, NEW r \in Result, NEW whole \in BOOLEAN, NEW v \in VDevs,
           claim \in Claims, attachDynamicMark(r, whole, v)
    PROVE  /\ marks' \subseteq Mark
           /\ created' \subseteq PreparedDevice
           /\ todo' = todo \ {r}
<1>1. PICK holder \in MarkHolders(claim) :
        LET p == Record(r, whole, v, holder) IN
        marks' = marks \cup {p.mark} /\ created' = created \cup {p} /\ todo' = todo \ {r}
  BY DEF attachDynamicMark
<1> DEFINE p == Record(r, whole, v, holder)
<1>2. holder \in Claims \cup Consumers
  BY ConstantsType DEF MarkHolders
<1>3. p.mark \in Mark /\ p \in PreparedDevice
  BY <1>2 DEF Record, dynamicMarkFileName, dynamicMarkVDevIndex, Mark, PreparedDevice, Result
<1>4. QED
  BY <1>1, <1>3 DEF TypeOK

LEMMA TypeInit == Init => TypeOK
<1> SUFFICES ASSUME Init PROVE TypeOK
  OBVIOUS
<1>1. /\ cdi \in CdiFiles
      /\ host \in [VDevs -> {NoDev} \cup [card : Cards, claim : Claims]]
      /\ handed \in [Claims -> SUBSET PreparedDevice]
  BY DEF Init, CdiFiles
<1>2. prepared \in PreparedMap /\ disk \in PreparedMap
  BY EmptyMapType DEF Init
<1>3. crashes \in 0..MaxCrashes
  BY ConstantsType DEF Init
<1>4. QED
  BY <1>1, <1>2, <1>3 DEF Init, TypeOK, RpcPcs, MaintPcs

LEMMA TypeRpc ==
    ASSUME TypeOK, RpcCall \/ RpcStep
    PROVE  TypeOK'
<1> USE DEF rpcFrame, stateVars, enumVars, mVars, hostVars, rpcVars, Goto, RpcPcs
<1>1. ASSUME NEW c \in Claims, PrepareResourceClaims(c) PROVE TypeOK'
  BY <1>1 DEF TypeOK, PrepareResourceClaims
<1>2. ASSUME NEW c \in Claims, UnprepareResourceClaims(c) PROVE TypeOK'
  BY <1>2 DEF TypeOK, UnprepareResourceClaims
<1>3. CASE CheckExisting
  <2>1. claim \in Claims /\ prepared \in PreparedMap
    BY <1>3 DEF TypeOK, CheckExisting
  <2>2. created' \subseteq PreparedDevice /\ todo' \subseteq Result
    BY <1>3, <2>1, DevicesType, ConstantsType DEF CheckExisting
  <2>3. QED
    BY <1>3, <2>2 DEF TypeOK, CheckExisting
<1>4. CASE RepairCDI
  <2>1. cdi' \in CdiFiles
    BY <1>4, SyncCDIType DEF RepairCDI, TypeOK
  <2>2. QED
    BY <1>4, <2>1 DEF TypeOK, RepairCDI, Done
<1>5. CASE RepairMarks
  <2>1. marks' \subseteq Mark
    BY <1>5, SyncMarksType DEF RepairMarks, TypeOK
  <2>2. QED
    BY <1>5, <2>1 DEF TypeOK, RepairMarks, Done
<1>6. CASE Reply
  BY <1>6 DEF TypeOK, Reply, Done
<1>7. ASSUME NEW r \in todo, SkipForeign(r) PROVE TypeOK'
  BY <1>7 DEF TypeOK, SkipForeign
<1>8. ASSUME NEW r \in todo, LookupFails(r) PROVE TypeOK'
  BY <1>8, RemoveMarksType, VDvIndsType DEF TypeOK, LookupFails, rollbackCreatedVDevices
<1>26. ASSUME NEW r \in todo, LookupDevice(r) PROVE TypeOK'
  BY <1>26 DEF TypeOK, LookupDevice
<1>9. CASE prepareWholeCardDevice
  <2>1. fresh.res \in Result /\ claim \in Claims
    BY <1>9 DEF TypeOK, prepareWholeCardDevice
  <2>2. CASE /\ attachDynamicMark(fresh.res, TRUE, 0)
             /\ rpcPc' = "loop" /\ fresh' = Nobody /\ UNCHANGED pend
    <3>1. /\ marks' \subseteq Mark /\ created' \subseteq PreparedDevice
          /\ todo' = todo \ {fresh.res}
      BY <2>1, <2>2, AttachType, ConstantsType
    <3>2. QED
      BY <1>9, <2>2, <3>1 DEF TypeOK, prepareWholeCardDevice
  <2>3. CASE rollbackCreatedVDevices("rollback") /\ UNCHANGED <<todo, created>>
    BY <1>9, <2>3, RemoveMarksType, VDvIndsType
       DEF TypeOK, prepareWholeCardDevice, rollbackCreatedVDevices
  <2>4. QED
    BY <1>9, <2>2, <2>3 DEF prepareWholeCardDevice
<1>10. CASE CreateVHCU
  <2>1. fresh.res \in Result /\ fresh.res.dev \in Cards /\ claim \in Claims
    BY <1>10 DEF TypeOK, CreateVHCU, Result
  <2>2. ASSUME NEW v \in VDevs, CreateVDevices(fresh.res.dev, v),
               fresh' = [res |-> fresh.res, vdv |-> v],
               rpcPc' = "created", UNCHANGED <<marks, pend>>
        PROVE  TypeOK'
    <3>1. fresh' \in [res : Result, vdv : VDevs]
      BY <2>1, <2>2
    <3>2. /\ host' \in [VDevs -> {NoDev} \cup [card : Cards, claim : Claims]]
          /\ conf' \subseteq VDevs
      BY <2>1, <2>2, CreateType
    <3>3. QED
      BY <1>10, <2>2, <3>1, <3>2 DEF TypeOK, CreateVHCU
  <2>3. CASE rollbackCreatedVDevices("rollback") /\ UNCHANGED hostVars
    BY <1>10, <2>3, RemoveMarksType, VDvIndsType
       DEF TypeOK, CreateVHCU, rollbackCreatedVDevices
  <2>4. QED
    BY <1>10, <2>2, <2>3 DEF CreateVHCU
<1>11. CASE AttachVHCU
  <2>1. fresh.res \in Result /\ fresh.vdv \in VDevs /\ claim \in Claims
    BY <1>11 DEF TypeOK, AttachVHCU
  <2>2. /\ marks' \subseteq Mark /\ created' \subseteq PreparedDevice
        /\ todo' = todo \ {fresh.res}
    BY <1>11, <2>1, AttachType DEF AttachVHCU
  <2>3. QED
    BY <1>11, <2>2 DEF TypeOK, AttachVHCU
<1>12. CASE AttachFails
  <2>1. fresh.vdv \in VDevs
    BY <1>12 DEF TypeOK, AttachFails
  <2>2. /\ host' \in [VDevs -> {NoDev} \cup [card : Cards, claim : Claims]]
        /\ conf' \subseteq VDevs
    BY <1>12, <2>1, DestroyType DEF AttachFails, DestroyOutcomes
  <2>3. QED
    BY <1>12, <2>2, RemoveMarksType, VDvIndsType
       DEF TypeOK, AttachFails, rollbackCreatedVDevices
<1>13. CASE FinalCDI
  <2>1. prepared' \in PreparedMap /\ cdi' \in CdiFiles
    BY <1>13, UpdateType, SyncCDIType DEF FinalCDI, TypeOK
  <2>2. QED
    BY <1>13, <2>1 DEF TypeOK, FinalCDI
<1>14. CASE FinalMarks
  <2>1. marks' \subseteq Mark
    BY <1>14, SyncMarksType DEF FinalMarks, TypeOK
  <2>2. QED
    BY <1>14, <2>1 DEF TypeOK, FinalMarks
<1>15. CASE FinalSave
  BY <1>15, SaveType, OutcomeType DEF TypeOK, FinalSave
<1>16. CASE Undo
  BY <1>16, RemoveMarksType, VDvIndsType DEF TypeOK, Undo, rollbackCreatedVDevices
<1>17. CASE UndoCDI
  <2>1. prepared' \in PreparedMap /\ cdi' \in CdiFiles
    BY <1>17, UpdateType, SyncCDIType DEF UndoCDI, TypeOK
  <2>2. QED
    BY <1>17, <2>1 DEF TypeOK, UndoCDI
<1>18. CASE UndoMarks
  <2>1. marks' \subseteq Mark
    BY <1>18, SyncMarksType DEF UndoMarks, TypeOK
  <2>2. QED
    BY <1>18, <2>1 DEF TypeOK, UndoMarks
<1>19. CASE UndoSave
  BY <1>19, SaveType, OutcomeType DEF TypeOK, UndoSave, Done
<1>20. CASE UnprepCDI
  <2>1. prepared' \in PreparedMap /\ cdi' \in CdiFiles
    BY <1>20, UpdateType, SyncCDIType DEF UnprepCDI, TypeOK
  <2>2. created' \subseteq PreparedDevice /\ marks' \subseteq Mark
    BY <1>20, DevicesType DEF UnprepCDI, TypeOK, removePreparedDynamicMarks
  <2>3. QED
    BY <1>20, <2>1, <2>2 DEF TypeOK, UnprepCDI
<1>21. CASE UnprepMarks
  <2>1. marks' \subseteq Mark
    BY <1>21, SyncMarksType DEF UnprepMarks, TypeOK
  <2>2. QED
    BY <1>21, <2>1 DEF TypeOK, UnprepMarks
<1>22. CASE UnprepSave
  BY <1>22, SaveType, OutcomeType DEF TypeOK, UnprepSave
<1>23. CASE Sweep
  BY <1>23, VDvIndsType DEF TypeOK, Sweep, removeDynamicMarksByClaimUID
<1>24. ASSUME NEW v \in pend, DestroyNext(v) PROVE TypeOK'
  <2>1. /\ host' \in [VDevs -> {NoDev} \cup [card : Cards, claim : Claims]]
        /\ conf' \subseteq VDevs
    BY <1>24, DestroyType DEF DestroyNext, DestroyOutcomes, TypeOK
  <2>2. QED
    BY <1>24, <2>1 DEF TypeOK, DestroyNext
<1>25. CASE DestroyEnds
  BY <1>25 DEF TypeOK, DestroyEnds, Done
<1>27. QED
  BY <1>1, <1>2, <1>3, <1>4, <1>5, <1>6, <1>7, <1>8, <1>9, <1>10, <1>11, <1>12, <1>13,
     <1>14, <1>15, <1>16, <1>17, <1>18, <1>19, <1>20, <1>21, <1>22, <1>23, <1>24, <1>25,
     <1>26
     DEF RpcCall, RpcStep

LEMMA TypeEnds ==
    ASSUME TypeOK, ProcessEnds, base' \in {Torn} \cup SUBSET Cards
    PROVE  TypeOK'
<1>1. prepared' \in PreparedMap
  BY EmptyMapType DEF ProcessEnds
<1>2. crashes' \in 0..MaxCrashes
  BY ConstantsType DEF ProcessEnds, TypeOK
<1>3. hist' \subseteq {"dirtyCrash", "orphanCrash", "undoCrash", "steal"}
  BY DEF ProcessEnds, TypeOK, Incidents
<1>4. QED
  BY <1>1, <1>2, <1>3 DEF TypeOK, ProcessEnds, kubeVars, hostVars, RpcPcs, MaintPcs

LEMMA TypeMaint ==
    ASSUME TypeOK, MaintStep
    PROVE  TypeOK'
<1> USE DEF stepFrame, kubeVars, enumVars, mVars, hostVars, cdiVars, rpcVars, MaintPcs
<1>1. CASE Start
  BY <1>1 DEF TypeOK, Start, Untracked, VDeviceInfos
<1>2. CASE CleanupOrphanPreparedClaims
  BY <1>2 DEF TypeOK, CleanupOrphanPreparedClaims, OrphanUIDs
<1>3. ASSUME NEW c \in orphans, OrphanDrop(c) PROVE TypeOK'
  <2>1. c \in Claims /\ prepared \in PreparedMap
    BY DEF TypeOK
  <2>2. Devices(prepared, c) \subseteq PreparedDevice
    BY <2>1, DevicesType
  <2>3. mPend' \subseteq VDevs /\ prepared' \in PreparedMap /\ marks' \subseteq Mark
    BY <1>3, <2>1, <2>2, VDvIndsType, UpdateType, RemoveMarksType DEF OrphanDrop, TypeOK
  <2>4. QED
    BY <1>3, <2>3 DEF TypeOK, OrphanDrop
<1>4. ASSUME NEW v \in mPend, OrphanDestroy(v) PROVE TypeOK'
  <2>1. /\ host' \in [VDevs -> {NoDev} \cup [card : Cards, claim : Claims]]
        /\ conf' \subseteq VDevs
    BY <1>4, DestroyType DEF OrphanDestroy, DestroyOutcomes, TypeOK
  <2>2. QED
    BY <1>4, <2>1 DEF TypeOK, OrphanDestroy
<1>5. CASE OrphanCDI
  <2>1. cdi' \in CdiFiles
    BY <1>5, SyncCDIType DEF OrphanCDI
  <2>2. QED
    BY <1>5, <2>1 DEF TypeOK, OrphanCDI
<1>6. CASE OrphanMarks
  <2>1. marks' \subseteq Mark
    BY <1>6, SyncMarksType DEF OrphanMarks, TypeOK
  <2>2. QED
    BY <1>6, <2>1 DEF TypeOK, OrphanMarks
<1>7. CASE OrphanSave
  BY <1>7, SaveType, OutcomeType DEF TypeOK, OrphanSave
<1>8. CASE RefreshAllocatable
  BY <1>8 DEF TypeOK, RefreshAllocatable, Untracked, VDeviceInfos
<1>9. ASSUME NEW v \in mPend, ReconcileDestroy(v) PROVE TypeOK'
  <2>1. /\ host' \in [VDevs -> {NoDev} \cup [card : Cards, claim : Claims]]
        /\ conf' \subseteq VDevs
    BY <1>9, DestroyType DEF ReconcileDestroy, DestroyOutcomes, TypeOK
  <2>2. v \in VDevs /\ mPend' \subseteq VDevs
    BY <1>9 DEF TypeOK, ReconcileDestroy
  <2>3. QED
    BY <1>9, <2>1, <2>2 DEF TypeOK, ReconcileDestroy
<1>10. CASE ReconcileRmConf
  BY <1>10 DEF TypeOK, ReconcileRmConf
<1>11. CASE Enumerate
  <2>1. CASE ProcessEnds /\ UNCHANGED base
    BY <2>1, TypeEnds DEF TypeOK
  <2>2. CASE ~(ProcessEnds /\ UNCHANGED base)
    BY <1>11, <2>2 DEF TypeOK, Enumerate, buildAllocatableFromDeviceInfos
  <2>3. QED
    BY <2>1, <2>2
<1>12. CASE WriteBase
  <2>1. base' \in {Torn} \cup SUBSET Cards
    BY <1>12 DEF WriteBase, createStandardCDISpecFile, TypeOK
  <2>2. CASE ProcessEnds
    BY <2>1, <2>2, TypeEnds
  <2>3. CASE ~ProcessEnds
    BY <1>12, <2>1, <2>3 DEF TypeOK, WriteBase
  <2>4. QED
    BY <2>2, <2>3
<1>13. CASE RestoreCDI
  <2>1. cdi' \in CdiFiles
    BY <1>13, SyncCDIType DEF RestoreCDI, TypeOK
  <2>2. QED
    BY <1>13, <2>1 DEF TypeOK, RestoreCDI
<1>14. CASE RestoreMarks
  <2>1. marks' \subseteq Mark
    BY <1>14, SyncMarksType DEF RestoreMarks, TypeOK
  <2>2. QED
    BY <1>14, <2>1 DEF TypeOK, RestoreMarks
<1>15. CASE PublishResources
  <2>1. CASE ProcessEnds /\ UNCHANGED base
    BY <2>1, TypeEnds DEF TypeOK
  <2>2. CASE ~(ProcessEnds /\ UNCHANGED base)
    BY <1>15, <2>2 DEF TypeOK, PublishResources
  <2>3. QED
    BY <2>1, <2>2
<1>16. QED
  BY <1>1, <1>2, <1>3, <1>4, <1>5, <1>6, <1>7, <1>8, <1>9, <1>10, <1>11, <1>12,
     <1>13, <1>14, <1>15 DEF MaintStep

LEMMA TypeNext ==
    ASSUME TypeOK, [Next]_vars
    PROVE  TypeOK'
<1>1. CASE RpcCall \/ RpcStep
  BY <1>1, TypeRpc
<1>2. CASE MaintStep
  BY <1>2, TypeMaint
<1>3. ASSUME NEW c \in api, DeleteClaim(c) PROVE TypeOK'
  BY <1>3 DEF TypeOK, DeleteClaim, hostVars, cdiVars, enumVars, rpcVars, mVars
<1>4. CASE Crash
  BY <1>4, TypeEnds DEF Crash, TypeOK
<1>5. CASE UNCHANGED vars
  BY <1>5 DEF TypeOK, vars
<1>6. QED
  BY <1>1, <1>2, <1>3, <1>4, <1>5 DEF Next

(* Every state the driver, its host and its files can reach is well typed: *)
(* no operation of Prepare, Unprepare, orphan cleanup, reconcile or startup*)
(* records a device or touches a vHCU that cannot exist.                   *)
THEOREM TypeCorrect == Spec => []TypeOK
<1>1. QED
  BY TypeInit, TypeNext, PTL DEF Spec
-----------------------------------------------------------------------------
(* What a restarted driver remembers                                       *)

RpcHolds ==
    {"repairMarks", "finalMarks", "finalSave", "undoMarks", "undoSave",
     "unprepMarks", "unprepSave"}

MaintHolds == {"orphan", "orphanMarks", "orphanSave", "reconcile", "rmConf", "base"}

StartupPcs == {"down", "reconcile", "rmConf", "base", "restore", "restoreMarks"}

(* Prepare has the devices it is going to answer in its local list.        *)
Answering == {"repair", "repairMarks", "reply", "finalMarks", "finalSave"}

Preparing == {"loop", "found", "created", "rollback", "finalMarks", "finalSave"} \cup UndoPcs

Unpreparing == {"unprep", "unprepMarks", "unprepSave", "sweep", "unprepDestroy"}

(* The entry of the claim in hand was changed and is not yet saved.        *)
Unsaved == {"finalMarks", "finalSave", "unprepMarks", "unprepSave"} \cup UndoPcs

(* Who holds mu, from where the two goroutines are.                        *)
MutexInv ==
    /\ mu = "rpc" <=> rpcPc \in RpcHolds
    /\ mu = "maint" <=> (up /\ mPc \in MaintHolds)
    /\ ~up => rpcPc = "idle" /\ mPc \in StartupPcs
    /\ up => mPc \notin {"down", "restore", "restoreMarks"}
    /\ ~boot => up

(* The claim in hand: not handed out while it is being prepared or         *)
(* released, and in the map as it is going to be answered.                 *)
CallInv ==
    /\ rpcPc \in Unpreparing => handed[claim] = {}
    /\ (rpcPc \in Preparing /\ claim \in api /\ "dirtyCrash" \notin hist)
         => handed[claim] = {}
    /\ (rpcPc \in Answering /\ claim \in api) => prepared[claim] = Entry(created)

(* The state file differs from the map only where a change is under way.   *)
FileInv ==
    (mPc # "down" /\ ~dirty) =>
      \A c \in Claims : \/ disk[c] = prepared[c]
                        \/ c = claim /\ rpcPc \in Unsaved
                        \/ c \notin api /\ mPc \in OrphanPcs

(* What was handed out is in the map, or in the file while there is none.  *)
HandedInv ==
    "dirtyCrash" \notin hist =>
      \A c \in api : handed[c] # {} =>
        IF mPc = "down" THEN disk[c] = Entry(handed[c])
                        ELSE prepared[c] = Entry(handed[c])

(* What orphan cleanup works through does not come back.                   *)
OrphanInv == orphans \cap api = {}

(* A process that ended has no map and nothing to save.                    *)
DownInv == mPc = "down" => ~dirty /\ prepared = EmptyMap

IInv ==
    /\ TypeOK
    /\ MutexInv /\ CallInv /\ FileInv /\ HandedInv
    /\ OrphanInv /\ DownInv

(* A map entry determines its list, and a list that is not empty its entry.*)
LEMMA EntryDevices ==
    ASSUME NEW m \in PreparedMap, NEW c \in Claims
    PROVE  /\ Devices(m, c) # {} => m[c] = Entry(Devices(m, c))
           /\ \A devs : m[c] = Entry(devs) => Devices(m, c) = devs
<1>1. ASSUME NEW devs, m[c] = Entry(devs) PROVE Devices(m, c) = devs
  BY <1>1 DEF Entry, Devices
<1>2. ASSUME Devices(m, c) # {} PROVE m[c] = Entry(Devices(m, c))
  <2>1. PICK devs : devs \in m[c]
    BY <1>2 DEF Devices
  <2>2. m[c] = Entry(devs)
    BY <2>1 DEF PreparedMap, Entry
  <2>3. QED
    BY <1>1, <2>2
<1>3. QED
  BY <1>1, <1>2

LEMMA InvInit == Init => IInv
BY TypeInit, ConstantsAssumption
   DEF Init, IInv, MutexInv, CallInv, FileInv, HandedInv, OrphanInv, DownInv, RpcHolds,
       MaintHolds, StartupPcs, Answering, Preparing, Unpreparing, UndoPcs

LEMMA InvRpc ==
    ASSUME IInv, RpcCall \/ RpcStep
    PROVE  IInv'
<1> USE DEF IInv, MutexInv, CallInv, FileInv, HandedInv, OrphanInv, DownInv,
            RpcHolds, MaintHolds, StartupPcs, Answering, Preparing, Unpreparing, Unsaved,
            UndoPcs, OrphanPcs, rpcFrame, stateVars, enumVars, mVars, hostVars, rpcVars,
            Goto
<1>0. TypeOK'
  BY TypeRpc
<1>t. /\ handed \in [Claims -> SUBSET PreparedDevice]
      /\ prepared \in PreparedMap /\ disk \in PreparedMap
      /\ rpcPc # "idle" => claim \in Claims
      /\ api \subseteq Claims
  BY DEF TypeOK
<1>n. Nobody \notin {"rpc", "maint"}
  BY ConstantsAssumption
<1>m. \A m \in PreparedMap : \E S : m \in [Claims -> S]
  BY DEF PreparedMap
<1>1. ASSUME NEW c \in Claims, PrepareResourceClaims(c) PROVE IInv'
  BY <1>0, <1>t, <1>n, <1>1 DEF PrepareResourceClaims
<1>2. ASSUME NEW c \in Claims, UnprepareResourceClaims(c) PROVE IInv'
  BY <1>0, <1>t, <1>n, <1>2 DEF UnprepareResourceClaims
<1>3. CASE CheckExisting
  BY <1>0, <1>t, <1>n, <1>3, EntryDevices DEF CheckExisting
<1>4. CASE RepairCDI
  BY <1>0, <1>t, <1>n, <1>4 DEF RepairCDI, Done
<1>5. CASE RepairMarks
  BY <1>0, <1>t, <1>n, <1>5 DEF RepairMarks, Done
<1>6. CASE Reply
  BY <1>0, <1>t, <1>n, <1>6 DEF Reply, Done
<1>7. ASSUME NEW r \in todo, SkipForeign(r) PROVE IInv'
  BY <1>0, <1>t, <1>n, <1>7 DEF SkipForeign
<1>8. ASSUME NEW r \in todo, LookupFails(r) PROVE IInv'
  BY <1>0, <1>t, <1>n, <1>8 DEF LookupFails, rollbackCreatedVDevices
<1>26. ASSUME NEW r \in todo, LookupDevice(r) PROVE IInv'
  BY <1>0, <1>t, <1>n, <1>26 DEF LookupDevice
<1>9. CASE prepareWholeCardDevice
  BY <1>0, <1>t, <1>n, <1>9 DEF prepareWholeCardDevice, rollbackCreatedVDevices
<1>10. CASE CreateVHCU
  BY <1>0, <1>t, <1>n, <1>10 DEF CreateVHCU, rollbackCreatedVDevices
<1>11. CASE AttachVHCU
  BY <1>0, <1>t, <1>n, <1>11 DEF AttachVHCU
<1>12. CASE AttachFails
  BY <1>0, <1>t, <1>n, <1>12 DEF AttachFails, rollbackCreatedVDevices
<1>13. CASE FinalCDI
  BY <1>0, <1>t, <1>n, <1>m, <1>13 DEF FinalCDI
<1>14. CASE FinalMarks
  BY <1>0, <1>t, <1>n, <1>14 DEF FinalMarks
<1>15. CASE FinalSave
  BY <1>0, <1>t, <1>n, <1>15 DEF FinalSave, savePreparedState
<1>16. CASE Undo
  BY <1>0, <1>t, <1>n, <1>16 DEF Undo, rollbackCreatedVDevices
<1>17. CASE UndoCDI
  BY <1>0, <1>t, <1>n, <1>m, <1>17 DEF UndoCDI
<1>18. CASE UndoMarks
  BY <1>0, <1>t, <1>n, <1>18 DEF UndoMarks
<1>19. CASE UndoSave
  BY <1>0, <1>t, <1>n, <1>19 DEF UndoSave, savePreparedState, Done
<1>20. CASE UnprepCDI
  BY <1>0, <1>t, <1>n, <1>m, <1>20 DEF UnprepCDI
<1>21. CASE UnprepMarks
  BY <1>0, <1>t, <1>n, <1>21 DEF UnprepMarks
<1>22. CASE UnprepSave
  BY <1>0, <1>t, <1>n, <1>22 DEF UnprepSave, savePreparedState
<1>23. CASE Sweep
  BY <1>0, <1>t, <1>n, <1>23 DEF Sweep
<1>24. ASSUME NEW v \in pend, DestroyNext(v) PROVE IInv'
  BY <1>0, <1>t, <1>n, <1>24 DEF DestroyNext
<1>25. CASE DestroyEnds
  BY <1>0, <1>t, <1>n, <1>25 DEF DestroyEnds, Done
<1>27. QED
  BY <1>1, <1>2, <1>3, <1>4, <1>5, <1>6, <1>7, <1>8, <1>9, <1>10, <1>11, <1>12, <1>13,
     <1>14, <1>15, <1>16, <1>17, <1>18, <1>19, <1>20, <1>21, <1>22, <1>23, <1>24, <1>25,
     <1>26
     DEF RpcCall, RpcStep

(* A crash keeps only the file: what was handed out is in it, unless the   *)
(* last save failed.                                                       *)
LEMMA InvEnds ==
    ASSUME IInv, TypeOK', ProcessEnds, mPc # "down"
    PROVE  IInv'
<1> USE DEF IInv, Unsaved, UndoPcs
<1>1. MutexInv' /\ CallInv' /\ FileInv' /\ OrphanInv' /\ DownInv'
  BY ConstantsAssumption
     DEF ProcessEnds, MutexInv, CallInv, FileInv, OrphanInv, DownInv, RpcHolds,
         StartupPcs, Answering, Preparing, Unpreparing
<1>2. HandedInv'
  <2>1. SUFFICES ASSUME "dirtyCrash" \notin hist', NEW c \in api, handed[c] # {}
                 PROVE  disk[c] = Entry(handed[c])
    BY DEF ProcessEnds, HandedInv, kubeVars
  <2>2. ~dirty /\ "dirtyCrash" \notin hist
    BY <2>1 DEF ProcessEnds, Incidents
  <2>3. prepared[c] = Entry(handed[c])
    BY <2>1, <2>2 DEF HandedInv
  <2>4. ~(c = claim /\ rpcPc \in Unsaved)
    BY <2>1, <2>2 DEF CallInv, Preparing, Unpreparing
  <2>5. disk[c] = prepared[c]
    BY <2>1, <2>2, <2>4 DEF FileInv, TypeOK
  <2>6. QED
    BY <2>3, <2>5
<1>3. QED
  BY <1>1, <1>2

LEMMA InvMaint ==
    ASSUME IInv, MaintStep
    PROVE  IInv'
<1> USE DEF IInv, MutexInv, CallInv, FileInv, HandedInv, OrphanInv, DownInv,
            RpcHolds, MaintHolds, StartupPcs, Answering, Preparing, Unpreparing, Unsaved,
            UndoPcs, OrphanPcs, stepFrame, kubeVars, rpcVars, mVars
<1>0. TypeOK'
  BY TypeMaint
<1>n. Nobody \notin {"rpc", "maint"}
  BY ConstantsAssumption
<1>t. /\ handed \in [Claims -> SUBSET PreparedDevice]
      /\ prepared \in PreparedMap /\ disk \in PreparedMap
      /\ api \subseteq Claims /\ orphans \subseteq Claims
  BY DEF TypeOK
<1>m. \A m \in PreparedMap : \E S : m \in [Claims -> S]
  BY DEF PreparedMap
<1>1. CASE Start
  BY <1>0, <1>n, <1>t, <1>1 DEF Start
<1>2. CASE CleanupOrphanPreparedClaims
  BY <1>0, <1>n, <1>t, <1>2 DEF CleanupOrphanPreparedClaims, OrphanUIDs
<1>3. ASSUME NEW c \in orphans, OrphanDrop(c) PROVE IInv'
  BY <1>0, <1>n, <1>t, <1>m, <1>3 DEF OrphanDrop
<1>4. ASSUME NEW v \in mPend, OrphanDestroy(v) PROVE IInv'
  BY <1>0, <1>n, <1>t, <1>4 DEF OrphanDestroy
<1>5. CASE OrphanCDI
  BY <1>0, <1>n, <1>t, <1>5 DEF OrphanCDI
<1>6. CASE OrphanMarks
  BY <1>0, <1>n, <1>t, <1>6 DEF OrphanMarks
<1>7. CASE OrphanSave
  BY <1>0, <1>n, <1>t, <1>7 DEF OrphanSave, savePreparedState
<1>8. CASE RefreshAllocatable
  BY <1>0, <1>n, <1>t, <1>8 DEF RefreshAllocatable
<1>9. ASSUME NEW v \in mPend, ReconcileDestroy(v) PROVE IInv'
  BY <1>0, <1>n, <1>t, <1>9 DEF ReconcileDestroy
<1>10. CASE ReconcileRmConf
  BY <1>0, <1>n, <1>t, <1>10 DEF ReconcileRmConf
<1>11. CASE Enumerate
  <2>1. CASE ProcessEnds
    BY <1>0, <1>11, <2>1, InvEnds DEF Enumerate
  <2>2. CASE ~ProcessEnds
    BY <1>0, <1>n, <1>t, <1>11, <2>2 DEF Enumerate
  <2>3. QED
    BY <2>1, <2>2
<1>12. CASE WriteBase
  <2>1. CASE ProcessEnds
    BY <1>0, <1>12, <2>1, InvEnds DEF WriteBase
  <2>2. CASE ~ProcessEnds
    <3>1. /\ mPc = "base" /\ mPc' = IF up THEN "publish" ELSE "restore"
          /\ mu' = Nobody /\ dirty' = dirty
          /\ UNCHANGED <<stepFrame, disk, up, prepared, orphans, boot, hist>>
      BY <1>12, <2>2 DEF WriteBase
    <3>2. QED
      BY <1>0, <1>n, <1>t, <3>1
  <2>3. QED
    BY <2>1, <2>2
<1>13. CASE RestoreCDI
  BY <1>0, <1>n, <1>t, <1>13 DEF RestoreCDI
<1>14. CASE RestoreMarks
  BY <1>0, <1>n, <1>t, <1>14 DEF RestoreMarks
<1>15. CASE PublishResources
  <2>1. CASE ProcessEnds
    BY <1>0, <1>15, <2>1, InvEnds DEF PublishResources
  <2>2. CASE ~ProcessEnds
    BY <1>0, <1>n, <1>t, <1>15, <2>2 DEF PublishResources
  <2>3. QED
    BY <2>1, <2>2
<1>16. QED
  BY <1>1, <1>2, <1>3, <1>4, <1>5, <1>6, <1>7, <1>8, <1>9, <1>10, <1>11, <1>12,
     <1>13, <1>14, <1>15 DEF MaintStep

LEMMA InvNext ==
    ASSUME IInv, [Next]_vars
    PROVE  IInv'
<1>0. TypeOK'
  BY TypeNext DEF IInv
<1>1. CASE RpcCall \/ RpcStep
  BY <1>1, InvRpc
<1>2. CASE MaintStep
  BY <1>2, InvMaint
<1>3. ASSUME NEW c \in api, DeleteClaim(c) PROVE IInv'
  BY <1>0, <1>3
     DEF IInv, MutexInv, CallInv, FileInv, HandedInv, OrphanInv, DownInv, DeleteClaim,
         rpcVars, mVars
<1>4. CASE Crash
  BY <1>0, <1>4, InvEnds DEF Crash
<1>5. CASE UNCHANGED vars
  BY <1>0, <1>5
     DEF IInv, MutexInv, CallInv, FileInv, HandedInv, OrphanInv, DownInv, vars
<1>6. QED
  BY <1>1, <1>2, <1>3, <1>4, <1>5 DEF Next

(* The inductive invariant holds throughout: who holds the mutex, what the *)
(* call in hand has recorded, and where map and file may differ.           *)
THEOREM InvCorrect == Spec => []IInv
<1>1. QED
  BY InvInit, InvNext, PTL DEF Spec

(* A running driver remembers every claim the kubelet holds with exactly   *)
(* the devices it handed out, across crashes and restarts, unless a crash  *)
(* came while the last save of the prepared map had failed.                *)
THEOREM HandedClaimsRemembered == Spec => []HandedRemembered
<1>1. IInv => HandedRemembered
  BY DEF IInv, HandedInv, MutexInv, HandedRemembered, HandedInMap
<1>2. QED
  BY <1>1, InvCorrect, PTL

(* Whenever mu is free, the state file holds exactly the prepared map,     *)
(* unless the last save failed or a failed Prepare is being undone.        *)
THEOREM FileHoldsMap == Spec => []StateFileCurrent
<1>1. IInv => StateFileCurrent
  <2>1. SUFFICES ASSUME IInv, up, mu = Nobody, ~dirty, rpcPc \notin UndoPcs
                 PROVE  disk = prepared
    BY DEF StateFileCurrent
  <2>2. rpcPc \notin Unsaved /\ mPc \notin OrphanPcs /\ mPc # "down"
    BY <2>1, ConstantsAssumption
       DEF IInv, MutexInv, RpcHolds, MaintHolds, Unsaved, OrphanPcs
  <2>3. \A c \in Claims : disk[c] = prepared[c]
    BY <2>1, <2>2 DEF IInv, FileInv
  <2>4. disk \in PreparedMap /\ prepared \in PreparedMap
    BY <2>1 DEF IInv, TypeOK
  <2>5. QED
    BY <2>3, <2>4 DEF PreparedMap
<1>2. QED
  BY <1>1, InvCorrect, PTL
=============================================================================
