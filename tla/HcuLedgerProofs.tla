-------------------------- MODULE HcuLedgerProofs --------------------------
(***************************************************************************)
(* What the driver is to others: to the kubelet the ledger of ClaimLedger, *)
(* to the state file the user of the register of PreparedRegister.         *)
(***************************************************************************)
EXTENDS HcuOwnershipProofs

-----------------------------------------------------------------------------
(* The ledger                                                              *)

(* Four actions are all that change what the kubelet holds, or for whom.   *)
LEMMA KubeSteps ==
    ASSUME [Next]_vars
    PROVE  \/ UNCHANGED kubeVars
           \/ Reply
           \/ \E c \in Claims : UnprepareResourceClaims(c)
           \/ \E c \in api : DeleteClaim(c)
<1> USE DEF kubeVars
<1>1. CASE RpcCall
  BY <1>1 DEF RpcCall, PrepareResourceClaims, rpcFrame
<1>2. CASE RpcStep
  BY <1>2
     DEF RpcStep, rpcFrame, CheckExisting, RepairCDI, RepairMarks, SkipForeign, LookupFails,
         LookupDevice, prepareWholeCardDevice, CreateVHCU, AttachVHCU, AttachFails,
         FinalCDI, FinalMarks, FinalSave, Undo, UndoCDI, UndoMarks, UndoSave, UnprepCDI, UnprepMarks, UnprepSave,
         Sweep, DestroyNext, DestroyEnds
<1>3. CASE MaintStep
  BY <1>3
     DEF MaintStep, stepFrame, Start, CleanupOrphanPreparedClaims, OrphanDrop, OrphanDestroy,
         OrphanCDI, OrphanMarks, OrphanSave, RefreshAllocatable, ReconcileDestroy,
         ReconcileRmConf, Enumerate, WriteBase, RestoreCDI, RestoreMarks, PublishResources,
         ProcessEnds
<1>4. CASE Crash \/ UNCHANGED vars
  BY <1>4 DEF Crash, ProcessEnds, vars
<1> QED
  BY <1>1, <1>2, <1>3, <1>4 DEF Next

(* A claim that is answered a second time is answered the same: the answer *)
(* is its entry in the map, and so is what the kubelet holds.              *)
LEMMA SameAnswer ==
    ASSUME IInv, NoIncident, Reply, claim \in api
    PROVE  handed[claim] \in {{}, created}
<1>1. prepared[claim] = Entry(created)
  BY DEF IInv, CallInv, Answering, Reply
<1>2. mPc # "down"
  BY DEF IInv, MutexInv, Reply, StartupPcs
<1>3. handed[claim] # {} => prepared[claim] = Entry(handed[claim])
  BY <1>2 DEF IInv, HandedInv, NoIncident
<1> QED
  BY <1>1, <1>3 DEF Entry

(* Every step of the driver is a step of the ledger, or none.              *)
LEMMA LedgerStep ==
    ASSUME IInv, HandedVHCUsKept, HandedVHCUsKept', [Next]_vars
    PROVE  [Ledger!Next]_(Ledger!vars)
<1> USE DEF Ledger!Next, Ledger!vars
<1>1. CASE ~NoIncident'
  BY <1>1 DEF Ledger!Lapse
<1>2. CASE NoIncident'
  <2>1. NoIncident /\ NoIncident' = NoIncident
    BY <1>2, HistGrows DEF NoIncident
  <2>2. \A c \in api' : \A p \in VHCUs(handed'[c]) : VHCUIntact(c, p)'
    BY <1>2 DEF HandedVHCUsKept, HandedVHCUsIntact
  <2>3. CASE UNCHANGED kubeVars
    <3>1. Ledger!HostChanges
      BY <2>1, <2>2, <2>3
         DEF Ledger!HostChanges, Ledger!VHCUsOf, Ledger!Intact, VHCUs, VHCUIntact, kubeVars
    <3> QED
      BY <3>1
  <2>4. CASE Reply
    <3>1. /\ claim \in Claims /\ UNCHANGED <<api, host, conf>>
          /\ handed' = [handed EXCEPT ![claim] = created] /\ handed'[claim] = created
      BY <2>4, ConstantsAssumption DEF Reply, IInv, TypeOK, rpcFrame, hostVars
    <3>2. claim \in api => handed[claim] \in {{}, created}
      BY <2>1, <2>4, SameAnswer
    <3>3. Ledger!Hand(claim)
      BY <2>1, <2>2, <3>1, <3>2
         DEF Ledger!Hand, Ledger!VHCUsOf, Ledger!Intact, VHCUs, VHCUIntact
    <3> QED
      BY <3>1, <3>3
  <2>5. ASSUME NEW c \in Claims, UnprepareResourceClaims(c)
        PROVE  Ledger!GiveBack(c)
    BY <2>1, <2>5 DEF UnprepareResourceClaims, rpcFrame, hostVars, Ledger!GiveBack
  <2>6. ASSUME NEW c \in api, DeleteClaim(c)
        PROVE  c \in Claims /\ Ledger!Delete(c)
    BY <2>1, <2>6 DEF DeleteClaim, hostVars, Ledger!Delete, IInv, TypeOK
  <2> QED
    BY <2>3, <2>4, <2>5, <2>6, KubeSteps
<1> QED
  BY <1>1, <1>2

(* To the kubelet, the driver is the ledger: whatever its goroutines, its  *)
(* files and its restarts do, outside the open windows a claim keeps the   *)
(* devices it was given, and is given the same ones when it asks again.    *)
THEOREM DriverIsLedger == Spec => ImplementsLedger
<1>1. Init => Ledger!Init
  BY DEF Init, NoIncident, Ledger!Init
<1> QED
  BY <1>1, LedgerStep, InvCorrect, HandedVHCUsStay, PTL
     DEF Spec, ImplementsLedger, Ledger!Spec

(* A living claim keeps exactly the devices it was first given until it    *)
(* gives them back: no Prepare repeated, by a kubelet that restarted or    *)
(* lost the answer, before or after a restart of the driver, is answered   *)
(* with other devices, while no incident has happened.                     *)
THEOREM AnswersTheSame ==
    Spec => [][NoIncident' => \A c \in api' :
                  handed[c] # {} => handed'[c] \in {{}, handed[c]}]_vars
<1>1. IInv /\ [Next]_vars =>
        [NoIncident' => \A c \in api' :
           handed[c] # {} => handed'[c] \in {{}, handed[c]}]_vars
  <2>1. SUFFICES ASSUME IInv, [Next]_vars, NoIncident', NEW c \in api', handed[c] # {}
                 PROVE  handed'[c] \in {{}, handed[c]}
    OBVIOUS
  <2>2. NoIncident
    BY <2>1, HistGrows DEF NoIncident
  <2>3. handed \in [Claims -> SUBSET PreparedDevice]
    BY <2>1 DEF IInv, TypeOK
  <2>4. CASE UNCHANGED kubeVars
    BY <2>4 DEF kubeVars
  <2>5. CASE Reply
    <3>1. c \in api /\ handed' = [handed EXCEPT ![claim] = created]
      BY <2>1, <2>5 DEF Reply, rpcFrame
    <3>2. c = claim => handed[claim] = created
      BY <2>1, <2>2, <2>5, <3>1, SameAnswer
    <3> QED
      BY <2>3, <3>1, <3>2
  <2>6. ASSUME NEW d \in Claims, UnprepareResourceClaims(d)
        PROVE  handed'[c] \in {{}, handed[c]}
    BY <2>3, <2>6 DEF UnprepareResourceClaims
  <2>7. ASSUME NEW d \in api, DeleteClaim(d) PROVE handed'[c] \in {{}, handed[c]}
    BY <2>7 DEF DeleteClaim
  <2> QED
    BY <2>1, <2>4, <2>5, <2>6, <2>7, KubeSteps
<1> QED
  BY <1>1, InvCorrect, PTL DEF Spec

-----------------------------------------------------------------------------
(* The register                                                            *)

(* The steps of the RPC goroutine change the map or save it, never both.   *)
LEMMA RegisterRpc ==
    ASSUME IInv, RpcCall \/ RpcStep
    PROVE  [Register!Next]_(Register!vars)
<1> USE DEF Register!Next, Register!vars, rpcFrame, stateVars, savePreparedState
<1>1. CASE RpcCall
  BY <1>1 DEF RpcCall, PrepareResourceClaims, UnprepareResourceClaims
<1>2. CASE RpcStep
  <2>1. mPc # "down" /\ mPc' # "down" /\ prepared' \in PreparedMap
    <3>1. TypeOK' /\ rpcPc # "idle"
      BY <1>2, InvRpc
         DEF IInv, TypeOK, RpcStep, CheckExisting, RepairCDI, RepairMarks, Reply, SkipForeign,
             LookupFails, LookupDevice, prepareWholeCardDevice, CreateVHCU, AttachVHCU,
             AttachFails, FinalCDI, FinalMarks, FinalSave, Undo, UndoCDI, UndoMarks, UndoSave, UnprepCDI,
             UnprepMarks, UnprepSave, Sweep, DestroyNext, DestroyEnds
    <3>2. mPc' = mPc
      BY <1>2
         DEF RpcStep, CheckExisting, RepairCDI, RepairMarks, Reply, SkipForeign,
             LookupFails, LookupDevice, prepareWholeCardDevice, CreateVHCU, AttachVHCU,
             AttachFails, FinalCDI, FinalMarks, FinalSave, Undo, UndoCDI, UndoMarks, UndoSave, UnprepCDI,
             UnprepMarks, UnprepSave, Sweep, DestroyNext, DestroyEnds
    <3> QED
      BY <3>1, <3>2 DEF TypeOK, IInv, MutexInv, StartupPcs
  <2>2. CASE FinalSave \/ UndoSave \/ UnprepSave
    BY <2>1, <2>2 DEF FinalSave, UndoSave, UnprepSave, Register!Save
  <2>3. CASE FinalCDI \/ UndoCDI \/ UnprepCDI
    BY <2>1, <2>3 DEF FinalCDI, UndoCDI, UnprepCDI, Register!Change
  <2>4. CASE ~(FinalSave \/ UndoSave \/ UnprepSave \/ FinalCDI \/ UndoCDI \/ UnprepCDI)
    BY <1>2, <2>4
       DEF RpcStep, CheckExisting, RepairCDI, RepairMarks, Reply, SkipForeign, LookupFails,
           LookupDevice, prepareWholeCardDevice, CreateVHCU, AttachVHCU, AttachFails, FinalMarks, Undo,
           UndoMarks, UnprepMarks, Sweep, DestroyNext, DestroyEnds
  <2> QED
    BY <2>2, <2>3, <2>4
<1> QED
  BY <1>1, <1>2

LEMMA RegisterEnds ==
    ASSUME ProcessEnds, mPc # "down"
    PROVE  Register!Next
BY DEF ProcessEnds, Register!End, Register!Next

(* The steps of main and the ticker goroutine start with the map that was  *)
(* saved, change the map or save it, or end the process.                   *)
LEMMA RegisterMaint ==
    ASSUME IInv, MaintStep
    PROVE  [Register!Next]_(Register!vars)
<1> USE DEF Register!Next, Register!vars, stepFrame, savePreparedState
<1>1. TypeOK'
  BY InvMaint DEF IInv
<1>2. CASE Start
  BY <1>2 DEF Start, Register!Start
<1>3. ASSUME NEW c \in orphans, OrphanDrop(c) PROVE Register!Change
  BY <1>1, <1>3 DEF OrphanDrop, Register!Change, TypeOK
<1>4. CASE OrphanSave
  BY <1>4 DEF OrphanSave, Register!Save, mVars
<1>5. CASE ProcessEnds
  <2>1. CASE mPc # "down"
    BY <1>5, <2>1, RegisterEnds
  <2>2. CASE mPc = "down"
    BY <1>5, <2>2 DEF ProcessEnds, IInv, DownInv
  <2> QED
    BY <2>1, <2>2
<1>6. CASE ~ProcessEnds /\ ~Start /\ ~OrphanSave /\ ~(\E c \in orphans : OrphanDrop(c))
  BY <1>6
     DEF MaintStep, CleanupOrphanPreparedClaims, OrphanDestroy, OrphanCDI, OrphanMarks,
         RefreshAllocatable, ReconcileDestroy, ReconcileRmConf, Enumerate, WriteBase,
         RestoreCDI, RestoreMarks, PublishResources, enumVars
<1> QED
  BY <1>2, <1>3, <1>4, <1>5, <1>6

(* The driver needs no more of the state file than a register: it starts   *)
(* with the map last saved, and a save is all or nothing.                  *)
THEOREM DriverUsesRegister == Spec => UsesRegister
<1>1. Init => Register!Init
  BY DEF Init, Register!Init
<1>2. IInv /\ [Next]_vars => [Register!Next]_(Register!vars)
  <2>1. CASE IInv /\ ((\E c \in api : DeleteClaim(c)) \/ UNCHANGED vars)
    BY <2>1 DEF DeleteClaim, vars, Register!vars
  <2>2. CASE IInv /\ Crash
    BY <2>2, RegisterEnds DEF Crash
  <2> QED
    BY <2>1, <2>2, RegisterRpc, RegisterMaint DEF Next
<1> QED
  BY <1>1, <1>2, InvCorrect, PTL DEF Spec, UsesRegister, Register!Spec

=============================================================================
