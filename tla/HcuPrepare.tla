----------------------------- MODULE HcuPrepare -----------------------------
(***************************************************************************)
(* The goroutine that serves the kubelet: Prepare and Unprepare calls, one *)
(* claim at a time (kubeletplugin.Serialize(true)). An action is a stretch *)
(* of code between two points where the maintenance goroutine can step in  *)
(* or a crash leaves a different host behind: taking and releasing mu,     *)
(* every dcgm call, every file operation.                                  *)
(***************************************************************************)
EXTENDS HcuState

(* What no call of the kubelet ever changes.                               *)
rpcFrame == <<api, base, up, enumVars, mPc, mVars, crashes, hist>>

stateVars == <<disk, dirty>>

Goto(pc) == rpcPc' = pc

Done ==
    /\ rpcPc' = "idle" /\ claim' = Nobody /\ todo' = {}
    /\ created' = {} /\ fresh' = Nobody /\ pend' = {}

-----------------------------------------------------------------------------
(* Calls of the kubelet. kubeletplugin fetches a claim from the API server *)
(* before it calls Prepare; Unprepare is called by UID, when no container  *)
(* uses the claim any more.                                                *)

PrepareResourceClaims(c) ==
    /\ up /\ rpcPc = "idle" /\ c \in api
    /\ Goto("check") /\ claim' = c
    /\ UNCHANGED <<rpcFrame, handed, hostVars, cdi, marks, stateVars, mu, prepared,
                   todo, created, fresh, pend>>

UnprepareResourceClaims(c) ==
    /\ up /\ rpcPc = "idle"
    /\ Goto("unprep") /\ claim' = c
    /\ handed' = [handed EXCEPT ![c] = {}]
    /\ UNCHANGED <<rpcFrame, hostVars, cdi, marks, stateVars, mu, prepared,
                   todo, created, fresh, pend>>

-----------------------------------------------------------------------------
(* prepareExistingClaim: two critical sections, one to look the claim up   *)
(* and one to repair its artifacts.                                        *)

(* Mutant: a claim is prepared again, whatever the map says.               *)
PrepareAnew ==
    /\ rpcPc = "check" /\ mu = Nobody
    /\ todo' = Results[claim] /\ Goto("loop")
    /\ UNCHANGED <<rpcFrame, handed, hostVars, cdi, marks, stateVars, mu, prepared,
                   claim, created, fresh, pend>>

(* Mutant: the consumer of a prepared claim is looked up again.            *)
CheckMarksAnew ==
    LET existing == Devices(prepared, claim) IN
    /\ rpcPc = "check" /\ mu = Nobody
    /\ \E holder \in MarkHolders(claim) :
         created' = {[p EXCEPT !.mark.holder = holder] : p \in existing}
    /\ todo' = IF existing = {} THEN Results[claim] ELSE {}
    /\ Goto(IF existing = {} THEN "loop" ELSE "repair")
    /\ UNCHANGED <<rpcFrame, handed, hostVars, cdi, marks, stateVars, mu, prepared,
                   claim, fresh, pend>>

CheckExisting ==
    LET existing == Devices(prepared, claim) IN
    /\ rpcPc = "check" /\ mu = Nobody
    /\ created' = existing
    /\ todo' = IF existing = {} THEN Results[claim] ELSE {}
    /\ Goto(IF existing = {} THEN "loop" ELSE "repair")
    /\ UNCHANGED <<rpcFrame, handed, hostVars, cdi, marks, stateVars, mu, prepared,
                   claim, fresh, pend>>

RepairCDI ==
    /\ rpcPc = "repair" /\ mu = Nobody
    /\ \/ /\ ~vdeviceCDISpecFilesNeedRepair(prepared)
          /\ Goto("repairMarks") /\ mu' = "rpc"
          /\ UNCHANGED <<cdi, rpcVars>>
       \/ /\ vdeviceCDISpecFilesNeedRepair(prepared)
          /\ syncVDeviceCDISpecFiles(prepared, TRUE)
          /\ Goto("repairMarks") /\ mu' = "rpc"
          /\ UNCHANGED rpcVars
       \/ /\ vdeviceCDISpecFilesNeedRepair(prepared) /\ "cdi" \in Faults
          /\ syncVDeviceCDISpecFiles(prepared, FALSE)
          /\ Done /\ UNCHANGED mu
    /\ UNCHANGED <<rpcFrame, handed, hostVars, marks, stateVars, prepared>>

RepairMarks ==
    /\ rpcPc = "repairMarks"
    /\ \E ok \in Outcome("marks") :
         /\ syncDynamicMarkFiles(prepared, ok)
         /\ IF ok THEN Goto("reply") /\ UNCHANGED rpcVars ELSE Done
    /\ mu' = Nobody
    /\ UNCHANGED <<rpcFrame, handed, hostVars, cdi, stateVars, prepared>>

(* The kubelet receives the devices.                                       *)
Reply ==
    /\ rpcPc = "reply"
    /\ handed' = [handed EXCEPT ![claim] = created]
    /\ Done
    /\ UNCHANGED <<rpcFrame, hostVars, cdi, marks, stateVars, mu, prepared>>

-----------------------------------------------------------------------------
(* prepareAllocatedDevices: the loop over the allocation results. None of  *)
(* it is under mu, and nothing but the local list records what it creates. *)

SkipForeign(r) ==
    /\ rpcPc = "loop" /\ r \in todo /\ r.mode = "foreign"
    /\ todo' = todo \ {r}
    /\ UNCHANGED <<rpcFrame, handed, hostVars, cdi, marks, stateVars, mu, prepared,
                   rpcPc, claim, created, fresh, pend>>

(* rollbackCreatedVDevices up to its destroy loop.                         *)
rollbackCreatedVDevices(pc) ==
    /\ removePreparedDynamicMarks(created)
    /\ pend' = VDvInds(created)
    /\ Goto(pc) /\ fresh' = Nobody

(* The device is not allocatable, or its request is not in the claim.      *)
LookupFails(r) ==
    /\ rpcPc = "loop" /\ r \in todo /\ r.mode # "foreign"
    /\ r.dev \notin allocatable \/ r.mode = "missing"
    /\ rollbackCreatedVDevices("rollback")
    /\ UNCHANGED <<rpcFrame, handed, hostVars, cdi, stateVars, mu, prepared,
                   claim, todo, created>>

(* The device is taken out of allocatable. It is used as it was found: a   *)
(* refresh may replace the map before the device is.                       *)
LookupDevice(r) ==
    /\ rpcPc = "loop" /\ r \in todo /\ r.mode \in {"whole", "vhcu"}
    /\ r.dev \in allocatable
    /\ fresh' = [res |-> r] /\ Goto("found")
    /\ UNCHANGED <<rpcFrame, handed, hostVars, cdi, marks, stateVars, mu, prepared,
                   claim, todo, created, pend>>

Record(r, whole, v, holder) ==
    [req |-> r.req, parent |-> r.dev, whole |-> whole, vdv |-> v,
     mark |-> dynamicMarkFileName(holder, r.dev, whole, v)]

(* attachDynamicMark: the device joins the list once its mark is written.  *)
attachDynamicMark(r, whole, v) ==
    \E holder \in MarkHolders(claim) :
      LET p == Record(r, whole, v, holder) IN
      /\ marks' = marks \cup {p.mark}
      /\ created' = created \cup {p}
      /\ todo' = todo \ {r}

(* Mutant: the mark's index -1 is taken for the device's index.            *)
WholeCardMinusOne ==
    /\ rpcPc = "found" /\ fresh.res.mode = "whole"
    /\ attachDynamicMark(fresh.res, TRUE, -1)
    /\ Goto("loop") /\ fresh' = Nobody
    /\ UNCHANGED pend
    /\ UNCHANGED <<rpcFrame, handed, hostVars, cdi, stateVars, mu, prepared, claim>>

(* VDvInd of a whole card is the zero value of its field.                  *)
prepareWholeCardDevice ==
    /\ rpcPc = "found" /\ fresh.res.mode = "whole"
    /\ \/ /\ attachDynamicMark(fresh.res, TRUE, 0)
          /\ Goto("loop") /\ fresh' = Nobody
          /\ UNCHANGED pend
       \/ /\ "mark" \in Faults
          /\ rollbackCreatedVDevices("rollback")
          /\ UNCHANGED <<todo, created>>
    /\ UNCHANGED <<rpcFrame, handed, hostVars, cdi, stateVars, mu, prepared, claim>>

CreateVHCU ==
    /\ rpcPc = "found" /\ fresh.res.mode = "vhcu"
    /\ \/ \E v \in VDevs :
            /\ CreateVDevices(fresh.res.dev, v)
            /\ fresh' = [res |-> fresh.res, vdv |-> v]
            /\ Goto("created")
            /\ UNCHANGED <<marks, pend>>
       \/ /\ "create" \in Faults \/ VDeviceInfos(host) = VDevs
          /\ rollbackCreatedVDevices("rollback")
          /\ UNCHANGED hostVars
    /\ UNCHANGED <<rpcFrame, handed, cdi, stateVars, mu, prepared,
                   claim, todo, created>>

(* VDeviceSingleInfo finds the vHCU, and its mark is attached.             *)
AttachVHCU ==
    /\ rpcPc = "created" /\ host[fresh.vdv] # NoDev
    /\ attachDynamicMark(fresh.res, FALSE, fresh.vdv)
    /\ Goto("loop") /\ fresh' = Nobody
    /\ UNCHANGED <<rpcFrame, handed, hostVars, cdi, stateVars, mu, prepared,
                   claim, pend>>

(* Mutant: the vHCU is destroyed but the loop goes on with it.             *)
AttachErrorSwallowed ==
    /\ rpcPc = "created" /\ Faults \cap {"info", "mark"} # {}
    /\ \E ok \in DestroyOutcomes(fresh.vdv) : DestroySingleVDevice(fresh.vdv, ok)
    /\ attachDynamicMark(fresh.res, FALSE, fresh.vdv)
    /\ Goto("loop") /\ fresh' = Nobody
    /\ UNCHANGED <<rpcFrame, handed, cdi, stateVars, mu, prepared, claim, pend>>

(* VDeviceSingleInfo or the mark fails: the new vHCU is destroyed first.   *)
AttachFails ==
    /\ rpcPc = "created"
    /\ host[fresh.vdv] = NoDev \/ Faults \cap {"info", "mark"} # {}
    /\ \E ok \in DestroyOutcomes(fresh.vdv) : DestroySingleVDevice(fresh.vdv, ok)
    /\ rollbackCreatedVDevices("rollback")
    /\ UNCHANGED <<rpcFrame, handed, cdi, stateVars, mu, prepared,
                   claim, todo, created>>

-----------------------------------------------------------------------------
(* finalizePreparedClaim                                                   *)

FinalCDI ==
    /\ rpcPc = "loop" /\ todo = {} /\ mu = Nobody
    /\ prepared' = [prepared EXCEPT ![claim] = Entry(created)]
    /\ \E ok \in Outcome("cdi") :
         /\ syncVDeviceCDISpecFiles(prepared', ok)
         /\ Goto(IF ok THEN "finalMarks" ELSE "undo")
         /\ mu' = IF ok THEN "rpc" ELSE Nobody
    /\ UNCHANGED <<rpcFrame, handed, hostVars, marks, stateVars, rpcVars>>

FinalMarks ==
    /\ rpcPc = "finalMarks"
    /\ \E ok \in Outcome("marks") :
         /\ syncDynamicMarkFiles(prepared, ok)
         /\ Goto(IF ok THEN "finalSave" ELSE "undo")
         /\ mu' = IF ok THEN mu ELSE Nobody
    /\ UNCHANGED <<rpcFrame, handed, hostVars, cdi, stateVars, prepared, rpcVars>>

(* Mutant: the claim is handed out without being saved.                    *)
FinalWithoutSave ==
    /\ rpcPc = "finalSave"
    /\ Goto("reply") /\ mu' = Nobody
    /\ UNCHANGED <<rpcFrame, handed, hostVars, cdi, marks, stateVars, prepared, rpcVars>>

(* Mutant: the mutex is not released.                                      *)
FinalKeepsMutex ==
    /\ rpcPc = "finalSave"
    /\ \E ok \in Outcome("save") : savePreparedState(prepared, ok)
    /\ Goto("reply")
    /\ UNCHANGED <<rpcFrame, handed, hostVars, cdi, marks, mu, prepared, rpcVars>>

(* A failing save is logged and the claim is handed out all the same.      *)
FinalSave ==
    /\ rpcPc = "finalSave"
    /\ \E ok \in Outcome("save") : savePreparedState(prepared, ok)
    /\ Goto("reply") /\ mu' = Nobody
    /\ UNCHANGED <<rpcFrame, handed, hostVars, cdi, marks, prepared, rpcVars>>

(* A failed sync: the vHCUs are destroyed first, without mu, and only then *)
(* is the claim taken out of the prepared map.                             *)
Undo ==
    /\ rpcPc = "undo"
    /\ rollbackCreatedVDevices("undoDestroy")
    /\ UNCHANGED <<rpcFrame, handed, hostVars, cdi, stateVars, mu, prepared,
                   claim, todo, created>>

(* Mutant: the entry of the failed claim stays in the map.                 *)
UndoKeepsEntry ==
    /\ rpcPc = "undoDestroy" /\ pend = {} /\ mu = Nobody
    /\ \E ok \in Outcome("cdi") : syncVDeviceCDISpecFiles(prepared, ok)
    /\ Goto("undoMarks") /\ mu' = "rpc"
    /\ UNCHANGED <<rpcFrame, handed, hostVars, marks, stateVars, prepared, rpcVars>>

UndoCDI ==
    /\ rpcPc = "undoDestroy" /\ pend = {} /\ mu = Nobody
    /\ prepared' = [prepared EXCEPT ![claim] = NoEntry]
    /\ \E ok \in Outcome("cdi") : syncVDeviceCDISpecFiles(prepared', ok)
    /\ Goto("undoMarks") /\ mu' = "rpc"
    /\ UNCHANGED <<rpcFrame, handed, hostVars, marks, stateVars, rpcVars>>

UndoMarks ==
    /\ rpcPc = "undoMarks"
    /\ \E ok \in Outcome("marks") : syncDynamicMarkFiles(prepared, ok)
    /\ Goto("undoSave")
    /\ UNCHANGED <<rpcFrame, handed, hostVars, cdi, stateVars, mu, prepared, rpcVars>>

UndoSave ==
    /\ rpcPc = "undoSave"
    /\ \E ok \in Outcome("save") : savePreparedState(prepared, ok)
    /\ mu' = Nobody /\ Done
    /\ UNCHANGED <<rpcFrame, handed, hostVars, cdi, marks, prepared>>

-----------------------------------------------------------------------------
(* nodeUnprepareResource                                                   *)

(* Mutant: the claim is released but not deleted from the map.             *)
UnprepKeepsEntry ==
    /\ rpcPc = "unprep" /\ mu = Nobody
    /\ created' = Devices(prepared, claim)
    /\ removePreparedDynamicMarks(created')
    /\ \E ok \in Outcome("cdi") : syncVDeviceCDISpecFiles(prepared, ok)
    /\ Goto("unprepMarks") /\ mu' = "rpc"
    /\ UNCHANGED <<rpcFrame, handed, hostVars, stateVars, prepared,
                   claim, todo, fresh, pend>>

(* Mutant: the files of all claims are removed.                            *)
UnprepDropsAllSpecs ==
    /\ rpcPc = "unprep" /\ mu = Nobody
    /\ created' = Devices(prepared, claim)
    /\ removePreparedDynamicMarks(created')
    /\ prepared' = [prepared EXCEPT ![claim] = NoEntry]
    /\ syncVDeviceCDISpecFiles(EmptyMap, TRUE)
    /\ Goto("unprepMarks") /\ mu' = "rpc"
    /\ UNCHANGED <<rpcFrame, handed, hostVars, stateVars, claim, todo, fresh, pend>>

UnprepCDI ==
    /\ rpcPc = "unprep" /\ mu = Nobody
    /\ created' = Devices(prepared, claim)
    /\ removePreparedDynamicMarks(created')
    /\ prepared' = [prepared EXCEPT ![claim] = NoEntry]
    /\ \E ok \in Outcome("cdi") : syncVDeviceCDISpecFiles(prepared', ok)
    /\ Goto("unprepMarks") /\ mu' = "rpc"
    /\ UNCHANGED <<rpcFrame, handed, hostVars, stateVars, claim, todo, fresh, pend>>

(* Mutant: the marks of all claims are removed.                            *)
UnprepDropsAllMarks ==
    /\ rpcPc = "unprepMarks"
    /\ syncDynamicMarkFiles(EmptyMap, TRUE)
    /\ Goto("unprepSave")
    /\ UNCHANGED <<rpcFrame, handed, hostVars, cdi, stateVars, mu, prepared, rpcVars>>

UnprepMarks ==
    /\ rpcPc = "unprepMarks"
    /\ \E ok \in Outcome("marks") : syncDynamicMarkFiles(prepared, ok)
    /\ Goto("unprepSave")
    /\ UNCHANGED <<rpcFrame, handed, hostVars, cdi, stateVars, mu, prepared, rpcVars>>

(* Mutant: the release is not saved.                                       *)
UnprepWithoutSave ==
    /\ rpcPc = "unprepSave"
    /\ Goto("sweep") /\ mu' = Nobody
    /\ UNCHANGED <<rpcFrame, handed, hostVars, cdi, marks, stateVars, prepared, rpcVars>>

UnprepSave ==
    /\ rpcPc = "unprepSave"
    /\ \E ok \in Outcome("save") : savePreparedState(prepared, ok)
    /\ Goto("sweep") /\ mu' = Nobody
    /\ UNCHANGED <<rpcFrame, handed, hostVars, cdi, marks, prepared, rpcVars>>

Sweep ==
    /\ rpcPc = "sweep"
    /\ removeDynamicMarksByClaimUID(claim)
    /\ pend' = VDvInds(created) /\ Goto("unprepDestroy")
    /\ UNCHANGED <<rpcFrame, handed, hostVars, cdi, stateVars, mu, prepared,
                   claim, todo, created, fresh>>

-----------------------------------------------------------------------------
(* The destroy loops. A failing destroy is logged and the loop goes on.    *)

DestroyNext(v) ==
    /\ rpcPc \in {"rollback", "undoDestroy", "unprepDestroy"} /\ v \in pend
    /\ \E ok \in DestroyOutcomes(v) : DestroySingleVDevice(v, ok)
    /\ pend' = pend \ {v}
    /\ UNCHANGED <<rpcFrame, handed, cdi, marks, stateVars, mu, prepared,
                   rpcPc, claim, todo, created, fresh>>

DestroyEnds ==
    /\ rpcPc \in {"rollback", "unprepDestroy"} /\ pend = {}
    /\ Done
    /\ UNCHANGED <<rpcFrame, handed, hostVars, cdi, marks, stateVars, mu, prepared>>

-----------------------------------------------------------------------------
(* The calls are the kubelet's choice; the steps of a call are the code's. *)
RpcCall == \E c \in Claims : PrepareResourceClaims(c) \/ UnprepareResourceClaims(c)

RpcStep ==
    \/ CheckExisting \/ RepairCDI \/ RepairMarks \/ Reply
    \/ \E r \in todo : SkipForeign(r) \/ LookupFails(r) \/ LookupDevice(r)
    \/ prepareWholeCardDevice \/ CreateVHCU
    \/ AttachVHCU \/ AttachFails
    \/ FinalCDI \/ FinalMarks \/ FinalSave
    \/ Undo \/ UndoCDI \/ UndoMarks \/ UndoSave
    \/ UnprepCDI \/ UnprepMarks \/ UnprepSave \/ Sweep
    \/ \E v \in pend : DestroyNext(v)
    \/ DestroyEnds

=============================================================================
