--------------------------- MODULE HcuMaintenance ---------------------------
(***************************************************************************)
(* The life of the process outside the kubelet's calls: NewDeviceState,    *)
(* the rest of main once the kubelet plugin is started, and the goroutine  *)
(* that repeats orphan cleanup, refresh and publishing on every tick. main *)
(* and that goroutine never overlap, so one program counter, mPc, is both; *)
(* boot tells them apart where main exits on an error.                     *)
(***************************************************************************)
EXTENDS HcuState

stepFrame == <<kubeVars, rpcPc, rpcVars, crashes>>

-----------------------------------------------------------------------------
(* The end of the process, by a crash, a signal or klog.Fatalf: the files, *)
(* the host and the published slices stay. Incidents that the code does    *)
(* not recover from are remembered:                                        *)
(*   dirtyCrash   the last save had failed;                                *)
(*   orphanCrash  orphans were being destroyed, the map not yet saved;     *)
(*   undoCrash    a failed Prepare was being undone.                       *)

OrphanPcs == {"orphan", "orphanMarks", "orphanSave"}
UndoPcs == {"undo", "undoDestroy", "undoMarks", "undoSave"}

Incidents ==
    (IF dirty THEN {"dirtyCrash"} ELSE {})
    \cup (IF mPc \in OrphanPcs THEN {"orphanCrash"} ELSE {})
    \cup (IF rpcPc \in UndoPcs THEN {"undoCrash"} ELSE {})

ProcessEnds ==
    /\ crashes < MaxCrashes /\ crashes' = crashes + 1
    /\ up' = FALSE /\ mu' = Nobody /\ boot' = TRUE
    /\ prepared' = EmptyMap /\ allocatable' = {}
    /\ rpcPc' = "idle" /\ claim' = Nobody /\ todo' = {}
    /\ created' = {} /\ fresh' = Nobody /\ pend' = {}
    /\ mPc' = "down" /\ orphans' = {} /\ mPend' = {} /\ rmConf' = Nobody
    /\ hist' = hist \cup Incidents /\ dirty' = FALSE
    /\ UNCHANGED <<kubeVars, hostVars, cdi, marks, disk, published>>

Crash ==
    /\ mPc # "down"
    /\ ProcessEnds
    /\ UNCHANGED base

-----------------------------------------------------------------------------
(* CleanupOrphanPreparedClaims. The vHCUs of an orphan are destroyed       *)
(* before the map without the orphan is saved.                             *)

(* Mutant: the claims of the API server are not looked at.                 *)
AllUIDs == {c \in Claims : prepared[c] # NoEntry}

OrphanUIDs == {c \in Claims : prepared[c] # NoEntry /\ c \notin api}

CleanupOrphanPreparedClaims ==
    /\ mPc = "tick" /\ mu = Nobody
    /\ \/ /\ \/ prepared = EmptyMap
             \/ "list" \in Faults
             \/ OrphanUIDs = {}
          /\ mPc' = "refresh" /\ UNCHANGED <<mu, orphans>>
       \/ /\ OrphanUIDs # {}
          /\ orphans' = OrphanUIDs
          /\ mPc' = "orphan" /\ mu' = "maint"
    /\ UNCHANGED <<stepFrame, hostVars, cdiVars, marks, disk, dirty, up, prepared,
                   enumVars, mPend, rmConf, boot, hist>>

(* Mutant: an orphan is released but not deleted from the map.             *)
OrphanKeepsEntry(c) ==
    /\ mPc = "orphan" /\ mPend = {} /\ c \in orphans
    /\ removePreparedDynamicMarks(Devices(prepared, c))
    /\ mPend' = VDvInds(Devices(prepared, c))
    /\ orphans' = orphans \ {c}
    /\ UNCHANGED <<stepFrame, hostVars, cdiVars, disk, dirty, up, mu, prepared, enumVars,
                   mPc, rmConf, boot, hist>>

OrphanDrop(c) ==
    /\ mPc = "orphan" /\ mPend = {} /\ c \in orphans
    /\ removePreparedDynamicMarks(Devices(prepared, c))
    /\ prepared' = [prepared EXCEPT ![c] = NoEntry]
    /\ mPend' = VDvInds(Devices(prepared, c))
    /\ orphans' = orphans \ {c}
    /\ UNCHANGED <<stepFrame, hostVars, cdiVars, disk, dirty, up, mu, enumVars,
                   mPc, rmConf, boot, hist>>

OrphanDestroy(v) ==
    /\ mPc = "orphan" /\ v \in mPend
    /\ \E ok \in DestroyOutcomes(v) : DestroySingleVDevice(v, ok)
    /\ mPend' = mPend \ {v}
    /\ UNCHANGED <<stepFrame, cdiVars, marks, disk, dirty, up, mu, prepared, enumVars,
                   mPc, orphans, rmConf, boot, hist>>

OrphanCDI ==
    /\ mPc = "orphan" /\ orphans = {} /\ mPend = {}
    /\ \E ok \in Outcome("cdi") : syncVDeviceCDISpecFiles(prepared, ok)
    /\ mPc' = "orphanMarks"
    /\ UNCHANGED <<stepFrame, hostVars, base, marks, disk, dirty, up, mu, prepared,
                   enumVars, mVars, hist>>

OrphanMarks ==
    /\ mPc = "orphanMarks"
    /\ \E ok \in Outcome("marks") : syncDynamicMarkFiles(prepared, ok)
    /\ mPc' = "orphanSave"
    /\ UNCHANGED <<stepFrame, hostVars, cdiVars, disk, dirty, up, mu, prepared,
                   enumVars, mVars, hist>>

OrphanSave ==
    /\ mPc = "orphanSave"
    /\ \E ok \in Outcome("save") : savePreparedState(prepared, ok)
    /\ mPc' = "refresh" /\ mu' = Nobody
    /\ UNCHANGED <<stepFrame, hostVars, cdiVars, marks, up, prepared,
                   enumVars, mVars, hist>>

-----------------------------------------------------------------------------
(* reconcileStaleHostVDevices: at startup, on the map just loaded, and at  *)
(* every refresh under mu.                                                 *)

(* Mutant: every vHCU on the host is stale.                                *)
AllOnHost(m) == VDeviceInfos(host)

(* Mutant: nothing is.                                                     *)
NoneUntracked(m) == {}

Untracked(m) == VDeviceInfos(host) \ preparedVDvIndSet(m)

(* NewDeviceState up to the reconcile loop.                                *)
Start ==
    /\ mPc = "down"
    /\ prepared' = disk
    /\ \E ok \in Outcome("vinfos") : mPend' = IF ok THEN Untracked(disk) ELSE {}
    /\ mPc' = "reconcile"
    /\ UNCHANGED <<stepFrame, hostVars, cdiVars, marks, disk, dirty, up, mu, enumVars,
                   orphans, rmConf, boot, hist>>

RefreshAllocatable ==
    /\ mPc = "refresh" /\ mu = Nobody
    /\ \E ok \in Outcome("vinfos") : mPend' = IF ok THEN Untracked(prepared) ELSE {}
    /\ mPc' = "reconcile" /\ mu' = "maint"
    /\ UNCHANGED <<stepFrame, hostVars, cdiVars, marks, disk, dirty, up, prepared,
                   enumVars, orphans, rmConf, boot, hist>>

(* vHCUs of a Prepare that is still in its loop: on the host, in no map.   *)
InFlight ==
    CASE rpcPc \in {"loop", "found"} -> VDvInds(created)
      [] rpcPc = "created" -> VDvInds(created) \cup {fresh.vdv}
      [] OTHER -> {}

ReconcileDestroy(v) ==
    /\ mPc = "reconcile" /\ v \in mPend
    /\ \E ok \in DestroyOutcomes(v) :
         /\ DestroySingleVDevice(v, ok)
         /\ IF ok THEN /\ mPc' = "rmConf" /\ rmConf' = v
                       /\ hist' = IF v \in InFlight THEN hist \cup {"steal"} ELSE hist
            ELSE UNCHANGED <<mPc, rmConf, hist>>
    /\ mPend' = mPend \ {v}
    /\ UNCHANGED <<stepFrame, cdiVars, marks, disk, dirty, up, mu, prepared, enumVars,
                   orphans, boot>>

(* By now the index may belong to a new vHCU.                              *)
ReconcileRmConf ==
    /\ mPc = "rmConf"
    /\ conf' = conf \ {rmConf}
    /\ hist' = IF host[rmConf] # NoDev THEN hist \cup {"steal"} ELSE hist
    /\ mPc' = "reconcile" /\ rmConf' = Nobody
    /\ UNCHANGED <<stepFrame, host, cdiVars, marks, disk, dirty, up, mu, prepared,
                   enumVars, orphans, mPend, boot>>

(* DeviceInfos. Its failure ends NewDeviceState and main, not a tick.      *)
Enumerate ==
    /\ mPc = "reconcile" /\ mPend = {}
    /\ \/ /\ allocatable' = buildAllocatableFromDeviceInfos(host, prepared)
          /\ mPc' = "base"
          /\ UNCHANGED <<stepFrame, hostVars, cdiVars, marks, disk, dirty, up, mu,
                         prepared, published, mVars, hist>>
       \/ /\ "infos" \in Faults /\ ~boot
          /\ mPc' = "publish" /\ mu' = Nobody
          /\ UNCHANGED <<stepFrame, hostVars, cdiVars, marks, disk, dirty, up, prepared,
                         enumVars, mVars, hist>>
       \/ /\ "infos" \in Faults /\ boot
          /\ ProcessEnds /\ UNCHANGED base

WriteBase ==
    /\ mPc = "base"
    /\ \/ \E ok \in Outcome("base") :
            /\ createStandardCDISpecFile(allocatable, ok)
            /\ ok \/ ~boot
            /\ mPc' = IF up THEN "publish" ELSE "restore"
            /\ mu' = Nobody
            /\ UNCHANGED <<stepFrame, hostVars, cdi, marks, disk, dirty, up, prepared,
                           enumVars, mVars, hist>>
       \/ /\ "base" \in Faults /\ boot
          /\ createStandardCDISpecFile(allocatable, FALSE)
          /\ ProcessEnds

-----------------------------------------------------------------------------
(* The end of NewDeviceState: with claims restored, their files are        *)
(* rebuilt. Then the kubelet plugin is started, before main's own orphan   *)
(* cleanup, refresh and publishing.                                        *)

RestoreCDI ==
    /\ mPc = "restore"
    /\ IF prepared = EmptyMap
       THEN /\ mPc' = "tick" /\ up' = TRUE
            /\ UNCHANGED cdi
       ELSE /\ \E ok \in Outcome("cdi") : syncVDeviceCDISpecFiles(prepared, ok)
            /\ mPc' = "restoreMarks"
            /\ UNCHANGED up
    /\ UNCHANGED <<stepFrame, hostVars, base, marks, disk, dirty, mu, prepared,
                   enumVars, mVars, hist>>

RestoreMarks ==
    /\ mPc = "restoreMarks"
    /\ \E ok \in Outcome("marks") : syncDynamicMarkFiles(prepared, ok)
    /\ mPc' = "tick" /\ up' = TRUE
    /\ UNCHANGED <<stepFrame, hostVars, cdiVars, disk, dirty, mu, prepared,
                   enumVars, mVars, hist>>

PublishResources ==
    /\ mPc = "publish"
    /\ \/ /\ published' = allocatable
          /\ mPc' = "tick" /\ boot' = FALSE
          /\ UNCHANGED <<stepFrame, hostVars, cdiVars, marks, disk, dirty, up, mu,
                         prepared, allocatable, orphans, mPend, rmConf, hist>>
       \/ /\ "publish" \in Faults /\ ~boot
          /\ mPc' = "tick"
          /\ UNCHANGED <<stepFrame, hostVars, cdiVars, marks, disk, dirty, up, mu,
                         prepared, enumVars, mVars, hist>>
       \/ /\ "publish" \in Faults /\ boot
          /\ ProcessEnds /\ UNCHANGED base

-----------------------------------------------------------------------------
MaintStep ==
    \/ Start
    \/ CleanupOrphanPreparedClaims
    \/ \E c \in orphans : OrphanDrop(c)
    \/ \E v \in mPend : OrphanDestroy(v)
    \/ OrphanCDI \/ OrphanMarks \/ OrphanSave
    \/ RefreshAllocatable
    \/ \E v \in mPend : ReconcileDestroy(v)
    \/ ReconcileRmConf
    \/ Enumerate \/ WriteBase \/ RestoreCDI \/ RestoreMarks
    \/ PublishResources

=============================================================================
