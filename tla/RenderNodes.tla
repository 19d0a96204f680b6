---------------------------- MODULE RenderNodes ----------------------------
(***************************************************************************)
(* From a PCI address to the device nodes of a CDI entry. dcgm reports an  *)
(* address with or without its domain, and with or without "pci:" before   *)
(* it; sysfs knows a card by its domain and its bus address.               *)
(***************************************************************************)
EXTENDS Integers, SequencesExt

CONSTANTS
    Domains,   \* PCI domains, with 0
    Buses      \* bus:device.function

NoDomain == -1

Address == [pre : BOOLEAN, dom : Domains \cup {NoDomain}, bus : Buses]

(* The text after the first colon of an address without domain: "00.0".    *)
Scrap == [pre |-> FALSE, dom |-> NoDomain, bus |-> "00.0"]

ASSUME RenderAssumption == 0 \in Domains /\ Domains \subseteq Nat /\ Scrap.bus \notin Buses

normalizePCIAddr(a) == [a EXCEPT !.pre = FALSE]

AfterColon(a) ==
    IF a.pre THEN normalizePCIAddr(a)
    ELSE IF a.dom # NoDomain THEN [a EXCEPT !.dom = NoDomain]
    ELSE Scrap

pciPathCandidates(a) ==
    <<normalizePCIAddr(a)>>
      \o (IF a.dom = NoDomain THEN <<[normalizePCIAddr(a) EXCEPT !.dom = 0]>> ELSE <<>>)
      \o <<AfterColon(a)>>

-----------------------------------------------------------------------------
(* sysfs: the addresses under /sys/bus/pci/devices, those of them with drm *)
(* entries, and the addresses with drm entries under the driver's module   *)
(* ("pci:0000:03:00.0" or "pci:03:00.0"). An entry belongs to a card.      *)
Sysfs == [devices : SUBSET Address, bus : SUBSET Address, legacy : SUBSET Address]

CardAt(a) == [a EXCEPT !.dom = IF @ = NoDomain THEN 0 ELSE @]

Nodes(kinds, a) == {[kind |-> k, at |-> CardAt(a)] : k \in kinds}

isDRIDirName(node) == node.kind \in {"card", "render"}

FirstIn(candidates, dirs) == SelectInSeq(candidates, LAMBDA a : a \in dirs)

getCardAndRenderFromSysBus(sys, a) ==
    LET candidates == pciPathCandidates(a)
        i == FirstIn(candidates, sys.bus) IN
    IF i = 0 THEN {}
    ELSE {n \in Nodes({"card", "render", "control"}, candidates[i]) : isDRIDirName(n)}

(* "pci:" is put before the candidate; what is found is not filtered.      *)
getCardAndRender(sys, a) ==
    LET candidates == <<a, AfterColon(a)>>
        i == FirstIn(candidates, sys.legacy) IN
    IF i = 0 THEN {} ELSE Nodes({"card", "render", "control"}, candidates[i])

discoverDRINodes(sys, a) ==
    IF getCardAndRenderFromSysBus(sys, a) # {} THEN getCardAndRenderFromSysBus(sys, a)
    ELSE getCardAndRender(sys, a)

-----------------------------------------------------------------------------
(* CDI entries                                                             *)

(* create-symlinks, in by-path, for the card and the render node.          *)
driSymlinkHooks(a, nodes) ==
    {[link |-> normalizePCIAddr(a), to |-> n] : n \in {m \in nodes : isDRIDirName(m)}}

(* Nodes and links, the card's sysfs directory when it is found, the       *)
(* configuration of a vHCU, and all of /dev/dri when there are no nodes.   *)
perCardContainerEdits(sys, a, nodes, vdev) ==
    [nodes  |-> nodes,
     links  |-> driSymlinkHooks(a, nodes),
     sysfs  |-> LET candidates == pciPathCandidates(a)
                    i == FirstIn(candidates, sys.devices) IN
                IF i = 0 THEN {} ELSE {candidates[i]},
     conf   |-> vdev,
     allDri |-> nodes = {}]

(* The nodes found at the refresh of the allocatable cards (by the legacy  *)
(* path only) are taken first.                                             *)
buildPhysicalDeviceEntry(sys, alloc) ==
    LET nodes == IF alloc.nodes # {} THEN alloc.nodes
                 ELSE discoverDRINodes(sys, alloc.pci) IN
    perCardContainerEdits(sys, alloc.pci, nodes, FALSE)

newAllocatableDevice(sys, a) == [pci |-> a, nodes |-> getCardAndRender(sys, a)]

(* Mutant: the vHCU's own address is tried first.                          *)
OwnFirst(parent, own) ==
    SetToSeq(own)
      \o (IF parent = {} THEN <<>> ELSE <<(CHOOSE p \in parent : TRUE).pci>>)

(* The addresses for a vHCU: its parent's, when the parent is allocatable, *)
(* then the one that dcgm reported for the vHCU itself ("" is {}).         *)
TryPCIs(parent, own) ==
    (IF parent = {} THEN <<>> ELSE <<(CHOOSE p \in parent : TRUE).pci>>)
      \o SetToSeq(own)

resolvePCIForVDeviceDRI(sys, parent, own) ==
    LET tries == TryPCIs(parent, own)
        i == SelectInSeq(tries, LAMBDA a : discoverDRINodes(sys, a) # {}) IN
    IF i # 0 THEN [pci |-> tries[i], nodes |-> discoverDRINodes(sys, tries[i])]
    ELSE [pci |-> IF tries = <<>> THEN Scrap ELSE tries[1], nodes |-> {}]

buildVDeviceEntry(sys, parent, own) ==
    LET found == resolvePCIForVDeviceDRI(sys, parent, own) IN
    perCardContainerEdits(sys, found.pci, found.nodes, TRUE)

=============================================================================
