------------------------------ MODULE ClaimData ------------------------------
(***************************************************************************)
(* What a claim gets, on one card: the scheduler accounts capacity for it, *)
(* Prepare turns its request into a vHCU or the whole card, looks for the  *)
(* container that uses it, and writes the CDI entries; claims, pods, sysfs *)
(* and the list of allocatable cards change meanwhile. HcuDriver has the   *)
(* failures, the crashes and the steps of Prepare and Unprepare.           *)
(***************************************************************************)
EXTENDS Capacity, ClaimConsumer, RenderNodes

CONSTANTS
    Claims,
    Asks,         \* requests that claims are made with (bound)
    PodKinds,     \* pods there may be (bound)
    ReservedFor,  \* lists status.reservedFor of a claim (bound)
    Systems,      \* what sysfs may show of this card and its neighbour (bound)
    Reports,      \* dcgm: card, its address as reported, the vHCUs' own (bound)
    Gone,         \* "no such pod"
    Nothing       \* no request, nothing given, no claim, no entry

ASSUME DataAssumption ==
    /\ IsFiniteSet(Claims)
    /\ Asks \subseteq Ask /\ PodKinds \subseteq Pod /\ Gone \notin PodKinds
    /\ Systems \subseteq Sysfs /\ Nothing \notin Asks
    /\ \A r \in Reports : /\ r.card \in Address /\ r.pci \in Address
                          /\ r.own \subseteq Address
                          /\ IsFiniteSet(r.own)

(* A pod has a container, and is the same pod once it is bound to the node. *)
(* A mark that names a container is none that names the claim.             *)
ASSUME PodAssumption ==
    /\ Containers \in Nat \ {0}
    /\ \A p \in PodKinds : p.node = "none" => [p EXCEPT !.node = "here"] \in PodKinds
    /\ Nothing \notin Claims
    /\ \A c \in Claims \cup {Nothing} :
         c \notin [pod : Pods, container : 1..Containers, as : PodKinds]

(* sysfs names a PCI device with its domain, and a device with drm entries *)
(* is a device. The names under the driver's module may lack the domain.   *)
ASSUME SysfsAssumption ==
    \A sys \in Systems :
      /\ sys.bus \subseteq sys.devices
      /\ \A a \in sys.devices : ~a.pre /\ a.dom # NoDomain
      /\ \A a \in sys.legacy : ~a.pre

VARIABLES
    report,    \* the addresses that dcgm reports
    status,    \* status[c]: whether claim c exists and is allocated the card
    ask,       \* ask[c]: its request, as long as it exists or is prepared
    given,     \* given[c]: what Prepare made of it
    alloc,     \* the card in DeviceState.allocatable, {} when it is left out
    entry,     \* the CDI entry that the last step wrote, for the card or a vHCU
    pc,        \* where Prepare is
    claim,     \* the claim in hand
    refs,      \* its consumers that are still to be looked at
    pods,      \* the pods in the API server
    stayed,    \* pods that were on the node all the time (history)
    failed,    \* a call of the search failed (history)
    holder     \* what the search found

capVars == <<status, ask, given>>
podVars == <<refs, pods, stayed, failed, holder>>
vars == <<report, status, ask, given, alloc, entry, pc, claim, refs, pods, stayed, failed,
          holder>>

NothingWritten == UNCHANGED alloc /\ entry' = Nothing

NoPods == [p \in Pods |-> Gone]

Idle ==
    /\ pc' = "idle" /\ claim' = Nothing
    /\ refs' = <<>> /\ pods' = NoPods /\ stayed' = {} /\ failed' = FALSE /\ holder' = Nothing

Init ==
    /\ report \in Reports
    /\ status = [c \in Claims |-> "none"]
    /\ ask = [c \in Claims |-> Nothing] /\ given = [c \in Claims |-> Nothing]
    /\ alloc = {} /\ entry = Nothing
    /\ pc = "idle" /\ claim = Nothing
    /\ refs = <<>> /\ pods = NoPods /\ stayed = {} /\ failed = FALSE /\ holder = Nothing

-----------------------------------------------------------------------------
(* Claims and the scheduler (external): a claim is allocated what still    *)
(* fits. It loses its allocation, and may be deleted, whenever its pod is  *)
(* gone, also when the driver has it prepared still (a forced deletion).   *)

Capacities == {"cores", "memory", "slices"}

Charged == {c \in Claims : status[c] = "allocated"}

Used(k) == SumFunction([c \in Charged |-> Accounted(ask[c])[k]])

Fits(a) ==
    /\ a.cores <= 1000 * ComputeUnits /\ a.memory <= MemoryBytes
    /\ \A k \in Capacities : Used(k) + Accounted(a)[k] <= GetDevice[k].value

claimFrame == UNCHANGED <<report, given, pc, claim, podVars>> /\ NothingWritten

CreateClaim(c) ==
    /\ status[c] = "none" /\ ask[c] = Nothing
    /\ status' = [status EXCEPT ![c] = "pending"]
    /\ \E a \in Asks : ask' = [ask EXCEPT ![c] = a]
    /\ claimFrame

Allocate(c) ==
    /\ status[c] = "pending" /\ alloc # {} /\ Fits(ask[c])
    /\ status' = [status EXCEPT ![c] = "allocated"]
    /\ UNCHANGED ask /\ claimFrame

Deallocate(c) ==
    /\ status[c] = "allocated"
    /\ status' = [status EXCEPT ![c] = "pending"]
    /\ UNCHANGED ask /\ claimFrame

DeleteClaim(c) ==
    /\ status[c] = "pending"
    /\ status' = [status EXCEPT ![c] = "none"]
    /\ ask' = [ask EXCEPT ![c] = IF given[c] = Nothing THEN Nothing ELSE @]
    /\ claimFrame

-----------------------------------------------------------------------------
(* A refresh: the card is left out of allocatable, or its nodes are looked *)
(* for and its physical entry is written.                                  *)

(* No name without a domain stands for a card of another domain.           *)
Clear(sys) ==
    /\ CardAt(normalizePCIAddr(report.pci)) = report.card
    /\ \A a \in sys.legacy :
         a.dom = NoDomain /\ a.bus = report.card.bus => CardAt(a) = report.card

Entry(sys, edits) ==
    [edits |-> edits, listed |-> alloc' # {}, shown |-> report.card \in sys.bus,
     clear |-> Clear(sys)]

Refresh ==
    /\ \E sys \in Systems :
         \/ /\ alloc' = {newAllocatableDevice(sys, report.pci)}
            /\ \E dev \in alloc' : entry' = Entry(sys, buildPhysicalDeviceEntry(sys, dev))
         \/ alloc' = {} /\ entry' = Nothing
    /\ UNCHANGED <<report, capVars, pc, claim, podVars>>

Prepared == {c \in Claims : given[c] # Nothing}

(* The spec files of the vHCUs of the prepared map, which does not have    *)
(* the claim in hand, are written, whoever's sync it is.                   *)
syncVDeviceCDISpecFiles ==
    /\ UNCHANGED alloc
    /\ IF \E c \in Prepared' \ {claim'} : ~given'[c].whole
       THEN \E sys \in Systems :
              entry' = Entry(sys, buildVDeviceEntry(sys, alloc, report.own))
       ELSE entry' = Nothing

-----------------------------------------------------------------------------
(* Prepare up to the search for the consumer. The list of consumers is as  *)
(* old as the claim that the kubelet plugin fetched; the pods are as they  *)
(* are now.                                                                *)
prepareAllocatedDevices(c) ==
    /\ pc = "idle" /\ alloc # {} /\ status[c] = "allocated" /\ given[c] = Nothing
    /\ given' = [given EXCEPT ![c] = requestCapacityFor(ask[c])]
    /\ pc' = "get" /\ claim' = c
    /\ refs' \in ReservedFor
    /\ pods' \in [Pods -> PodKinds \cup {Gone}]
    /\ stayed' = {p \in Pods : pods'[p] # Gone /\ pods'[p].node = "here"}
    /\ UNCHANGED <<report, status, ask, failed, holder>> /\ NothingWritten

(* Between any two calls a pod is deleted, or is bound to the node.        *)
PodChanges(p) ==
    /\ pc \in {"get", "list"} /\ pods[p] # Gone
    /\ \/ pods' = [pods EXCEPT ![p] = Gone]
       \/ pods[p].node = "none" /\ pods' = [pods EXCEPT ![p].node = "here"]
    /\ stayed' = stayed \ {p}
    /\ UNCHANGED <<report, capVars, pc, claim, refs, failed, holder>> /\ NothingWritten

Found(p, container) ==
    /\ holder' = [pod |-> p, container |-> container, as |-> pods[p]]
    /\ pc' = "sync" /\ UNCHANGED refs

Helps(p) == p \in Pods /\ (IF pods[p] = Gone THEN FALSE ELSE ConsumerIn(pods[p]) # NotFound)

(* Mutant: a consumer that does not help ends the search.                  *)
GetOrGiveUp ==
    /\ pc = "get" /\ refs # <<>>
    /\ IF Helps(Head(refs)) THEN Found(Head(refs), ConsumerIn(pods[Head(refs)]))
       ELSE holder' = claim /\ pc' = "sync" /\ UNCHANGED refs
    /\ UNCHANGED <<report, capVars, claim, pods, stayed, failed>> /\ NothingWritten

(* The next consumer: skipped when it is no pod, cannot be fetched or is   *)
(* on another node.                                                        *)
GetPod ==
    /\ pc = "get" /\ refs # <<>>
    /\ LET p == Head(refs) IN
       \/ /\ Helps(p)
          /\ Found(p, ConsumerIn(pods[p])) /\ UNCHANGED failed
       \/ /\ ~Helps(p)
          /\ refs' = Tail(refs) /\ UNCHANGED <<pc, holder, failed>>
       \/ /\ refs' = Tail(refs) /\ failed' = TRUE /\ UNCHANGED <<pc, holder>>
    /\ UNCHANGED <<report, capVars, claim, pods, stayed>> /\ NothingWritten

EndOfRefs ==
    /\ pc = "get" /\ refs = <<>> /\ pc' = "list"
    /\ UNCHANGED <<report, capVars, claim, podVars>> /\ NothingWritten

OnNode == {p \in Pods : pods[p] # Gone /\ pods[p].node = "here"}

(* All pods on the node; the mark falls back to the claim when none uses   *)
(* it, or the list fails.                                                  *)
ListPods ==
    /\ pc = "list"
    /\ LET using == {p \in OnNode : containerUsingResourceClaim(pods[p]) # NotFound} IN
       \/ /\ \E p \in using : Found(p, containerUsingResourceClaim(pods[p]))
          /\ UNCHANGED failed
       \/ /\ using = {}
          /\ holder' = claim /\ pc' = "sync" /\ UNCHANGED <<refs, failed>>
       \/ /\ holder' = claim /\ pc' = "sync" /\ failed' = TRUE /\ UNCHANGED refs
    /\ UNCHANGED <<report, capVars, claim, pods, stayed>> /\ NothingWritten

finalizePreparedClaim ==
    /\ pc = "sync" /\ UNCHANGED <<report, capVars>>
    /\ Idle
    /\ syncVDeviceCDISpecFiles

Release(c) ==
    /\ given' = [given EXCEPT ![c] = Nothing]
    /\ ask' = [ask EXCEPT ![c] = IF status[c] = "none" THEN Nothing ELSE @]
    /\ UNCHANGED <<report, status, pc, claim, podVars>>
    /\ syncVDeviceCDISpecFiles

nodeUnprepareResource(c) == pc = "idle" /\ c \in Prepared /\ Release(c)

(* The prepared claims that are gone are released, also while another one  *)
(* is being prepared.                                                      *)
CleanupOrphanPreparedClaims(c) ==
    c \in Prepared \ {claim} /\ status[c] = "none" /\ Release(c)

Next ==
    \/ \E c \in Claims :
         \/ CreateClaim(c) \/ Allocate(c) \/ Deallocate(c) \/ DeleteClaim(c)
         \/ prepareAllocatedDevices(c) \/ nodeUnprepareResource(c)
         \/ CleanupOrphanPreparedClaims(c)
    \/ Refresh
    \/ \E p \in Pods : PodChanges(p)
    \/ GetPod \/ EndOfRefs \/ ListPods \/ finalizePreparedClaim

Spec == Init /\ [][Next]_vars

-----------------------------------------------------------------------------
(* Every variable has its type; a container that was found exists.         *)
TypeOK ==
    /\ report \in Reports
    /\ status \in [Claims -> {"none", "pending", "allocated"}]
    /\ ask \in [Claims -> Asks \cup {Nothing}]
    /\ given \in [Claims -> {Nothing} \cup [whole : BOOLEAN, cores : Nat \ {0},
                                            memMiB : Nat \ {0}]]
    /\ alloc \subseteq [pci : {report.pci},
                       nodes : SUBSET [kind : {"card", "render", "control"}, at : Address]]
    /\ pc \in {"idle", "get", "list", "sync"}
    /\ pods \in [Pods -> PodKinds \cup {Gone}] /\ stayed \subseteq OnNode
    /\ \/ pc # "sync" /\ holder = Nothing
       \/ pc = "sync" /\ holder = claim
       \/ pc = "sync" /\ holder \in [pod : Pods, container : 1..Containers, as : PodKinds]

(* The claims that have the card and what Prepare made of it.              *)
Held == Prepared \cap Charged

FreeOf(k) == {c \in Held : Accounted(ask[c])[k] = 0}

(* What the driver makes of the claims that are allocated a card does not  *)
(* exceed the card, but for one core and one MiB for each claim that asked *)
(* for none: the scheduler accounts 0 for it (the minimum of the request   *)
(* policy), and the driver makes it 1. What is still prepared for claims   *)
(* that have lost the card comes on top, until it is released.             *)
CardNotOvercommitted ==
    /\ SumFunction([c \in Held |-> given[c].cores])
         <= ComputeUnits + Cardinality(FreeOf("cores"))
    /\ SumFunction([c \in Held |-> given[c].memMiB])
         <= MemoryBytes \div MiB + Cardinality(FreeOf("memory"))

(* A vHCU has the cores its claim is charged for, and no more of cores or  *)
(* memory than that unless it is the least there is. It has less memory    *)
(* only when no whole number of MiB was asked for: less than a MiB less    *)
(* than was asked, and at most one less than is charged.                   *)
VHCUWorthItsCharge ==
    \A c \in {d \in Prepared : ~given[d].whole} :
      LET charge == Accounted(ask[c])
          next == (given[c].memMiB + 1) * MiB IN
      /\ given[c].cores = charge.cores \/ (given[c].cores = 1 /\ charge.cores = 0)
      /\ given[c].memMiB * MiB <= charge.memory \/ given[c].memMiB = 1
      /\ charge.memory <= next
      /\ IF ask[c].memory = Unset THEN charge.memory < next ELSE ask[c].memory < next

(* The container that a device is marked with uses the claim, or its pod   *)
(* is in the claim's list and no container of it is seen to use the claim; *)
(* it is not a pod of another node.                                        *)
HolderUsesClaim ==
    holder \notin Claims \cup {Nothing} =>
      /\ holder.as.node # "elsewhere"
      /\ holder.as.ref = "name" /\ holder.as.users # {} => holder.container \in holder.as.users
      /\ holder.as.ref # "name" => refs # <<>> /\ Head(refs) = holder.pod

(* A search without failing calls ends without a container only if no pod  *)
(* that uses the claim by name was on the node all the time: pods of other *)
(* nodes, pods that have gone and consumers that are no pods do not hide   *)
(* it.                                                                     *)
SearchFinds ==
    holder \in Claims /\ ~failed =>
      \A p \in stayed : pods[p].ref # "name" \/ pods[p].users = {}

(* A CDI entry that is written while the card is allocatable, sysfs shows  *)
(* its nodes and the names tell it from the cards of other domains gives a *)
(* container the nodes of this card and of no other, and not all of        *)
(* /dev/dri.                                                               *)
EntryOfItsCard ==
    entry # Nothing /\ entry.listed /\ entry.shown /\ entry.clear =>
      /\ {n.at : n \in entry.edits.nodes} = {report.card}
      /\ entry.edits.sysfs = {report.card}
      /\ ~entry.edits.allDri

=============================================================================
