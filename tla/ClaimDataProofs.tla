--------------------------- MODULE ClaimDataProofs ---------------------------
(***************************************************************************)
(* What one claim gets: what its vHCU is worth, whom its mark names and    *)
(* which device nodes its entry has, for every card, every request, every  *)
(* pod and list of consumers, and all that sysfs may show.                 *)
(***************************************************************************)
EXTENDS ClaimData, WellFoundedInduction, SequenceTheorems, FiniteSetTheorems, TLAPS

USE DEF capVars, podVars, claimFrame, NothingWritten

-----------------------------------------------------------------------------
(* The driver rounds the memory of a vHCU down and the scheduler rounds    *)
(* what it charges up (driver.go:141-151, allocatable_device.go:156-166).  *)
LEMMA MemoryLemma ==
    ASSUME NEW m \in Nat
    PROVE  LET got == AtLeastOne(m \div MiB)
               paid == 0 + RoundUp(m - 0, MiB) IN
           /\ got * MiB <= paid \/ got = 1
           /\ paid <= (got + 1) * MiB
           /\ m < (got + 1) * MiB
  BY DEF AtLeastOne, RoundUp, MiB

LEMMA CoresLemma ==
    ASSUME NEW milli \in Nat
    PROVE  /\ Value(milli) \in Nat
           /\ 0 + RoundUp(Value(milli) - 0, 1) = Value(milli)
  BY DEF Value, RoundUp

(* What a vHCU has, against what the scheduler charges for its request.    *)
LEMMA WorthLemma ==
    ASSUME NEW a \in Ask, ~requestCapacityFor(a).whole
    PROVE  LET got == requestCapacityFor(a)  paid == Accounted(a) IN
           /\ got.cores = paid.cores \/ (got.cores = 1 /\ paid.cores = 0)
           /\ got.memMiB * MiB <= paid.memory \/ got.memMiB = 1
           /\ paid.memory <= (got.memMiB + 1) * MiB
           /\ IF a.memory = Unset THEN paid.memory < (got.memMiB + 1) * MiB
              ELSE a.memory < (got.memMiB + 1) * MiB
  <1>1. a.cores \in Nat \/ a.cores = Unset
    BY DEF Ask, Quantity
  <1>2. a.memory \in Nat \/ a.memory = Unset
    BY DEF Ask, Quantity
  <1>3. requestCapacityFor(a).cores = AtLeastOne(IF a.cores = Unset THEN ComputeUnits
                                                 ELSE Value(a.cores))
    BY DEF requestCapacityFor, WholeCard
  <1>4. requestCapacityFor(a).memMiB = AtLeastOne((IF a.memory = Unset THEN MemoryBytes
                                                   ELSE a.memory) \div MiB)
    BY DEF requestCapacityFor, WholeCard
  <1>5. Accounted(a).cores = IF a.cores = Unset THEN ComputeUnits ELSE Value(a.cores)
    <2>1. CASE a.cores = Unset
      BY <2>1 DEF Accounted, Consumed, GetDevice, Policy
    <2>2. CASE a.cores \in Nat
      <3>1. a.cores # Unset /\ Value(a.cores) \in Nat /\ Value(a.cores) # Unset
        BY <2>2, CoresLemma DEF Unset
      <3>2. Accounted(a).cores = 0 + RoundUp(Value(a.cores) - 0, 1)
        BY <3>1 DEF Accounted, Consumed, GetDevice, Policy
      <3> QED
        BY <2>2, <3>1, <3>2, CoresLemma
    <2> QED
      BY <1>1, <2>1, <2>2
  <1>6. LET got == AtLeastOne(IF a.cores = Unset THEN ComputeUnits ELSE Value(a.cores))
            paid == IF a.cores = Unset THEN ComputeUnits ELSE Value(a.cores) IN
        got = paid \/ (got = 1 /\ paid = 0)
    BY <1>1, CoresLemma, CapacityAssumption DEF AtLeastOne
  <1>7. /\ requestCapacityFor(a).memMiB * MiB <= Accounted(a).memory
             \/ requestCapacityFor(a).memMiB = 1
        /\ Accounted(a).memory <= (requestCapacityFor(a).memMiB + 1) * MiB
        /\ IF a.memory = Unset
           THEN Accounted(a).memory < (requestCapacityFor(a).memMiB + 1) * MiB
           ELSE a.memory < (requestCapacityFor(a).memMiB + 1) * MiB
    <2>1. CASE a.memory = Unset
      <3>1. Accounted(a).memory = MemoryBytes
        BY <2>1 DEF Accounted, Consumed, GetDevice, Policy
      <3>2. requestCapacityFor(a).memMiB = AtLeastOne(MemoryBytes \div MiB)
        BY <2>1, <1>4
      <3> QED
        BY <2>1, <3>1, <3>2, CapacityAssumption DEF AtLeastOne, MiB
    <2>2. CASE a.memory \in Nat
      <3>1. a.memory # Unset /\ ~(a.memory < 0)
        BY <2>2 DEF Unset
      <3>2. Accounted(a).memory = 0 + RoundUp(a.memory - 0, MiB)
        BY <3>1 DEF Accounted, Consumed, GetDevice, Policy
      <3>3. requestCapacityFor(a).memMiB = AtLeastOne(a.memory \div MiB)
        BY <3>1, <1>4
      <3> QED
        BY <2>2, <3>1, <3>2, <3>3, MemoryLemma
    <2> QED
      BY <1>2, <2>1, <2>2
  <1> QED
    BY <1>3, <1>5, <1>6, <1>7

-----------------------------------------------------------------------------
(* What Prepare made of a claim is what it makes of the request that the   *)
(* scheduler charged, also when the claim has lost its allocation or is    *)
(* gone: its request is known as long as it is prepared.                   *)
GivenAsAsked ==
    /\ status \in [Claims -> {"none", "pending", "allocated"}]
    /\ ask \in [Claims -> Asks \cup {Nothing}]
    /\ given \in [Claims -> {Nothing} \cup {requestCapacityFor(a) : a \in Asks}]
    /\ \A c \in Claims :
         /\ status[c] # "none" => ask[c] # Nothing
         /\ given[c] # Nothing => ask[c] # Nothing /\ given[c] = requestCapacityFor(ask[c])

LEMMA GivenInitial == Init => GivenAsAsked
  BY DEF Init, GivenAsAsked

LEMMA GivenInductive == GivenAsAsked /\ [Next]_vars => GivenAsAsked'
  <1> SUFFICES ASSUME GivenAsAsked, [Next]_vars PROVE GivenAsAsked'
    OBVIOUS
  <1> USE DEF GivenAsAsked
  <1>1. ASSUME NEW c \in Claims, CreateClaim(c) PROVE GivenAsAsked'
    BY <1>1, DataAssumption DEF CreateClaim
  <1>2. ASSUME NEW c \in Claims, Allocate(c) PROVE GivenAsAsked'
    BY <1>2 DEF Allocate
  <1>3. ASSUME NEW c \in Claims, Deallocate(c) PROVE GivenAsAsked'
    BY <1>3 DEF Deallocate
  <1>4. ASSUME NEW c \in Claims, DeleteClaim(c) PROVE GivenAsAsked'
    BY <1>4 DEF DeleteClaim
  <1>5. ASSUME NEW c \in Claims, prepareAllocatedDevices(c) PROVE GivenAsAsked'
    BY <1>5 DEF prepareAllocatedDevices
  <1>6. ASSUME NEW c \in Claims, Release(c) PROVE GivenAsAsked'
    BY <1>6 DEF Release
  <1>7. UNCHANGED capVars => GivenAsAsked'
    OBVIOUS
  <1> QED
    BY <1>1, <1>2, <1>3, <1>4, <1>5, <1>6, <1>7
       DEF Next, vars, nodeUnprepareResource, CleanupOrphanPreparedClaims, Refresh, PodChanges,
           GetPod, EndOfRefs, ListPods, finalizePreparedClaim

LEMMA GivenWorth == GivenAsAsked => VHCUWorthItsCharge
  <1> SUFFICES ASSUME GivenAsAsked, NEW c \in Claims, given[c] # Nothing, ~given[c].whole
               PROVE  LET charge == Accounted(ask[c])
                          next == (given[c].memMiB + 1) * MiB IN
                      /\ given[c].cores = charge.cores \/ (given[c].cores = 1 /\ charge.cores = 0)
                      /\ given[c].memMiB * MiB <= charge.memory \/ given[c].memMiB = 1
                      /\ charge.memory <= next
                      /\ IF ask[c].memory = Unset THEN charge.memory < next
                         ELSE ask[c].memory < next
    BY DEF VHCUWorthItsCharge, Prepared
  <1>1. ask[c] \in Ask /\ given[c] = requestCapacityFor(ask[c])
    BY DataAssumption DEF GivenAsAsked
  <1> QED
    BY <1>1, WorthLemma

(* The vHCU of a claim has the cores that the scheduler has charged it     *)
(* for, and more of cores or memory than that only when it is the least    *)
(* there is. Its memory is the request's, rounded down: it is less than a  *)
(* MiB less than was asked for, and the charge, rounded up, can be one     *)
(* whole MiB more (requestCapacityFor, driver.go:106-154).                 *)
THEOREM VHCUsWorthTheirCharge == Spec => []VHCUWorthItsCharge
  <1>1. Spec => []GivenAsAsked
    BY GivenInitial, GivenInductive, PTL DEF Spec
  <1> QED
    BY <1>1, GivenWorth, PTL

-----------------------------------------------------------------------------
(* The first container of those that use the claim is one of them.         *)
LEMMA FirstLemma ==
    ASSUME NEW users \in SUBSET Nat, users # {}
    PROVE  FirstOf(users) \in users /\ \A j \in users : FirstOf(users) <= j
  <1> DEFINE R == {ss \in Nat \X Nat : ss[1] < ss[2]}
  <1>0. IsWellFoundedOn(R, Nat)
    BY NatLessThanWellFounded DEF OpToRel
  <1> HIDE DEF R
  <1>1. PICK i \in users : \A j \in users : ~(<<j, i>> \in R)
    BY <1>0, WFMin
  <1>2. \A j \in Nat, k \in Nat : j < k => <<j, k>> \in R
    <2> SUFFICES ASSUME NEW j \in Nat, NEW k \in Nat, j < k PROVE <<j, k>> \in R
      OBVIOUS
    <2>1. <<j, k>> \in Nat \X Nat
      OBVIOUS
    <2>2. <<j, k>>[1] < <<j, k>>[2]
      OBVIOUS
    <2> QED
      BY <2>1, <2>2, Zenon DEF R
  <1>3. \A j \in users : i <= j
    <2> SUFFICES ASSUME NEW j \in users PROVE i <= j
      OBVIOUS
    <2>1. i \in Nat /\ j \in Nat
      OBVIOUS
    <2>2. ~(j < i)
      BY <1>1, <1>2, <2>1, Zenon
    <2> QED
      BY <2>1, <2>2
  <1> QED
    BY <1>3 DEF FirstOf

(* A container that uses the claim is found in every pod that names it and *)
(* has one (containerUsingResourceClaim, claim_consumer.go:60-80).         *)
LEMMA UsingLemma ==
    ASSUME NEW p \in Pod
    PROVE  /\ p.ref = "name" /\ p.users # {} => containerUsingResourceClaim(p) \in p.users
           /\ containerUsingResourceClaim(p) # NotFound =>
                p.ref = "name" /\ containerUsingResourceClaim(p) \in p.users
  <1>1. p.users \in SUBSET Nat
    BY DEF Pod
  <1> QED
    BY <1>1, FirstLemma DEF containerUsingResourceClaim

(* Pods of the API server have their type; before the search has ended     *)
(* there is no holder.                                                     *)
SearchIInv ==
    /\ pods \in [Pods -> Pod \cup {Gone}]
    /\ claim \in Claims \cup {Nothing}
    /\ pc # "sync" => holder = Nothing
    /\ HolderUsesClaim

LEMMA SearchInitial == Init => SearchIInv
  BY DEF Init, NoPods, SearchIInv, HolderUsesClaim

LEMMA SearchInductive == SearchIInv /\ [Next]_vars => SearchIInv'
  <1> SUFFICES ASSUME SearchIInv, [Next]_vars PROVE SearchIInv'
    OBVIOUS
  <1>1. ASSUME NEW c \in Claims, prepareAllocatedDevices(c) PROVE SearchIInv'
    BY <1>1, DataAssumption DEF prepareAllocatedDevices, SearchIInv, HolderUsesClaim
  <1>2. ASSUME NEW p \in Pods, PodChanges(p) PROVE SearchIInv'
    <2>1. pods' \in [Pods -> Pod \cup {Gone}]
      <3>1. pods[p] \in Pod
        BY <1>2 DEF PodChanges, SearchIInv
      <3>2. [pods[p] EXCEPT !.node = "here"] \in Pod
        BY <3>1 DEF Pod
      <3> QED
        BY <1>2, <3>2 DEF PodChanges, SearchIInv
    <2> QED
      BY <1>2, <2>1 DEF PodChanges, SearchIInv, HolderUsesClaim
  <1>3. ASSUME GetPod PROVE SearchIInv'
    <2> DEFINE p == Head(refs)
    <2>1. pods' = pods /\ claim' = claim
      BY <1>3 DEF GetPod
    <2>2. CASE Helps(p) /\ Found(p, ConsumerIn(pods[p]))
      <3>1. p \in Pods /\ pods[p] # Gone /\ pods[p] \in Pod
        BY <2>2 DEF Helps, SearchIInv
      <3>2. pods[p].node # "elsewhere"
        BY <2>2, <3>1 DEF Helps, ConsumerIn
      <3>3. pods[p].ref = "name" /\ pods[p].users # {} => ConsumerIn(pods[p]) \in pods[p].users
        <4> SUFFICES ASSUME pods[p].ref = "name", pods[p].users # {}
                     PROVE  ConsumerIn(pods[p]) \in pods[p].users
          OBVIOUS
        <4>1. containerUsingResourceClaim(pods[p]) \in pods[p].users
          BY <3>1, UsingLemma
        <4>2. containerUsingResourceClaim(pods[p]) # NotFound
          BY <3>1, <4>1 DEF Pod, NotFound
        <4> QED
          BY <3>2, <4>1, <4>2 DEF ConsumerIn
      <3>4. /\ holder' = [pod |-> p, container |-> ConsumerIn(pods[p]), as |-> pods[p]]
            /\ pc' = "sync" /\ refs' = refs
        BY <2>2 DEF Found
      <3>5. refs # <<>>
        BY <1>3 DEF GetPod
      <3> QED
        BY <2>1, <3>2, <3>3, <3>4, <3>5 DEF SearchIInv, HolderUsesClaim
    <2>3. CASE pc' = pc /\ holder' = holder
      <3>1. holder' = Nothing /\ pc' = "get"
        BY <1>3, <2>3 DEF GetPod, SearchIInv
      <3> QED
        BY <2>1, <3>1 DEF SearchIInv, HolderUsesClaim
    <2> QED
      BY <1>3, <2>2, <2>3 DEF GetPod
  <1>4. ASSUME EndOfRefs PROVE SearchIInv'
    BY <1>4 DEF EndOfRefs, SearchIInv, HolderUsesClaim
  <1>5. ASSUME ListPods PROVE SearchIInv'
    <2>1. pods' = pods /\ claim' = claim /\ pc' = "sync"
      BY <1>5 DEF ListPods, Found
    <2>2. CASE holder' = claim
      BY <2>1, <2>2 DEF SearchIInv, HolderUsesClaim
    <2>3. ASSUME NEW p \in OnNode, containerUsingResourceClaim(pods[p]) # NotFound,
                 Found(p, containerUsingResourceClaim(pods[p]))
          PROVE  SearchIInv'
      <3>1. pods[p] \in Pod /\ pods[p].node = "here"
        BY DEF OnNode, SearchIInv
      <3>2. pods[p].ref = "name" /\ containerUsingResourceClaim(pods[p]) \in pods[p].users
        BY <2>3, <3>1, UsingLemma
      <3>3. holder' = [pod |-> p, container |-> containerUsingResourceClaim(pods[p]),
                       as |-> pods[p]]
        BY <2>3 DEF Found
      <3> QED
        BY <2>1, <3>1, <3>2, <3>3 DEF SearchIInv, HolderUsesClaim
    <2> QED
      BY <1>5, <2>2, <2>3 DEF ListPods
  <1>6. ASSUME finalizePreparedClaim PROVE SearchIInv'
    BY <1>6 DEF finalizePreparedClaim, Idle, NoPods, SearchIInv, HolderUsesClaim
  <1>7. ASSUME UNCHANGED <<pc, claim, podVars>> PROVE SearchIInv'
    BY <1>7 DEF SearchIInv, HolderUsesClaim
  <1> QED
    BY <1>1, <1>2, <1>3, <1>4, <1>5, <1>6, <1>7
       DEF Next, vars, CreateClaim, Allocate, Deallocate, DeleteClaim, Refresh, Release,
           nodeUnprepareResource, CleanupOrphanPreparedClaims

(* The container that a device is marked with uses the claim, or its pod   *)
(* is in the claim's list and does not say which container does; it is     *)
(* never one of another node (resolveClaimConsumer, claim_consumer.go).    *)
THEOREM MarkNamesAUser == Spec => []HolderUsesClaim
  <1>1. Spec => []SearchIInv
    BY SearchInitial, SearchInductive, PTL DEF Spec
  <1>2. SearchIInv => HolderUsesClaim
    BY DEF SearchIInv
  <1> QED
    BY <1>1, <1>2, PTL

-----------------------------------------------------------------------------
(* What Prepare makes of a request is the card or a part of it that is not *)
(* empty: the card has a MiB.                                              *)
LEMMA RequestType ==
    ASSUME NEW a \in Ask
    PROVE  requestCapacityFor(a) \in [whole : BOOLEAN, cores : Nat \ {0}, memMiB : Nat \ {0}]
  <1>1. MemoryBytes \div MiB \in Nat \ {0}
    BY CapacityAssumption DEF MiB
  <1>2. CASE a.cores = Unset /\ a.memory = Unset
    BY <1>1, <1>2, CapacityAssumption DEF requestCapacityFor, WholeCard
  <1>3. CASE ~(a.cores = Unset /\ a.memory = Unset)
    <2> DEFINE cores == IF a.cores = Unset THEN ComputeUnits ELSE Value(a.cores)
               mem == (IF a.memory = Unset THEN MemoryBytes ELSE a.memory) \div MiB
    <2>1. cores \in Nat
      BY CoresLemma, CapacityAssumption DEF Ask, Quantity
    <2>2. mem \in Nat
      BY CapacityAssumption DEF Ask, Quantity, MiB
    <2>3. AtLeastOne(cores) \in Nat \ {0} /\ AtLeastOne(mem) \in Nat \ {0}
      BY <2>1, <2>2 DEF AtLeastOne
    <2> QED
      BY <1>3, <2>3 DEF requestCapacityFor
  <1> QED
    BY <1>2, <1>3

(* A container that is found is one of the pod's.                          *)
LEMMA FoundType ==
    ASSUME NEW p \in Pod
    PROVE  /\ ConsumerIn(p) # NotFound => ConsumerIn(p) \in 1..Containers
           /\ containerUsingResourceClaim(p) # NotFound =>
                containerUsingResourceClaim(p) \in 1..Containers
  <1>1. p.users \subseteq 1..Containers /\ 1 \in 1..Containers
    BY PodAssumption DEF Pod
  <1> QED
    BY <1>1, UsingLemma DEF ConsumerIn

(* The first of the candidates that sysfs has, 0 when it has none.         *)
LEMMA FirstInLemma ==
    ASSUME NEW s, NEW dirs, Len(s) \in Nat
    PROVE  \/ FirstIn(s, dirs) = 0 /\ \A i \in 1..Len(s) : s[i] \notin dirs
           \/ FirstIn(s, dirs) \in 1..Len(s) /\ s[FirstIn(s, dirs)] \in dirs
  <1> DEFINE I == {i \in 1..Len(s) : s[i] \in dirs}
  <1>1. FirstIn(s, dirs) = IF I # {} THEN FirstOf(I) ELSE 0
    BY DEF FirstIn, SelectInSeq, Min, FirstOf
  <1>2. I \in SUBSET Nat
    OBVIOUS
  <1>3. I # {} => FirstOf(I) \in I
    BY <1>2, FirstLemma
  <1> QED
    BY <1>1, <1>3

(* Addresses are told apart by their parts, and the helpers change one.    *)
LEMMA SameAddress ==
    ASSUME NEW a \in Address, NEW b \in Address, a.pre <=> b.pre, a.dom = b.dom, a.bus = b.bus
    PROVE  a = b
  BY DEF Address

LEMMA NormalLemma ==
    ASSUME NEW a \in Address
    PROVE  LET b == normalizePCIAddr(a) IN
           b \in Address /\ ~b.pre /\ b.dom = a.dom /\ b.bus = a.bus
  BY DEF normalizePCIAddr, Address

LEMMA DomainLemma ==
    ASSUME NEW a \in Address, NEW d \in Domains \cup {NoDomain}
    PROVE  LET b == [a EXCEPT !.dom = d] IN
           b \in Address /\ (b.pre <=> a.pre) /\ b.dom = d /\ b.bus = a.bus
  BY DEF Address

LEMMA CardAtLemma ==
    ASSUME NEW a \in Address
    PROVE  LET b == CardAt(a) IN
           /\ b \in Address /\ (b.pre <=> a.pre) /\ b.bus = a.bus
           /\ b.dom = IF a.dom = NoDomain THEN 0 ELSE a.dom
  BY RenderAssumption DEF CardAt, Address

(* A reported address that tells the card is the card's as sysfs knows it, *)
(* or that without the domain when it is 0, or one of them behind "pci:".  *)
Bare(r) == [r.card EXCEPT !.dom = NoDomain]

LEMMA ReportLemma ==
    ASSUME NEW r \in Reports, CardAt(normalizePCIAddr(r.pci)) = r.card
    PROVE  /\ r.card \in Address /\ CardAt(r.card) = r.card
           /\ r.pci \in Address /\ (r.pci.pre \/ r.pci \in {r.card, Bare(r)})
           /\ Bare(r) \in Address /\ Bare(r).dom = NoDomain /\ Bare(r).bus = r.card.bus
           /\ r.pci.dom # NoDomain => normalizePCIAddr(r.pci) = r.card
           /\ r.pci.dom = NoDomain =>
                /\ normalizePCIAddr(r.pci) = Bare(r)
                /\ [normalizePCIAddr(r.pci) EXCEPT !.dom = 0] = r.card
           /\ AfterColon(r.pci) \in {r.card, Bare(r), Scrap}
  <1> DEFINE norm == normalizePCIAddr(r.pci)
             at0 == [norm EXCEPT !.dom = 0]
             bare == [r.pci EXCEPT !.dom = NoDomain]
  <1>1. r.pci \in Address /\ r.card \in Address /\ r.card = CardAt(norm)
    BY DataAssumption
  <1>2. norm \in Address /\ ~norm.pre /\ norm.dom = r.pci.dom /\ norm.bus = r.pci.bus
    BY <1>1, NormalLemma
  <1> HIDE DEF norm
  <1>3. /\ ~r.card.pre /\ r.card.bus = norm.bus
        /\ r.card.dom = IF norm.dom = NoDomain THEN 0 ELSE norm.dom
    BY <1>1, <1>2, CardAtLemma
  <1>4. r.card.dom # NoDomain
    BY <1>3, RenderAssumption DEF NoDomain
  <1>5. CardAt(r.card) = r.card
    BY <1>1, <1>4, CardAtLemma, SameAddress
  <1>6. Bare(r) \in Address /\ ~Bare(r).pre /\ Bare(r).dom = NoDomain /\ Bare(r).bus = r.card.bus
    BY <1>1, <1>3, DomainLemma DEF Bare
  <1>7. r.pci.dom # NoDomain => norm = r.card
    BY <1>1, <1>2, <1>3, SameAddress
  <1>8. r.pci.dom = NoDomain => norm = Bare(r)
    BY <1>2, <1>3, <1>6, SameAddress
  <1>9. at0 \in Address /\ ~at0.pre /\ at0.dom = 0 /\ at0.bus = norm.bus
    BY <1>2, DomainLemma, RenderAssumption
  <1>10. bare \in Address /\ (bare.pre <=> r.pci.pre) /\ bare.dom = NoDomain /\ bare.bus = r.pci.bus
    BY <1>1, DomainLemma
  <1> HIDE DEF at0, bare
  <1>11. r.pci.dom = NoDomain => at0 = r.card
    BY <1>1, <1>2, <1>3, <1>9, SameAddress
  <1>12. ~r.pci.pre => r.pci = norm
    BY <1>1, <1>2, SameAddress
  <1>13. ~r.pci.pre => bare = Bare(r)
    BY <1>2, <1>3, <1>6, <1>10, SameAddress
  <1>14. AfterColon(r.pci) \in {r.card, Bare(r), Scrap}
    <2>1. \/ r.pci.pre /\ AfterColon(r.pci) = norm
          \/ ~r.pci.pre /\ AfterColon(r.pci) \in {bare, Scrap}
      BY Zenon DEF AfterColon, norm, bare
    <2> QED
      BY <1>7, <1>8, <1>13, <2>1
  <1>15. r.pci.pre \/ r.pci \in {r.card, Bare(r)}
    BY <1>7, <1>8, <1>12
  <1> QED
    BY <1>1, <1>5, <1>6, <1>7, <1>8, <1>11, <1>14, <1>15, Zenon DEF norm, at0

(* One candidate more.                                                     *)
LEMMA OneMore ==
    ASSUME NEW S, NEW s \in Seq(S), NEW t \in Seq(S), Len(t) = 1
    PROVE  /\ s \o t \in Seq(S)
           /\ Len(s \o t) = Len(s) + 1
           /\ \A i \in 1..Len(s) : (s \o t)[i] = s[i]
           /\ (s \o t)[Len(s) + 1] = t[1]
  <1> DEFINE u == s \o t
  <1>1. Len(s) \in Nat
    OBVIOUS
  <1>2. /\ u \in Seq(S) /\ Len(u) = Len(s) + Len(t)
        /\ \A i \in 1..Len(s) + Len(t) : u[i] = IF i <= Len(s) THEN s[i] ELSE t[i - Len(s)]
    BY ConcatProperties, Zenon
  <1> HIDE DEF u
  <1>3. /\ u \in Seq(S) /\ Len(u) = Len(s) + 1
        /\ \A i \in 1..(Len(s) + 1) : u[i] = IF i <= Len(s) THEN s[i] ELSE t[i - Len(s)]
    BY <1>2
  <1>4. u[Len(s) + 1] = t[1]
    BY <1>1, <1>3
  <1>5. \A i \in 1..Len(s) : u[i] = s[i]
    BY <1>1, <1>3
  <1> QED
    BY <1>3, <1>4, <1>5 DEF u

(* Of the names that sysfs has under /sys/bus/pci/devices, the candidates  *)
(* for a reported address (pciPathCandidates, card_render.go:15-42) match  *)
(* the card's and no other.                                                *)
LEMMA BusLemma ==
    ASSUME NEW r \in Reports, CardAt(normalizePCIAddr(r.pci)) = r.card,
           NEW dirs \in SUBSET Address,
           \A x \in dirs : ~x.pre /\ x.dom # NoDomain
    PROVE  LET s == pciPathCandidates(r.pci) IN
           /\ FirstIn(s, dirs) # 0 => s[FirstIn(s, dirs)] = r.card
           /\ r.card \in dirs => FirstIn(s, dirs) # 0
  <1> DEFINE s == pciPathCandidates(r.pci)
  <1>1. r.card \in Address /\ Bare(r) \in Address /\ AfterColon(r.pci) \in {r.card, Bare(r), Scrap}
    BY ReportLemma
  <1>4. Scrap \notin dirs
    BY RenderAssumption DEF Address, Scrap
  <1>5. Bare(r) \notin dirs
    BY ReportLemma
  <1> DEFINE S == Address \cup {Scrap}
  <1>2. r.card \in S /\ Bare(r) \in S /\ AfterColon(r.pci) \in S
    BY <1>1
  <1> DEFINE bare == <<Bare(r)>>
             card == <<r.card>>
             rest == <<AfterColon(r.pci)>>
  <1>3. /\ bare \in Seq(S) /\ Len(bare) = 1 /\ bare[1] = Bare(r)
        /\ card \in Seq(S) /\ Len(card) = 1 /\ card[1] = r.card
        /\ rest \in Seq(S) /\ Len(rest) = 1 /\ rest[1] = AfterColon(r.pci)
    BY <1>2
  <1>6. /\ Len(s) \in Nat
        /\ \E i \in 1..Len(s) : s[i] = r.card
        /\ \A i \in 1..Len(s) : s[i] \in {r.card, Bare(r), Scrap}
    <2>1. CASE r.pci.dom = NoDomain
      <3> DEFINE t == bare \o card
      <3>1. s = t \o rest
        BY <2>1, ReportLemma, Zenon DEF pciPathCandidates
      <3> HIDE DEF S, s, bare, card, rest
      <3>2. t \in Seq(S) /\ Len(t) = 2 /\ t[1] = Bare(r) /\ t[2] = r.card
        BY <1>3, OneMore
      <3> HIDE DEF t
      <3>3. Len(s) = 3 /\ s[1] = Bare(r) /\ s[2] = r.card /\ s[3] = AfterColon(r.pci)
        <4>1. /\ Len(t \o rest) = Len(t) + 1 /\ (t \o rest)[Len(t) + 1] = rest[1]
              /\ \A i \in 1..Len(t) : (t \o rest)[i] = t[i]
          <5>1. t \in Seq(S) /\ rest \in Seq(S) /\ Len(rest) = 1
            BY <1>3, <3>2
          <5> QED
            BY <5>1, OneMore, Zenon
        <4> QED
          BY <1>3, <3>1, <3>2, <4>1
      <3> QED
        BY <1>1, <3>3
    <2>2. CASE r.pci.dom # NoDomain
      <3>1. s = card \o <<>> \o rest
        BY <2>2, ReportLemma, Zenon DEF pciPathCandidates
      <3> HIDE DEF S, s, bare, card, rest
      <3>2. card \o <<>> = card
        BY <1>3, ConcatEmptySeq, Zenon
      <3>3. Len(s) = 2 /\ s[1] = r.card /\ s[2] = AfterColon(r.pci)
        BY <1>3, <3>1, <3>2, OneMore
      <3> QED
        BY <1>1, <3>3
    <2> QED
      BY <2>1, <2>2
  <1> HIDE DEF s
  <1>7. \/ FirstIn(s, dirs) = 0 /\ \A i \in 1..Len(s) : s[i] \notin dirs
        \/ FirstIn(s, dirs) \in 1..Len(s) /\ s[FirstIn(s, dirs)] \in dirs
    BY <1>6, FirstInLemma
  <1>8. FirstIn(s, dirs) # 0 => s[FirstIn(s, dirs)] = r.card
    BY <1>4, <1>5, <1>6, <1>7
  <1>9. r.card \in dirs => FirstIn(s, dirs) # 0
    BY <1>6, <1>7
  <1> QED
    BY <1>8, <1>9 DEF s

(* Under the driver's module too (getCardAndRender, card_render.go:79-118).*)
LEMMA LegacyLemma ==
    ASSUME NEW r \in Reports, NEW sys \in Systems, r = report, Clear(sys)
    PROVE  getCardAndRender(sys, r.pci) \in {{}, Nodes({"card", "render", "control"}, r.card)}
  <1> DEFINE s == <<r.pci, AfterColon(r.pci)>>
             i == FirstIn(s, sys.legacy)
  <1>1. /\ r.card \in Address /\ Bare(r) \in Address /\ r.pci \in Address
        /\ AfterColon(r.pci) \in {r.card, Bare(r), Scrap}
    BY ReportLemma DEF Clear
  <1>2. Len(s) = 2
    OBVIOUS
  <1>3. Scrap \notin sys.legacy
    BY RenderAssumption, DataAssumption DEF Sysfs, Address, Scrap
  <1>4. \A x \in sys.legacy : x \in {r.pci, r.card, Bare(r)} => CardAt(x) = r.card
    <2> SUFFICES ASSUME NEW x \in sys.legacy, x \in {r.pci, r.card, Bare(r)}
                 PROVE  CardAt(x) = r.card
      OBVIOUS
    <2>1. ~x.pre
      BY SysfsAssumption
    <2>2. x = r.card \/ x = Bare(r)
      BY <2>1, ReportLemma DEF Clear
    <2>3. CASE x = Bare(r)
      BY <2>3, ReportLemma DEF Clear
    <2> QED
      BY <2>2, <2>3, ReportLemma DEF Clear
  <1>5. i = 0 \/ (i \in 1..2 /\ s[i] \in sys.legacy)
    BY <1>2, FirstInLemma
  <1>6. i # 0 => CardAt(s[i]) = r.card
    <2> SUFFICES ASSUME i # 0 PROVE CardAt(s[i]) = r.card
      OBVIOUS
    <2>1. i \in {1, 2} /\ s[i] \in sys.legacy
      BY <1>5
    <2> HIDE DEF i
    <2>2. s[i] \in {r.pci, r.card, Bare(r), Scrap}
      BY <1>1, <2>1
    <2> QED
      BY <1>3, <1>4, <2>1, <2>2
  <1>7. i # 0 => Nodes({"card", "render", "control"}, s[i])
                   = Nodes({"card", "render", "control"}, r.card)
    BY <1>6, ReportLemma DEF Nodes, Clear
  <1> QED
    BY <1>7 DEF getCardAndRender

-----------------------------------------------------------------------------
(* What is found under the driver's module are nodes of a card.            *)
LEMMA LegacyType ==
    ASSUME NEW r \in Reports, NEW sys \in Systems
    PROVE  getCardAndRender(sys, r.pci)
             \in SUBSET [kind : {"card", "render", "control"}, at : Address]
  <1> DEFINE s == <<r.pci, AfterColon(r.pci)>>
             i == FirstIn(s, sys.legacy)
  <1>1. sys.legacy \subseteq Address
    BY DataAssumption DEF Sysfs
  <1>2. Len(s) = 2
    OBVIOUS
  <1>3. i = 0 \/ s[i] \in sys.legacy
    BY <1>2, FirstInLemma
  <1>4. i # 0 => CardAt(s[i]) \in Address
    BY <1>1, <1>3, CardAtLemma
  <1> QED
    BY <1>4 DEF getCardAndRender, Nodes

(* The card in allocatable has the address that dcgm reports.              *)
AllocOfReport ==
    /\ report \in Reports
    /\ alloc \subseteq [pci : {report.pci},
                        nodes : SUBSET [kind : {"card", "render", "control"}, at : Address]]

(* The nodes that the search finds are the card's; when sysfs shows nodes  *)
(* of the card, it finds some (discoverDRINodes, card_render.go:70-77).    *)
LEMMA NodesLemma ==
    ASSUME NEW r \in Reports, NEW sys \in Systems, r = report, Clear(sys)
    PROVE  /\ \A n \in discoverDRINodes(sys, r.pci) : n.at = r.card
           /\ r.card \in sys.bus => discoverDRINodes(sys, r.pci) # {}
  <1> DEFINE K == {"card", "render", "control"}
             s == pciPathCandidates(r.pci)
             i == FirstIn(s, sys.bus)
             found == getCardAndRenderFromSysBus(sys, r.pci)
  <1>1. CardAt(r.card) = r.card
    BY ReportLemma DEF Clear
  <1>2. sys.bus \in SUBSET Address /\ \A x \in sys.bus : ~x.pre /\ x.dom # NoDomain
    BY DataAssumption, SysfsAssumption DEF Sysfs
  <1>3. (i # 0 => s[i] = r.card) /\ (r.card \in sys.bus => i # 0)
    BY <1>2, BusLemma DEF Clear
  <1>4. found = IF i = 0 THEN {} ELSE {n \in Nodes(K, s[i]) : isDRIDirName(n)}
    BY DEF getCardAndRenderFromSysBus
  <1>5. \A n \in Nodes(K, r.card) : n.at = r.card
    BY <1>1 DEF Nodes
  <1>6. [kind |-> "card", at |-> r.card] \in {n \in Nodes(K, r.card) : isDRIDirName(n)}
    BY <1>1 DEF Nodes, isDRIDirName
  <1> HIDE DEF i, s, found
  <1>7. (\A n \in found : n.at = r.card) /\ (r.card \in sys.bus => found # {})
    BY <1>3, <1>4, <1>5, <1>6
  <1>8. \A n \in getCardAndRender(sys, r.pci) : n.at = r.card
    BY <1>5, LegacyLemma
  <1> QED
    BY <1>7, <1>8 DEF discoverDRINodes, found

(* What an entry promises when it is built from nodes of the card.         *)
Right(edits) ==
    /\ {n.at : n \in edits.nodes} = {report.card}
    /\ edits.sysfs = {report.card}
    /\ ~edits.allDri

LEMMA EditsLemma ==
    ASSUME report \in Reports, NEW sys \in Systems, report.card \in sys.bus, Clear(sys),
           NEW nodes, nodes # {}, \A n \in nodes : n.at = report.card, NEW vdev
    PROVE  Right(perCardContainerEdits(sys, report.pci, nodes, vdev))
  <1> DEFINE s == pciPathCandidates(report.pci)
             i == FirstIn(s, sys.devices)
             edits == perCardContainerEdits(sys, report.pci, nodes, vdev)
  <1>1. /\ sys.devices \in SUBSET Address /\ \A x \in sys.devices : ~x.pre /\ x.dom # NoDomain
        /\ report.card \in sys.devices
    BY DataAssumption, SysfsAssumption DEF Sysfs
  <1>2. i # 0 /\ s[i] = report.card
    BY <1>1, BusLemma DEF Clear
  <1>3. /\ edits.nodes = nodes /\ edits.allDri = (nodes = {})
        /\ edits.sysfs = IF i = 0 THEN {} ELSE {s[i]}
    BY DEF perCardContainerEdits
  <1> HIDE DEF edits, i, s
  <1>4. {n.at : n \in edits.nodes} = {report.card}
    BY <1>3
  <1> QED
    BY <1>2, <1>3, <1>4 DEF Right, edits

(* The entry of the card (driver's refresh, device_enum.go:91-137).        *)
LEMMA PhysicalLemma ==
    ASSUME report \in Reports, NEW sys \in Systems, report.card \in sys.bus, Clear(sys),
           NEW dev, dev.pci = report.pci,
           dev.nodes \in {{}, Nodes({"card", "render", "control"}, report.card)}
    PROVE  Right(buildPhysicalDeviceEntry(sys, dev))
  <1> DEFINE nodes == IF dev.nodes # {} THEN dev.nodes ELSE discoverDRINodes(sys, dev.pci)
  <1>1. CardAt(report.card) = report.card
    BY ReportLemma DEF Clear
  <1>2. \A n \in dev.nodes : n.at = report.card
    BY <1>1 DEF Nodes
  <1>3. nodes # {} /\ \A n \in nodes : n.at = report.card
    BY <1>2, NodesLemma
  <1>4. buildPhysicalDeviceEntry(sys, dev) = perCardContainerEdits(sys, report.pci, nodes, FALSE)
    BY DEF buildPhysicalDeviceEntry
  <1> QED
    BY <1>3, <1>4, EditsLemma

(* A sequence of what a finite set has.                                    *)
LEMMA OwnLemma ==
    ASSUME NEW S, IsFiniteSet(S)
    PROVE  SetToSeq(S) \in Seq(S)
  <1>1. Cardinality(S) \in Nat /\ ExistsBijection(1..Cardinality(S), S)
    BY FS_CardinalityType
  <1>2. \E f \in [1..Cardinality(S) -> S] : IsInjective(f)
    BY <1>1 DEF ExistsBijection, Bijection, Injection, IsInjective
  <1>3. SetToSeq(S) \in [1..Cardinality(S) -> S]
    BY <1>2, Zenon DEF SetToSeq
  <1> QED
    BY <1>1, <1>3

(* The entry of a vHCU: its parent's address is tried before its own       *)
(* (tryPCIs, cdi_spec.go:251-273), and it has nodes.                       *)
LEMMA VDeviceLemma ==
    ASSUME report \in Reports, NEW sys \in Systems, report.card \in sys.bus, Clear(sys),
           alloc # {}, \A dev \in alloc : dev.pci = report.pci
    PROVE  Right(buildVDeviceEntry(sys, alloc, report.own))
  <1> DEFINE own == SetToSeq(report.own)
             first == <<report.pci>>
             tries == TryPCIs(alloc, report.own)
             I == {i \in 1..Len(tries) : discoverDRINodes(sys, tries[i]) # {}}
             nodes == discoverDRINodes(sys, report.pci)
  <1>1. nodes # {} /\ \A n \in nodes : n.at = report.card
    BY NodesLemma
  <1>2. (CHOOSE p \in alloc : TRUE).pci = report.pci
    OBVIOUS
  <1>3. tries = first \o own
    BY <1>2, Zenon DEF TryPCIs
  <1>4. own \in Seq(Address) /\ first \in Seq(Address) /\ Len(first) = 1 /\ first[1] = report.pci
    <2>1. IsFiniteSet(report.own) /\ report.own \subseteq Address /\ report.pci \in Address
      BY DataAssumption
    <2>2. own \in Seq(report.own)
      BY <2>1, OwnLemma
    <2> QED
      BY <2>1, <2>2
  <1> HIDE DEF own, first, tries, nodes
  <1>5. /\ Len(first \o own) = Len(first) + Len(own)
        /\ \A i \in 1..Len(first) + Len(own) :
             (first \o own)[i] = IF i <= Len(first) THEN first[i] ELSE own[i - Len(first)]
    BY <1>4, ConcatProperties, Zenon
  <1>6. Len(tries) \in Nat /\ 1 \in 1..Len(tries) /\ tries[1] = report.pci
    BY <1>3, <1>4, <1>5
  <1>7. 1 \in I
    BY <1>1, <1>6 DEF nodes
  <1>8. SelectInSeq(tries, LAMBDA a : discoverDRINodes(sys, a) # {}) = 1
    <2>0. I \subseteq 1..Len(tries) /\ I # {}
      BY <1>7, Zenon
    <2>1. I \in SUBSET Nat /\ I # {} /\ \A j \in I : 1 <= j
      <3> HIDE DEF I
      <3> QED
        BY <1>6, <2>0
    <2>2. FirstOf(I) \in I /\ \A j \in I : FirstOf(I) <= j
      BY <2>1, FirstLemma
    <2>3. FirstOf(I) = 1
      <3> HIDE DEF I
      <3>1. FirstOf(I) \in Nat /\ 1 <= FirstOf(I)
        BY <2>1, <2>2
      <3>2. FirstOf(I) <= 1
        BY <1>7, <2>2, Zenon
      <3> QED
        BY <3>1, <3>2
    <2> QED
      BY <2>1, <2>3 DEF SelectInSeq, Min, FirstOf
  <1>9. resolvePCIForVDeviceDRI(sys, alloc, report.own) = [pci |-> report.pci, nodes |-> nodes]
    BY <1>6, <1>8 DEF resolvePCIForVDeviceDRI, tries, nodes
  <1>10. buildVDeviceEntry(sys, alloc, report.own)
           = perCardContainerEdits(sys, report.pci, nodes, TRUE)
    BY <1>9 DEF buildVDeviceEntry
  <1> QED
    BY <1>1, <1>10, EditsLemma

(* When an entry is written, the list, sysfs and the names are as it says. *)
EntryInv == AllocOfReport /\ EntryOfItsCard

Promise(e) == e # Nothing /\ e.listed /\ e.shown /\ e.clear => Right(e.edits)

LEMMA PromiseLemma == EntryOfItsCard <=> Promise(entry)
  BY Zenon DEF EntryOfItsCard, Right, Promise

LEMMA EntryInitial == Init => EntryInv
  BY DEF Init, EntryInv, AllocOfReport, EntryOfItsCard

LEMMA EntryInductive == EntryInv /\ [Next]_vars => EntryInv'
  <1> SUFFICES ASSUME EntryInv, [Next]_vars PROVE EntryInv'
    OBVIOUS
  <1>1. EntryOfItsCard' <=> Promise(entry)'
    BY PromiseLemma, PTL
  <1>2. report' = report
    BY DEF Next, vars, CreateClaim, Allocate, Deallocate, DeleteClaim, prepareAllocatedDevices,
           Release, nodeUnprepareResource, CleanupOrphanPreparedClaims, Refresh, PodChanges,
           GetPod, EndOfRefs, ListPods, finalizePreparedClaim
  <1>3. \A edits : Right(edits)' <=> Right(edits)
    BY <1>2 DEF Right
  <1>4. ASSUME Refresh PROVE EntryInv'
    <2>1. ASSUME NEW sys \in Systems, alloc' = {newAllocatableDevice(sys, report.pci)},
                 \E dev \in alloc' : entry' = Entry(sys, buildPhysicalDeviceEntry(sys, dev))
          PROVE  EntryInv'
      <3> DEFINE dev == newAllocatableDevice(sys, report.pci)
      <3>1. /\ dev \in [pci : {report.pci},
                         nodes : SUBSET [kind : {"card", "render", "control"}, at : Address]]
            /\ dev.pci = report.pci
            /\ dev.nodes = getCardAndRender(sys, report.pci)
        BY LegacyType DEF newAllocatableDevice, EntryInv, AllocOfReport
      <3>2. alloc' = {dev} /\ entry' = Entry(sys, buildPhysicalDeviceEntry(sys, dev))
        BY <2>1, Zenon
      <3>3. /\ entry'.shown => report.card \in sys.bus
            /\ entry'.clear => Clear(sys)
            /\ entry'.edits = buildPhysicalDeviceEntry(sys, dev)
        BY <3>2 DEF Entry
      <3> HIDE DEF dev
      <3>4. ASSUME entry'.shown, entry'.clear PROVE Right(entry'.edits)
        BY <3>1, <3>3, <3>4, LegacyLemma, PhysicalLemma DEF EntryInv, AllocOfReport
      <3>5. Promise(entry)'
        BY <1>3, <3>4 DEF Promise
      <3> QED
        BY <1>1, <1>2, <3>1, <3>2, <3>5 DEF EntryInv, AllocOfReport
    <2>2. ASSUME alloc' = {}, entry' = Nothing PROVE EntryInv'
      BY <1>1, <1>2, <2>2 DEF EntryInv, AllocOfReport, Promise
    <2> QED
      BY <1>4, <2>1, <2>2 DEF Refresh
  <1>5. ASSUME syncVDeviceCDISpecFiles PROVE EntryInv'
    <2>1. AllocOfReport'
      BY <1>2, <1>5 DEF syncVDeviceCDISpecFiles, EntryInv, AllocOfReport
    <2>2. ASSUME NEW sys \in Systems,
                 entry' = Entry(sys, buildVDeviceEntry(sys, alloc, report.own))
          PROVE  Promise(entry)'
      <3>1. /\ entry'.edits = buildVDeviceEntry(sys, alloc, report.own)
            /\ entry'.listed => alloc # {}
            /\ entry'.shown => report.card \in sys.bus
            /\ entry'.clear => Clear(sys)
        BY <1>5, <2>2 DEF Entry, syncVDeviceCDISpecFiles
      <3> QED
        BY <1>3, <3>1, VDeviceLemma DEF EntryInv, AllocOfReport, Promise
    <2>3. entry' = Nothing => Promise(entry)'
      BY DEF Promise
    <2> QED
      BY <1>1, <1>5, <2>1, <2>2, <2>3 DEF syncVDeviceCDISpecFiles, EntryInv
  <1>6. ASSUME alloc' = alloc, entry' = Nothing \/ entry' = entry PROVE EntryInv'
    BY <1>2, <1>6 DEF EntryInv, AllocOfReport, EntryOfItsCard
  <1> QED
    BY <1>4, <1>5, <1>6
       DEF Next, vars, CreateClaim, Allocate, Deallocate, DeleteClaim, prepareAllocatedDevices,
           Release, nodeUnprepareResource, CleanupOrphanPreparedClaims, PodChanges,
           GetPod, EndOfRefs, ListPods, finalizePreparedClaim

(* An entry that is written while the card is allocatable, sysfs shows it  *)
(* and no name without a domain stands for a card of another one gives a   *)
(* container the nodes of its card and of no other, with or without the    *)
(* domain and "pci:" in the addresses (perCardContainerEdits, cdi_spec.go).*)
THEOREM EntriesOfTheirCard == Spec => []EntryOfItsCard
  <1>1. EntryInv => EntryOfItsCard
    BY DEF EntryInv
  <1> QED
    BY EntryInitial, EntryInductive, <1>1, PTL DEF Spec

-----------------------------------------------------------------------------
(* The search for the container that uses a claim: the pods that were on   *)
(* the node all the time are on it, and what was found is in one of them.  *)
SearchType ==
    /\ pc \in {"idle", "get", "list", "sync"}
    /\ pods \in [Pods -> PodKinds \cup {Gone}] /\ stayed \subseteq OnNode
    /\ \/ pc # "sync" /\ holder = Nothing
       \/ pc = "sync" /\ holder = claim
       \/ pc = "sync" /\ holder \in [pod : Pods, container : 1..Containers, as : PodKinds]

LEMMA SearchTypeInitial == Init => SearchType
  BY DEF Init, NoPods, SearchType

LEMMA SearchTypeInductive == SearchType /\ [Next]_vars => SearchType'
  <1> SUFFICES ASSUME SearchType, [Next]_vars PROVE SearchType'
    OBVIOUS
  <1> USE DEF SearchType
  <1>1. ASSUME NEW c \in Claims, prepareAllocatedDevices(c) PROVE SearchType'
    BY <1>1 DEF prepareAllocatedDevices, OnNode
  <1>2. ASSUME NEW p \in Pods, PodChanges(p) PROVE SearchType'
    <2>1. pods' \in [Pods -> PodKinds \cup {Gone}]
      <3>1. pods[p] \in PodKinds /\ (pods[p].node = "none" =>
                                       [pods[p] EXCEPT !.node = "here"] \in PodKinds)
        BY <1>2, PodAssumption DEF PodChanges
      <3> QED
        BY <1>2, <3>1 DEF PodChanges
    <2>2. \A q \in Pods \ {p} : pods'[q] = pods[q]
      BY <1>2 DEF PodChanges
    <2>3. stayed' \subseteq OnNode'
      BY <1>2, <2>2 DEF PodChanges, OnNode
    <2> QED
      BY <1>2, <2>1, <2>3 DEF PodChanges
  <1>3. ASSUME NEW p \in Pods, pods[p] # Gone, NEW container \in 1..Containers,
               Found(p, container), UNCHANGED <<claim, pods, stayed>>
        PROVE  SearchType'
    <2>1. pods[p] \in PodKinds
      BY <1>3
    <2>2. holder' \in [pod : Pods, container : 1..Containers, as : PodKinds]
      BY <1>3, <2>1 DEF Found
    <2> QED
      BY <1>3, <2>2 DEF Found, OnNode
  <1>4. ASSUME GetPod PROVE SearchType'
    <2> DEFINE p == Head(refs)
    <2>1. ASSUME Helps(p), Found(p, ConsumerIn(pods[p])) PROVE SearchType'
      <3>1. p \in Pods /\ pods[p] # Gone /\ ConsumerIn(pods[p]) # NotFound
        BY <2>1, Zenon DEF Helps
      <3>2. pods[p] \in Pod
        BY <3>1, DataAssumption
      <3>3. ConsumerIn(pods[p]) \in 1..Containers
        BY <3>1, <3>2, FoundType
      <3>4. UNCHANGED <<claim, pods, stayed>>
        BY <1>4 DEF GetPod
      <3> HIDE DEF p
      <3> QED
        BY <1>3, <2>1, <3>1, <3>3, <3>4
    <2>2. ASSUME pc' = pc, holder' = holder PROVE SearchType'
      BY <1>4, <2>2 DEF GetPod, OnNode
    <2> QED
      BY <1>4, <2>1, <2>2 DEF GetPod
  <1>5. ASSUME EndOfRefs PROVE SearchType'
    BY <1>5 DEF EndOfRefs, OnNode
  <1>6. ASSUME ListPods PROVE SearchType'
    <2>1. UNCHANGED <<claim, pods, stayed>>
      BY <1>6 DEF ListPods
    <2>2. ASSUME NEW p \in OnNode, containerUsingResourceClaim(pods[p]) # NotFound,
                 Found(p, containerUsingResourceClaim(pods[p]))
          PROVE  SearchType'
      <3>1. p \in Pods /\ pods[p] # Gone /\ pods[p] \in Pod
        BY DataAssumption DEF OnNode
      <3>2. containerUsingResourceClaim(pods[p]) \in 1..Containers
        BY <2>2, <3>1, FoundType
      <3> QED
        BY <1>3, <2>1, <2>2, <3>1, <3>2
    <2>3. ASSUME holder' = claim, pc' = "sync" PROVE SearchType'
      BY <2>1, <2>3 DEF OnNode
    <2> QED
      BY <1>6, <2>2, <2>3 DEF ListPods
  <1>7. ASSUME finalizePreparedClaim PROVE SearchType'
    BY <1>7 DEF finalizePreparedClaim, Idle, NoPods, OnNode
  <1>8. ASSUME UNCHANGED <<pc, claim, podVars>> PROVE SearchType'
    BY <1>8 DEF OnNode
  <1> QED
    BY <1>1, <1>2, <1>4, <1>5, <1>6, <1>7, <1>8
       DEF Next, vars, CreateClaim, Allocate, Deallocate, DeleteClaim, Refresh, Release,
           nodeUnprepareResource, CleanupOrphanPreparedClaims

(* Every variable has its type: no vHCU is without a core or a MiB, and a  *)
(* container that a mark names exists.                                     *)
THEOREM TypeCorrect == Spec => []TypeOK
  <1>1. Spec => []GivenAsAsked
    BY GivenInitial, GivenInductive, PTL DEF Spec
  <1>2. Spec => []EntryInv
    BY EntryInitial, EntryInductive, PTL DEF Spec
  <1>3. Spec => []SearchType
    BY SearchTypeInitial, SearchTypeInductive, PTL DEF Spec
  <1>4. GivenAsAsked /\ EntryInv /\ SearchType => TypeOK
    <2> SUFFICES ASSUME GivenAsAsked, EntryInv, SearchType PROVE TypeOK
      OBVIOUS
    <2>1. \A a \in Asks : requestCapacityFor(a)
                            \in [whole : BOOLEAN, cores : Nat \ {0}, memMiB : Nat \ {0}]
      BY RequestType, DataAssumption
    <2>2. given \in [Claims -> {Nothing}
                       \cup [whole : BOOLEAN, cores : Nat \ {0}, memMiB : Nat \ {0}]]
      BY <2>1 DEF GivenAsAsked
    <2> QED
      BY <2>2, Zenon DEF TypeOK, GivenAsAsked, EntryInv, AllocOfReport, SearchType
  <1> QED
    BY <1>1, <1>2, <1>3, <1>4, PTL

(* The search ends without a container only when no pod uses the claim.    *)
LEMMA FindsInitial == Init => SearchFinds
  BY PodAssumption DEF Init, SearchFinds

LEMMA FindsInductive == SearchType /\ SearchType' /\ SearchFinds /\ [Next]_vars => SearchFinds'
  <1> SUFFICES ASSUME SearchType, SearchType', SearchFinds, [Next]_vars PROVE SearchFinds'
    OBVIOUS
  <1>1. holder' = Nothing => SearchFinds'
    BY PodAssumption DEF SearchFinds
  <1>2. pc' # "sync" => SearchFinds'
    BY <1>1 DEF SearchType
  <1>3. ASSUME NEW p, NEW container, Found(p, container),
               holder' \in [pod : Pods, container : 1..Containers, as : PodKinds]
        PROVE  SearchFinds'
    BY <1>3, PodAssumption DEF SearchFinds
  <1>4. ASSUME GetPod PROVE SearchFinds'
    <2>1. CASE pc' = pc
      BY <1>2, <1>4, <2>1 DEF GetPod
    <2>2. CASE Helps(Head(refs)) /\ Found(Head(refs), ConsumerIn(pods[Head(refs)]))
      <3>1. Head(refs) \in Pods /\ pods[Head(refs)] # Gone
            /\ ConsumerIn(pods[Head(refs)]) # NotFound
        BY <2>2, Zenon DEF Helps
      <3>2. pods[Head(refs)] \in PodKinds /\ pods[Head(refs)] \in Pod
        BY <3>1, DataAssumption DEF SearchType
      <3>3. ConsumerIn(pods[Head(refs)]) \in 1..Containers
        BY <3>1, <3>2, FoundType
      <3>4. holder' \in [pod : Pods, container : 1..Containers, as : PodKinds]
        BY <2>2, <3>1, <3>2, <3>3 DEF Found
      <3> QED
        BY <1>3, <2>2, <3>4
    <2> QED
      BY <1>4, <2>1, <2>2 DEF GetPod
  <1>5. ASSUME ListPods PROVE SearchFinds'
    <2>1. pods' = pods /\ stayed' = stayed
      BY <1>5 DEF ListPods
    <2>2. ASSUME NEW p \in OnNode, containerUsingResourceClaim(pods[p]) # NotFound,
                 Found(p, containerUsingResourceClaim(pods[p]))
          PROVE  SearchFinds'
      <3>1. p \in Pods /\ pods[p] \in PodKinds /\ pods[p] \in Pod
        BY DataAssumption DEF OnNode, SearchType
      <3>2. containerUsingResourceClaim(pods[p]) \in 1..Containers
        BY <2>2, <3>1, FoundType
      <3>3. holder' \in [pod : Pods, container : 1..Containers, as : PodKinds]
        BY <2>2, <3>1, <3>2 DEF Found
      <3> QED
        BY <1>3, <2>2, <3>3
    <2>3. ASSUME {p \in OnNode : containerUsingResourceClaim(pods[p]) # NotFound} = {}
          PROVE  SearchFinds'
      <3> SUFFICES ASSUME NEW p \in stayed PROVE pods[p].ref # "name" \/ pods[p].users = {}
        BY <2>1 DEF SearchFinds
      <3>1. p \in OnNode /\ pods[p] \in Pod
        BY DataAssumption DEF OnNode, SearchType
      <3>2. containerUsingResourceClaim(pods[p]) = NotFound
        BY <2>3, <3>1
      <3>3. NotFound \notin pods[p].users
        BY <3>1 DEF Pod, NotFound
      <3> QED
        BY <3>1, <3>2, <3>3, UsingLemma
    <2>4. ASSUME failed' = TRUE PROVE SearchFinds'
      BY <2>4 DEF SearchFinds
    <2> QED
      BY <1>5, <2>2, <2>3, <2>4 DEF ListPods
  <1>6. ASSUME NEW p \in Pods, PodChanges(p) PROVE SearchFinds'
    BY <1>2, <1>6 DEF PodChanges
  <1>7. ASSUME UNCHANGED podVars PROVE SearchFinds'
    BY <1>7 DEF SearchFinds
  <1> QED
    BY <1>2, <1>4, <1>5, <1>6, <1>7
       DEF Next, vars, CreateClaim, Allocate, Deallocate, DeleteClaim, Refresh, Release,
           nodeUnprepareResource, CleanupOrphanPreparedClaims, EndOfRefs,
           prepareAllocatedDevices, finalizePreparedClaim, Idle

(* A search in which no call fails falls back to the claim only if no pod  *)
(* that uses it by name was on the node all the time, whatever else the    *)
(* list of consumers has and however the pods change between the calls     *)
(* (resolveClaimConsumer, claim_consumer.go:17-58).                        *)
THEOREM SearchMissesNoUser == Spec => []SearchFinds
  <1>1. Spec => []SearchType
    BY SearchTypeInitial, SearchTypeInductive, PTL DEF Spec
  <1> QED
    BY <1>1, FindsInitial, FindsInductive, PTL DEF Spec

=============================================================================
