------------------------------ MODULE Capacity ------------------------------
(***************************************************************************)
(* The capacity of a card: what the ResourceSlice offers, what the         *)
(* scheduler accounts for a claim (external), and the size of the vHCU     *)
(* that Prepare makes of it. Cores are asked for in thousandths.           *)
(***************************************************************************)
EXTENDS Integers

CONSTANTS
    ComputeUnits,      \* cores of the card
    MemoryBytes,       \* its memory
    DeviceSplitCount   \* DEVICE_SPLIT_COUNT, a positive number, or 4

MiB == 1048576

Unset == -1

(* What a request asks for; cores, memory or both may be left out.         *)
Quantity == Nat \cup {Unset}
Ask == [cores : Quantity, memory : Quantity]

ASSUME CapacityAssumption ==
    /\ ComputeUnits \in Nat \ {0}
    /\ MemoryBytes \in Nat \ {0} /\ MemoryBytes % MiB = 0  \* as the API server wants it
    /\ DeviceSplitCount \in Nat \ {0}

-----------------------------------------------------------------------------
(* A request policy of the ResourceSlice. The value is its maximum too.    *)
Policy(value, default, min, step) ==
    [value |-> value, default |-> default, min |-> min, step |-> step]

(* Mutant: the cores are offered once for each vHCU.                       *)
CoresPerSplit ==
    [cores  |-> Policy(ComputeUnits * DeviceSplitCount, ComputeUnits, 0, 1),
     memory |-> Policy(MemoryBytes, MemoryBytes, 0, MiB),
     slices |-> Policy(DeviceSplitCount, 1, 1, 1)]

GetDevice ==
    [cores  |-> Policy(ComputeUnits, ComputeUnits, 0, 1),
     memory |-> Policy(MemoryBytes, MemoryBytes, 0, MiB),
     slices |-> Policy(DeviceSplitCount, 1, 1, 1)]

(* Quantity.Value() rounds up.                                             *)
Value(milli) == (milli + 999) \div 1000

RoundUp(n, step) == ((n + step - 1) \div step) * step

(* What the scheduler accounts: the default when nothing is asked, else    *)
(* the least step from the minimum on.                                     *)
Consumed(p, n) ==
    IF n = Unset THEN p.default
    ELSE IF n < p.min THEN p.min
    ELSE p.min + RoundUp(n - p.min, p.step)

Accounted(ask) ==
    [cores  |-> Consumed(GetDevice.cores,
                         IF ask.cores = Unset THEN Unset ELSE Value(ask.cores)),
     memory |-> Consumed(GetDevice.memory, ask.memory),
     slices |-> Consumed(GetDevice.slices, Unset)]

-----------------------------------------------------------------------------
(* Mutant: nothing is left as nothing.                                     *)
AsAsked(n) == n

AtLeastOne(n) == IF n < 1 THEN 1 ELSE n

WholeCard == [whole |-> TRUE, cores |-> ComputeUnits, memMiB |-> MemoryBytes \div MiB]

(* Mutant: what only one of the two leaves out is the least.               *)
LeastWhenUnset(ask) ==
    IF ask.cores = Unset /\ ask.memory = Unset THEN WholeCard
    ELSE [whole |-> FALSE,
          cores |-> AtLeastOne(IF ask.cores = Unset THEN 0 ELSE Value(ask.cores)),
          memMiB |-> AtLeastOne((IF ask.memory = Unset THEN 0 ELSE ask.memory) \div MiB)]

(* A request without capacities is the card, passed through; what only one *)
(* of the two leaves out is the card's. No vHCU has less than one of each. *)
requestCapacityFor(ask) ==
    IF ask.cores = Unset /\ ask.memory = Unset THEN WholeCard
    ELSE [whole |-> FALSE,
          cores |-> AtLeastOne(IF ask.cores = Unset THEN ComputeUnits ELSE Value(ask.cores)),
          memMiB |-> AtLeastOne((IF ask.memory = Unset THEN MemoryBytes
                                 ELSE ask.memory) \div MiB)]

=============================================================================
