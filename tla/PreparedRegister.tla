-------------------------- MODULE PreparedRegister --------------------------
(***************************************************************************)
(* What the driver relies on when it persists the prepared map: a register *)
(* that keeps the map over the life of the process. A save takes place at  *)
(* once or not at all; a process that starts has the map last saved.       *)
(* HcuState uses the state file as such a register; StateFile is how the   *)
(* code makes one out of two files.                                        *)
(***************************************************************************)
CONSTANTS
    Maps,   \* the prepared maps
    Empty   \* the map without claims

VARIABLES
    running,   \* the process is up
    prepared,  \* DeviceState.prepared
    disk,      \* the map in the register
    damaged    \* somebody else has spoiled the register

vars == <<running, prepared, disk, damaged>>

Init == running = FALSE /\ prepared = Empty /\ disk = Empty /\ damaged = FALSE

Start ==
    /\ running = FALSE /\ running' = TRUE
    /\ prepared' = disk /\ UNCHANGED <<disk, damaged>>

Change ==
    /\ running = TRUE
    /\ prepared' \in Maps /\ UNCHANGED <<running, disk, damaged>>

Save ==
    /\ running = TRUE
    /\ disk' = prepared /\ UNCHANGED <<running, prepared, damaged>>

End ==
    /\ running = TRUE /\ running' = FALSE
    /\ prepared' = Empty /\ UNCHANGED <<disk, damaged>>

(* Somebody else removes or spoils the register: its map is gone, and no   *)
(* other map appears in its place.                                         *)
Lose == disk' = Empty /\ damaged' = TRUE /\ UNCHANGED <<running, prepared>>

Next == Start \/ Change \/ Save \/ End \/ Lose

Spec == Init /\ [][Next]_vars

=============================================================================
