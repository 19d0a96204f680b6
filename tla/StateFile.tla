------------------------------ MODULE StateFile ------------------------------
(***************************************************************************)
(* The state file, file operation by file operation: savePreparedState     *)
(* writes a temporary file and renames it, any operation may fail, the     *)
(* process may end in between, and loadPreparedState takes what it finds.  *)
(* Two goroutines save, under DeviceState.mu, and share the temporary file.*)
(***************************************************************************)
CONSTANTS
    Maps,      \* the prepared maps
    Empty,     \* the map without claims
    Writers,   \* the goroutines that save
    Nobody,    \* nobody holds the mutex
    Missing,   \* "no such file"
    Blank,     \* a file of length 0
    Garbled    \* a file that is not JSON, a truncated one for instance

(* A file that holds a map; json.MarshalIndent fails for no map.           *)
Doc(m) == [prepared |-> m]

Docs == {Doc(m) : m \in Maps}

Contents == Docs \cup {Missing, Blank, Garbled}

ASSUME FileAssumption ==
    /\ Empty \in Maps
    /\ Nobody \notin Writers
    /\ {Missing, Blank, Garbled} \cap Docs = {}

VARIABLES
    running,   \* the process is up
    prepared,  \* DeviceState.prepared
    mu,        \* DeviceState.mu
    pc,        \* pc[w]: where goroutine w is
    tmp,       \* stateFile + ".tmp"
    file,      \* stateFile
    damaged    \* somebody else has damaged the file (history)

vars == <<running, prepared, mu, pc, tmp, file, damaged>>

Init ==
    /\ running = FALSE /\ prepared = Empty
    /\ mu = Nobody /\ pc = [w \in Writers |-> "idle"]
    /\ tmp = Missing /\ file = Missing /\ damaged = FALSE

-----------------------------------------------------------------------------
(* A missing, an empty and a corrupt file are an empty map. (A file that   *)
(* cannot be read ends the process before anything has happened.)          *)
loadPreparedState(f) == IF f \in Docs THEN f.prepared ELSE Empty

NewDeviceState ==
    /\ ~running /\ running' = TRUE
    /\ prepared' = loadPreparedState(file)
    /\ UNCHANGED <<mu, pc, tmp, file, damaged>>

(* The process ends, between any two file operations or inside a write.    *)
ProcessEnds ==
    /\ running /\ running' = FALSE
    /\ prepared' = Empty
    /\ mu' = Nobody /\ pc' = [w \in Writers |-> "idle"]
    /\ UNCHANGED <<tmp, file, damaged>>

-----------------------------------------------------------------------------
(* A critical section of goroutine w: it changes the map, and saves it.    *)

(* Mutant: the mutex is not waited for.                                    *)
ChangeUnlocked(w) ==
    /\ running /\ pc[w] = "idle" /\ mu' = w
    /\ prepared' \in Maps
    /\ pc' = [pc EXCEPT ![w] = "open"]
    /\ UNCHANGED <<running, tmp, file, damaged>>

Change(w) ==
    /\ running /\ pc[w] = "idle" /\ mu = Nobody /\ mu' = w
    /\ prepared' \in Maps
    /\ pc' = [pc EXCEPT ![w] = "open"]
    /\ UNCHANGED <<running, tmp, file, damaged>>

(* The end of the section: after the rename, or after an error, which the  *)
(* callers log.                                                            *)
Return(w) ==
    /\ mu' = Nobody
    /\ pc' = [pc EXCEPT ![w] = "idle"]
    /\ UNCHANGED <<running, prepared, damaged>>

(* finalizePreparedClaim does not save when a sync of files has failed; or *)
(* the temporary file cannot be opened.                                    *)
NoSave(w) ==
    /\ pc[w] = "open"
    /\ Return(w) /\ UNCHANGED <<tmp, file>>

(* os.WriteFile truncates the file first ...                               *)
OpenTmp(w) ==
    /\ pc[w] = "open"
    /\ tmp' = Blank
    /\ pc' = [pc EXCEPT ![w] = "write"]
    /\ UNCHANGED <<running, prepared, mu, file, damaged>>

(* ... and writes it, a part ...                                           *)
WritePart(w) ==
    /\ pc[w] = "write" /\ tmp = Blank
    /\ tmp' = Garbled
    /\ UNCHANGED <<running, prepared, mu, pc, file, damaged>>

(* Mutant: the map is marshalled without the struct around it.             *)
WriteBareMap(w) ==
    /\ pc[w] = "write"
    /\ tmp' = prepared
    /\ pc' = [pc EXCEPT ![w] = "rename"]
    /\ UNCHANGED <<running, prepared, mu, file, damaged>>

(* ... or all of it ...                                                    *)
WriteTmp(w) ==
    /\ pc[w] = "write"
    /\ tmp' = Doc(prepared)
    /\ pc' = [pc EXCEPT ![w] = "rename"]
    /\ UNCHANGED <<running, prepared, mu, file, damaged>>

(* Mutant: the error of os.WriteFile is not looked at.                     *)
WriteErrorIgnored(w) ==
    /\ pc[w] = "write"
    /\ pc' = [pc EXCEPT ![w] = "rename"]
    /\ UNCHANGED <<running, prepared, mu, tmp, file, damaged>>

(* ... unless the device is full.                                          *)
WriteFails(w) ==
    /\ pc[w] = "write"
    /\ Return(w) /\ UNCHANGED <<tmp, file>>

Rename(w) ==
    /\ pc[w] = "rename"
    /\ \/ file' = tmp /\ tmp' = Missing
       \/ UNCHANGED <<file, tmp>>
    /\ Return(w)

-----------------------------------------------------------------------------
(* Somebody else truncates or removes the file, or the node loses power    *)
(* before the data of a renamed file has reached the disk (external).      *)
Damage ==
    /\ file' \in {Missing, Blank, Garbled}
    /\ damaged' = TRUE
    /\ UNCHANGED <<running, prepared, mu, pc, tmp>>

Next ==
    \/ NewDeviceState \/ ProcessEnds
    \/ \E w \in Writers : \/ Change(w) \/ NoSave(w) \/ OpenTmp(w) \/ WritePart(w)
                          \/ WriteTmp(w) \/ WriteFails(w) \/ Rename(w)
    \/ Damage

Spec == Init /\ [][Next]_vars

-----------------------------------------------------------------------------
Pcs == {"idle", "open", "write", "rename"}

(* Every variable has its type.                                            *)
TypeOK ==
    /\ running \in BOOLEAN /\ prepared \in Maps
    /\ mu \in Writers \cup {Nobody} /\ pc \in [Writers -> Pcs]
    /\ tmp \in Contents /\ file \in Contents
    /\ damaged \in BOOLEAN

(* The driver itself never leaves a state file that it would start fresh   *)
(* from (state_persistence.go:58): not by a full disk, nor by ending while *)
(* it writes, nor by two goroutines that save at once.                     *)
NeverCorrupt == ~damaged => file \in Docs \cup {Missing}

Register == INSTANCE PreparedRegister WITH disk <- loadPreparedState(file)

(* Two files and a rename are the register that the rest of the driver     *)
(* counts on: a start finds the map last saved, nothing less and nothing   *)
(* older. A damaged file is an empty register, whatever is left of it.     *)
ImplementsRegister == Register!Spec

=============================================================================
