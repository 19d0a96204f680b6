-------------------------- MODULE StateFileProofs --------------------------
(***************************************************************************)
(* The state file is a register (StateFile implements PreparedRegister),   *)
(* for any number of goroutines and any maps.                              *)
(***************************************************************************)
EXTENDS StateFile, TLAPS

(* Only the goroutine that holds the mutex is inside a critical section,   *)
(* and what it is going to rename is the whole map as it is now.           *)
SectionInv ==
    /\ \A w \in Writers : pc[w] # "idle" => mu = w /\ running
    /\ ~running => prepared = Empty
    /\ \A w \in Writers : pc[w] = "rename" => tmp = Doc(prepared)

IInv == TypeOK /\ SectionInv /\ NeverCorrupt

(* A document is loaded as the map it was made of ...                      *)
LEMMA LoadsDoc == ASSUME NEW m \in Maps PROVE loadPreparedState(Doc(m)) = m
BY DEF loadPreparedState, Docs, Doc

(* ... and anything else as the empty map: never an error, never a mixture.*)
LEMMA LoadsNothing ==
    ASSUME NEW f \in {Missing, Blank, Garbled} PROVE loadPreparedState(f) = Empty
BY FileAssumption DEF loadPreparedState

LEMMA LoadsMap == ASSUME NEW f \in Contents PROVE loadPreparedState(f) \in Maps
BY FileAssumption DEF loadPreparedState, Contents, Docs, Doc

LEMMA Initial == Init => IInv
BY FileAssumption DEF Init, IInv, TypeOK, SectionInv, NeverCorrupt, Contents, Pcs

LEMMA Inductive == IInv /\ [Next]_vars => IInv'
<1> SUFFICES ASSUME IInv, [Next]_vars PROVE IInv'
  OBVIOUS
<1> USE FileAssumption DEF IInv, TypeOK, SectionInv, Pcs
<1>1. CASE NewDeviceState
  BY <1>1, LoadsMap DEF NewDeviceState, NeverCorrupt
<1>2. CASE ProcessEnds
  BY <1>2 DEF ProcessEnds, NeverCorrupt
<1>3. ASSUME NEW w \in Writers, Change(w) PROVE IInv'
  BY <1>3 DEF Change, NeverCorrupt
<1>4. ASSUME NEW w \in Writers, NoSave(w) PROVE IInv'
  BY <1>4 DEF NoSave, Return, NeverCorrupt
<1>5. ASSUME NEW w \in Writers, OpenTmp(w) PROVE IInv'
  BY <1>5 DEF OpenTmp, NeverCorrupt, Contents
<1>6. ASSUME NEW w \in Writers, WritePart(w) PROVE IInv'
  BY <1>6 DEF WritePart, NeverCorrupt, Contents
<1>7. ASSUME NEW w \in Writers, WriteTmp(w) PROVE IInv'
  BY <1>7 DEF WriteTmp, NeverCorrupt, Contents, Docs
<1>8. ASSUME NEW w \in Writers, WriteFails(w) PROVE IInv'
  BY <1>8 DEF WriteFails, Return, NeverCorrupt
<1>9. ASSUME NEW w \in Writers, Rename(w) PROVE IInv'
  BY <1>9 DEF Rename, Return, NeverCorrupt, Contents, Docs
<1>10. CASE Damage
  BY <1>10 DEF Damage, NeverCorrupt, Contents
<1>11. CASE UNCHANGED vars
  BY <1>11 DEF vars, NeverCorrupt
<1> QED
  BY <1>1, <1>2, <1>3, <1>4, <1>5, <1>6, <1>7, <1>8, <1>9, <1>10, <1>11 DEF Next

(* Every variable has its type: the writers are at a step of saveState, and *)
(* the two files hold documents, parts of documents or nothing.            *)
THEOREM TypeCorrect == Spec => []TypeOK
<1>1. IInv => TypeOK
  BY DEF IInv
<1> QED
  BY Initial, Inductive, <1>1, PTL DEF Spec

(* No interleaving of saves, failing file operations and ends of the       *)
(* process makes the driver start fresh by its own doing.                  *)
THEOREM FileNeverCorrupt == Spec => []NeverCorrupt
<1>1. IInv => NeverCorrupt
  BY DEF IInv
<1> QED
  BY Initial, Inductive, <1>1, PTL DEF Spec

(* Every step of the file operations is a step of the register, or none.   *)
LEMMA Simulation == IInv /\ [Next]_vars => [Register!Next]_(Register!vars)
<1> SUFFICES ASSUME IInv, [Next]_vars PROVE [Register!Next]_(Register!vars)
  OBVIOUS
<1> USE FileAssumption DEF IInv, TypeOK, SectionInv, Register!Next, Register!vars
<1>1. CASE NewDeviceState
  BY <1>1 DEF NewDeviceState, Register!Start
<1>2. CASE ProcessEnds
  BY <1>2 DEF ProcessEnds, Register!End
<1>3. ASSUME NEW w \in Writers, Change(w) PROVE Register!Change
  BY <1>3 DEF Change, Register!Change
<1>4. ASSUME NEW w \in Writers,
             NoSave(w) \/ OpenTmp(w) \/ WritePart(w) \/ WriteTmp(w) \/ WriteFails(w)
      PROVE  UNCHANGED Register!vars
  BY <1>4 DEF NoSave, OpenTmp, WritePart, WriteTmp, WriteFails, Return
<1>5. ASSUME NEW w \in Writers, Rename(w) PROVE [Register!Next]_(Register!vars)
  <2>1. CASE file' = tmp
    BY <1>5, <2>1, LoadsDoc DEF Rename, Return, Register!Save
  <2>2. CASE file' = file
    BY <1>5, <2>2 DEF Rename, Return
  <2> QED
    BY <1>5, <2>1, <2>2 DEF Rename
<1>6. CASE Damage
  BY <1>6, LoadsNothing DEF Damage, Register!Lose
<1>7. CASE UNCHANGED vars
  BY <1>7 DEF vars
<1> QED
  BY <1>1, <1>2, <1>3, <1>4, <1>5, <1>6, <1>7 DEF Next

(* The temporary file and the rename make the state file the register that *)
(* the rest of the driver counts on.                                       *)
THEOREM StateFileIsRegister == Spec => ImplementsRegister
<1>1. Init => Register!Init
  BY LoadsNothing DEF Init, Register!Init
<1> QED
  BY Initial, Inductive, Simulation, <1>1, PTL DEF Spec, ImplementsRegister, Register!Spec

=============================================================================
