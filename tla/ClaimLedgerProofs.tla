------------------------- MODULE ClaimLedgerProofs -------------------------
(***************************************************************************)
(* What the ledger is worth to the kubelet: an invariant of the ledger,    *)
(* and with it of every program that implements it.                        *)
(***************************************************************************)
EXTENDS ClaimLedger, TLAPS

IInv ==
    sound =>
      /\ api \subseteq Claims
      /\ held = [c \in Claims |-> held[c]]
      /\ HeldIntact

LEMMA Initial == Init => IInv
BY DEF Init, IInv, HeldIntact, VHCUsOf

LEMMA Kept == IInv /\ [Next]_vars => IInv'
<1> SUFFICES ASSUME IInv, [Next]_vars PROVE IInv'
  OBVIOUS
<1> USE DEF IInv, HeldIntact, Intact, VHCUsOf
<1>1. ASSUME NEW c \in Claims, Hand(c) PROVE IInv'
  BY <1>1 DEF Hand
<1>2. ASSUME NEW c \in Claims, GiveBack(c) PROVE IInv'
  BY <1>2 DEF GiveBack
<1>3. ASSUME NEW c \in Claims, Delete(c) PROVE IInv'
  BY <1>3 DEF Delete
<1>4. CASE HostChanges
  BY <1>4 DEF HostChanges
<1>5. CASE Lapse
  BY <1>5 DEF Lapse
<1>6. CASE UNCHANGED vars
  BY <1>6 DEF vars
<1> QED
  BY <1>1, <1>2, <1>3, <1>4, <1>5, <1>6 DEF Next

(* As long as the driver is sound, no vHCU is held for two living claims,  *)
(* however they were prepared, released and deleted.                       *)
THEOREM LedgerKeepsApart == Spec => []HeldApart
<1>1. IInv => HeldApart
  <2>1. SUFFICES ASSUME IInv, sound, NEW c \in api, NEW d \in api,
                        NEW p \in VHCUsOf(held[c]), NEW q \in VHCUsOf(held[d]),
                        p.vdv = q.vdv
                 PROVE  c = d
    BY DEF HeldApart
  <2>2. /\ host[p.vdv] = [card |-> p.parent, claim |-> c]
        /\ host[p.vdv] = [card |-> q.parent, claim |-> d]
    BY <2>1 DEF IInv, HeldIntact, Intact
  <2>3. host[p.vdv].claim = c /\ host[p.vdv].claim = d
    <3>1. [card |-> p.parent, claim |-> c].claim = c
      OBVIOUS
    <3>2. [card |-> q.parent, claim |-> d].claim = d
      OBVIOUS
    <3> QED
      BY <2>2, <3>1, <3>2
  <2> QED
    BY <2>3
<1> QED
  BY Initial, Kept, <1>1, PTL DEF Spec

=============================================================================
