----------------------------- MODULE ClaimLedger -----------------------------
(***************************************************************************)
(* What the driver promises the kubelet, in terms of what can be seen from *)
(* outside: which claims exist, which devices the kubelet holds for them,  *)
(* and the vHCUs on the host. There is no prepared map, no state file, no  *)
(* mutex, no maintenance and no restart here: none of that may show.       *)
(***************************************************************************)
CONSTANTS
    Claims,  \* ResourceClaims
    VDevs    \* vHCU indices

VARIABLES
    api,     \* claims that exist in the API server
    held,    \* held[c]: the devices the kubelet was given for c
    host,    \* host[v]: the card of vHCU v and the claim it is for
    conf,    \* vHCUs with a configuration file
    sound    \* the driver keeps its promises

vars == <<api, held, host, conf, sound>>

VHCUsOf(devs) == {p \in devs : ~p.whole}

Intact(c, p) == host[p.vdv] = [card |-> p.parent, claim |-> c] /\ p.vdv \in conf

Init == api = Claims /\ held = [c \in Claims |-> {}] /\ sound = TRUE

(* Prepare: the claim gets devices that are there for it. When it is       *)
(* prepared again, before Unprepare, it gets the same ones. (A claim that  *)
(* is deleted meanwhile is promised nothing.)                              *)
Hand(c) ==
    /\ held' = [held EXCEPT ![c] = held'[c]]
    /\ c \in api => /\ held[c] \in {{}, held'[c]}
                    /\ \A p \in VHCUsOf(held'[c]) : Intact(c, p)
    /\ UNCHANGED <<api, host, conf, sound>>

(* Unprepare is called: the kubelet gives the devices back.                *)
GiveBack(c) ==
    /\ held' = [held EXCEPT ![c] = {}]
    /\ UNCHANGED <<api, host, conf, sound>>

Delete(c) ==
    /\ c \in api /\ api' = api \ {c}
    /\ UNCHANGED <<held, host, conf, sound>>

(* vHCUs come and go, but not those a living claim holds.                  *)
HostChanges ==
    /\ \A c \in api : \A p \in VHCUsOf(held[c]) : Intact(c, p)'
    /\ UNCHANGED <<api, held, sound>>

(* The driver is sound no longer, and promises nothing from then on.       *)
Lapse == sound' = FALSE

Next == (\E c \in Claims : Hand(c) \/ GiveBack(c) \/ Delete(c)) \/ HostChanges \/ Lapse

Spec == Init /\ [][Next]_vars

-----------------------------------------------------------------------------
(* What the kubelet holds for a living claim is there, for that claim.     *)
HeldIntact == sound => \A c \in api : \A p \in VHCUsOf(held[c]) : Intact(c, p)

(* No vHCU is held for two living claims.                                  *)
HeldApart ==
    sound => \A c, d \in api : \A p \in VHCUsOf(held[c]), q \in VHCUsOf(held[d]) :
               p.vdv = q.vdv => c = d

=============================================================================
