---------------------------- MODULE MCClaimData ----------------------------
(* A small instance of ClaimData.                                          *)
EXTENDS ClaimData, TLC

CONSTANTS c1, c2, p1, p2, other

ClaimSymmetry == Permutations({c1, c2})

(* A card of 3 cores and 4 MiB. Nothing, none, and parts of a core and of  *)
(* a MiB are asked for.                                                    *)
Amounts ==
    {[cores |-> Unset, memory |-> Unset], [cores |-> 1500, memory |-> 0],
     [cores |-> Unset, memory |-> 1572864]}

(* Pods of this and of another node that name the claim, one that has it   *)
(* from a template, and one that has not been scheduled.                   *)
SomePods ==
    {[node |-> "here", ref |-> "name", users |-> {2}],
     [node |-> "elsewhere", ref |-> "name", users |-> {1, 2}],
     [node |-> "here", ref |-> "template", users |-> {2}],
     [node |-> "none", ref |-> "name", users |-> {2}]}

SomeLists == {<<other, p1>>}

(* Two cards with one bus address in two domains.                          *)
At(d) == [pre |-> FALSE, dom |-> d, bus |-> "03:00.0"]
Both == {At(0), At(1)}

SomeSystems ==
    {[devices |-> Both, bus |-> {At(0)}, legacy |-> {}],
     [devices |-> Both, bus |-> {}, legacy |-> Both]}
      \cup {[devices |-> Both, bus |-> Both, legacy |-> l] : l \in {{At(1)}, {At(NoDomain)}}}

(* With the domain, behind "pci:", and without it; a vHCU's own address    *)
(* without the domain, and one that is another card's.                     *)
SomeReports ==
    {[card |-> At(1), pci |-> [At(1) EXCEPT !.pre = TRUE], own |-> {At(NoDomain)}],
     [card |-> At(0), pci |-> At(NoDomain), own |-> {At(1)}]}

=============================================================================
