---------------------------- MODULE MCHcuDriver ----------------------------
(* Small instances of HcuDriver.                                           *)
EXTENDS HcuDriver, TLC

CONSTANTS c1, c2, d1, d2, k1, k2, r1, r2

Want(req, dev, mode) == [req |-> req, dev |-> dev, mode |-> mode]

(* Two claims of one container for vHCUs of one card. They are             *)
(* interchangeable.                                                        *)
SharedCard == [c \in {c1, c2} |-> {Want(r1, d1, "vhcu")}]
OneContainer == [c \in {c1, c2} |-> k1]
ClaimSymmetry == Permutations({c1, c2})

(* Two claims of two containers for vHCUs of two cards.                    *)
OwnCards == [c \in {c1, c2} |-> {Want(r1, IF c = c1 THEN d1 ELSE d2, "vhcu")}]
TwoContainers == [c \in {c1, c2} |-> IF c = c1 THEN k1 ELSE k2]

(* A claim for two vHCUs of one card, and a claim for the whole other card *)
(* that has a result of another driver too. The scheduler gives a whole    *)
(* card to one claim.                                                      *)
SharesAndWhole ==
    [c \in {c1, c2} |-> IF c = c1 THEN {Want(r1, d1, "vhcu"), Want(r2, d1, "vhcu")}
                        ELSE {Want(r1, d2, "whole"), Want(r2, d2, "foreign")}]

(* One claim.                                                              *)
Single == [c \in {c1} |-> {Want(r1, d1, "vhcu")}]
SingleContainer == [c \in {c1} |-> k1]

=============================================================================
