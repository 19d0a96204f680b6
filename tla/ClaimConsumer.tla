---------------------------- MODULE ClaimConsumer ----------------------------
(***************************************************************************)
(* Which container a prepared device is marked as used by: the helpers of  *)
(* resolveClaimConsumer on pods and on the claim's list of consumers. The  *)
(* calls to the API server between them are steps of ClaimData.            *)
(***************************************************************************)
EXTENDS Integers, FiniteSets

CONSTANTS
    Pods,        \* pods in the claim's namespace
    Containers   \* the containers of a pod are 1..Containers

(* A pod names the claim, or has it made from a template (then its spec    *)
(* has no claim name), or does not use it; users are the containers whose  *)
(* resources refer to it. A pod that is not scheduled is on no node.       *)
Pod ==
    {p \in [node : {"here", "elsewhere", "none"}, ref : {"name", "template", "no"},
            users : SUBSET (1..Containers)] : p.ref = "no" => p.users = {}}

NotFound == 0

FirstOf(users) == CHOOSE i \in users : \A j \in users : i <= j

(* Mutant: the container is not looked for.                                *)
FirstContainer(pod) == IF pod.ref = "name" THEN 1 ELSE NotFound

(* Only a claim referred to by name is recognized.                         *)
containerUsingResourceClaim(pod) ==
    IF pod.ref = "name" /\ pod.users # {} THEN FirstOf(pod.users) ELSE NotFound

(* A reserved pod that was fetched: NotFound when it is on another node,   *)
(* its first container when none is seen to use the claim.                 *)
ConsumerIn(pod) ==
    IF pod.node = "elsewhere" THEN NotFound
    ELSE IF containerUsingResourceClaim(pod) # NotFound
         THEN containerUsingResourceClaim(pod) ELSE 1

=============================================================================
