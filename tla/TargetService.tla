----------------------------- MODULE TargetService -----------------------------
(***************************************************************************)
(* What engine.Runtime promises of Create and Destroy, for calls that run  *)
(* at the same time: a call that is refused owns no target, a target that  *)
(* was handed out is there until it is released, and no call touches the   *)
(* target of another.  The one excuse is a request to the interface that   *)
(* failed, or was cut off by the drill's deadline: then a target may be    *)
(* lost, so that nobody removes it.  DockerTargets and KubernetesTargets   *)
(* implement this.                                                         *)
(***************************************************************************)

CONSTANT Call   \* calls of Create, each with the Destroy of its target

VARIABLES
  status,   \* "pending", "refused", "handed" or "released"
  target    \* "never", "live", "removed" or "lost"

vars == <<status, target>>

Init ==
  /\ status = [c \in Call |-> "pending"]
  /\ target = [c \in Call |-> "never"]

\* A request that is served after its call has given up makes a lost target.
Provision(c) ==
  /\ target[c] = "never"
  /\ \/ status[c] = "pending" /\ target' = [target EXCEPT ![c] = "live"]
     \/ status[c] = "refused" /\ target' = [target EXCEPT ![c] = "lost"]
  /\ UNCHANGED status

Hand(c) ==
  /\ status[c] = "pending"
  /\ target[c] = "live"
  /\ status' = [status EXCEPT ![c] = "handed"]
  /\ UNCHANGED target

\* The call parts with the target it has, or has asked for.
Part(c) ==
  CASE target[c] = "live"  -> \E end \in {"removed", "lost"} :
                                target' = [target EXCEPT ![c] = end]
    [] target[c] = "never" -> \E end \in {"never", "lost"} :
                                target' = [target EXCEPT ![c] = end]
    [] OTHER               -> UNCHANGED target

Refuse(c) ==
  /\ status[c] = "pending"
  /\ status' = [status EXCEPT ![c] = "refused"]
  /\ Part(c)

Release(c) ==
  /\ status[c] = "handed"
  /\ status' = [status EXCEPT ![c] = "released"]
  /\ Part(c)

Next == \E c \in Call : Provision(c) \/ Hand(c) \/ Refuse(c) \/ Release(c)

Spec == Init /\ [][Next]_vars
=============================================================================
