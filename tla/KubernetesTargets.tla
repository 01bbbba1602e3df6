--------------------------- MODULE KubernetesTargets ---------------------------
(***************************************************************************)
(* Create, waitPodReady and Destroy of internal/runtime/k8s for drills     *)
(* that run in parallel against one namespace.  A pod is named after the   *)
(* clock, so that two calls in the same tick want the same name.  The API  *)
(* server and the kubelet are the environment: a request can be served     *)
(* after its caller has given up, and a pod may start, end or fail at any  *)
(* time.                                                                   *)
(***************************************************************************)
EXTENDS Naturals

CONSTANTS
  Call,         \* calls of Create, each with the Destroy of its target
  MaxClock,     \* bound: ticks of the clock the names are made from
  HasDeadline,  \* the drills have a timeout
  APIFails      \* requests may be refused, or their answers lost

ASSUME KubernetesAssumption ==
  /\ MaxClock \in Nat \ {0}
  /\ HasDeadline \in BOOLEAN
  /\ APIFails \in BOOLEAN

Phases == {"Pending", "Running", "Succeeded", "Failed"}
Terminal == {"Succeeded", "Failed"}

VARIABLES
  clock,    \* time.Now().UnixNano()
  pc,       \* where each call is
  name,     \* the name of its pod, 0 before it has one
  request,  \* its create request: "none", "sent", "created" or "refused"
  pod,      \* the pod made from it: "none", a phase, "terminating" or "gone"
  failed,   \* calls that missed the answer to their create, or whose delete failed
  expired   \* calls whose drill has reached its deadline

vars == <<clock, pc, name, request, pod, failed, expired>>
context == <<clock, expired>>

Init ==
  /\ clock = 1
  /\ pc = [c \in Call |-> "start"]
  /\ name = [c \in Call |-> 0]
  /\ request = [c \in Call |-> "none"]
  /\ pod = [c \in Call |-> "none"]
  /\ failed = {}
  /\ expired = {}

Goto(c, step) == pc' = [pc EXCEPT ![c] = step]

\* The pods under the name of c in the namespace: one, or none.
Exists(c) == pod[c] \notin {"none", "gone"}
Named(c) == {d \in Call : Exists(d) /\ name[d] = name[c]}

-----------------------------------------------------------------------------
(* Create                                                                  *)

StartCreate(c) ==
  /\ pc[c] = "start"
  /\ Goto(c, "creating")
  /\ name' = [name EXCEPT ![c] = clock]
  /\ request' = [request EXCEPT ![c] = "sent"]
  /\ UNCHANGED <<pod, failed, context>>

\* Mutant: the deferred delete is registered before the pod is created.
RefusedUnwinds == "unwinding"

\* Where a create request that was refused leaves Create: it returns, since
\* the delete is only deferred when the pod has been created.
RefusedGoesTo == "refused"

CreateAnswered(c) ==
  /\ pc[c] = "creating"
  /\ \/ request[c] = "created" /\ Goto(c, "waiting")
     \/ request[c] = "refused" /\ Goto(c, RefusedGoesTo)
  /\ UNCHANGED <<name, request, pod, failed, context>>

\* No answer, or none in time: Create does not know whether there is a pod.
CreateUnanswered(c) ==
  /\ pc[c] = "creating"
  /\ APIFails \/ c \in expired
  /\ Goto(c, RefusedGoesTo)
  /\ failed' = failed \cup {c}
  /\ UNCHANGED <<name, request, pod, context>>

\* waitPodReady sees a phase that decides; an error of Get is no answer.
PollPod(c) ==
  /\ pc[c] = "waiting"
  /\ \E d \in Named(c) : \/ pod[d] = "Running" /\ Goto(c, "fetching")
                         \/ pod[d] \in Terminal /\ Goto(c, "unwinding")
  /\ UNCHANGED <<name, request, pod, failed, context>>

\* Mutant: the poll has the drill's deadline only.
GiveUpAtDeadline(c) ==
  /\ pc[c] = "waiting"
  /\ c \in expired
  /\ Goto(c, "unwinding")
  /\ UNCHANGED <<name, request, pod, failed, context>>

\* Five minutes, or the drill's deadline, have passed.
GiveUpWaiting(c) ==
  /\ pc[c] = "waiting"
  /\ Goto(c, "unwinding")
  /\ UNCHANGED <<name, request, pod, failed, context>>

\* The pod is fetched once more for its address, whatever its phase is by now.
FetchPod(c) ==
  /\ pc[c] = "fetching"
  /\ \/ Named(c) # {} /\ Goto(c, "held")
     \/ /\ Named(c) = {} \/ APIFails \/ c \in expired
        /\ Goto(c, "unwinding")
  /\ UNCHANGED <<name, request, pod, failed, context>>

-----------------------------------------------------------------------------
(* Delete requests, which name a pod and not who made it                   *)

\* Mutant: the context of the deferred delete is the drill's own.
DeleteNeedsDrill(c) == c \notin expired

\* The deferred delete has 30 s of its own.
DeleteContextLive(c) == TRUE

DeletePod(c, step) ==
  /\ \/ /\ DeleteContextLive(c)
        /\ pod' = [d \in Call |-> IF d \in Named(c) THEN "terminating" ELSE pod[d]]
        /\ UNCHANGED failed
     \/ /\ APIFails
        /\ failed' = failed \cup {c}
        /\ UNCHANGED pod
     \/ /\ ~DeleteContextLive(c)
        /\ UNCHANGED <<pod, failed>>
  /\ Goto(c, step)
  /\ UNCHANGED <<name, request, context>>

\* The deferred function of Create, when the pod was not ready.
Unwind(c) == pc[c] = "unwinding" /\ DeletePod(c, "refused")

\* Destroy, which the engine calls once for a target that Create returned.
Destroy(c) == pc[c] = "held" /\ DeletePod(c, "released")

-----------------------------------------------------------------------------
(* The API server, the kubelet and time                                    *)

\* A second pod of the same name is refused, as is one over quota.
ServeCreate(c) ==
  /\ request[c] = "sent"
  /\ \/ /\ Named(c) = {}
        /\ request' = [request EXCEPT ![c] = "created"]
        /\ pod' = [pod EXCEPT ![c] = "Pending"]
     \/ /\ Named(c) # {} \/ APIFails
        /\ request' = [request EXCEPT ![c] = "refused"]
        /\ UNCHANGED pod
  /\ UNCHANGED <<pc, name, failed, context>>

RunPod(c) ==
  /\ \/ pod[c] = "Pending" /\ pod' = [pod EXCEPT ![c] = "Running"]
     \/ /\ pod[c] \in {"Pending", "Running"}
        /\ \E phase \in Terminal : pod' = [pod EXCEPT ![c] = phase]
     \/ pod[c] = "terminating" /\ pod' = [pod EXCEPT ![c] = "gone"]
  /\ UNCHANGED <<pc, name, request, failed, context>>

Tick ==
  /\ clock < MaxClock
  /\ clock' = clock + 1
  /\ UNCHANGED <<pc, name, request, pod, failed, expired>>

Expire(c) ==
  /\ HasDeadline
  /\ pc[c] \notin {"start", "refused", "released"}
  /\ c \notin expired
  /\ expired' = expired \cup {c}
  /\ UNCHANGED <<clock, pc, name, request, pod, failed>>

-----------------------------------------------------------------------------
Caller(c) == StartCreate(c) \/ CreateAnswered(c) \/ CreateUnanswered(c) \/ PollPod(c)
             \/ GiveUpWaiting(c) \/ FetchPod(c) \/ Unwind(c) \/ Destroy(c)

Server(c) == ServeCreate(c) \/ RunPod(c)

Next == Tick \/ \E c \in Call : Caller(c) \/ Server(c) \/ Expire(c)

Spec == Init /\ [][Next]_vars

\* Each call goes on, the API server serves what it was sent; nothing says
\* that a pod ever starts, or that a drill has a deadline.
FairSpec == Spec /\ \A c \in Call : WF_vars(Caller(c)) /\ WF_vars(ServeCreate(c))

-----------------------------------------------------------------------------
(* Refinement of TargetService                                             *)

Ended == {"refused", "released"}

statusBar ==
  [c \in Call |-> CASE pc[c] = "held"  -> "handed"
                    [] pc[c] \in Ended -> pc[c]
                    [] OTHER           -> "pending"]

\* A pod that is terminating is removed; one that outlives its call is lost if
\* the call missed an answer of the API, or its delete failed.
targetBar ==
  [c \in Call |-> CASE pod[c] = "none"                    -> "never"
                    [] pod[c] \in {"terminating", "gone"} -> "removed"
                    [] OTHER -> IF pc[c] \in Ended /\ c \in failed
                                THEN "lost" ELSE "live"]

Service == INSTANCE TargetService WITH status <- statusBar, target <- targetBar

-----------------------------------------------------------------------------
(* Properties                                                              *)

\* Every variable has its type.
TypeOK ==
  /\ clock \in 1..MaxClock
  /\ pc \in [Call -> {"start", "creating", "waiting", "fetching", "unwinding",
                      "held", "refused", "released"}]
  /\ name \in [Call -> 0..MaxClock]
  /\ request \in [Call -> {"none", "sent", "created", "refused"}]
  /\ pod \in [Call -> Phases \cup {"none", "terminating", "gone"}]
  /\ failed \subseteq Call
  /\ expired \subseteq Call

\* A pod that Create has handed to a drill is there, and is the one that call
\* made, until that drill destroys it: no other drill deletes it, even if both
\* picked the same name in the same tick.
HandedTargetSurvives == \A c \in Call : pc[c] = "held" => pod[c] \in Phases

\* A pod outlives Create and Destroy only if the answer to its create request
\* did not arrive, or not before the drill's deadline, or the API refused to
\* delete it: once Create knows of the pod, neither one that never becomes ready
\* nor the deadline leaves it.
LeakNeedsFailedCall ==
  \A c \in Call : pc[c] \in Ended /\ pod[c] \in Phases => c \in failed

\* Create and Destroy keep the promise of the runtime.
ImplementsTargetService == Service!Spec

\* Create returns although nothing says that the pod ever starts, also for a
\* drill without a timeout.
CreateReturns == \A c \in Call : <>(pc[c] \in {"held", "refused", "released"})
=============================================================================
