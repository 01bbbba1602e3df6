------------------------------- MODULE Runtimes -------------------------------
(***************************************************************************)
(* The runtime a command works with: newRuntime of internal/cli takes the  *)
(* --runtime flag and the environment, and from then on the drills create  *)
(* and destroy their targets through that one runtime, KubernetesTargets   *)
(* or DockerTargets.                                                       *)
(***************************************************************************)
EXTENDS KubernetesTargets

CONSTANT Modes   \* what --runtime may be given

VARIABLES
  runtime,    \* "none", "docker", "kubernetes" or "refused"
  image, container,           \* of DockerTargets
  dockerPc, dockerFailed, dockerExpired

Docker == INSTANCE DockerTargets
  WITH pc <- dockerPc, failed <- dockerFailed, expired <- dockerExpired

docker == <<image, container, dockerPc, dockerFailed, dockerExpired>>
runtimes == <<runtime, vars, docker>>

\* The runtime of a mode: "auto" is Kubernetes for a process that has
\* KUBERNETES_SERVICE_HOST, and Docker otherwise.
Selected(mode, inCluster) ==
  CASE mode = "auto"                    -> IF inCluster THEN "kubernetes" ELSE "docker"
    [] mode \in {"docker", "kubernetes"} -> mode
    [] OTHER                            -> "refused"

\* newRuntime; a client that cannot be made from its configuration is refused.
NewRuntime ==
  /\ runtime = "none"
  /\ \E mode \in Modes, inCluster \in BOOLEAN :
       runtime' \in {Selected(mode, inCluster), "refused"}
  /\ UNCHANGED <<vars, docker>>

OnKubernetes(step) == runtime = "kubernetes" /\ step /\ UNCHANGED <<runtime, docker>>
OnDocker(step) == runtime = "docker" /\ step /\ UNCHANGED <<runtime, vars>>

RuntimesInit == runtime = "none" /\ Init /\ Docker!Init

RuntimesNext == NewRuntime \/ OnKubernetes(Next) \/ OnDocker(Docker!Next)

\* The fairness of KubernetesTargets, once that is the runtime.
RuntimesSpec ==
  /\ RuntimesInit /\ [][RuntimesNext]_runtimes
  /\ \A c \in Call : /\ WF_runtimes(OnKubernetes(Caller(c)))
                     /\ WF_runtimes(OnKubernetes(ServeCreate(c)))

\* Docker's Create and Destroy keep the promise of the runtime.
DockerImplementsTargetService == Docker!ImplementsTargetService

\* Under Kubernetes, Create returns although nothing says that the pod ever
\* starts, also for a drill without a timeout.
KubernetesCreateReturns ==
  [](runtime = "kubernetes" => CreateReturns)
=============================================================================
