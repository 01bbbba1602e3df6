----------------------------- MODULE DockerTargets -----------------------------
(***************************************************************************)
(* Create, ensureImage and Destroy of internal/runtime/docker for drills   *)
(* that run in parallel against one daemon.  The daemon gives every        *)
(* container an id of its own; the images it holds are shared.  Each step  *)
(* is one call of the Docker API: the daemon may do what it was asked and  *)
(* the caller still see an error.                                          *)
(***************************************************************************)
EXTENDS Naturals

CONSTANTS
  Call,      \* calls of Create, each with the Destroy of its target
  APIFails   \* API calls may fail, or their answers be lost

States == {"created", "running", "exited"}

VARIABLES
  image,      \* the daemon has the image of these drills
  pc,         \* where each call is
  container,  \* of each call: "none", "asked" (a request on its way that
              \* nobody waits for), a state, or "removed"
  failed,     \* calls that missed the answer to their create, or whose remove
              \* failed
  expired     \* calls whose drill has reached its deadline

vars == <<image, pc, container, failed, expired>>

Init ==
  /\ image \in BOOLEAN
  /\ pc = [c \in Call |-> "start"]
  /\ container = [c \in Call |-> "none"]
  /\ failed = {}
  /\ expired = {}

Goto(c, step) == pc' = [pc EXCEPT ![c] = step]
Becomes(c, state) == container' = [container EXCEPT ![c] = state]

\* A call of the API made for c under the drill's context may return an error.
Errs(c) == APIFails \/ c \in expired

-----------------------------------------------------------------------------
(* Create                                                                  *)

\* ensureImage: only a missing image is pulled, any other error is final.
InspectImage(c) ==
  /\ pc[c] = "start"
  /\ \/ image /\ Goto(c, "creating")
     \/ ~image /\ Goto(c, "pulling")
     \/ Errs(c) /\ Goto(c, "refused")
  /\ UNCHANGED <<image, container, failed, expired>>

\* The progress stream of the pull is read to its end and thrown away, with the
\* error a failed pull reports in it.
PullImage(c) ==
  /\ pc[c] = "pulling"
  /\ \/ Goto(c, "creating") /\ image' \in {image, TRUE}
     \/ Errs(c) /\ Goto(c, "refused") /\ UNCHANGED image
  /\ UNCHANGED <<container, failed, expired>>

\* ContainerCreate needs the image.  A request whose answer is lost, or is not
\* awaited because the drill's deadline passed, makes a container whose id nobody
\* knows, now or later.
CreateContainer(c) ==
  /\ pc[c] = "creating"
  /\ \/ /\ image
        /\ Becomes(c, "created")
        /\ Goto(c, "starting")
        /\ UNCHANGED failed
     \/ /\ Errs(c)
        /\ \/ image /\ Becomes(c, "created")
           \/ Becomes(c, "asked")
        /\ Goto(c, "refused")
        /\ failed' = failed \cup {c}
     \/ /\ ~image \/ Errs(c)
        /\ Goto(c, "refused")
        /\ UNCHANGED <<container, failed>>
  /\ UNCHANGED <<image, expired>>

\* Mutant: a container that does not start is left to the caller.
StartRefused == "refused"

\* Where a failed start leaves Create: ready is still false, so the deferred
\* function removes the container.
StartFailed == "unwinding"

StartContainer(c) ==
  /\ pc[c] = "starting"
  /\ \/ /\ Becomes(c, "running")
        /\ Goto(c, "inspecting")
     \/ /\ Errs(c)
        /\ \/ Becomes(c, "running")
           \/ UNCHANGED container
        /\ Goto(c, StartFailed)
     \/ /\ Goto(c, StartFailed)
        /\ UNCHANGED container
  /\ UNCHANGED <<image, failed, expired>>

\* ContainerInspect, for the ports; a container that has ended by now has none
\* and is handed out all the same.
InspectContainer(c) ==
  /\ pc[c] = "inspecting"
  /\ \/ Goto(c, "held")
     \/ Errs(c) /\ Goto(c, "unwinding")
  /\ UNCHANGED <<image, container, failed, expired>>

\* Mutant: the deferred remove has the drill's own context.
RemoveNeedsDrill(c) == c \notin expired

\* The deferred remove has 30 s of its own.
RemoveContextLive(c) == TRUE

RemoveContainer(c, step) ==
  /\ \/ /\ RemoveContextLive(c)
        /\ Becomes(c, "removed")
        /\ UNCHANGED failed
     \/ /\ APIFails
        /\ failed' = failed \cup {c}
        /\ UNCHANGED container
     \/ /\ ~RemoveContextLive(c)
        /\ UNCHANGED <<container, failed>>
  /\ Goto(c, step)
  /\ UNCHANGED <<image, expired>>

\* The deferred function of Create, when the container was not ready.
Unwind(c) == pc[c] = "unwinding" /\ RemoveContainer(c, "refused")

-----------------------------------------------------------------------------
(* Destroy                                                                 *)

\* The error of ContainerStop is ignored: a container that has ended cannot be
\* stopped, but still has to be removed.
StopContainer(c) ==
  /\ pc[c] = "held"
  /\ \/ container[c] = "running" /\ Becomes(c, "exited")
     \/ UNCHANGED container
  /\ Goto(c, "removing")
  /\ UNCHANGED <<image, failed, expired>>

Destroy(c) == pc[c] = "removing" /\ RemoveContainer(c, "released")

-----------------------------------------------------------------------------
(* The daemon, other users of it, and time                                 *)

\* A create request is served, or refused, that nobody waits for.
ServeCreate(c) ==
  /\ container[c] = "asked"
  /\ \/ image /\ Becomes(c, "created")
     \/ Becomes(c, "none")
  /\ UNCHANGED <<image, pc, failed, expired>>

ExitContainer(c) ==
  /\ container[c] = "running"
  /\ Becomes(c, "exited")
  /\ UNCHANGED <<image, pc, failed, expired>>

\* Somebody prunes the image between two steps of a call.
PruneImage ==
  /\ image
  /\ image' = FALSE
  /\ UNCHANGED <<pc, container, failed, expired>>

Ended == {"refused", "released"}

Expire(c) ==
  /\ pc[c] \notin Ended
  /\ c \notin expired
  /\ expired' = expired \cup {c}
  /\ UNCHANGED <<image, pc, container, failed>>

-----------------------------------------------------------------------------
Caller(c) == InspectImage(c) \/ PullImage(c) \/ CreateContainer(c) \/ StartContainer(c)
             \/ InspectContainer(c) \/ Unwind(c) \/ StopContainer(c) \/ Destroy(c)

Next == PruneImage \/ \E c \in Call : Caller(c) \/ ServeCreate(c) \/ ExitContainer(c) \/ Expire(c)

Spec == Init /\ [][Next]_vars

-----------------------------------------------------------------------------
(* Refinement of TargetService                                             *)

statusBar ==
  [c \in Call |-> CASE pc[c] \in {"held", "removing"} -> "handed"
                    [] pc[c] \in Ended                -> pc[c]
                    [] OTHER                          -> "pending"]

targetBar ==
  [c \in Call |-> CASE container[c] \in {"none", "asked"} -> "never"
                    [] container[c] = "removed"          -> "removed"
                    [] OTHER -> IF pc[c] \in Ended /\ c \in failed
                                THEN "lost" ELSE "live"]

Service == INSTANCE TargetService WITH status <- statusBar, target <- targetBar

-----------------------------------------------------------------------------
(* Properties                                                              *)

\* Every variable has its type.
TypeOK ==
  /\ image \in BOOLEAN
  /\ pc \in [Call -> {"start", "pulling", "creating", "starting", "inspecting",
                      "unwinding", "held", "removing", "refused", "released"}]
  /\ container \in [Call -> States \cup {"none", "asked", "removed"}]
  /\ failed \subseteq Call
  /\ expired \subseteq Call

\* A container outlives Create and Destroy only if the answer to its create did
\* not arrive, or not before the drill's deadline, or the daemon would not remove
\* it: once Create knows the id, neither a start that fails nor the deadline
\* leaves it behind.
LeakNeedsFailedCall ==
  \A c \in Call : pc[c] \in Ended /\ container[c] \in States => c \in failed

\* Create and Destroy keep the promise of the runtime.
ImplementsTargetService == Service!Spec
=============================================================================
