---------------------------- MODULE RuntimesProofs ----------------------------
(***************************************************************************)
(* What the runtimes guarantee for any number of drills and any clock,     *)
(* each alone and then behind newRuntime, where a command works with one   *)
(* of them.                                                                *)
(*                                                                         *)
(* Kubernetes: names are not unique over time, so the argument is about    *)
(* the pods that exist: no two of them share a name (NamesAreUnique), and  *)
(* as long as a call still may delete by name, the pod of that name is its *)
(* own (Owned).  Docker: a container belongs to the call that created it   *)
(* by its id, so that DockerOwned speaks of one call at a time.            *)
(***************************************************************************)
EXTENDS Runtimes, TLAPS

Owning == {"waiting", "fetching", "unwinding", "held"}

\* What each call knows of its request and its pod.
Owned ==
  \A c \in Call :
    /\ pc[c] = "start" => request[c] = "none"
    /\ request[c] = "created" <=> pod[c] # "none"
    /\ pc[c] = "creating" => pod[c] \in Phases \cup {"none"}
    /\ pc[c] \in Owning => pod[c] \in Phases
    /\ pc[c] = "released" => pod[c] # "none"
    /\ pc[c] \in Ended =>
         (pod[c] \in Phases \/ request[c] = "sent" => c \in failed)

NamesAreUnique ==
  \A c, d \in Call : Exists(c) /\ Exists(d) /\ name[c] = name[d] => c = d

IInv == TypeOK /\ Owned /\ NamesAreUnique

-----------------------------------------------------------------------------
LEMMA InitEstablishes == Init => IInv
<1> SUFFICES ASSUME Init PROVE IInv
  OBVIOUS
<1>1. TypeOK
  BY KubernetesAssumption DEF Init, TypeOK
<1>2. Owned /\ NamesAreUnique
  BY DEF Init, Owned, NamesAreUnique, Exists, Owning, Ended
<1> QED BY <1>1, <1>2 DEF IInv

\* A delete by name hits the pod of the call that sends it, and no other.
LEMMA NamedIsOwn ==
  ASSUME IInv, NEW c \in Call, pod[c] \in Phases
  PROVE  Named(c) = {c}
BY DEF IInv, NamesAreUnique, Named, Exists, Phases

LEMMA DeletesOwn ==
  ASSUME IInv, NEW c \in Call, NEW step \in Ended, pc[c] \in Owning, DeletePod(c, step)
  PROVE  /\ pc' = [pc EXCEPT ![c] = step]
         /\ UNCHANGED <<name, request, context>>
         /\ \/ pod' = [pod EXCEPT ![c] = "terminating"] /\ UNCHANGED failed
            \/ UNCHANGED pod /\ failed' = failed \cup {c}
<1>1. pod[c] \in Phases /\ pod \in [Call -> Phases \cup {"none", "terminating", "gone"}]
  BY DEF IInv, Owned, TypeOK
<1>2. Named(c) = {c}
  BY <1>1, NamedIsOwn
<1>3. [d \in Call |-> IF d \in {c} THEN "terminating" ELSE pod[d]]
        = [pod EXCEPT ![c] = "terminating"]
  BY <1>1
<1> QED BY <1>2, <1>3 DEF DeletePod, DeleteContextLive, Goto

LEMMA DeletePreserves ==
  ASSUME IInv, NEW c \in Call, NEW step \in Ended, pc[c] \in Owning, DeletePod(c, step)
  PROVE  IInv'
<1>1. TypeOK /\ Owned /\ NamesAreUnique
  BY DEF IInv
<1>2. CASE pod' = [pod EXCEPT ![c] = "terminating"] /\ UNCHANGED failed
  <2>1. TypeOK'
    BY <1>1, <1>2, DeletesOwn DEF TypeOK, Ended, context
  <2>2. Owned'
    BY <1>1, <1>2, DeletesOwn DEF TypeOK, Owned, Owning, Ended, Phases, Terminal
  <2>3. NamesAreUnique'
    <3>1. \A d \in Call : Exists(d)' => Exists(d)
      BY <1>1, <1>2 DEF Exists, TypeOK, Owned, Owning, Phases
    <3> QED BY <1>1, <3>1, DeletesOwn DEF NamesAreUnique
  <2> QED BY <2>1, <2>2, <2>3 DEF IInv
<1>3. CASE UNCHANGED pod /\ failed' = failed \cup {c}
  <2>1. TypeOK'
    BY <1>1, <1>3, DeletesOwn DEF TypeOK, Ended, context
  <2>2. Owned'
    BY <1>1, <1>3, DeletesOwn DEF TypeOK, Owned, Owning, Ended, Phases, Terminal
  <2>3. NamesAreUnique'
    BY <1>1, <1>3, DeletesOwn DEF NamesAreUnique, Exists
  <2> QED BY <2>1, <2>2, <2>3 DEF IInv
<1> QED BY <1>2, <1>3, DeletesOwn

LEMMA CallerPreserves ==
  ASSUME IInv, NEW c \in Call, Caller(c)
  PROVE  IInv'
<1> USE DEF Goto, context
<1>1. TypeOK /\ Owned /\ NamesAreUnique
  BY DEF IInv
<1>2. CASE StartCreate(c)
  <2>1. pod[c] = "none"
    BY <1>1, <1>2 DEF StartCreate, Owned
  <2>2. TypeOK'
    BY <1>1, <1>2 DEF StartCreate, TypeOK
  <2>3. Owned'
    BY <1>1, <1>2, <2>1 DEF StartCreate, TypeOK, Owned, Owning, Ended
  <2>4. NamesAreUnique'
    <3>1. \A d \in Call : Exists(d)' => Exists(d) /\ d # c
      BY <1>2, <2>1 DEF StartCreate, Exists
    <3>2. \A d \in Call : d # c => name'[d] = name[d]
      BY <1>1, <1>2 DEF StartCreate, TypeOK
    <3> QED BY <1>1, <3>1, <3>2 DEF NamesAreUnique
  <2> QED BY <2>2, <2>3, <2>4 DEF IInv
<1>3. CASE CreateAnswered(c) \/ CreateUnanswered(c)
  <2>1. TypeOK'
    BY <1>1, <1>3 DEF CreateAnswered, CreateUnanswered, RefusedGoesTo, TypeOK
  <2>2. Owned'
    BY <1>1, <1>3 DEF CreateAnswered, CreateUnanswered, RefusedGoesTo, TypeOK, Owned,
                      Owning, Ended, Phases, Terminal
  <2>3. NamesAreUnique'
    BY <1>1, <1>3 DEF CreateAnswered, CreateUnanswered, NamesAreUnique, Exists
  <2> QED BY <2>1, <2>2, <2>3 DEF IInv
<1>4. CASE PollPod(c) \/ GiveUpWaiting(c) \/ FetchPod(c)
  <2>1. /\ pc[c] \in Owning
        /\ \E step \in Owning : pc' = [pc EXCEPT ![c] = step]
        /\ UNCHANGED <<name, request, pod, failed, context>>
    BY <1>4 DEF PollPod, GiveUpWaiting, FetchPod, Owning
  <2>2. TypeOK'
    BY <1>1, <2>1 DEF TypeOK, Owning
  <2>3. Owned'
    BY <1>1, <2>1 DEF TypeOK, Owned, Owning, Ended
  <2>4. NamesAreUnique'
    BY <1>1, <2>1 DEF NamesAreUnique, Exists
  <2> QED BY <2>2, <2>3, <2>4 DEF IInv
<1>5. CASE Unwind(c) \/ Destroy(c)
  BY <1>5, DeletePreserves DEF Unwind, Destroy, Owning, Ended
<1> QED BY <1>2, <1>3, <1>4, <1>5 DEF Caller

LEMMA ServerPreserves ==
  ASSUME IInv, NEW c \in Call, Server(c)
  PROVE  IInv'
<1> USE DEF context
<1>1. TypeOK /\ Owned /\ NamesAreUnique
  BY DEF IInv
<1>2. CASE ServeCreate(c)
  <2>1. TypeOK'
    BY <1>1, <1>2 DEF ServeCreate, TypeOK, Phases
  <2>2. Owned'
    BY <1>1, <1>2 DEF ServeCreate, TypeOK, Owned, Owning, Ended, Phases, Terminal
  <2>3. NamesAreUnique'
    <3>1. CASE UNCHANGED pod
      BY <1>1, <1>2, <3>1 DEF ServeCreate, NamesAreUnique, Exists
    <3>2. CASE Named(c) = {} /\ pod' = [pod EXCEPT ![c] = "Pending"]
      <4>1. \A d \in Call : Exists(d)' /\ d # c => Exists(d) /\ name[d] # name[c]
        BY <1>1, <3>2 DEF Exists, Named, TypeOK
      <4> QED BY <1>1, <1>2, <4>1 DEF ServeCreate, NamesAreUnique
    <3> QED BY <1>2, <3>1, <3>2 DEF ServeCreate
  <2> QED BY <2>1, <2>2, <2>3 DEF IInv
<1>3. CASE RunPod(c)
  <2>1. TypeOK'
    BY <1>1, <1>3 DEF RunPod, TypeOK, Phases, Terminal
  <2>2. Owned'
    BY <1>1, <1>3 DEF RunPod, TypeOK, Owned, Owning, Ended, Phases, Terminal
  <2>3. NamesAreUnique'
    <3>1. \A d \in Call : Exists(d)' => Exists(d)
      BY <1>1, <1>3 DEF RunPod, Exists, TypeOK, Terminal
    <3> QED BY <1>1, <1>3, <3>1 DEF RunPod, NamesAreUnique
  <2> QED BY <2>1, <2>2, <2>3 DEF IInv
<1> QED BY <1>2, <1>3 DEF Server

LEMMA StepPreserves == IInv /\ [Next]_vars => IInv'
<1> SUFFICES ASSUME IInv, [Next]_vars PROVE IInv'
  OBVIOUS
<1>1. CASE \E c \in Call : Caller(c) \/ Server(c)
  BY <1>1, CallerPreserves, ServerPreserves
<1>2. CASE Tick \/ (\E c \in Call : Expire(c)) \/ UNCHANGED vars
  <2>1. UNCHANGED <<pc, name, request, pod, failed>>
    BY <1>2 DEF Tick, Expire, vars
  <2>2. TypeOK'
    BY <1>2, KubernetesAssumption DEF IInv, TypeOK, Tick, Expire, vars
  <2> QED BY <2>1, <2>2 DEF IInv, Owned, NamesAreUnique, Exists
<1> QED BY <1>1, <1>2 DEF Next

\* The inductive invariant: in every reachable state existing pods have names of
\* their own, and a call that may delete by name owns the pod of that name.
THEOREM TargetsInvariant == Spec => []IInv
BY InitEstablishes, StepPreserves, PTL DEF Spec

\* Every variable has its type.
THEOREM TypeCorrect == Spec => []TypeOK
<1>1. IInv => TypeOK
  BY DEF IInv
<1> QED BY <1>1, TargetsInvariant, PTL

\* The pod that Create has handed out is there until its own drill destroys it,
\* for any number of parallel drills and of names that coincide.
THEOREM HandedTargetsSurvive == Spec => []HandedTargetSurvives
<1>1. IInv => HandedTargetSurvives
  BY DEF IInv, Owned, Owning, HandedTargetSurvives
<1> QED BY <1>1, TargetsInvariant, PTL

\* Create and Destroy leave a pod behind only if the API failed one of their
\* requests, or the drill's deadline cut off the create request.
THEOREM KubernetesLeaksNeedFailedCall == Spec => []LeakNeedsFailedCall
<1>1. IInv => LeakNeedsFailedCall
  BY DEF IInv, Owned, LeakNeedsFailedCall
<1> QED BY <1>1, TargetsInvariant, PTL

-----------------------------------------------------------------------------
(* The refinement of TargetService                                         *)

LEMMA InitRefines == Init => Service!Init
<1> SUFFICES ASSUME Init PROVE Service!Init
  OBVIOUS
<1>1. statusBar = [c \in Call |-> "pending"]
  BY DEF Init, statusBar, Ended
<1>2. targetBar = [c \in Call |-> "never"]
  BY DEF Init, targetBar
<1> QED BY <1>1, <1>2 DEF Service!Init

\* What a step of one call may do to the abstract state of the others: nothing.
LEMMA OthersKeep ==
  ASSUME IInv, NEW c \in Call, Caller(c) \/ Server(c), NEW d \in Call, d # c
  PROVE  statusBar'[d] = statusBar[d] /\ targetBar'[d] = targetBar[d]
<1>1. TypeOK
  BY DEF IInv
<1>2. /\ pc'[d] = pc[d]
      /\ pod'[d] = pod[d]
      /\ d \in failed' <=> d \in failed
  <2>1. CASE Unwind(c) \/ Destroy(c)
    <3>1. PICK step \in Ended : pc[c] \in Owning /\ DeletePod(c, step)
      BY <2>1 DEF Unwind, Destroy, Owning, Ended
    <3> QED BY <1>1, <3>1, DeletesOwn DEF TypeOK
  <2>2. CASE ~(Unwind(c) \/ Destroy(c))
    BY <1>1, <2>2 DEF TypeOK, Caller, Server, StartCreate, CreateAnswered, CreateUnanswered,
         PollPod, GiveUpWaiting, FetchPod, ServeCreate, RunPod, Goto
  <2> QED BY <2>1, <2>2
<1> QED BY <1>2 DEF statusBar, targetBar

\* A step that leaves both abstract functions as they are at c is a stutter.
LEMMA StuttersAt ==
  ASSUME IInv, NEW c \in Call, Caller(c) \/ Server(c),
         statusBar'[c] = statusBar[c], targetBar'[c] = targetBar[c]
  PROVE  UNCHANGED Service!vars
<1>1. \A d \in Call : statusBar'[d] = statusBar[d] /\ targetBar'[d] = targetBar[d]
  BY OthersKeep
<1>2. UNCHANGED statusBar
  BY <1>1 DEF statusBar
<1>3. UNCHANGED targetBar
  BY <1>1 DEF targetBar
<1> QED BY <1>2, <1>3 DEF Service!vars

\* A step of c changes the abstract functions at c only.
LEMMA ChangesAt ==
  ASSUME IInv, NEW c \in Call, Caller(c) \/ Server(c)
  PROVE  /\ statusBar' = [statusBar EXCEPT ![c] = statusBar'[c]]
         /\ targetBar' = [targetBar EXCEPT ![c] = targetBar'[c]]
<1> DEFINE sc == statusBar'[c]
           tc == targetBar'[c]
<1>1. \A d \in Call : d # c => statusBar'[d] = statusBar[d] /\ targetBar'[d] = targetBar[d]
  BY OthersKeep
<1>2. statusBar' = [statusBar EXCEPT ![c] = sc]
  <2>1. \A d \in Call : statusBar'[d] = IF d = c THEN sc ELSE statusBar[d]
    BY <1>1
  <2> HIDE DEF sc
  <2> QED BY <2>1 DEF statusBar
<1>3. targetBar' = [targetBar EXCEPT ![c] = tc]
  <2>1. \A d \in Call : targetBar'[d] = IF d = c THEN tc ELSE targetBar[d]
    BY <1>1
  <2> HIDE DEF tc
  <2> QED BY <2>1 DEF targetBar
<1> QED BY <1>2, <1>3

LEMMA CallerRefines ==
  ASSUME IInv, NEW c \in Call, Caller(c)
  PROVE  [Service!Next]_Service!vars
<1> USE DEF Goto
<1>1. TypeOK /\ Owned
  BY DEF IInv
<1>2. /\ statusBar' = [statusBar EXCEPT ![c] = statusBar'[c]]
      /\ targetBar' = [targetBar EXCEPT ![c] = targetBar'[c]]
  BY ChangesAt
<1>3. CASE StartCreate(c) \/ PollPod(c) \/ GiveUpWaiting(c)
           \/ (FetchPod(c) /\ pc'[c] = "unwinding")
           \/ (CreateAnswered(c) /\ pc'[c] = "waiting")
  <2>1. /\ pc[c] \notin Ended \cup {"held"} /\ pc'[c] \notin Ended \cup {"held"}
        /\ UNCHANGED pod
    BY <1>1, <1>3 DEF TypeOK, Ended, StartCreate, PollPod, GiveUpWaiting, FetchPod,
                      CreateAnswered
  <2>2. statusBar'[c] = statusBar[c] /\ targetBar'[c] = targetBar[c]
    BY <2>1 DEF statusBar, targetBar, Ended
  <2> QED BY <2>2, StuttersAt
<1>4. CASE FetchPod(c) /\ pc'[c] = "held"
  <2>1. /\ pc[c] = "fetching" /\ pod[c] \in Phases /\ UNCHANGED pod
    BY <1>1, <1>4 DEF FetchPod, Owned, Owning
  <2>2. /\ statusBar[c] = "pending" /\ statusBar'[c] = "handed"
        /\ targetBar[c] = "live" /\ targetBar'[c] = "live"
    BY <1>4, <2>1 DEF statusBar, targetBar, Ended, Phases, Terminal
  <2>3. targetBar' = targetBar
    BY <1>2, <2>2 DEF targetBar
  <2> QED BY <1>2, <2>2, <2>3 DEF Service!Hand, Service!Next
<1>5. CASE (CreateAnswered(c) /\ pc'[c] # "waiting") \/ CreateUnanswered(c)
  <2>1. /\ pc[c] = "creating" /\ pc'[c] = "refused" /\ UNCHANGED pod
        /\ \/ c \in failed'
           \/ pod[c] = "none"
    BY <1>1, <1>5 DEF CreateAnswered, CreateUnanswered, RefusedGoesTo, TypeOK, Owned
  <2>2. statusBar[c] = "pending" /\ statusBar'[c] = "refused"
    BY <2>1 DEF statusBar, Ended
  <2>3. \/ targetBar[c] = "never" /\ targetBar'[c] = "never"
        \/ targetBar[c] = "live" /\ targetBar'[c] = "lost"
    BY <1>1, <2>1 DEF targetBar, Ended, Owned, Phases, Terminal
  <2>4. Service!Part(c)
    BY <1>2, <2>3 DEF Service!Part
  <2> QED BY <1>2, <2>2, <2>4 DEF Service!Refuse, Service!Next
<1>6. CASE Unwind(c) \/ Destroy(c)
  <2>1. PICK step \in Ended : /\ pc[c] \in Owning
                              /\ DeletePod(c, step)
                              /\ \/ pc[c] = "unwinding" /\ step = "refused"
                                 \/ pc[c] = "held" /\ step = "released"
    BY <1>6 DEF Unwind, Destroy, Owning, Ended
  <2>2. pod[c] \in Phases
    BY <1>1, <2>1 DEF Owned
  <2>3. /\ pc'[c] = step
        /\ pod'[c] = "terminating" \/ (pod'[c] = pod[c] /\ c \in failed')
    BY <1>1, <2>1, DeletesOwn DEF TypeOK
  <2>4. targetBar[c] = "live" /\ targetBar'[c] \in {"removed", "lost"}
    BY <2>1, <2>2, <2>3 DEF targetBar, Ended, Owning, Phases, Terminal
  <2>5. Service!Part(c)
    BY <1>2, <2>4 DEF Service!Part
  <2>6. \/ statusBar[c] = "pending" /\ statusBar'[c] = "refused"
        \/ statusBar[c] = "handed" /\ statusBar'[c] = "released"
    BY <2>1, <2>3 DEF statusBar, Ended
  <2> QED BY <1>2, <2>5, <2>6 DEF Service!Refuse, Service!Release, Service!Next
<1>7. FetchPod(c) => pc'[c] \in {"held", "unwinding"}
  BY <1>1 DEF FetchPod, TypeOK
<1> QED BY <1>3, <1>4, <1>5, <1>6, <1>7 DEF Caller

LEMMA ServerRefines ==
  ASSUME IInv, NEW c \in Call, Server(c)
  PROVE  [Service!Next]_Service!vars
<1>1. TypeOK /\ Owned
  BY DEF IInv
<1>2. /\ statusBar' = [statusBar EXCEPT ![c] = statusBar'[c]]
      /\ targetBar' = [targetBar EXCEPT ![c] = targetBar'[c]]
  BY ChangesAt
<1>3. UNCHANGED <<pc, failed>> /\ UNCHANGED statusBar
  BY DEF Server, ServeCreate, RunPod, statusBar
<1>4. CASE UNCHANGED pod \/ RunPod(c)
  <2>1. targetBar'[c] = targetBar[c]
    BY <1>1, <1>3, <1>4 DEF RunPod, TypeOK, targetBar, Phases, Terminal
  <2> QED BY <1>3, <2>1, StuttersAt
<1>5. CASE ServeCreate(c) /\ pod' = [pod EXCEPT ![c] = "Pending"]
  <2>1. request[c] = "sent" /\ pod[c] = "none" /\ pod'[c] = "Pending"
    BY <1>1, <1>5 DEF ServeCreate, TypeOK, Owned
  <2>2. pc[c] = "creating" \/ (pc[c] = "refused" /\ c \in failed)
    BY <1>1, <2>1 DEF TypeOK, Owned, Owning, Ended, Phases, Terminal
  <2>3. targetBar[c] = "never"
    BY <2>1 DEF targetBar
  <2>4. \/ statusBar[c] = "pending" /\ targetBar'[c] = "live"
        \/ statusBar[c] = "refused" /\ targetBar'[c] = "lost"
    BY <1>3, <2>1, <2>2 DEF statusBar, targetBar, Ended
  <2> QED BY <1>2, <1>3, <2>3, <2>4 DEF Service!Provision, Service!Next
<1> QED BY <1>4, <1>5 DEF Server, ServeCreate

LEMMA StepRefines == IInv /\ [Next]_vars => [Service!Next]_Service!vars
<1> SUFFICES ASSUME IInv, [Next]_vars PROVE [Service!Next]_Service!vars
  OBVIOUS
<1>1. CASE \E c \in Call : Caller(c) \/ Server(c)
  BY <1>1, CallerRefines, ServerRefines
<1>2. CASE Tick \/ (\E c \in Call : Expire(c)) \/ UNCHANGED vars
  BY <1>2 DEF Tick, Expire, vars, statusBar, targetBar, Service!vars
<1> QED BY <1>1, <1>2 DEF Next

\* Create and Destroy keep the promise of the runtime, whatever the number of
\* drills that share the namespace: the pods of a call are its own from its
\* request to its removal, and one is lost only by a request that failed or was
\* cut off.
THEOREM RuntimeImplementsService == Spec => ImplementsTargetService
BY InitRefines, StepRefines, TargetsInvariant, PTL
   DEF Spec, ImplementsTargetService, Service!Spec

-----------------------------------------------------------------------------
(* Docker                                                                  *)

DockerOwning == {"starting", "inspecting", "unwinding", "held", "removing"}

\* Before its create a call has no container, from then on it has one until it
\* removed it; what remains at the end, or is made later, is that of a request
\* that failed or was cut off.
DockerOwned ==
  \A c \in Call :
    /\ dockerPc[c] \in {"start", "pulling", "creating"} => container[c] = "none"
    /\ dockerPc[c] \in DockerOwning => container[c] \in Docker!States
    /\ container[c] = "asked" => dockerPc[c] = "refused" /\ c \in dockerFailed
    /\ dockerPc[c] \in Docker!Ended /\ container[c] \in Docker!States => c \in dockerFailed

DockerIInv == Docker!TypeOK /\ DockerOwned

-----------------------------------------------------------------------------
LEMMA DockerInitEstablishes == Docker!Init => DockerIInv
BY DEF Docker!Init, DockerIInv, Docker!TypeOK, DockerOwned, DockerOwning, Docker!Ended,
     Docker!States

LEMMA DockerCallerPreserves ==
  ASSUME DockerIInv, NEW c \in Call, Docker!Caller(c)
  PROVE  DockerIInv'
<1> USE DEF Docker!Goto, Docker!Becomes
<1>1. Docker!TypeOK /\ DockerOwned
  BY DEF DockerIInv
<1>2. CASE Docker!InspectImage(c) \/ Docker!PullImage(c)
  <2>1. Docker!TypeOK'
    BY <1>1, <1>2 DEF Docker!InspectImage, Docker!PullImage, Docker!TypeOK
  <2>2. DockerOwned'
    BY <1>1, <1>2 DEF Docker!InspectImage, Docker!PullImage, Docker!TypeOK, DockerOwned,
         DockerOwning, Docker!Ended, Docker!States
  <2> QED BY <2>1, <2>2 DEF DockerIInv
<1>3. CASE Docker!CreateContainer(c)
  <2>1. Docker!TypeOK'
    BY <1>1, <1>3 DEF Docker!CreateContainer, Docker!TypeOK, Docker!States
  <2>2. DockerOwned'
    BY <1>1, <1>3 DEF Docker!CreateContainer, Docker!TypeOK, DockerOwned, DockerOwning,
         Docker!Ended, Docker!States
  <2> QED BY <2>1, <2>2 DEF DockerIInv
<1>4. CASE Docker!StartContainer(c)
  <2>1. Docker!TypeOK'
    BY <1>1, <1>4 DEF Docker!StartContainer, Docker!StartFailed, Docker!TypeOK,
         Docker!States
  <2>2. DockerOwned'
    BY <1>1, <1>4 DEF Docker!StartContainer, Docker!StartFailed, Docker!TypeOK,
         DockerOwned, DockerOwning, Docker!Ended, Docker!States
  <2> QED BY <2>1, <2>2 DEF DockerIInv
<1>5. CASE Docker!InspectContainer(c) \/ Docker!StopContainer(c)
  <2>1. Docker!TypeOK'
    BY <1>1, <1>5 DEF Docker!InspectContainer, Docker!StopContainer, Docker!TypeOK,
         Docker!States
  <2>2. DockerOwned'
    BY <1>1, <1>5 DEF Docker!InspectContainer, Docker!StopContainer, Docker!TypeOK,
         DockerOwned, DockerOwning, Docker!Ended, Docker!States
  <2> QED BY <2>1, <2>2 DEF DockerIInv
<1>6. CASE Docker!Unwind(c) \/ Docker!Destroy(c)
  <2>1. PICK step \in Docker!Ended : Docker!RemoveContainer(c, step)
    BY <1>6 DEF Docker!Unwind, Docker!Destroy, Docker!Ended
  <2>2. Docker!TypeOK'
    BY <1>1, <2>1 DEF Docker!RemoveContainer, Docker!TypeOK, Docker!Ended
  <2>3. dockerPc[c] \in {"unwinding", "removing"} /\ container[c] # "asked"
    BY <1>1, <1>6 DEF Docker!Unwind, Docker!Destroy, DockerOwned
  <2>4. DockerOwned'
    BY <1>1, <2>1, <2>3 DEF Docker!RemoveContainer, Docker!RemoveContextLive,
         Docker!TypeOK, DockerOwned, DockerOwning, Docker!Ended, Docker!States
  <2> QED BY <2>2, <2>4 DEF DockerIInv
<1> QED BY <1>2, <1>3, <1>4, <1>5, <1>6 DEF Docker!Caller

LEMMA DockerStepPreserves == DockerIInv /\ [Docker!Next]_Docker!vars => DockerIInv'
<1> SUFFICES ASSUME DockerIInv, [Docker!Next]_Docker!vars PROVE DockerIInv'
  OBVIOUS
<1>1. Docker!TypeOK /\ DockerOwned
  BY DEF DockerIInv
<1>2. CASE \E c \in Call : Docker!Caller(c)
  BY <1>2, DockerCallerPreserves
<1>3. CASE \E c \in Call : Docker!ServeCreate(c) \/ Docker!ExitContainer(c)
  <2>1. Docker!TypeOK'
    BY <1>1, <1>3 DEF Docker!ServeCreate, Docker!ExitContainer, Docker!Becomes,
         Docker!TypeOK, Docker!States
  <2>2. DockerOwned'
    BY <1>1, <1>3 DEF Docker!ServeCreate, Docker!ExitContainer, Docker!Becomes, Docker!TypeOK, DockerOwned,
         DockerOwning, Docker!Ended, Docker!States
  <2> QED BY <2>1, <2>2 DEF DockerIInv
<1>4. CASE Docker!PruneImage \/ (\E c \in Call : Docker!Expire(c)) \/ UNCHANGED Docker!vars
  <2>1. Docker!TypeOK'
    BY <1>1, <1>4 DEF Docker!PruneImage, Docker!Expire, Docker!vars, Docker!TypeOK
  <2>2. DockerOwned'
    BY <1>1, <1>4 DEF Docker!PruneImage, Docker!Expire, Docker!vars, DockerOwned
  <2> QED BY <2>1, <2>2 DEF DockerIInv
<1> QED BY <1>2, <1>3, <1>4 DEF Docker!Next

\* The inductive invariant: a call has its container from the create to the
\* remove, and one that outlives it is that of a request that failed or was cut
\* off.
THEOREM DockerTargetsInvariant == Docker!Spec => []DockerIInv
BY DockerInitEstablishes, DockerStepPreserves, PTL DEF Docker!Spec

\* Every variable has its type.
THEOREM DockerTypeCorrect == Docker!Spec => []Docker!TypeOK
<1>1. DockerIInv => Docker!TypeOK
  BY DEF DockerIInv
<1> QED BY <1>1, DockerTargetsInvariant, PTL

\* Create and Destroy leave a container behind only if the daemon failed one of
\* their requests, or the drill's deadline cut off the create request.
THEOREM DockerLeaksNeedFailedCall == Docker!Spec => []Docker!LeakNeedsFailedCall
<1>1. DockerIInv => Docker!LeakNeedsFailedCall
  BY DEF DockerIInv, DockerOwned, Docker!LeakNeedsFailedCall
<1> QED BY <1>1, DockerTargetsInvariant, PTL

-----------------------------------------------------------------------------
(* The refinement of TargetService                                         *)

LEMMA DockerInitRefines == Docker!Init => Docker!Service!Init
<1> SUFFICES ASSUME Docker!Init PROVE Docker!Service!Init
  OBVIOUS
<1>1. Docker!statusBar = [c \in Call |-> "pending"]
  BY DEF Docker!Init, Docker!statusBar, Docker!Ended
<1>2. Docker!targetBar = [c \in Call |-> "never"]
  BY DEF Docker!Init, Docker!targetBar
<1> QED BY <1>1, <1>2 DEF Docker!Service!Init

\* The steps of a call, and of its container.
DockerMoves(c) == Docker!Caller(c) \/ Docker!ServeCreate(c) \/ Docker!ExitContainer(c)

\* A step of one call changes nothing of another.
LEMMA DockerOthersKeep ==
  ASSUME DockerIInv, NEW c \in Call, DockerMoves(c),
         NEW d \in Call, d # c
  PROVE  /\ Docker!statusBar'[d] = Docker!statusBar[d]
         /\ Docker!targetBar'[d] = Docker!targetBar[d]
<1>1. /\ dockerPc'[d] = dockerPc[d]
      /\ container'[d] = container[d]
      /\ d \in dockerFailed' <=> d \in dockerFailed
  BY DEF DockerMoves, DockerIInv, Docker!TypeOK, Docker!Caller, Docker!ServeCreate,
       Docker!InspectImage, Docker!PullImage,
       Docker!CreateContainer, Docker!StartContainer, Docker!InspectContainer,
       Docker!Unwind, Docker!StopContainer, Docker!Destroy, Docker!RemoveContainer,
       Docker!ExitContainer, Docker!Goto, Docker!Becomes
<1> QED BY <1>1 DEF Docker!statusBar, Docker!targetBar

LEMMA DockerStuttersAt ==
  ASSUME DockerIInv, NEW c \in Call, DockerMoves(c),
         Docker!statusBar'[c] = Docker!statusBar[c], Docker!targetBar'[c] = Docker!targetBar[c]
  PROVE  UNCHANGED Docker!Service!vars
<1>1. \A d \in Call : /\ Docker!statusBar'[d] = Docker!statusBar[d]
                      /\ Docker!targetBar'[d] = Docker!targetBar[d]
  BY DockerOthersKeep
<1>2. UNCHANGED Docker!statusBar
  BY <1>1 DEF Docker!statusBar
<1>3. UNCHANGED Docker!targetBar
  BY <1>1 DEF Docker!targetBar
<1> QED BY <1>2, <1>3 DEF Docker!Service!vars

LEMMA DockerChangesAt ==
  ASSUME DockerIInv, NEW c \in Call, DockerMoves(c)
  PROVE  /\ Docker!statusBar' = [Docker!statusBar EXCEPT ![c] = Docker!statusBar'[c]]
         /\ Docker!targetBar' = [Docker!targetBar EXCEPT ![c] = Docker!targetBar'[c]]
<1> DEFINE sc == Docker!statusBar'[c]
           tc == Docker!targetBar'[c]
<1>1. \A d \in Call : d # c => /\ Docker!statusBar'[d] = Docker!statusBar[d]
                               /\ Docker!targetBar'[d] = Docker!targetBar[d]
  BY DockerOthersKeep
<1>2. Docker!statusBar' = [Docker!statusBar EXCEPT ![c] = sc]
  <2>1. \A d \in Call : Docker!statusBar'[d] = IF d = c THEN sc ELSE Docker!statusBar[d]
    BY <1>1
  <2> HIDE DEF sc
  <2> QED BY <2>1 DEF Docker!statusBar
<1>3. Docker!targetBar' = [Docker!targetBar EXCEPT ![c] = tc]
  <2>1. \A d \in Call : Docker!targetBar'[d] = IF d = c THEN tc ELSE Docker!targetBar[d]
    BY <1>1
  <2> HIDE DEF tc
  <2> QED BY <2>1 DEF Docker!targetBar
<1> QED BY <1>2, <1>3

\* A call that ends without handing anything out refuses or releases.
LEMMA DockerPartingRefines ==
  ASSUME DockerIInv, NEW c \in Call, Docker!Caller(c),
         dockerPc[c] \notin Docker!Ended, dockerPc'[c] \in Docker!Ended,
         dockerPc'[c] = "released" <=> dockerPc[c] = "removing", dockerPc[c] # "held",
         \/ Docker!targetBar'[c] = Docker!targetBar[c] /\ Docker!targetBar[c] = "never"
         \/ Docker!targetBar[c] = "never" /\ Docker!targetBar'[c] = "lost"
         \/ Docker!targetBar[c] = "live" /\ Docker!targetBar'[c] \in {"removed", "lost"}
  PROVE  Docker!Service!Next
<1>1. /\ Docker!statusBar' = [Docker!statusBar EXCEPT ![c] = Docker!statusBar'[c]]
      /\ Docker!targetBar' = [Docker!targetBar EXCEPT ![c] = Docker!targetBar'[c]]
  BY DockerChangesAt DEF DockerMoves
<1>2. Docker!Service!Part(c)
  BY <1>1 DEF Docker!Service!Part
<1>3. \/ Docker!statusBar[c] = "pending" /\ Docker!statusBar'[c] = "refused"
      \/ Docker!statusBar[c] = "handed" /\ Docker!statusBar'[c] = "released"
  BY DEF Docker!statusBar, Docker!Ended
<1> QED BY <1>1, <1>2, <1>3 DEF Docker!Service!Refuse, Docker!Service!Release,
     Docker!Service!Next

LEMMA DockerCallerRefines ==
  ASSUME DockerIInv, NEW c \in Call, Docker!Caller(c)
  PROVE  [Docker!Service!Next]_Docker!Service!vars
<1> USE DEF Docker!Goto, Docker!Becomes
<1>1. Docker!TypeOK /\ DockerOwned
  BY DEF DockerIInv
<1>2. /\ Docker!statusBar' = [Docker!statusBar EXCEPT ![c] = Docker!statusBar'[c]]
      /\ Docker!targetBar' = [Docker!targetBar EXCEPT ![c] = Docker!targetBar'[c]]
  BY DockerChangesAt DEF DockerMoves
<1>3. CASE Docker!InspectImage(c) \/ Docker!PullImage(c)
  <2>1. /\ dockerPc[c] \in {"start", "pulling"} /\ container[c] = "none" /\ UNCHANGED container
        /\ dockerPc'[c] \in {"creating", "pulling", "refused"}
    BY <1>1, <1>3 DEF Docker!InspectImage, Docker!PullImage, Docker!TypeOK, DockerOwned
  <2>2. Docker!targetBar[c] = "never" /\ Docker!targetBar'[c] = "never"
    BY <2>1 DEF Docker!targetBar
  <2>3. CASE dockerPc'[c] = "refused"
    BY <2>1, <2>2, <2>3, DockerPartingRefines DEF Docker!Ended
  <2>4. CASE dockerPc'[c] # "refused"
    <3>1. Docker!statusBar'[c] = Docker!statusBar[c]
      BY <2>1, <2>4 DEF Docker!statusBar, Docker!Ended
    <3> QED BY <2>2, <3>1, DockerStuttersAt DEF DockerMoves
  <2> QED BY <2>3, <2>4
<1>4. CASE Docker!CreateContainer(c)
  <2>1. dockerPc[c] = "creating" /\ container[c] = "none"
    BY <1>1, <1>4 DEF Docker!CreateContainer, DockerOwned
  <2>2. Docker!targetBar[c] = "never" /\ Docker!statusBar[c] = "pending"
    BY <2>1 DEF Docker!targetBar, Docker!statusBar, Docker!Ended
  <2>3. CASE dockerPc'[c] = "starting" /\ container'[c] = "created"
    <3>1. Docker!statusBar'[c] = "pending" /\ Docker!targetBar'[c] = "live"
      BY <2>3 DEF Docker!statusBar, Docker!targetBar, Docker!Ended
    <3>2. UNCHANGED Docker!statusBar
      <4>1. \A d \in Call : Docker!statusBar'[d] = Docker!statusBar[d]
        BY <2>2, <3>1, DockerOthersKeep DEF DockerMoves
      <4> QED BY <4>1 DEF Docker!statusBar
    <3> QED BY <1>2, <2>2, <3>1, <3>2 DEF Docker!Service!Provision, Docker!Service!Next
  <2>4. CASE dockerPc'[c] = "refused" /\ container'[c] = "created" /\ c \in dockerFailed'
    <3>1. Docker!targetBar'[c] = "lost"
      BY <2>4 DEF Docker!targetBar, Docker!Ended
    <3> QED BY <2>1, <2>2, <2>4, <3>1, DockerPartingRefines DEF Docker!Ended
  <2>5. CASE dockerPc'[c] = "refused" /\ container'[c] \in {"none", "asked"}
    <3>1. Docker!targetBar'[c] = "never"
      BY <2>5 DEF Docker!targetBar
    <3> QED BY <2>1, <2>2, <2>5, <3>1, DockerPartingRefines DEF Docker!Ended
  <2> QED BY <1>1, <1>4, <2>1, <2>3, <2>4, <2>5 DEF Docker!CreateContainer, Docker!TypeOK
<1>5. CASE Docker!StartContainer(c) \/ Docker!StopContainer(c)
           \/ (Docker!InspectContainer(c) /\ dockerPc'[c] = "unwinding")
  <2>1. /\ container[c] \in Docker!States /\ container'[c] \in Docker!States
        /\ \/ /\ dockerPc[c] \in {"starting", "inspecting"}
              /\ dockerPc'[c] \in {"inspecting", "unwinding"}
           \/ dockerPc[c] = "held" /\ dockerPc'[c] = "removing"
    BY <1>1, <1>5 DEF Docker!StartContainer, Docker!StartFailed, Docker!StopContainer,
         Docker!InspectContainer, Docker!TypeOK, DockerOwned, DockerOwning, Docker!States
  <2>2. Docker!statusBar'[c] = Docker!statusBar[c] /\ Docker!targetBar'[c] = Docker!targetBar[c]
    BY <2>1 DEF Docker!statusBar, Docker!targetBar, Docker!Ended, Docker!States
  <2> QED BY <2>2, DockerStuttersAt DEF DockerMoves
<1>6. CASE Docker!InspectContainer(c) /\ dockerPc'[c] # "unwinding"
  <2>1. /\ dockerPc[c] = "inspecting" /\ dockerPc'[c] = "held"
        /\ container[c] \in Docker!States /\ UNCHANGED container
    BY <1>1, <1>6 DEF Docker!InspectContainer, Docker!TypeOK, DockerOwned, DockerOwning
  <2>2. /\ Docker!statusBar[c] = "pending" /\ Docker!statusBar'[c] = "handed"
        /\ Docker!targetBar[c] = "live" /\ Docker!targetBar'[c] = "live"
    BY <2>1 DEF Docker!statusBar, Docker!targetBar, Docker!Ended, Docker!States
  <2>3. Docker!targetBar' = Docker!targetBar
    BY <1>2, <2>2 DEF Docker!targetBar
  <2> QED BY <1>2, <2>2, <2>3 DEF Docker!Service!Hand, Docker!Service!Next
<1>7. CASE Docker!Unwind(c) \/ Docker!Destroy(c)
  <2>1. PICK step \in Docker!Ended : /\ Docker!RemoveContainer(c, step)
                              /\ \/ dockerPc[c] = "unwinding" /\ step = "refused"
                                 \/ dockerPc[c] = "removing" /\ step = "released"
    BY <1>7 DEF Docker!Unwind, Docker!Destroy, Docker!Ended
  <2>2. /\ container[c] \in Docker!States /\ dockerPc'[c] = step
        /\ container'[c] = "removed" \/ (container'[c] = container[c] /\ c \in dockerFailed')
    BY <1>1, <2>1 DEF Docker!RemoveContainer, Docker!RemoveContextLive, Docker!TypeOK,
         DockerOwned, DockerOwning
  <2>3. Docker!targetBar[c] = "live" /\ Docker!targetBar'[c] \in {"removed", "lost"}
    BY <2>1, <2>2 DEF Docker!targetBar, Docker!Ended, Docker!States
  <2> QED BY <2>1, <2>2, <2>3, DockerPartingRefines DEF Docker!Ended
<1> QED BY <1>3, <1>4, <1>5, <1>6, <1>7 DEF Docker!Caller

LEMMA DockerStepRefines ==
  DockerIInv /\ [Docker!Next]_Docker!vars => [Docker!Service!Next]_Docker!Service!vars
<1> SUFFICES ASSUME DockerIInv, [Docker!Next]_Docker!vars
             PROVE  [Docker!Service!Next]_Docker!Service!vars
  OBVIOUS
<1>1. CASE \E c \in Call : Docker!Caller(c)
  BY <1>1, DockerCallerRefines
<1>2. ASSUME NEW c \in Call, Docker!ExitContainer(c)
      PROVE  [Docker!Service!Next]_Docker!Service!vars
  <2>1. /\ container[c] = "running" /\ container'[c] = "exited"
        /\ UNCHANGED <<dockerPc, dockerFailed>>
    BY <1>2 DEF Docker!ExitContainer, Docker!Becomes, DockerIInv, Docker!TypeOK
  <2>2. Docker!statusBar'[c] = Docker!statusBar[c] /\ Docker!targetBar'[c] = Docker!targetBar[c]
    BY <2>1 DEF Docker!statusBar, Docker!targetBar
  <2> QED BY <1>2, <2>2, DockerStuttersAt DEF DockerMoves
<1>3. CASE Docker!PruneImage \/ (\E c \in Call : Docker!Expire(c)) \/ UNCHANGED Docker!vars
  BY <1>3 DEF Docker!PruneImage, Docker!Expire, Docker!vars, Docker!statusBar,
       Docker!targetBar, Docker!Service!vars
<1>4. ASSUME NEW c \in Call, Docker!ServeCreate(c)
      PROVE  [Docker!Service!Next]_Docker!Service!vars
  <2>1. /\ dockerPc[c] = "refused" /\ c \in dockerFailed /\ container[c] = "asked"
        /\ container'[c] \in {"created", "none"}
        /\ UNCHANGED <<dockerPc, dockerFailed>>
    BY <1>4 DEF Docker!ServeCreate, Docker!Becomes, DockerIInv, DockerOwned, Docker!TypeOK
  <2>2. /\ Docker!targetBar[c] = "never" /\ Docker!statusBar[c] = "refused"
        /\ Docker!statusBar' = Docker!statusBar
        /\ Docker!targetBar' = [Docker!targetBar EXCEPT ![c] = Docker!targetBar'[c]]
    BY <1>4, <2>1, DockerChangesAt DEF DockerMoves, Docker!statusBar, Docker!targetBar,
         Docker!Ended
  <2>3. CASE container'[c] = "none"
    <3>1. Docker!targetBar'[c] = Docker!targetBar[c]
      BY <2>1, <2>3 DEF Docker!targetBar
    <3> QED BY <1>4, <2>2, <3>1, DockerStuttersAt DEF DockerMoves
  <2>4. CASE container'[c] = "created"
    <3>1. Docker!targetBar'[c] = "lost"
      BY <2>1, <2>4 DEF Docker!targetBar, Docker!Ended
    <3> QED BY <2>2, <3>1 DEF Docker!Service!Provision, Docker!Service!Next
  <2> QED BY <2>1, <2>3, <2>4
<1> QED BY <1>1, <1>2, <1>3, <1>4 DEF Docker!Next

\* Create and Destroy keep the promise of the runtime, whatever the number of
\* drills that share the daemon.
THEOREM DockerRuntimeImplementsService == Docker!Spec => Docker!ImplementsTargetService
BY DockerInitRefines, DockerStepRefines, DockerTargetsInvariant, PTL
   DEF Docker!Spec, Docker!ImplementsTargetService, Docker!Service!Spec

-----------------------------------------------------------------------------
(* The runtime of a command                                                *)

\* A step of a command is one of the runtime it has, and then none of the other.
LEMMA EachRuntimeSteps ==
  [RuntimesNext]_runtimes => [Next]_vars /\ [Docker!Next]_Docker!vars
<1> SUFFICES ASSUME [RuntimesNext]_runtimes
             PROVE  [Next]_vars /\ [Docker!Next]_Docker!vars
  OBVIOUS
<1>1. docker' = docker => UNCHANGED Docker!vars
  BY DEF docker, Docker!vars
<1>2. CASE UNCHANGED runtimes
  BY <1>1, <1>2 DEF runtimes
<1>3. CASE NewRuntime
  BY <1>1, <1>3 DEF NewRuntime
<1>4. CASE OnKubernetes(Next)
  BY <1>1, <1>4 DEF OnKubernetes
<1>5. CASE OnDocker(Docker!Next)
  BY <1>5 DEF OnDocker
<1> QED BY <1>2, <1>3, <1>4, <1>5 DEF RuntimesNext

\* Behind newRuntime each runtime behaves as it does alone.
LEMMA EachRuntimeIsItself == RuntimesSpec => Spec /\ Docker!Spec
<1>1. RuntimesInit => Init /\ Docker!Init
  BY DEF RuntimesInit
<1> QED BY <1>1, EachRuntimeSteps, PTL DEF RuntimesSpec, Spec, Docker!Spec

\* Whatever mode a command was given, a pod that Create has handed out is there
\* until its own drill destroys it, for any number of parallel drills.
THEOREM HandedTargetsSurviveRuntimes == RuntimesSpec => []HandedTargetSurvives
BY EachRuntimeIsItself, HandedTargetsSurvive, PTL

\* A command's Kubernetes runtime keeps the promise of Create and Destroy.
THEOREM KubernetesServes == RuntimesSpec => ImplementsTargetService
BY EachRuntimeIsItself, RuntimeImplementsService, PTL

\* A command's Docker runtime keeps the promise of Create and Destroy.
THEOREM DockerServes == RuntimesSpec => DockerImplementsTargetService
<1>1. RuntimesSpec => Docker!ImplementsTargetService
  BY EachRuntimeIsItself, DockerRuntimeImplementsService, PTL
<1> QED BY <1>1 DEF DockerImplementsTargetService

\* Neither runtime leaves a target behind unless the interface it talks to failed
\* a request of the call, or the drill's deadline cut off its create request: no
\* step of the other runtime, no bad start, and no deadline once Create knows of
\* the target, is enough.
THEOREM LeaksNeedAFailedCall ==
  RuntimesSpec => [](LeakNeedsFailedCall /\ Docker!LeakNeedsFailedCall)
BY EachRuntimeIsItself, KubernetesLeaksNeedFailedCall, DockerLeaksNeedFailedCall, PTL
=============================================================================
