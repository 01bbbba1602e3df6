-------------------------------- MODULE Limits --------------------------------
(***************************************************************************)
(* From restore.container.resources to the limits of the target: the       *)
(* engine parses the quantities (parseMemory, parseCPU), and the runtime   *)
(* hands them to Docker or to Kubernetes.                                  *)
(*                                                                         *)
(* Integers are as wide as int64 is next to the units: all quantities are  *)
(* scaled down, so that a small one overflows.                             *)
(***************************************************************************)
EXTENDS Integers, Sequences

CONSTANTS
  Memories,     \* [number : {} or {the integer before the suffix}, suffix]
  CPUs,         \* [number : {} or {millis, or else nanos}, milli : BOOLEAN]
  Bytes,        \* suffix |-> bytes, of the suffixes that parseMemory knows
  NanosOfMilli, \* 10^6
  Largest       \* the largest int64

ASSUME LimitsAssumption ==
  /\ NanosOfMilli \in Nat \ {0}
  /\ Largest \in Nat
  /\ \A s \in DOMAIN Bytes : Bytes[s] \in Nat \ {0}
  /\ \A q \in Memories \cup CPUs :
       q.number \subseteq Nat /\ \A i, j \in q.number : i = j

VARIABLES
  memory, cpu,   \* what the configuration asks, {} for nothing
  spec,          \* MemoryLimit and CPULimit of the ContainerSpec
  limit          \* memory in bytes and cpu in nanos of the target, 0 for no limit

limits == <<memory, cpu, spec, limit>>

LimitsInit == memory = {} /\ cpu = {} /\ spec = <<>> /\ limit = <<>>

Int64(n) == ((n + Largest + 1) % (2 * (Largest + 1))) - (Largest + 1)

Known(m) == m.number # {} /\ m.suffix \in DOMAIN Bytes

\* A quantity that is not understood is no limit, and no error.
parseMemory(m) ==
  IF ~Known(m) THEN {0} ELSE {Int64(n * Bytes[m.suffix]) : n \in m.number}

\* A float beyond int64 becomes what the processor makes of it.
FromFloat(nanos) ==
  IF nanos <= Largest THEN {nanos} ELSE {-Largest - 1, Largest}

parseCPU(c) ==
  IF c.number = {} THEN {0}
  ELSE IF c.milli THEN {Int64(n * NanosOfMilli) : n \in c.number}
  ELSE UNION {FromFloat(n) : n \in c.number}

\* executeDrill, where it fills the ContainerSpec.
ParseResources ==
  /\ spec = <<>>
  /\ memory' \in {{}} \cup {{m} : m \in Memories}
  /\ cpu' \in {{}} \cup {{c} : c \in CPUs}
  /\ \E m \in IF memory' = {} THEN {0} ELSE UNION {parseMemory(x) : x \in memory'},
        c \in IF cpu' = {} THEN {0} ELSE UNION {parseCPU(x) : x \in cpu'} :
       spec' = [MemoryLimit |-> m, CPULimit |-> c]
  /\ UNCHANGED limit

Positive(n) == IF n > 0 THEN n ELSE 0

CreateOnDocker ==
  /\ spec # <<>> /\ limit = <<>>
  /\ limit' = [memory |-> Positive(spec.MemoryLimit), cpu |-> Positive(spec.CPULimit)]
  /\ UNCHANGED <<memory, cpu, spec>>

\* Mutant: what is left of a milli counts as one.
RoundedUp(nanos) == (nanos + NanosOfMilli - 1) \div NanosOfMilli

\* Kubernetes is given whole millis.
Millis(nanos) == nanos \div NanosOfMilli

\* A quantity of 0 limits nothing.
CreateOnKubernetes ==
  /\ spec # <<>> /\ limit = <<>>
  /\ limit' = [memory |-> Positive(spec.MemoryLimit),
               cpu |-> Millis(Positive(spec.CPULimit)) * NanosOfMilli]
  /\ UNCHANGED <<memory, cpu, spec>>

LimitsNext == ParseResources \/ CreateOnDocker \/ CreateOnKubernetes

LimitsSpec == LimitsInit /\ [][LimitsNext]_limits

-----------------------------------------------------------------------------
(* Properties                                                              *)

MemoryAsked(m) == IF Known(m) THEN {n * Bytes[m.suffix] : n \in m.number} ELSE {}
CPUAsked(c) == IF c.milli THEN {n * NanosOfMilli : n \in c.number} ELSE c.number

\* executeDrill and the runtimes' Create: a target gets the memory and, up to a
\* milli, the CPU that the configuration asks for, and when it is limited at all
\* never more than that.  Excepted are quantities that are not of a documented
\* form or do not fit in an int64: they may leave the target without a limit, as
\* does a CPU of less than a milli on Kubernetes.
LimitsAreKept ==
  limit # <<>> =>
    /\ \A m \in memory : \A asked \in MemoryAsked(m) :
         /\ limit.memory # 0 => limit.memory <= asked
         /\ asked <= Largest => limit.memory = asked
    /\ \A c \in cpu : \A asked \in CPUAsked(c) :
         /\ limit.cpu # 0 => limit.cpu <= asked
         /\ asked <= Largest => limit.cpu <= asked /\ asked < limit.cpu + NanosOfMilli
=============================================================================
