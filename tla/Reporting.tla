------------------------------- MODULE Reporting -------------------------------
(***************************************************************************)
(* How a finished run is announced: buildReporter of internal/cli makes a  *)
(* chain of reporters from the drills' alerts, Multi.Report walks it,      *)
(* Conditional skips failure-only alerts of a run in which all drills      *)
(* passed, and httpDelivery.post sends to a webhook or Slack endpoint with *)
(* retries.  The network and the endpoints are the environment: a request  *)
(* or its response can be lost, and an endpoint can refuse.                *)
(***************************************************************************)
EXTENDS Naturals, Sequences

CONSTANTS
  Dest,         \* alert destinations: a type, a URL and headers
  Local,        \* the stdout, JSON or Markdown writer of --format
  NoDest,       \* an alert without a reporter: type prometheus, or no URL
  Alerts,       \* the alerts of all drills, in configuration order
  MaxAttempts   \* httpDelivery.MaxAttempts (3)

Alert == [dest : Dest \cup {NoDest}, on : {"always", "failure"}]

ASSUME ReportingAssumption ==
  /\ Local \notin Dest /\ NoDest \notin Dest
  /\ Alerts \in Seq(Alert)
  /\ MaxAttempts \in Nat \ {0}

Reporter == [dest : Dest \cup {Local}, on : {"always", "failure"}]

VARIABLES
  phase,      \* "building", "publishing", "posting" or "returned"
  next,       \* the alert buildReporter looks at next
  chain,      \* the reporters, the local one first
  anyFailed,  \* some drill of the run failed or errored
  current,    \* the reporter Multi is at
  attempt,    \* attempts post has made for it
  received,   \* per reporter: how often its endpoint processed the results
  lost,       \* per reporter: how often the sender did not learn of that
  acked,      \* reporters that returned nil after delivering
  err         \* the reporter whose error Report returned, 0 for nil

vars == <<phase, next, chain, anyFailed, current, attempt, received, lost, acked, err>>
built == <<next, chain, anyFailed>>
endpoints == <<received, lost>>

\* The chain has at most one reporter per alert and the local one.
Slots == 1..(Len(Alerts) + 1)

Init ==
  /\ phase = "building"
  /\ next = 1
  /\ chain = <<[dest |-> Local, on |-> "always"]>>
  /\ anyFailed \in BOOLEAN
  /\ current = 1
  /\ attempt = 0
  /\ received = [k \in Slots |-> 0]
  /\ lost = [k \in Slots |-> 0]
  /\ acked = {}
  /\ err = 0

-----------------------------------------------------------------------------
(* buildReporter                                                           *)

\* Mutant: alerts are told apart by their destination alone.
SeenDest(a) == \E k \in 1..Len(chain) : chain[k].dest = a.dest

\* seen[key]: an earlier drill has the same alert with the same condition.
Seen(a) == \E k \in 1..Len(chain) : chain[k] = a

\* The double loop over drills and alerts.
BuildNext ==
  /\ phase = "building"
  /\ next <= Len(Alerts)
  /\ next' = next + 1
  /\ LET a == Alerts[next] IN
       \/ /\ a.dest = NoDest \/ Seen(a)
          /\ UNCHANGED chain
       \/ /\ a.dest # NoDest /\ ~Seen(a)
          /\ chain' = Append(chain, a)
  /\ UNCHANGED <<phase, anyFailed, current, attempt, endpoints, acked, err>>

\* The drills have run; the engine calls Report with their results.
StartReport ==
  /\ phase = "building"
  /\ next = Len(Alerts) + 1
  /\ phase' = "publishing"
  /\ UNCHANGED <<built, current, attempt, endpoints, acked, err>>

-----------------------------------------------------------------------------
(* Multi.Report and Conditional.Report                                     *)

AtReporter == phase = "publishing" /\ current <= Len(chain)

Gated(k) == chain[k].on = "failure" /\ ~anyFailed

\* A failure-only alert of a run without failures is done at once.
SkipGated ==
  /\ AtReporter
  /\ Gated(current)
  /\ current' = current + 1
  /\ UNCHANGED <<phase, built, attempt, endpoints, acked, err>>

Succeed ==
  /\ acked' = acked \cup {current}
  /\ current' = current + 1
  /\ phase' = "publishing"
  /\ UNCHANGED <<built, err>>

\* Mutant: the error of a reporter is logged and Multi goes on to the next.
GiveUpQuietly ==
  /\ current' = current + 1
  /\ phase' = "publishing"
  /\ UNCHANGED <<built, acked, err>>

\* Multi returns the first error; the rest of the chain is not asked.
GiveUp ==
  /\ err' = current
  /\ phase' = "returned"
  /\ UNCHANGED <<built, current, acked>>

\* Counting stops one above the attempts that are allowed.
CountOne(counts) ==
  [counts EXCEPT ![current] = IF @ > MaxAttempts THEN @ ELSE @ + 1]

\* The local writer succeeds, or its output is closed.
ReportLocal ==
  /\ AtReporter
  /\ chain[current].dest = Local
  /\ Succeed \/ GiveUp
  /\ received' = CountOne(received)
  /\ UNCHANGED <<attempt, lost>>

\* Webhook and Slack marshal their body and enter post.
StartPost ==
  /\ AtReporter
  /\ chain[current].dest # Local
  /\ ~Gated(current)
  /\ phase' = "posting"
  /\ attempt' = 0
  /\ UNCHANGED <<built, current, endpoints, acked, err>>

\* Every reporter that was to be asked has returned nil.
FinishReport ==
  /\ phase = "publishing"
  /\ current > Len(chain)
  /\ phase' = "returned"
  /\ UNCHANGED <<built, current, attempt, endpoints, acked, err>>

-----------------------------------------------------------------------------
(* httpDelivery.post                                                       *)

Processed == received' = CountOne(received)

\* A 2xx answer arrives.
PostAccepted ==
  /\ phase = "posting"
  /\ Processed
  /\ Succeed
  /\ UNCHANGED <<attempt, lost>>

MoreAttempts == attempt + 1 < MaxAttempts

\* Mutant: a retry starts counting afresh.
AttemptRestarts == attempt' = 0

AttemptAgain == attempt' = attempt + 1

\* A transport error or a 5xx answer: after the last attempt post returns it,
\* before that it waits and tries again.  The command's context never ends, so
\* the wait does not either way.
RetryOrGiveUp ==
  \/ /\ MoreAttempts
     /\ AttemptAgain
     /\ UNCHANGED <<phase, built, current, acked, err>>
  \/ /\ ~MoreAttempts
     /\ GiveUp
     /\ UNCHANGED attempt

\* No connection, a lost request, or a 5xx from an endpoint that did nothing.
PostFails ==
  /\ phase = "posting"
  /\ RetryOrGiveUp
  /\ UNCHANGED endpoints

\* The endpoint processed the request, but its answer was lost, timed out, or
\* is a 5xx all the same.
PostAnswerLost ==
  /\ phase = "posting"
  /\ Processed
  /\ lost' = CountOne(lost)
  /\ RetryOrGiveUp

\* Any other status is final.
PostRejected ==
  /\ phase = "posting"
  /\ GiveUp
  /\ UNCHANGED <<attempt, endpoints>>

Returned == phase = "returned" /\ UNCHANGED vars

Report == SkipGated \/ ReportLocal \/ StartPost \/ FinishReport \/ PostAccepted
          \/ PostFails \/ PostAnswerLost \/ PostRejected

Next == BuildNext \/ StartReport \/ Report \/ Returned

Spec == Init /\ [][Next]_vars

-----------------------------------------------------------------------------
(* Properties                                                              *)

\* Every variable has its type.
TypeOK ==
  /\ phase \in {"building", "publishing", "posting", "returned"}
  /\ next \in 1..(Len(Alerts) + 1)
  /\ chain \in Seq(Reporter)
  /\ Len(chain) \in 1..next
  /\ anyFailed \in BOOLEAN
  /\ current \in 1..(Len(chain) + 1)
  /\ attempt \in 0..(MaxAttempts - 1)
  /\ received \in [Slots -> Nat]
  /\ lost \in [Slots -> Nat]
  /\ acked \subseteq 1..Len(chain)
  /\ err \in 0..Len(chain)

\* When Report returns nil, every reporter of the chain has delivered the
\* results, except failure-only alerts of a run without failures.
NilMeansDelivered ==
  phase = "returned" /\ err = 0 =>
    \A k \in 1..Len(chain) : Gated(k) \/ (k \in acked /\ received[k] > 0)

\* An endpoint gets the same results twice only if it answered with an error
\* after processing them or its answer was lost,
\* and never more often than post has attempts.
DuplicatesNeedALostAnswer ==
  \A k \in 1..Len(chain) : /\ received[k] <= lost[k] + 1
                           /\ received[k] <= MaxAttempts

\* Alerts that several drills share become one reporter, and each distinct
\* alert keeps one of its own: always and failure are told apart.
OneReporterPerAlert ==
  phase # "building" =>
    \A i \in 1..Len(Alerts) :
      Alerts[i].dest # NoDest =>
        \E k \in 1..Len(chain) : /\ chain[k] = Alerts[i]
                                 /\ \A j \in 1..Len(chain) : chain[j] = chain[k] => j = k

\* "Report publishes results to each configured reporter", and an alert with
\* on: always "sends on every run": an endpoint that refuses or cannot be
\* reached keeps no other one from being tried.
EachReporterIsAsked ==
  phase = "returned" => \A k \in 1..Len(chain) : Gated(k) \/ k = err \/ received[k] > 0
=============================================================================
