---------------------------- MODULE ReportingProofs ----------------------------
(***************************************************************************)
(* What Report promises for any alerts, destinations and number of         *)
(* attempts.  IInv says how far the chain has been built (ChainInv), what  *)
(* the reporters behind the current one have done (BehindInv), and how     *)
(* often each endpoint can have been reached (CountInv).                   *)
(***************************************************************************)
EXTENDS Reporting, TLAPS

Last == Len(chain)

ChainInv ==
  /\ phase # "building" => next = Len(Alerts) + 1
  /\ \A i \in 1..Len(Alerts) :
       i < next /\ Alerts[i].dest # NoDest => \E k \in 1..Last : chain[k] = Alerts[i]
  /\ \A j, k \in 1..Last : chain[j] = chain[k] => j = k

Done(k) == Gated(k) \/ (k \in acked /\ received[k] > 0)

BehindInv ==
  /\ phase = "building" => current = 1
  /\ phase = "posting" => current <= Last
  /\ \A k \in 1..Last : k < current => Done(k)
  /\ phase = "returned" => err # 0 \/ current > Last
  /\ phase # "returned" => err = 0

CountInv ==
  /\ \A k \in Slots : received[k] <= lost[k] + 1 /\ received[k] <= MaxAttempts
  /\ \A k \in Slots : k > current \/ (k = current /\ phase \in {"building", "publishing"})
                        => received[k] = 0 /\ lost[k] = 0
  /\ phase = "posting" => /\ received[current] = lost[current]
                          /\ received[current] <= attempt

IInv == TypeOK /\ ChainInv /\ BehindInv /\ CountInv

LEMMA Sizes ==
  ASSUME TypeOK
  PROVE  /\ MaxAttempts \in Nat \ {0} /\ Len(Alerts) \in Nat /\ Last \in Nat
         /\ 1..Last \subseteq Slots /\ Slots \subseteq Nat
         /\ current \in Nat /\ attempt \in Nat /\ next \in Nat
BY ReportingAssumption DEF TypeOK, Slots, Last

LEMMA InitEstablishes == Init => IInv
<1> SUFFICES ASSUME Init PROVE IInv
  OBVIOUS
<1> USE ReportingAssumption
<1>1. chain \in Seq(Reporter) /\ Len(chain) = 1
  BY DEF Init, Reporter
<1>2. TypeOK
  <2>1. /\ received \in [Slots -> Nat] /\ lost \in [Slots -> Nat]
        /\ Len(Alerts) \in Nat
    BY DEF Init
  <2>2. anyFailed \in BOOLEAN
    BY DEF Init
  <2> QED BY <1>1, <2>1, <2>2 DEF Init, TypeOK
<1>3. ChainInv /\ BehindInv
  BY <1>1 DEF Init, ChainInv, BehindInv, Last
<1>4. CountInv
  BY DEF Init, CountInv
<1> QED BY <1>2, <1>3, <1>4 DEF IInv

LEMMA CountsOne ==
  ASSUME NEW counts \in [Slots -> Nat], current \in Slots, counts[current] <= MaxAttempts,
         MaxAttempts \in Nat
  PROVE  /\ CountOne(counts) \in [Slots -> Nat]
         /\ CountOne(counts)[current] = counts[current] + 1
         /\ \A k \in Slots \ {current} : CountOne(counts)[k] = counts[k]
BY DEF CountOne

-----------------------------------------------------------------------------
\* buildReporter keeps one reporter for each alert it has seen.
LEMMA BuildPreserves ==
  ASSUME IInv, BuildNext
  PROVE  IInv'
<1>1. /\ TypeOK /\ ChainInv /\ BehindInv /\ CountInv
      /\ phase = "building" /\ next <= Len(Alerts) /\ next' = next + 1
      /\ UNCHANGED <<phase, anyFailed, current, attempt, received, lost, acked, err>>
  BY DEF IInv, BuildNext, endpoints
<1> DEFINE a == Alerts[next]
<1>2. /\ a \in Alert /\ Len(Alerts) \in Nat /\ next \in Nat /\ chain \in Seq(Reporter)
      /\ Len(chain) \in 1..next
  BY <1>1, ReportingAssumption, Sizes DEF TypeOK
<1>3. \/ /\ a.dest = NoDest \/ Seen(a)
         /\ chain' = chain
      \/ /\ a.dest # NoDest /\ ~Seen(a)
         /\ chain' = Append(chain, a)
  BY DEF BuildNext
<1> HIDE DEF a
<1>4. CASE chain' = chain /\ (a.dest = NoDest \/ Seen(a))
  <2>1. TypeOK'
    BY <1>1, <1>2, <1>4 DEF TypeOK
  <2>2. ChainInv'
    BY <1>1, <1>2, <1>4 DEF ChainInv, Seen, Last, a
  <2>3. BehindInv' /\ CountInv'
    BY <1>1, <1>4 DEF BehindInv, CountInv, Done, Gated, Last
  <2> QED BY <2>1, <2>2, <2>3 DEF IInv
<1>5. CASE chain' = Append(chain, a) /\ a.dest # NoDest /\ ~Seen(a)
  <2>1. a \in Reporter
    BY <1>2, <1>5 DEF Alert, Reporter
  <2>2. /\ chain' \in Seq(Reporter) /\ Len(chain') = Len(chain) + 1
        /\ \A k \in 1..Len(chain) : chain'[k] = chain[k]
        /\ chain'[Len(chain) + 1] = a
    BY <1>2, <1>5, <2>1
  <2>3. TypeOK'
    BY <1>1, <1>2, <2>2 DEF TypeOK
  <2>4. ChainInv'
    <3>1. \A i \in 1..Len(Alerts) : i < next' /\ Alerts[i].dest # NoDest =>
            \E k \in 1..Len(chain') : chain'[k] = Alerts[i]
      <4> SUFFICES ASSUME NEW i \in 1..Len(Alerts), i < next', Alerts[i].dest # NoDest
                   PROVE  \E k \in 1..Len(chain') : chain'[k] = Alerts[i]
        OBVIOUS
      <4>1. CASE i = next
        BY <1>2, <2>2, <4>1 DEF a
      <4>2. CASE i # next
        <5>1. PICK k \in 1..Len(chain) : chain[k] = Alerts[i]
          BY <1>1, <1>2, <4>2 DEF ChainInv, Last
        <5> QED BY <1>2, <2>2, <5>1
      <4> QED BY <4>1, <4>2
    <3>2. \A j, k \in 1..Len(chain') : chain'[j] = chain'[k] => j = k
      BY <1>1, <1>2, <1>5, <2>2 DEF ChainInv, Seen, Last
    <3> QED BY <1>1, <3>1, <3>2 DEF ChainInv, Last
  <2>5. BehindInv'
    BY <1>1, <1>2, <2>2 DEF BehindInv, Last
  <2>6. CountInv'
    BY <1>1 DEF CountInv
  <2> QED BY <2>3, <2>4, <2>5, <2>6 DEF IInv
<1> QED BY <1>3, <1>4, <1>5

\* The steps that ask no reporter.
LEMMA PassOnPreserves ==
  ASSUME IInv, StartReport \/ SkipGated \/ StartPost \/ FinishReport
  PROVE  IInv'
<1>1. /\ TypeOK /\ ChainInv /\ BehindInv /\ CountInv
      /\ UNCHANGED <<next, chain, anyFailed, received, lost, acked, err>>
      /\ phase' # "building"
  BY DEF IInv, StartReport, SkipGated, StartPost, FinishReport, AtReporter, built, endpoints
<1>2. ChainInv'
  <2>1. phase' # "building" => next' = Len(Alerts) + 1
    BY <1>1 DEF StartReport, SkipGated, StartPost, FinishReport, AtReporter, ChainInv
  <2> QED BY <1>1, <2>1 DEF ChainInv, Last
<1>3. CASE StartReport
  <2>1. /\ phase = "building" /\ phase' = "publishing" /\ UNCHANGED <<current, attempt>>
    BY <1>3 DEF StartReport
  <2>2. TypeOK'
    BY <1>1, <2>1 DEF TypeOK
  <2>3. BehindInv' /\ CountInv'
    BY <1>1, <2>1 DEF BehindInv, CountInv, Done, Gated, Last
  <2> QED BY <1>2, <2>2, <2>3 DEF IInv
<1>4. CASE SkipGated
  <2>1. /\ phase = "publishing" /\ phase' = phase /\ attempt' = attempt
        /\ current' = current + 1 /\ current <= Last /\ Gated(current)
    BY <1>4 DEF SkipGated, AtReporter, Last
  <2>2. TypeOK'
    BY <1>1, <2>1, Sizes DEF TypeOK, Last
  <2>3. BehindInv'
    <3>1. \A k \in 1..Last : k < current' => Done(k)
      BY <1>1, <2>1, Sizes DEF BehindInv, Done
    <3> QED BY <1>1, <2>1, <3>1 DEF BehindInv, Done, Gated, Last
  <2>4. CountInv'
    BY <1>1, <2>1, Sizes DEF CountInv
  <2> QED BY <1>2, <2>2, <2>3, <2>4 DEF IInv
<1>5. CASE StartPost
  <2>1. /\ phase = "publishing" /\ phase' = "posting" /\ attempt' = 0
        /\ current' = current /\ current <= Last
    BY <1>5 DEF StartPost, AtReporter, Last
  <2>2. TypeOK'
    BY <1>1, <2>1, Sizes DEF TypeOK
  <2>3. BehindInv'
    BY <1>1, <2>1 DEF BehindInv, Done, Gated, Last
  <2>4. current \in Slots
    <3>1. current \in 1..Last
      BY <1>1, <2>1, Sizes DEF TypeOK
    <3> QED BY <1>1, <3>1, Sizes
  <2>5. CountInv'
    <3>1. received[current] = 0 /\ lost[current] = 0
      BY <1>1, <2>1, <2>4 DEF CountInv
    <3>2. /\ received'[current'] = lost'[current'] /\ received'[current'] <= attempt'
      BY <1>1, <2>1, <3>1
    <3> QED BY <1>1, <2>1, <3>2 DEF CountInv
  <2> QED BY <1>2, <2>2, <2>3, <2>5 DEF IInv
<1>6. CASE FinishReport
  <2>1. /\ phase = "publishing" /\ phase' = "returned" /\ UNCHANGED <<current, attempt>>
        /\ current > Last
    BY <1>6 DEF FinishReport, Last
  <2>2. TypeOK'
    BY <1>1, <2>1 DEF TypeOK
  <2>3. BehindInv' /\ CountInv'
    BY <1>1, <2>1 DEF BehindInv, CountInv, Done, Gated, Last
  <2> QED BY <1>2, <2>2, <2>3 DEF IInv
<1> QED BY <1>3, <1>4, <1>5, <1>6

\* What a reporter that is asked does to the counts: it is reached or not, and
\* if so its answer may be lost.
Asked ==
  /\ current \in 1..Last /\ phase \in {"publishing", "posting"}
  /\ UNCHANGED <<next, chain, anyFailed>>
  /\ received' \in {received, CountOne(received)}
  /\ lost' \in {lost, CountOne(lost)}
  /\ lost' = lost \/ (phase = "posting" /\ received' = CountOne(received))

\* How the report goes on: to the next reporter, to the next attempt, or not.
GoesOn ==
  \/ /\ Succeed
     /\ lost' = lost /\ received' = CountOne(received) /\ attempt' = attempt
  \/ /\ AttemptAgain /\ MoreAttempts /\ phase = "posting"
     /\ UNCHANGED <<phase, current, acked, err>>
     /\ \/ UNCHANGED endpoints
        \/ received' = CountOne(received) /\ lost' = CountOne(lost)
  \/ GiveUp /\ attempt' = attempt

LEMMA AskedPreserves ==
  ASSUME IInv, Asked, GoesOn
  PROVE  IInv'
<1>1. /\ TypeOK /\ ChainInv /\ BehindInv /\ CountInv
      /\ current \in 1..Last /\ current \in Slots /\ current \in Nat
      /\ UNCHANGED <<next, chain, anyFailed>>
      /\ phase' # "building"
  BY Sizes DEF IInv, Asked, GoesOn, Succeed, GiveUp
<1>2. ChainInv'
  BY <1>1 DEF Asked, ChainInv, Last
<1> DEFINE Same(f) == \A k \in Slots \ {current} : f'[k] = f[k]
<1>3. /\ received[current] \in Nat /\ lost[current] \in Nat
      /\ received[current] <= MaxAttempts /\ lost[current] <= received[current]
      /\ received[current] <= lost[current] + 1
      /\ phase = "publishing" => received[current] = 0
      /\ phase = "posting" => received[current] = lost[current] /\ received[current] <= attempt
  BY <1>1 DEF TypeOK, CountInv, Asked
\* What CountOne makes of either.
<1>3a. /\ CountOne(received)[current] = received[current] + 1
      /\ CountOne(lost)[current] = lost[current] + 1
  <2>1. received \in [Slots -> Nat] /\ lost \in [Slots -> Nat] /\ MaxAttempts \in Nat
    BY <1>1, Sizes DEF TypeOK
  <2>2. lost[current] <= MaxAttempts
    BY <1>3, <2>1
  <2> QED BY <1>1, <1>3, <2>1, <2>2, CountsOne
<1>4. /\ received' \in [Slots -> Nat] /\ Same(received)
      /\ \/ received' = received
         \/ received'[current] = received[current] + 1 /\ received' # received
  BY <1>1, <1>3, Sizes, CountsOne DEF Asked, TypeOK
<1>5. /\ lost' \in [Slots -> Nat] /\ Same(lost)
      /\ \/ lost' = lost
         \/ /\ lost'[current] = lost[current] + 1 /\ phase = "posting"
            /\ received'[current] = received[current] + 1
  BY <1>1, <1>3, Sizes, CountsOne DEF Asked, TypeOK
<1>6. \A k \in Slots : received'[k] <= lost'[k] + 1 /\ received'[k] <= MaxAttempts
  <2>1. ASSUME NEW k \in Slots \ {current}
        PROVE  received'[k] <= lost'[k] + 1 /\ received'[k] <= MaxAttempts
    BY <1>1, <1>4, <1>5 DEF CountInv
  <2>2. received'[current] <= lost'[current] + 1
    BY <1>1, <1>3, <1>4, <1>5 DEF Asked
  <2>3. received'[current] <= MaxAttempts
    <3>1. MaxAttempts \in Nat \ {0} /\ attempt \in 0..(MaxAttempts - 1)
      BY <1>1, Sizes DEF TypeOK
    <3> QED BY <1>3, <1>4, <3>1 DEF Asked
  <2> QED BY <2>1, <2>2, <2>3
<1>7. \A k \in Slots : k > current => received'[k] = 0 /\ lost'[k] = 0
  BY <1>1, <1>4, <1>5 DEF CountInv
<1>8. \A k \in 1..Last : k < current => Done(k)'
  <2> SUFFICES ASSUME NEW k \in 1..Last, k < current PROVE Done(k)'
    OBVIOUS
  <2>1. Done(k) /\ received'[k] = received[k]
    BY <1>1, <1>4, Sizes DEF BehindInv
  <2> QED BY <1>1, <2>1 DEF Done, Gated, GoesOn, Succeed, GiveUp
<1>9. CASE Succeed /\ lost' = lost /\ received' = CountOne(received) /\ attempt' = attempt
  <2>1. /\ phase' = "publishing" /\ current' = current + 1 /\ err' = err
        /\ acked' = acked \cup {current}
    BY <1>9 DEF Succeed, built
  <2>2. TypeOK'
    BY <1>1, <1>4, <1>5, <1>9, <2>1, Sizes DEF TypeOK, Last
  <2>3. received'[current] > 0
    BY <1>3, <1>9, <1>3a
  <2>4. BehindInv'
    <3>1. \A k \in 1..Last : k < current' => Done(k)'
      BY <1>1, <1>8, <2>1, <2>3, Sizes DEF Done
    <3> QED BY <1>1, <2>1, <3>1 DEF BehindInv, Last, Asked
  <2>5. CountInv'
    BY <1>1, <1>6, <1>7, <2>1, Sizes DEF CountInv
  <2> QED BY <1>2, <2>2, <2>4, <2>5 DEF IInv
<1>10. CASE /\ AttemptAgain /\ MoreAttempts /\ phase = "posting"
            /\ UNCHANGED <<phase, current, acked, err>>
            /\ \/ UNCHANGED endpoints
               \/ received' = CountOne(received) /\ lost' = CountOne(lost)
  <2>1. attempt' = attempt + 1 /\ attempt' \in 0..(MaxAttempts - 1)
    BY <1>1, <1>10, Sizes DEF AttemptAgain, MoreAttempts, TypeOK
  <2>2. TypeOK'
    BY <1>1, <1>4, <1>5, <1>10, <2>1 DEF TypeOK, Last
  <2>3. BehindInv'
    BY <1>1, <1>8, <1>10 DEF BehindInv, Last
  <2>4. received'[current] = lost'[current] /\ received'[current] <= attempt'
    <3>1. CASE UNCHANGED endpoints
      BY <1>1, <1>3, <1>10, <2>1, <3>1, Sizes DEF endpoints
    <3>2. CASE received' = CountOne(received) /\ lost' = CountOne(lost)
      <4>1. /\ received'[current] = received[current] + 1
            /\ lost'[current] = lost[current] + 1
        BY <1>3a, <3>2
      <4> QED BY <1>1, <1>3, <1>10, <2>1, <4>1, Sizes
    <3> QED BY <1>10, <3>1, <3>2
  <2>5. CountInv'
    BY <1>1, <1>6, <1>7, <1>10, <2>4 DEF CountInv
  <2> QED BY <1>2, <2>2, <2>3, <2>5 DEF IInv
<1>11. CASE GiveUp /\ attempt' = attempt
  <2>1. /\ phase' = "returned" /\ err' = current /\ UNCHANGED <<current, acked>>
    BY <1>11 DEF GiveUp, built
  <2>2. TypeOK'
    BY <1>1, <1>4, <1>5, <1>11, <2>1, Sizes DEF TypeOK, Last
  <2>3. BehindInv'
    BY <1>1, <1>8, <2>1 DEF BehindInv, Last
  <2>4. CountInv'
    BY <1>1, <1>6, <1>7, <2>1 DEF CountInv
  <2> QED BY <1>2, <2>2, <2>3, <2>4 DEF IInv
<1> QED BY <1>9, <1>10, <1>11 DEF GoesOn

LEMMA NextPreserves == IInv /\ [Next]_vars => IInv'
<1> SUFFICES ASSUME IInv, [Next]_vars PROVE IInv'
  OBVIOUS
<1>1. TypeOK /\ BehindInv /\ current \in Nat /\ Last \in Nat
  BY Sizes DEF IInv
<1>2. CASE ReportLocal
  <2>1. Asked
    BY <1>1, <1>2 DEF ReportLocal, AtReporter, Asked, Succeed, GiveUp, built, TypeOK, Last
  <2>2. GoesOn
    BY <1>2 DEF ReportLocal, GoesOn
  <2> QED BY <2>1, <2>2, AskedPreserves
<1>3. CASE PostAccepted \/ PostFails \/ PostAnswerLost \/ PostRejected
  <2>1. current \in 1..Last /\ phase = "posting"
    BY <1>1, <1>3 DEF PostAccepted, PostFails, PostAnswerLost, PostRejected, BehindInv, TypeOK, Last
  <2>2. Asked /\ GoesOn
    BY <2>1, <1>3 DEF PostAccepted, PostFails, PostAnswerLost, PostRejected, RetryOrGiveUp,
         Processed, Asked, GoesOn, Succeed, GiveUp, built, endpoints
  <2> QED BY <2>2, AskedPreserves
<1>4. CASE Returned \/ UNCHANGED vars
  <2>1. /\ UNCHANGED <<phase, next, chain, anyFailed, current, attempt>>
        /\ UNCHANGED <<received, lost, acked, err>>
    BY <1>4 DEF Returned, vars, built, endpoints
  <2>2. TypeOK'
    BY <1>1, <2>1 DEF TypeOK
  <2>3. ChainInv' /\ CountInv'
    BY <2>1 DEF IInv, ChainInv, CountInv, Last
  <2>4. BehindInv'
    BY <1>1, <2>1 DEF BehindInv, Done, Gated, Last
  <2> QED BY <2>2, <2>3, <2>4 DEF IInv
<1> QED BY <1>2, <1>3, <1>4, BuildPreserves, PassOnPreserves DEF Next, Report

\* Every reachable state of the reporters satisfies the inductive invariant.
THEOREM ReportingInvariant == Spec => []IInv
BY InitEstablishes, NextPreserves, PTL DEF Spec

\* Every variable keeps its type.
THEOREM TypeCorrect == Spec => []TypeOK
<1>1. IInv => TypeOK
  BY DEF IInv
<1> QED BY <1>1, ReportingInvariant, PTL

\* When Multi.Report returns nil, each reporter of the chain has delivered the
\* results or was a failure-only one of a run without failures.
THEOREM NilIsDelivery == Spec => []NilMeansDelivered
<1>1. IInv => NilMeansDelivered
  <2> SUFFICES ASSUME IInv, phase = "returned", err = 0, NEW k \in 1..Len(chain)
               PROVE  Gated(k) \/ (k \in acked /\ received[k] > 0)
    BY DEF NilMeansDelivered
  <2>1. current > Last /\ current \in Nat /\ Last \in Nat
    BY Sizes DEF IInv, BehindInv
  <2> QED BY <2>1 DEF IInv, BehindInv, Done, Last
<1> QED BY <1>1, ReportingInvariant, PTL

\* post sends the same results again only after an answer it did not get, and
\* never more often than it has attempts.
THEOREM DuplicatesAreBounded == Spec => []DuplicatesNeedALostAnswer
<1>1. IInv => DuplicatesNeedALostAnswer
  BY Sizes DEF IInv, CountInv, DuplicatesNeedALostAnswer, Last
<1> QED BY <1>1, ReportingInvariant, PTL

\* buildReporter neither drops nor doubles an alert, whatever several drills
\* have in common.
THEOREM AlertsHaveOneReporter == Spec => []OneReporterPerAlert
<1>1. IInv => OneReporterPerAlert
  <2> SUFFICES ASSUME IInv, phase # "building", NEW i \in 1..Len(Alerts),
                      Alerts[i].dest # NoDest
               PROVE  \E k \in 1..Last : /\ chain[k] = Alerts[i]
                                         /\ \A j \in 1..Last : chain[j] = chain[k] => j = k
    BY DEF OneReporterPerAlert, Last
  <2>1. i < next
    BY Sizes DEF IInv, ChainInv
  <2> QED BY <2>1 DEF IInv, ChainInv
<1> QED BY <1>1, ReportingInvariant, PTL
=============================================================================
