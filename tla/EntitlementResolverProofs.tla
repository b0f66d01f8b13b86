---------------------- MODULE EntitlementResolverProofs ----------------------
(***************************************************************************)
(* Proofs about EntitlementResolver for every number of callers and keys,   *)
(* every retry budget, TTL and timeout.                                     *)
(*                                                                          *)
(* TypeOK is not inductive: the attempt counter stays within the budget     *)
(* only because a leader that sleeps has attempts left, and the failures    *)
(* counted stay within it only because they follow the attempts.  RetryInv  *)
(* says so.  FlightInv ties flights to their leaders; it carries everything *)
(* else.                                                                    *)
(***************************************************************************)
EXTENDS EntitlementResolver, TLAPS

\* The retry loop's counters, per place in the code.
RetryInv ==
    \A c \in Callers :
        /\ pc[c] \in {"call", "responded"} =>
              attempt[c] \in 1 .. RetryMaxAttempts /\ blips[c] = attempt[c] - 1
        /\ pc[c] = "backoff" =>
              attempt[c] \in 1 .. RetryMaxAttempts - 1 /\ blips[c] = attempt[c]
        /\ pc[c] \notin UpstreamPCs \cup {"deliver", "remember", "done"} => blips[c] = 0
        /\ pc[c] \notin {"deliver", "done"} => err[c] = "none"
        /\ err[c] = "exhausted" => blips[c] = RetryMaxAttempts

\* A caller leads exactly the flight of its key; a waiter waits for one.
FlightInv ==
    /\ \A c \in Callers : pc[c] \in LeaderPCs => flight[key[c]] = c
    /\ \A k \in Keys : flight[k] # NoCaller =>
          pc[flight[k]] \in LeaderPCs /\ key[flight[k]] = k
    /\ \A c \in Callers : pc[c] = "wait" => flight[key[c]] # NoCaller

\* The default key is a key.
THEOREM AnyKeyIsKey == AnyKey \in Keys
  BY KeysAssumption DEF AnyKey

\* The initial states satisfy the type invariant and the retry invariant.
LEMMA InitTypes == Init => TypeOK /\ RetryInv
  BY AnyKeyIsKey, TTLAssumption, RetryAssumption, TimeoutAssumption
     DEF Init, TypeOK, RetryInv, PCs, Errors, Answers, NoEntry, AgeCap, StaleCap,
         MaxNegativeStaleness, UpstreamPCs

\* Every step preserves the types and the counters of the retry loop.
LEMMA StepTypes ==
  ASSUME TypeOK, RetryInv, [Next]_vars
  PROVE  TypeOK' /\ RetryInv'
<1> USE TTLAssumption, RetryAssumption, TimeoutAssumption
    DEF TypeOK, RetryInv, PCs, Errors, Answers, UpstreamPCs, Goto,
        control, clocks, history
<1>1. ASSUME NEW c \in Callers, NEW k \in Keys, Start(c, k)
      PROVE  TypeOK' /\ RetryInv'
  BY <1>1 DEF Start
<1>2. ASSUME NEW c \in Callers, CheckCache(c)
      PROVE  TypeOK' /\ RetryInv'
  BY <1>2 DEF CheckCache, Sweep, NoEntry, AgeCap
<1>3. ASSUME NEW c \in Callers, Join(c)
      PROVE  TypeOK' /\ RetryInv'
  BY <1>3 DEF Join, Lead, Follow
<1>4. ASSUME NEW c \in Callers, Recheck(c)
      PROVE  TypeOK' /\ RetryInv'
  BY <1>4 DEF Recheck, Sweep, NoEntry, AgeCap
<1>5. ASSUME NEW c \in Callers, WhmcsAnswers(c)
      PROVE  TypeOK' /\ RetryInv'
  BY <1>5 DEF WhmcsAnswers
<1>6. ASSUME NEW c \in Callers, TransientFailure(c)
      PROVE  TypeOK' /\ RetryInv'
  BY <1>6 DEF TransientFailure, LastAttempt, Fail
<1>7. ASSUME NEW c \in Callers, PermanentFailure(c)
      PROVE  TypeOK' /\ RetryInv'
  BY <1>7 DEF PermanentFailure, Fail
<1>8. ASSUME NEW c \in Callers, WakeUp(c)
      PROVE  TypeOK' /\ RetryInv'
  BY <1>8 DEF WakeUp
<1>9. ASSUME NEW c \in Callers, AbortBackoff(c)
      PROVE  TypeOK' /\ RetryInv'
  BY <1>9 DEF AbortBackoff, Fail
<1>10. ASSUME NEW c \in Callers, Receive(c)
       PROVE  TypeOK' /\ RetryInv'
  BY <1>10 DEF Receive
<1>11. ASSUME NEW c \in Callers, Remember(c)
       PROVE  TypeOK' /\ RetryInv'
  BY <1>11 DEF Remember, Store, NoEntry, AgeCap
<1>12. ASSUME NEW c \in Callers, Deliver(c)
       PROVE  TypeOK' /\ RetryInv'
  BY <1>12 DEF Deliver, Waiters
<1>13. ASSUME NEW c \in Callers, Return(c)
       PROVE  TypeOK' /\ RetryInv'
  BY <1>13, AnyKeyIsKey DEF Return
<1>14. ASSUME NEW c \in Callers, Cancel(c)
       PROVE  TypeOK' /\ RetryInv'
  BY <1>14 DEF Cancel
<1>15. ASSUME NEW k \in Keys, NEW v \in Answers, WhmcsChange(k, v)
       PROVE  TypeOK' /\ RetryInv'
  BY <1>15 DEF WhmcsChange, StaleCap, MaxNegativeStaleness
<1>16. CASE Tick
  BY <1>16 DEF Tick, Older, NoEntry, AgeCap, StaleCap, MaxNegativeStaleness
<1>17. CASE UNCHANGED vars
  BY <1>17 DEF vars
<1> QED
  BY <1>1, <1>2, <1>3, <1>4, <1>5, <1>6, <1>7, <1>8, <1>9, <1>10, <1>11,
     <1>12, <1>13, <1>14, <1>15, <1>16, <1>17 DEF Next, CallerStep

-----------------------------------------------------------------------------
(* Flights and their leaders                                                *)

\* Every step keeps each flight with its one leader and each waiter with a flight.
LEMMA StepFlight ==
  ASSUME TypeOK, FlightInv, [Next]_vars
  PROVE  FlightInv'
<1> USE NoCallerAssumption
<1> USE DEF TypeOK, FlightInv, LeaderPCs, Goto, control, clocks, history
<1>1. ASSUME NEW c \in Callers, NEW k \in Keys, Start(c, k)
      PROVE  FlightInv'
  BY <1>1 DEF Start
<1>2. ASSUME NEW c \in Callers, CheckCache(c)
      PROVE  FlightInv'
  BY <1>2 DEF CheckCache, Sweep
<1>3. ASSUME NEW c \in Callers, Join(c)
      PROVE  FlightInv'
  BY <1>3 DEF Join, Lead, Follow
<1>4. ASSUME NEW c \in Callers, Recheck(c)
      PROVE  FlightInv'
  BY <1>4 DEF Recheck, Sweep
<1>5. ASSUME NEW c \in Callers, WhmcsAnswers(c)
      PROVE  FlightInv'
  BY <1>5 DEF WhmcsAnswers
<1>6. ASSUME NEW c \in Callers, TransientFailure(c)
      PROVE  FlightInv'
  BY <1>6 DEF TransientFailure, LastAttempt, Fail
<1>7. ASSUME NEW c \in Callers, PermanentFailure(c)
      PROVE  FlightInv'
  BY <1>7 DEF PermanentFailure, Fail
<1>8. ASSUME NEW c \in Callers, WakeUp(c)
      PROVE  FlightInv'
  BY <1>8 DEF WakeUp
<1>9. ASSUME NEW c \in Callers, AbortBackoff(c)
      PROVE  FlightInv'
  BY <1>9 DEF AbortBackoff, Fail
<1>10. ASSUME NEW c \in Callers, Receive(c)
       PROVE  FlightInv'
  BY <1>10 DEF Receive
<1>11. ASSUME NEW c \in Callers, Remember(c)
       PROVE  FlightInv'
  BY <1>11 DEF Remember, Store
<1>12. ASSUME NEW c \in Callers, Deliver(c)
       PROVE  FlightInv'
  BY <1>12 DEF Deliver, Waiters
<1>13. ASSUME NEW c \in Callers, Return(c)
       PROVE  FlightInv'
  BY <1>13, AnyKeyIsKey DEF Return
<1>14. ASSUME NEW c \in Callers, Cancel(c)
       PROVE  FlightInv'
  BY <1>14 DEF Cancel
<1>15. ASSUME NEW k \in Keys, NEW v \in Answers, WhmcsChange(k, v)
       PROVE  FlightInv'
  BY <1>15 DEF WhmcsChange
<1>16. CASE Tick
  BY <1>16 DEF Tick
<1>17. CASE UNCHANGED vars
  BY <1>17 DEF vars
<1> QED
  BY <1>1, <1>2, <1>3, <1>4, <1>5, <1>6, <1>7, <1>8, <1>9, <1>10, <1>11,
     <1>12, <1>13, <1>14, <1>15, <1>16, <1>17
     DEF Next, CallerStep

\* Nobody asks WHMCS for a key whose negative answer is remembered: a leader
\* asks only after a miss inside the flight, and only the leader can store a
\* negative answer.
LEMMA StepNoCall ==
  ASSUME TypeOK, FlightInv, NoCallWhileNegative, [Next]_vars
  PROVE  NoCallWhileNegative'
<1> USE NoCallerAssumption, TTLAssumption
<1> USE DEF TypeOK, FlightInv, LeaderPCs, UpstreamPCs, NoCallWhileNegative, NegativeHit,
            NoEntry, Goto, control, clocks, history
<1>1. ASSUME NEW c \in Callers, NEW k \in Keys, Start(c, k)
      PROVE  NoCallWhileNegative'
  BY <1>1 DEF Start
<1>2. ASSUME NEW c \in Callers, CheckCache(c)
      PROVE  NoCallWhileNegative'
  BY <1>2 DEF CheckCache, Sweep
<1>3. ASSUME NEW c \in Callers, Join(c)
      PROVE  NoCallWhileNegative'
  BY <1>3 DEF Join, Lead, Follow
<1>4. ASSUME NEW c \in Callers, Recheck(c)
      PROVE  NoCallWhileNegative'
  BY <1>4 DEF Recheck, Sweep
<1>5. ASSUME NEW c \in Callers, WhmcsAnswers(c)
      PROVE  NoCallWhileNegative'
  BY <1>5 DEF WhmcsAnswers
<1>6. ASSUME NEW c \in Callers, TransientFailure(c)
      PROVE  NoCallWhileNegative'
  BY <1>6 DEF TransientFailure, LastAttempt, Fail
<1>7. ASSUME NEW c \in Callers, PermanentFailure(c)
      PROVE  NoCallWhileNegative'
  BY <1>7 DEF PermanentFailure, Fail
<1>8. ASSUME NEW c \in Callers, WakeUp(c)
      PROVE  NoCallWhileNegative'
  BY <1>8 DEF WakeUp
<1>9. ASSUME NEW c \in Callers, AbortBackoff(c)
      PROVE  NoCallWhileNegative'
  BY <1>9 DEF AbortBackoff, Fail
<1>10. ASSUME NEW c \in Callers, Receive(c)
       PROVE  NoCallWhileNegative'
  BY <1>10 DEF Receive
<1>11. ASSUME NEW c \in Callers, Remember(c)
       PROVE  NoCallWhileNegative'
  BY <1>11 DEF Remember, Store
<1>12. ASSUME NEW c \in Callers, Deliver(c)
       PROVE  NoCallWhileNegative'
  BY <1>12 DEF Deliver, Waiters
<1>13. ASSUME NEW c \in Callers, Return(c)
       PROVE  NoCallWhileNegative'
  BY <1>13, AnyKeyIsKey DEF Return
<1>14. ASSUME NEW c \in Callers, Cancel(c)
       PROVE  NoCallWhileNegative'
  BY <1>14 DEF Cancel
<1>15. ASSUME NEW k \in Keys, NEW v \in Answers, WhmcsChange(k, v)
       PROVE  NoCallWhileNegative'
  BY <1>15 DEF WhmcsChange
<1>16. CASE Tick
  BY <1>16 DEF Tick, Older, AgeCap
<1>17. CASE UNCHANGED vars
  BY <1>17 DEF vars
<1> QED
  BY <1>1, <1>2, <1>3, <1>4, <1>5, <1>6, <1>7, <1>8, <1>9, <1>10, <1>11,
     <1>12, <1>13, <1>14, <1>15, <1>16, <1>17
     DEF Next, CallerStep

-----------------------------------------------------------------------------
(* How old an answer may be                                                 *)

\* A leader knows what WHMCS held while its flight was open, and so do its
\* followers; a non-empty answer is one of those values.
AnswerInv ==
    \A c \in Callers :
        /\ pc[c] \in LeaderPCs => upstream[key[c]] \in shared[c]
        /\ pc[c] = "wait" => shared[c] = shared[flight[key[c]]]
        /\ got[c] # None =>
              pc[c] \in {"responded", "deliver", "done"} /\ got[c] \in shared[c]

\* Every step keeps the answers of a flight among what WHMCS held since it opened.
LEMMA StepAnswer ==
  ASSUME TypeOK, FlightInv, AnswerInv, [Next]_vars
  PROVE  AnswerInv'
<1> USE NoCallerAssumption
<1> USE DEF TypeOK, FlightInv, AnswerInv, LeaderPCs, Answers, Goto,
            control, clocks, history
<1>1. ASSUME NEW c \in Callers, NEW k \in Keys, Start(c, k)
      PROVE  AnswerInv'
  BY <1>1 DEF Start
<1>2. ASSUME NEW c \in Callers, CheckCache(c)
      PROVE  AnswerInv'
  BY <1>2 DEF CheckCache, Sweep
<1>3. ASSUME NEW c \in Callers, Join(c)
      PROVE  AnswerInv'
  BY <1>3 DEF Join, Lead, Follow
<1>4. ASSUME NEW c \in Callers, Recheck(c)
      PROVE  AnswerInv'
  BY <1>4 DEF Recheck, Sweep
<1>5. ASSUME NEW c \in Callers, WhmcsAnswers(c)
      PROVE  AnswerInv'
  BY <1>5 DEF WhmcsAnswers
<1>6. ASSUME NEW c \in Callers, TransientFailure(c)
      PROVE  AnswerInv'
  BY <1>6 DEF TransientFailure, LastAttempt, Fail
<1>7. ASSUME NEW c \in Callers, PermanentFailure(c)
      PROVE  AnswerInv'
  BY <1>7 DEF PermanentFailure, Fail
<1>8. ASSUME NEW c \in Callers, WakeUp(c)
      PROVE  AnswerInv'
  BY <1>8 DEF WakeUp
<1>9. ASSUME NEW c \in Callers, AbortBackoff(c)
      PROVE  AnswerInv'
  BY <1>9 DEF AbortBackoff, Fail
<1>10. ASSUME NEW c \in Callers, Receive(c)
       PROVE  AnswerInv'
  BY <1>10 DEF Receive
<1>11. ASSUME NEW c \in Callers, Remember(c)
       PROVE  AnswerInv'
  BY <1>11 DEF Remember, Store
<1>12. ASSUME NEW c \in Callers, Deliver(c)
       PROVE  AnswerInv'
  BY <1>12 DEF Deliver, Waiters
<1>13. ASSUME NEW c \in Callers, Return(c)
       PROVE  AnswerInv'
  BY <1>13, AnyKeyIsKey DEF Return
<1>14. ASSUME NEW c \in Callers, Cancel(c)
       PROVE  AnswerInv'
  BY <1>14 DEF Cancel
<1>15. ASSUME NEW k \in Keys, NEW v \in Answers, WhmcsChange(k, v)
       PROVE  AnswerInv'
  <2>1. /\ UNCHANGED <<pc, key, flight, got>>
        /\ upstream' = [upstream EXCEPT ![k] = v]
        /\ \A c \in Callers :
              shared'[c] = IF pc[c] \in LeaderPCs \cup {"wait"} /\ key[c] = k
                           THEN shared[c] \cup {v} ELSE shared[c]
    BY <1>15 DEF WhmcsChange
  <2>2. ASSUME NEW c \in Callers, pc[c] \in LeaderPCs
        PROVE  upstream'[key[c]] \in shared'[c]
    <3>1. upstream[key[c]] \in shared[c] /\ key[c] \in Keys
      BY <2>2
    <3>2. shared'[c] = IF key[c] = k THEN shared[c] \cup {v} ELSE shared[c]
      BY <2>1, <2>2
    <3>3. CASE key[c] = k
      BY <2>1, <3>1, <3>2, <3>3
    <3>4. CASE key[c] # k
      BY <2>1, <3>1, <3>2, <3>4
    <3> QED
      BY <3>3, <3>4
  <2>3. ASSUME NEW c \in Callers, pc[c] = "wait"
        PROVE  shared'[c] = shared'[flight[key[c]]]
    <3> DEFINE d == flight[key[c]]
    <3>1. d \in Callers /\ pc[d] \in LeaderPCs /\ key[d] = key[c]
      BY <2>3
    <3>2. shared[c] = shared[d]
      BY <2>3
    <3> HIDE DEF d
    <3> HIDE DEF TypeOK, FlightInv, AnswerInv
    <3>3. shared'[c] = IF key[c] = k THEN shared[c] \cup {v} ELSE shared[c]
      BY <2>1, <2>3
    <3>4. shared'[d] = IF key[c] = k THEN shared[c] \cup {v} ELSE shared[c]
      BY <2>1, <3>1, <3>2
    <3>5. shared'[c] = shared'[d]
      BY <3>3, <3>4
    <3> QED
      BY <3>5 DEF d
  <2>4. ASSUME NEW c \in Callers, got[c] # None
        PROVE  /\ pc[c] \in {"responded", "deliver", "done"}
               /\ got[c] \in shared'[c]
    <3>1. pc[c] \in {"responded", "deliver", "done"} /\ got[c] \in shared[c]
      BY <2>4
    <3> HIDE DEF TypeOK, FlightInv, AnswerInv, LeaderPCs
    <3>2. shared[c] \subseteq shared'[c]
      BY <2>1
    <3> QED
      BY <3>1, <3>2
  <2> QED
    BY <2>1, <2>2, <2>3, <2>4 DEF AnswerInv
<1>16. CASE Tick
  BY <1>16 DEF Tick
<1>17. CASE UNCHANGED vars
  BY <1>17 DEF vars
<1> QED
  BY <1>1, <1>2, <1>3, <1>4, <1>5, <1>6, <1>7, <1>8, <1>9, <1>10, <1>11,
     <1>12, <1>13, <1>14, <1>15, <1>16, <1>17
     DEF Next, CallerStep

\* When WHMCS last had nothing for a key, along the way of a negative answer:
\* on the wire, about to be stored, stored, and handed out.
NegativeInv ==
    /\ \A c \in Callers :
          /\ pc[c] = "responded" /\ got[c] = None => sinceNone[key[c]] <= elapsed[c]
          /\ pc[c] = "remember" => sinceNone[key[c]] <= HttpTimeout
          /\ pc[c] \in {"deliver", "done"} /\ err[c] = "none" /\ got[c] = None
                => sinceNone[key[c]] <= MaxNegativeStaleness
    /\ \A k \in Keys :
          /\ NegativeHit(k) => sinceNone[k] <= HttpTimeout + negAge[k]
          /\ upstream[k] = None => sinceNone[k] = 0

\* Outside the upstream exchange a caller's answer is empty until it is given one.
LEMMA StepNegative ==
  ASSUME TypeOK, RetryInv, FlightInv, AnswerInv, NegativeInv, [Next]_vars
  PROVE  NegativeInv'
<1> USE NoCallerAssumption, TTLAssumption, TimeoutAssumption
<1> USE DEF TypeOK, NegativeInv, NegativeHit, MaxNegativeStaleness, StaleCap, NoEntry,
            Goto, control, clocks, history
<1>1. ASSUME NEW c \in Callers, NEW k \in Keys, Start(c, k)
      PROVE  NegativeInv'
  BY <1>1 DEF Start
<1>2. ASSUME NEW c \in Callers, CheckCache(c)
      PROVE  NegativeInv'
  BY <1>2 DEF CheckCache, Sweep
<1>3. ASSUME NEW c \in Callers, Join(c)
      PROVE  NegativeInv'
  BY <1>3 DEF Join, Lead, Follow
<1>4. ASSUME NEW c \in Callers, Recheck(c)
      PROVE  NegativeInv'
  BY <1>4 DEF Recheck, Sweep, AnswerInv, LeaderPCs
<1>5. ASSUME NEW c \in Callers, WhmcsAnswers(c)
      PROVE  NegativeInv'
  BY <1>5 DEF WhmcsAnswers
<1>6. ASSUME NEW c \in Callers, TransientFailure(c)
      PROVE  NegativeInv'
  BY <1>6 DEF TransientFailure, LastAttempt, Fail
<1>7. ASSUME NEW c \in Callers, PermanentFailure(c)
      PROVE  NegativeInv'
  BY <1>7 DEF PermanentFailure, Fail
<1>8. ASSUME NEW c \in Callers, WakeUp(c)
      PROVE  NegativeInv'
  BY <1>8 DEF WakeUp
<1>9. ASSUME NEW c \in Callers, AbortBackoff(c)
      PROVE  NegativeInv'
  BY <1>9 DEF AbortBackoff, Fail
<1>10. ASSUME NEW c \in Callers, Receive(c)
       PROVE  NegativeInv'
  BY <1>10 DEF Receive
<1>11. ASSUME NEW c \in Callers, Remember(c)
       PROVE  NegativeInv'
  BY <1>11 DEF Remember, Store
<1>12. ASSUME NEW c \in Callers, Deliver(c)
       PROVE  NegativeInv'
  BY <1>12 DEF Deliver, Waiters
<1>13. ASSUME NEW c \in Callers, Return(c)
       PROVE  NegativeInv'
  BY <1>13, AnyKeyIsKey DEF Return
<1>14. ASSUME NEW c \in Callers, Cancel(c)
       PROVE  NegativeInv'
  BY <1>14 DEF Cancel
<1>15. ASSUME NEW k \in Keys, NEW v \in Answers, WhmcsChange(k, v)
       PROVE  NegativeInv'
  BY <1>15 DEF WhmcsChange
<1>16. CASE Tick
  BY <1>16 DEF Tick, Older, AgeCap, StaleCap
<1>17. CASE UNCHANGED vars
  BY <1>17 DEF vars
<1> QED
  BY <1>1, <1>2, <1>3, <1>4, <1>5, <1>6, <1>7, <1>8, <1>9, <1>10, <1>11,
     <1>12, <1>13, <1>14, <1>15, <1>16, <1>17
     DEF Next, CallerStep

-----------------------------------------------------------------------------
(* The theorems                                                             *)

\* The inductive invariant.
IInv ==
    /\ TypeOK
    /\ RetryInv
    /\ FlightInv
    /\ NoCallWhileNegative
    /\ AnswerInv
    /\ NegativeInv

\* The inductive invariant holds initially.
LEMMA InitIInv == Init => IInv
<1> SUFFICES ASSUME Init PROVE IInv
  OBVIOUS
<1>1. TypeOK /\ RetryInv
  BY InitTypes
<1>2. FlightInv /\ NoCallWhileNegative /\ AnswerInv
  BY DEF Init, FlightInv, NoCallWhileNegative, AnswerInv, LeaderPCs, UpstreamPCs
<1>3. NegativeInv
  BY DEF Init, NegativeInv, NegativeHit
<1> QED
  BY <1>1, <1>2, <1>3 DEF IInv

\* Every reachable state satisfies the inductive invariant.
THEOREM Inductive == Spec => []IInv
<1>1. IInv /\ [Next]_vars => IInv'
  BY StepTypes, StepFlight, StepNoCall, StepAnswer, StepNegative DEF IInv
<1> QED
  BY InitIInv, <1>1, PTL DEF Spec

\* The types hold; the retry loop never exceeds its budget, whatever the budget.
THEOREM TypeCorrect == Spec => []TypeOK
<1>1. IInv => TypeOK
  BY DEF IInv
<1> QED
  BY Inductive, <1>1, PTL

\* One lookup upstream per key, for every number of callers.
THEOREM Coalescing == Spec => []OneUpstreamCallPerKey
<1>1. IInv => OneUpstreamCallPerKey
  BY DEF IInv, FlightInv, OneUpstreamCallPerKey, UpstreamPCs, LeaderPCs
<1> QED
  BY Inductive, <1>1, PTL

\* A blocked caller always has a leader at work for its key.
THEOREM NobodyOrphaned == Spec => []WaitersHaveLeader
<1>1. IInv => WaitersHaveLeader
  BY DEF IInv, TypeOK, FlightInv, WaitersHaveLeader
<1> QED
  BY Inductive, <1>1, PTL

\* WHMCS is never asked for a key whose negative answer is remembered.
THEOREM NegativeAnswersShield == Spec => []NoCallWhileNegative
<1>1. IInv => NoCallWhileNegative
  BY DEF IInv
<1> QED
  BY Inductive, <1>1, PTL

\* A non-empty answer was true at some moment of the flight that fetched it.
THEOREM PositiveFreshness == Spec => []FlightFresh
<1>1. IInv => FlightFresh
  BY DEF IInv, AnswerInv, FlightFresh
<1> QED
  BY Inductive, <1>1, PTL

\* A negative answer is at most the TTL and one HTTP attempt old, whatever both are.
THEOREM NegativeStaleness == Spec => []NegativeStalenessBounded
<1>1. IInv => NegativeStalenessBounded
  BY DEF IInv, NegativeInv, NegativeStalenessBounded
<1> QED
  BY Inductive, <1>1, PTL

\* Only a spent retry budget turns transient failures into an error.
THEOREM RetriesAreSpent == Spec => []BlipTolerance
<1>1. IInv => BlipTolerance
  BY DEF IInv, RetryInv, BlipTolerance
<1> QED
  BY Inductive, <1>1, PTL

-----------------------------------------------------------------------------
(* The resolver implements LookupService                                    *)

\* A pending caller's window holds what WHMCS holds; what a leader carries is
\* in its own window; an error comes with no answer.
HeldInv ==
    \A c \in Callers :
        /\ Pending(c) => upstream[key[c]] \in window[c]
        /\ pc[c] \in LeaderPCs /\ got[c] # None => got[c] \in window[c]
        /\ err[c] # "none" => got[c] = None

\* Every step keeps the answers of a flight in its leader's own window.
LEMMA StepHeld ==
  ASSUME TypeOK, RetryInv, AnswerInv, HeldInv, [Next]_vars
  PROVE  HeldInv'
<1> USE DEF TypeOK, HeldInv, Pending, LeaderPCs, Answers, Goto,
            control, clocks, history
<1>1. ASSUME NEW c \in Callers, NEW k \in Keys, Start(c, k)
      PROVE  HeldInv'
  BY <1>1 DEF Start, RetryInv, AnswerInv
<1>2. ASSUME NEW c \in Callers, CheckCache(c)
      PROVE  HeldInv'
  BY <1>2 DEF CheckCache, Sweep, RetryInv, AnswerInv
<1>3. ASSUME NEW c \in Callers, Join(c)
      PROVE  HeldInv'
  BY <1>3 DEF Join, Lead, Follow, AnswerInv
<1>4. ASSUME NEW c \in Callers, Recheck(c)
      PROVE  HeldInv'
  BY <1>4 DEF Recheck, Sweep, RetryInv, AnswerInv
<1>5. ASSUME NEW c \in Callers, WhmcsAnswers(c)
      PROVE  HeldInv'
  BY <1>5 DEF WhmcsAnswers, RetryInv, AnswerInv
<1>6. ASSUME NEW c \in Callers, TransientFailure(c)
      PROVE  HeldInv'
  BY <1>6 DEF TransientFailure, LastAttempt, Fail, RetryInv, AnswerInv
<1>7. ASSUME NEW c \in Callers, PermanentFailure(c)
      PROVE  HeldInv'
  BY <1>7 DEF PermanentFailure, Fail, RetryInv, AnswerInv
<1>8. ASSUME NEW c \in Callers, WakeUp(c)
      PROVE  HeldInv'
  BY <1>8 DEF WakeUp
<1>9. ASSUME NEW c \in Callers, AbortBackoff(c)
      PROVE  HeldInv'
  BY <1>9 DEF AbortBackoff, Fail, RetryInv, AnswerInv
<1>10. ASSUME NEW c \in Callers, Receive(c)
       PROVE  HeldInv'
  BY <1>10 DEF Receive
<1>11. ASSUME NEW c \in Callers, Remember(c)
       PROVE  HeldInv'
  BY <1>11 DEF Remember, Store
<1>12. ASSUME NEW c \in Callers, Deliver(c)
       PROVE  HeldInv'
  BY <1>12 DEF Deliver, Waiters
<1>13. ASSUME NEW c \in Callers, Return(c)
       PROVE  HeldInv'
  BY <1>13, AnyKeyIsKey DEF Return
<1>14. ASSUME NEW c \in Callers, Cancel(c)
       PROVE  HeldInv'
  BY <1>14 DEF Cancel
<1>15. ASSUME NEW k \in Keys, NEW v \in Answers, WhmcsChange(k, v)
       PROVE  HeldInv'
  BY <1>15 DEF WhmcsChange
<1>16. CASE Tick
  BY <1>16 DEF Tick
<1>17. CASE UNCHANGED vars
  BY <1>17 DEF vars
<1> QED
  BY <1>1, <1>2, <1>3, <1>4, <1>5, <1>6, <1>7, <1>8, <1>9, <1>10, <1>11,
     <1>12, <1>13, <1>14, <1>15, <1>16, <1>17
     DEF Next, CallerStep

\* The initial states are initial states of LookupService.
LEMMA RefineInit == Init => Lookup!Init
<1> SUFFICES ASSUME Init PROVE Lookup!Init
  OBVIOUS
<1>1. [c \in Callers |-> Phase(c)] = [c \in Callers |-> "idle"]
  BY DEF Init, Phase
<1>2. key \in [Callers -> Keys]
  BY AnyKeyIsKey DEF Init
<1>3. [c \in Callers |-> IF pc[c] = "done" THEN got[c] ELSE None]
        = [c \in Callers |-> None]
  BY DEF Init
<1>4. [c \in Callers |-> pc[c] = "done" /\ err[c] # "none"]
        = [c \in Callers |-> FALSE]
  BY DEF Init
<1>5. /\ upstream \in [Keys -> Lookup!Answers]
      /\ sinceNone = [k \in Keys |-> IF upstream[k] = None THEN 0
                                     ELSE MaxNegativeStaleness + 1]
      /\ window = [c \in Callers |-> {}]
  BY DEF Init, StaleCap, Answers, Lookup!Answers
<1> QED
  BY <1>1, <1>2, <1>3, <1>4, <1>5 DEF Lookup!Init

\* Every step is a step of LookupService, or none.
LEMMA RefineStep ==
  ASSUME IInv, HeldInv, [Next]_vars
  PROVE  [Lookup!Next]_(Lookup!vars)
<1> USE DEF IInv, TypeOK, PCs, Goto, Phase, control, clocks, history
<1>1. ASSUME NEW c \in Callers, NEW k \in Keys, Start(c, k)
      PROVE  Lookup!Next
  <2>1. Lookup!Ask(c, k)
    BY <1>1 DEF Start, Lookup!Ask
  <2> QED
    BY <2>1 DEF Lookup!Next
<1>2. ASSUME NEW c \in Callers, CheckCache(c), NegativeHit(key[c])
      PROVE  Lookup!Next
  <2>1. got[c] = None /\ err[c] = "none"
    BY <1>2 DEF CheckCache, RetryInv, AnswerInv
  <2>2. sinceNone[key[c]] <= MaxNegativeStaleness
    BY <1>2, TTLAssumption, TimeoutAssumption
       DEF NegativeInv, NegativeHit, MaxNegativeStaleness, NoEntry
  <2>3. Lookup!Group({c}, key[c])
    BY <1>2 DEF CheckCache, Lookup!Group
  <2>4. Lookup!Answer({c}, key[c], None)
    BY <1>2, <2>1, <2>2, <2>3 DEF CheckCache, Lookup!Answer
  <2> QED
    BY <2>4 DEF Lookup!Next, Lookup!Answers
<1>3. ASSUME NEW c \in Callers, CheckCache(c), ~NegativeHit(key[c])
      PROVE  UNCHANGED Lookup!vars
  BY <1>3 DEF CheckCache, Lookup!vars
<1>4. ASSUME NEW c \in Callers, Join(c)
      PROVE  UNCHANGED Lookup!vars
  BY <1>4 DEF Join, Lead, Follow, Lookup!vars
<1>5. ASSUME NEW c \in Callers, Recheck(c)
      PROVE  UNCHANGED Lookup!vars
  BY <1>5 DEF Recheck, Sweep, Lookup!vars
<1>6. ASSUME NEW c \in Callers, WhmcsAnswers(c)
      PROVE  UNCHANGED Lookup!vars
  BY <1>6 DEF WhmcsAnswers, Lookup!vars
<1>7. ASSUME NEW c \in Callers, TransientFailure(c)
      PROVE  UNCHANGED Lookup!vars
  BY <1>7 DEF TransientFailure, LastAttempt, Fail, Lookup!vars
<1>8. ASSUME NEW c \in Callers, PermanentFailure(c)
      PROVE  UNCHANGED Lookup!vars
  BY <1>8 DEF PermanentFailure, Fail, Lookup!vars
<1>9. ASSUME NEW c \in Callers, WakeUp(c)
      PROVE  UNCHANGED Lookup!vars
  BY <1>9 DEF WakeUp, Lookup!vars
<1>10. ASSUME NEW c \in Callers, AbortBackoff(c)
       PROVE  UNCHANGED Lookup!vars
  BY <1>10 DEF AbortBackoff, Fail, Lookup!vars
<1>11. ASSUME NEW c \in Callers, Receive(c)
       PROVE  UNCHANGED Lookup!vars
  BY <1>11 DEF Receive, Lookup!vars
<1>12. ASSUME NEW c \in Callers, Remember(c)
       PROVE  UNCHANGED Lookup!vars
  BY <1>12 DEF Remember, Store, Lookup!vars
<1>13. ASSUME NEW c \in Callers, Cancel(c)
       PROVE  UNCHANGED Lookup!vars
  BY <1>13 DEF Cancel, Lookup!vars
<1>14. ASSUME NEW c \in Callers, Deliver(c)
       PROVE  Lookup!Next
  <2>1. PICK S \in SUBSET Callers : S = {c} \cup Waiters(key[c])
    BY DEF Waiters
  <2>2. PICK k \in Keys : k = key[c]
    OBVIOUS
  <2>3. PICK v \in Lookup!Answers : v = got[c]
    BY DEF Answers, Lookup!Answers
  <2>4. Lookup!Group(S, k)
    BY <1>14, <2>1, <2>2 DEF Deliver, Waiters, Lookup!Group
  <2>5. CASE err[c] = "none"
    <3>1. v = None => sinceNone[k] <= MaxNegativeStaleness
      BY <1>14, <2>2, <2>3, <2>5 DEF Deliver, NegativeInv
    <3>2. v # None => v \in window[c]
      BY <1>14, <2>3 DEF Deliver, HeldInv, LeaderPCs
    <3>3. Lookup!Answer(S, k, v)
      BY <1>14, <2>1, <2>2, <2>3, <2>4, <2>5, <3>1, <3>2
         DEF Deliver, Lookup!Answer, Waiters, RetryInv, AnswerInv
    <3> QED
      BY <3>3 DEF Lookup!Next
  <2>6. CASE err[c] # "none"
    <3>1. got[c] = None
      BY <2>6 DEF HeldInv
    <3>2. Lookup!Refuse(S, k)
      BY <1>14, <2>1, <2>2, <2>4, <2>6, <3>1
         DEF Deliver, Lookup!Refuse, Waiters, Errors
    <3> QED
      BY <3>2 DEF Lookup!Next
  <2> QED
    BY <2>5, <2>6
<1>15. ASSUME NEW c \in Callers, Return(c)
       PROVE  Lookup!Next
  <2>1. Lookup!Leave(c)
    BY <1>15, AnyKeyIsKey DEF Return, Lookup!Leave
  <2> QED
    BY <2>1 DEF Lookup!Next
<1>16. ASSUME NEW k \in Keys, NEW v \in Answers, WhmcsChange(k, v)
       PROVE  Lookup!Next
  <2>1. Lookup!Change(k, v)
    BY <1>16 DEF WhmcsChange, Lookup!Change, Pending
  <2> QED
    BY <2>1 DEF Lookup!Next, Lookup!Answers, Answers
<1>17. CASE Tick
  <2>1. Lookup!Tick
    BY <1>17, TTLAssumption, TimeoutAssumption
       DEF Tick, Lookup!Tick, Older, StaleCap, MaxNegativeStaleness
  <2> QED
    BY <2>1 DEF Lookup!Next
<1>18. CASE UNCHANGED vars
  BY <1>18 DEF vars, Lookup!vars
<1> QED
  BY <1>1, <1>2, <1>3, <1>4, <1>5, <1>6, <1>7, <1>8, <1>9, <1>10, <1>11,
     <1>12, <1>13, <1>14, <1>15, <1>16, <1>17, <1>18
     DEF Next, CallerStep

\* A login gets from the resolver what it would get from the abstract service.
THEOREM Refinement == Spec => ImplementsLookup
<1>1. Init => HeldInv
  BY DEF Init, HeldInv, Pending, LeaderPCs
<1>2. IInv /\ HeldInv /\ [Next]_vars => HeldInv'
  BY StepHeld DEF IInv
<1>3. Spec => [](IInv /\ HeldInv)
  BY Inductive, <1>1, <1>2, PTL DEF Spec
<1>4. IInv /\ HeldInv /\ [Next]_vars => [Lookup!Next]_(Lookup!vars)
  BY RefineStep
<1> QED
  BY RefineInit, <1>3, <1>4, PTL DEF Spec, ImplementsLookup, Lookup!Spec
=============================================================================
