-------------------------- MODULE ProductCacheProofs --------------------------
(***************************************************************************)
(* Proofs about ProductCache for any number of requests, any TTL and HTTP   *)
(* timeout, and any number of changes of the catalog.                       *)
(*                                                                          *)
(* The properties speak of a response that is on its way out, so the        *)
(* invariant follows a list from WHMCS to there.  LeaderInv says who leads  *)
(* the flight.  HeldInv says which requests hold a list and which an error. *)
(* ClockInv keeps the times behind the clock, and AgeInv bounds the age of  *)
(* a list at every place it passes through.                                 *)
(***************************************************************************)
EXTENDS ProductCache, TLAPS

Answering == {"deliver", "cached_at", "last_attempt_at", "last_error", "sent"}
Replying == Answering \ {"deliver"}

\* Whoever fetches for the "get" flight leads it, and only Get takes part in it.
LeaderInv ==
    \A x \in Requests :
        /\ pc[x] \in {"look", "join", "wait", "recheck", "deliver"} => kind[x] = "get"
        /\ pc[x] \in {"recheck", "deliver"} => flight = x
        /\ pc[x] \in {"fetch", "fetched"} /\ kind[x] = "get" => flight = x

\* A request holds a list or an error once it has an answer, and not before.
HeldInv ==
    /\ cache.at # Never => cache.products # NoList
    /\ \A x \in Requests :
          /\ pc[x] \notin Answering => ~failed[x]
          /\ pc[x] = "fetched" => got[x] # NoList
          /\ pc[x] \in Answering /\ got[x] = NoList => failed[x]
          /\ pc[x] = "sent" /\ failed[x] => reply[x].last_error

\* Nothing was recorded in the future, and what WHMCS still has was not replaced.
ClockInv ==
    /\ cache.at <= clock
    /\ \A x \in Requests : born[x] <= clock
    /\ \A v \in Lists : replaced[v] <= clock /\ (v >= catalog => replaced[v] = Never)

\* How old a list may be in the cache, in an exchange, in the flight, and in a
\* response.
AgeInv ==
    /\ cache.at # Never => CurrentAt(cache.products, cache.at - HttpTimeout)
    /\ \A x \in Requests :
          /\ pc[x] = "fetched" => CurrentAt(got[x], clock - elapsed[x])
          /\ pc[x] = "deliver" /\ got[x] # NoList =>
                CurrentAt(got[x], clock - TTL - HttpTimeout)
          /\ pc[x] \in Replying /\ got[x] # NoList =>
                CurrentAt(got[x], born[x] - TTL - HttpTimeout)

-----------------------------------------------------------------------------
(* The steps                                                                *)

\* The initial state has the types and nothing to answer.
LEMMA InitInv == Init => TypeOK /\ LeaderInv /\ HeldInv /\ ClockInv /\ AgeInv
<1> SUFFICES ASSUME Init PROVE TypeOK /\ LeaderInv /\ HeldInv /\ ClockInv /\ AgeInv
  OBVIOUS
<1>1. TypeOK
  BY BoundAssumption
     DEF Init, TypeOK, PCs, Lists, Times, Diagnostics, NoDiagnostics, NoList, Never
<1>2. LeaderInv /\ HeldInv
  BY DEF Init, LeaderInv, HeldInv, Answering
<1>3. ClockInv /\ AgeInv
  BY BoundAssumption
     DEF Init, ClockInv, AgeInv, Answering, Replying, Lists, Never
<1> QED
  BY <1>1, <1>2, <1>3

\* A getter fills one field of the response.
LEMMA Reading ==
  ASSUME NEW r \in Diagnostics
  PROVE  /\ \A t \in Times \cup {Never} :
               /\ [r EXCEPT !.cached_at = t] \in Diagnostics
               /\ [r EXCEPT !.last_attempt_at = t] \in Diagnostics
         /\ \A b \in BOOLEAN : [r EXCEPT !.last_error = b] \in Diagnostics
  BY DEF Diagnostics

\* Every step keeps the types.
LEMMA StepTypes ==
  ASSUME TypeOK, HeldInv, [Next]_vars
  PROVE  TypeOK'
<1> USE RequestAssumption, BoundAssumption
<1> USE DEF TypeOK, PCs, Lists, Times, NoList, Never, Goto, HeldInv, Answering,
            request, history
<1>1. ASSUME NEW x \in Requests, Look(x)
      PROVE  TypeOK'
  BY <1>1 DEF Look, Fresh
<1>2. ASSUME NEW x \in Requests, Join(x)
      PROVE  TypeOK'
  BY <1>2 DEF Join
<1>3. ASSUME NEW x \in Requests, Recheck(x)
      PROVE  TypeOK'
  BY <1>3 DEF Recheck, Fresh
<1>4. ASSUME NEW x \in Requests, Deliver(x)
      PROVE  TypeOK'
  BY <1>4 DEF Deliver
<1>5. ASSUME NEW x \in Requests, WhmcsReads(x)
      PROVE  TypeOK'
  BY <1>5 DEF WhmcsReads
<1>6. ASSUME NEW x \in Requests, Receive(x)
      PROVE  TypeOK'
  BY <1>6 DEF Receive, Record, Return
<1>7. ASSUME NEW x \in Requests, FetchFails(x)
      PROVE  TypeOK'
  <2>1. cache' \in [products : Lists \cup {NoList}, at : Times \cup {Never},
                     lastAttempt : Times \cup {Never}, lastErr : BOOLEAN]
    BY <1>7 DEF FetchFails, Record
  <2>2. pc' \in [Requests -> PCs] /\ elapsed' \in [Requests -> 0 .. HttpTimeout]
    BY <1>7 DEF FetchFails, Return
  <2> QED
    BY <1>7, <2>1, <2>2 DEF FetchFails
<1>8. ASSUME NEW x \in Requests, ReadCachedAt(x)
      PROVE  TypeOK'
  <2>1. cache.at \in Times \cup {Never}
    OBVIOUS
  <2>2. [reply[x] EXCEPT !.cached_at = cache.at] \in Diagnostics
    BY <2>1, Reading
  <2>3. reply' \in [Requests -> Diagnostics]
    BY <1>8, <2>2 DEF ReadCachedAt
  <2> QED
    BY <1>8, <2>3 DEF ReadCachedAt
<1>9. ASSUME NEW x \in Requests, ReadLastAttemptAt(x)
      PROVE  TypeOK'
  <2>1. cache.lastAttempt \in Times \cup {Never}
    OBVIOUS
  <2>2. [reply[x] EXCEPT !.last_attempt_at = cache.lastAttempt] \in Diagnostics
    BY <2>1, Reading
  <2>3. reply' \in [Requests -> Diagnostics]
    BY <1>9, <2>2 DEF ReadLastAttemptAt
  <2> QED
    BY <1>9, <2>3 DEF ReadLastAttemptAt
<1>10. ASSUME NEW x \in Requests, ReadLastError(x)
      PROVE  TypeOK'
  <2>1. cache.lastErr \in BOOLEAN /\ failed[x] \in BOOLEAN
    OBVIOUS
  <2>2. [reply[x] EXCEPT !.last_error = ReportedError(x)] \in Diagnostics
    BY <2>1, Reading DEF ReportedError
  <2>3. reply' \in [Requests -> Diagnostics]
    BY <1>10, <2>2 DEF ReadLastError
  <2> QED
    BY <1>10, <2>3 DEF ReadLastError
<1>11. ASSUME NEW x \in Requests, Finish(x)
      PROVE  TypeOK'
  BY <1>11 DEF Finish, Diagnostics, NoDiagnostics
<1>12. ASSUME NEW x \in Requests, NEW k \in {"get", "refresh"},
             Arrive(x, k)
      PROVE  TypeOK'
  BY <1>12 DEF Arrive, Diagnostics, NoDiagnostics
<1>13. CASE CatalogChange
  BY <1>13 DEF CatalogChange
<1>14. CASE Tick
  BY <1>14 DEF Tick
<1>15. CASE UNCHANGED vars
  BY <1>15 DEF vars
<1> HIDE DEF TypeOK, HeldInv
<1> QED
  BY <1>1, <1>2, <1>3, <1>4, <1>5, <1>6, <1>7, <1>8, <1>9, <1>10, <1>11,
     <1>12, <1>13, <1>14, <1>15 DEF Next, RequestStep

\* Every step keeps the flight with its leader.
LEMMA StepLeader ==
  ASSUME TypeOK, LeaderInv, [Next]_vars
  PROVE  LeaderInv'
<1> USE RequestAssumption
<1> USE DEF TypeOK, PCs, Goto, LeaderInv, request, history
<1>1. ASSUME NEW x \in Requests, Look(x)
      PROVE  LeaderInv'
  BY <1>1 DEF Look, Fresh
<1>2. ASSUME NEW x \in Requests, Join(x)
      PROVE  LeaderInv'
  BY <1>2 DEF Join
<1>3. ASSUME NEW x \in Requests, Recheck(x)
      PROVE  LeaderInv'
  BY <1>3 DEF Recheck, Fresh
<1>4. ASSUME NEW x \in Requests, Deliver(x)
      PROVE  LeaderInv'
  BY <1>4 DEF Deliver
<1>5. ASSUME NEW x \in Requests, WhmcsReads(x)
      PROVE  LeaderInv'
  BY <1>5 DEF WhmcsReads
<1>6. ASSUME NEW x \in Requests, Receive(x)
      PROVE  LeaderInv'
  BY <1>6 DEF Receive, Record, Return
<1>7. ASSUME NEW x \in Requests, FetchFails(x)
      PROVE  LeaderInv'
  BY <1>7 DEF FetchFails, Record, Return
<1>8. ASSUME NEW x \in Requests, ReadCachedAt(x)
      PROVE  LeaderInv'
  BY <1>8 DEF ReadCachedAt
<1>9. ASSUME NEW x \in Requests, ReadLastAttemptAt(x)
      PROVE  LeaderInv'
  BY <1>9 DEF ReadLastAttemptAt
<1>10. ASSUME NEW x \in Requests, ReadLastError(x)
      PROVE  LeaderInv'
  BY <1>10 DEF ReadLastError, ReportedError
<1>11. ASSUME NEW x \in Requests, Finish(x)
      PROVE  LeaderInv'
  BY <1>11 DEF Finish
<1>12. ASSUME NEW x \in Requests, NEW k \in {"get", "refresh"},
             Arrive(x, k)
      PROVE  LeaderInv'
  BY <1>12 DEF Arrive
<1>13. CASE CatalogChange
  BY <1>13 DEF CatalogChange
<1>14. CASE Tick
  BY <1>14 DEF Tick
<1>15. CASE UNCHANGED vars
  BY <1>15 DEF vars
<1> QED
  BY <1>1, <1>2, <1>3, <1>4, <1>5, <1>6, <1>7, <1>8, <1>9, <1>10, <1>11,
     <1>12, <1>13, <1>14, <1>15 DEF Next, RequestStep

\* Every step keeps lists and errors apart.
LEMMA StepHeld ==
  ASSUME TypeOK, HeldInv, [Next]_vars
  PROVE  HeldInv'
<1> USE DEF TypeOK, PCs, Goto, HeldInv, Answering, Lists, Times, NoList, Never, Diagnostics,
            request, history
<1>1. ASSUME NEW x \in Requests, Look(x)
      PROVE  HeldInv'
  BY <1>1 DEF Look, Fresh
<1>2. ASSUME NEW x \in Requests, Join(x)
      PROVE  HeldInv'
  BY <1>2 DEF Join
<1>3. ASSUME NEW x \in Requests, Recheck(x)
      PROVE  HeldInv'
  BY <1>3 DEF Recheck, Fresh
<1>4. ASSUME NEW x \in Requests, Deliver(x)
      PROVE  HeldInv'
  BY <1>4 DEF Deliver
<1>5. ASSUME NEW x \in Requests, WhmcsReads(x)
      PROVE  HeldInv'
  BY <1>5 DEF WhmcsReads
<1>6. ASSUME NEW x \in Requests, Receive(x)
      PROVE  HeldInv'
  BY <1>6 DEF Receive, Record, Return
<1>7. ASSUME NEW x \in Requests, FetchFails(x)
      PROVE  HeldInv'
  BY <1>7 DEF FetchFails, Record, Return
<1>8. ASSUME NEW x \in Requests, ReadCachedAt(x)
      PROVE  HeldInv'
  BY <1>8 DEF ReadCachedAt
<1>9. ASSUME NEW x \in Requests, ReadLastAttemptAt(x)
      PROVE  HeldInv'
  BY <1>9 DEF ReadLastAttemptAt
<1>10. ASSUME NEW x \in Requests, ReadLastError(x)
      PROVE  HeldInv'
  BY <1>10 DEF ReadLastError, ReportedError
<1>11. ASSUME NEW x \in Requests, Finish(x)
      PROVE  HeldInv'
  BY <1>11 DEF Finish
<1>12. ASSUME NEW x \in Requests, NEW k \in {"get", "refresh"},
             Arrive(x, k)
      PROVE  HeldInv'
  BY <1>12 DEF Arrive
<1>13. CASE CatalogChange
  BY <1>13 DEF CatalogChange
<1>14. CASE Tick
  BY <1>14 DEF Tick
<1>15. CASE UNCHANGED vars
  BY <1>15 DEF vars
<1> QED
  BY <1>1, <1>2, <1>3, <1>4, <1>5, <1>6, <1>7, <1>8, <1>9, <1>10, <1>11,
     <1>12, <1>13, <1>14, <1>15 DEF Next, RequestStep

\* Every step keeps the recorded times behind the clock.
LEMMA StepClock ==
  ASSUME TypeOK, ClockInv, [Next]_vars
  PROVE  ClockInv'
<1> USE BoundAssumption
<1> USE DEF TypeOK, ClockInv, Lists, Times, Never, request, history
<1>1. ASSUME NEW x \in Requests, Look(x)
      PROVE  ClockInv'
  BY <1>1 DEF Look, Fresh
<1>2. ASSUME NEW x \in Requests, Join(x)
      PROVE  ClockInv'
  BY <1>2 DEF Join
<1>3. ASSUME NEW x \in Requests, Recheck(x)
      PROVE  ClockInv'
  BY <1>3 DEF Recheck, Fresh
<1>4. ASSUME NEW x \in Requests, Deliver(x)
      PROVE  ClockInv'
  BY <1>4 DEF Deliver
<1>5. ASSUME NEW x \in Requests, WhmcsReads(x)
      PROVE  ClockInv'
  BY <1>5 DEF WhmcsReads
<1>6. ASSUME NEW x \in Requests, Receive(x)
      PROVE  ClockInv'
  BY <1>6 DEF Receive, Record, Return
<1>7. ASSUME NEW x \in Requests, FetchFails(x)
      PROVE  ClockInv'
  BY <1>7 DEF FetchFails, Record, Return
<1>8. ASSUME NEW x \in Requests, ReadCachedAt(x)
      PROVE  ClockInv'
  BY <1>8 DEF ReadCachedAt
<1>9. ASSUME NEW x \in Requests, ReadLastAttemptAt(x)
      PROVE  ClockInv'
  BY <1>9 DEF ReadLastAttemptAt
<1>10. ASSUME NEW x \in Requests, ReadLastError(x)
      PROVE  ClockInv'
  BY <1>10 DEF ReadLastError, ReportedError
<1>11. ASSUME NEW x \in Requests, Finish(x)
      PROVE  ClockInv'
  BY <1>11 DEF Finish
<1>12. ASSUME NEW x \in Requests, NEW k \in {"get", "refresh"},
             Arrive(x, k)
      PROVE  ClockInv'
  BY <1>12 DEF Arrive
<1>13. CASE CatalogChange
  BY <1>13 DEF CatalogChange
<1>14. CASE Tick
  BY <1>14 DEF Tick
<1>15. CASE UNCHANGED vars
  BY <1>15 DEF vars
<1> QED
  BY <1>1, <1>2, <1>3, <1>4, <1>5, <1>6, <1>7, <1>8, <1>9, <1>10, <1>11,
     <1>12, <1>13, <1>14, <1>15 DEF Next, RequestStep

\* Every step keeps the ages: a list gets older with the clock only in an exchange,
\* which has a timeout, and in the cache, where Fresh looks at the stamp.
LEMMA StepAge ==
  ASSUME TypeOK, HeldInv, ClockInv, AgeInv, [Next]_vars
  PROVE  AgeInv'
<1> USE BoundAssumption
<1> USE DEF TypeOK, HeldInv, ClockInv, AgeInv, PCs, Lists, Times, NoList, Never, Goto, Answering,
            Replying, CurrentAt, request, history
<1>1. ASSUME NEW x \in Requests, Look(x)
      PROVE  AgeInv'
  <2>1. cache.products \in Lists \cup {NoList} /\ cache.at \in Times \cup {Never}
    OBVIOUS
  <2>2. Fresh => cache.products # NoList /\ cache.at # Never /\ clock - TTL < cache.at
    BY <2>1 DEF Fresh
  <2>3. Fresh => /\ CurrentAt(cache.products, cache.at - HttpTimeout)
                 /\ cache.products \in Lists
    BY <2>1, <2>2
  <2>4. replaced[cache.products] \in Int \/ ~Fresh
    BY <2>1, <2>3
  <2>5. Fresh => /\ CurrentAt(cache.products, clock - TTL - HttpTimeout)
                 /\ CurrentAt(cache.products, born[x] - TTL - HttpTimeout)
    BY <2>1, <2>2, <2>3, <2>4
  <2>6. ASSUME NEW y \in Requests, y # x PROVE pc'[y] = pc[y] /\ got'[y] = got[y]
    BY <1>1, <2>6 DEF Look
  <2>7. \/ pc'[x] = "cached_at" /\ Fresh /\ got'[x] = cache.products
        \/ pc'[x] = "join" /\ got'[x] = got[x]
    BY <1>1 DEF Look
  <2> QED
    BY <1>1, <2>5, <2>6, <2>7 DEF Look
<1>2. ASSUME NEW x \in Requests, Join(x)
      PROVE  AgeInv'
  <2>1. /\ \A y \in Requests : y # x => pc'[y] = pc[y]
        /\ pc'[x] \in {"recheck", "wait"}
    BY <1>2 DEF Join
  <2> QED
    BY <1>2, <2>1 DEF Join
<1>3. ASSUME NEW x \in Requests, Recheck(x)
      PROVE  AgeInv'
  <2>1. cache.products \in Lists \cup {NoList} /\ cache.at \in Times \cup {Never}
    OBVIOUS
  <2>2. Fresh => cache.products # NoList /\ cache.at # Never /\ clock - TTL < cache.at
    BY <2>1 DEF Fresh
  <2>3. Fresh => /\ CurrentAt(cache.products, cache.at - HttpTimeout)
                 /\ cache.products \in Lists
    BY <2>1, <2>2
  <2>4. replaced[cache.products] \in Int \/ ~Fresh
    BY <2>1, <2>3
  <2>5. Fresh => /\ CurrentAt(cache.products, clock - TTL - HttpTimeout)
                 /\ CurrentAt(cache.products, born[x] - TTL - HttpTimeout)
    BY <2>1, <2>2, <2>3, <2>4
  <2>6. ASSUME NEW y \in Requests, y # x PROVE pc'[y] = pc[y] /\ got'[y] = got[y]
    BY <1>3, <2>6 DEF Recheck
  <2>7. \/ pc'[x] = "deliver" /\ Fresh /\ got'[x] = cache.products
        \/ pc'[x] = "fetch" /\ got'[x] = got[x]
    BY <1>3 DEF Recheck
  <2> QED
    BY <1>3, <2>5, <2>6, <2>7 DEF Recheck
<1>4. ASSUME NEW x \in Requests, Deliver(x)
      PROVE  AgeInv'
  BY <1>4 DEF Deliver
<1>5. ASSUME NEW x \in Requests, WhmcsReads(x)
      PROVE  AgeInv'
  BY <1>5 DEF WhmcsReads
<1>6. ASSUME NEW x \in Requests, Receive(x)
      PROVE  AgeInv'
  <2>1. /\ got[x] \in Lists /\ cache'.products = got[x] /\ cache'.at = clock
        /\ UNCHANGED <<got, born, replaced, clock>>
    BY <1>6 DEF Receive, Record
  <2>2. CurrentAt(got[x], clock - elapsed[x]) /\ CurrentAt(got[x], clock - HttpTimeout)
    BY <1>6, <2>1 DEF Receive
  <2>3. ASSUME NEW y \in Requests, y # x PROVE pc'[y] = pc[y] /\ elapsed'[y] = elapsed[y]
    BY <1>6, <2>3 DEF Receive, Return
  <2>4. CurrentAt(cache.products, cache.at - HttpTimeout)'
    BY <2>1, <2>2
  <2>5. pc'[x] \in {"deliver", "cached_at"}
    BY <1>6 DEF Receive, Return
  <2>6. /\ CurrentAt(got[x], clock - TTL - HttpTimeout)
        /\ CurrentAt(got[x], born[x] - TTL - HttpTimeout)
    BY <2>1, <2>2
  <2> QED
    BY <2>1, <2>3, <2>4, <2>5, <2>6
<1>7. ASSUME NEW x \in Requests, FetchFails(x)
      PROVE  AgeInv'
  BY <1>7 DEF FetchFails, Record, Return
<1>8. ASSUME NEW x \in Requests, ReadCachedAt(x)
      PROVE  AgeInv'
  BY <1>8 DEF ReadCachedAt
<1>9. ASSUME NEW x \in Requests, ReadLastAttemptAt(x)
      PROVE  AgeInv'
  BY <1>9 DEF ReadLastAttemptAt
<1>10. ASSUME NEW x \in Requests, ReadLastError(x)
      PROVE  AgeInv'
  BY <1>10 DEF ReadLastError, ReportedError
<1>11. ASSUME NEW x \in Requests, Finish(x)
      PROVE  AgeInv'
  BY <1>11 DEF Finish
<1>12. ASSUME NEW x \in Requests, NEW k \in {"get", "refresh"},
             Arrive(x, k)
      PROVE  AgeInv'
  BY <1>12 DEF Arrive
<1>13. CASE CatalogChange
  BY <1>13 DEF CatalogChange
<1>14. CASE Tick
  <2>1. ASSUME NEW x \in Requests
        PROVE  pc[x] = "fetched" => clock' - elapsed'[x] = clock - elapsed[x]
    <3>1. /\ clock' = clock + 1 /\ clock \in Int /\ elapsed[x] \in Int
          /\ pc[x] = "fetched" => elapsed'[x] = elapsed[x] + 1
      BY <1>14 DEF Tick
    <3> QED
      BY <3>1
  <2> QED
    BY <1>14, <2>1 DEF Tick
<1>15. CASE UNCHANGED vars
  BY <1>15 DEF vars
<1> QED
  BY <1>1, <1>2, <1>3, <1>4, <1>5, <1>6, <1>7, <1>8, <1>9, <1>10, <1>11,
     <1>12, <1>13, <1>14, <1>15 DEF Next, RequestStep

-----------------------------------------------------------------------------
(* The theorems                                                             *)

\* The inductive invariant.
Inv == TypeOK /\ LeaderInv /\ HeldInv /\ ClockInv /\ AgeInv

\* Every reachable state satisfies the invariant.
LEMMA Invariant == Spec => []Inv
<1>1. Init => Inv
  BY InitInv DEF Inv
<1>2. Inv /\ [Next]_vars => Inv'
  BY StepTypes, StepLeader, StepHeld, StepClock, StepAge DEF Inv
<1> QED
  BY <1>1, <1>2, PTL DEF Spec

\* Every variable keeps its type, and nobody holds both an error and a list.
THEOREM TypeCorrect == Spec => []TypeOK
<1>1. Inv => TypeOK
  BY DEF Inv
<1> QED
  BY <1>1, Invariant, PTL

\* However many page loads arrive, one of them asks WHMCS (cache.go:34-37).
THEOREM PageLoadsCoalesce == Spec => []OneFetchForGets
<1>1. Inv => OneFetchForGets
  BY DEF Inv, LeaderInv, OneFetchForGets
<1> QED
  BY <1>1, Invariant, PTL

\* Whichever of any number of overlapping refreshes writes last, the list and
\* its stamp belong together (Refresh in cache.go).
THEOREM StampTellsTheTruth == Spec => []StampHonest
<1>1. Inv => StampHonest
  BY DEF Inv, HeldInv, AgeInv, StampHonest
<1> QED
  BY <1>1, Invariant, PTL

\* The age of a list on its way out is bounded by the two durations, whatever
\* they are and however long the request waited for another one's fetch.
THEOREM ListAge == Spec => []ListAgeBounded
<1>1. Inv => ListAgeBounded
  BY DEF Inv, AgeInv, Answering, Replying, ListAgeBounded
<1> QED
  BY <1>1, Invariant, PTL

\* A request that ends without a list reports an error, although the cache's
\* own may have been cleared by then (admin/server.go:148-150).
THEOREM FailuresAreSeen == Spec => []FailureVisible
<1>1. Inv => FailureVisible
  BY DEF Inv, HeldInv, Answering, FailureVisible
<1> QED
  BY <1>1, Invariant, PTL
===============================================================================
