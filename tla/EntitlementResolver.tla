------------------------ MODULE EntitlementResolver ------------------------
(***************************************************************************)
(* The shared lookup path of every login: EntitlementResolver in front of   *)
(* the WHMCS admin API (internal/whmcs/entitlements.go), with the retry     *)
(* loop that every upstream lookup runs under (internal/whmcs/retry.go).    *)
(*                                                                          *)
(* GetClientByEmail and GetClientsProducts have the same control; this      *)
(* module is one of them, for a map of negative answers and a singleflight  *)
(* group of its own.  A caller is a goroutine serving one login; it works   *)
(* in steps, and every step is one mutex-protected section or one exchange  *)
(* with WHMCS, so that callers interleave where goroutines do.              *)
(***************************************************************************)
EXTENDS Integers, FiniteSets

CONSTANTS
    Callers,           \* goroutines that may be inside a lookup at once
    Keys,              \* emails, or client ids
    Values,            \* non-empty answers: a client record, a product list
    None,              \* "no such client" / "no products"
    NoCaller,
    NegativeTTL,       \* ticks a negative answer is remembered; 0 disables it
    RetryMaxAttempts,  \* attempts of one lookup, the first included
    HttpTimeout        \* ticks after which one HTTP attempt has ended

ASSUME NoneAssumption == None \notin Values
ASSUME NoCallerAssumption == NoCaller \notin Callers
ASSUME KeysAssumption == Keys # {}
ASSUME TTLAssumption == NegativeTTL \in Nat
ASSUME RetryAssumption == RetryMaxAttempts \in Nat \ {0}
ASSUME TimeoutAssumption == HttpTimeout \in Nat

VARIABLES
    pc,         \* where each caller is
    key,        \* the key it looks up
    flight,     \* per key: the caller that leads the open flight, or NoCaller
    attempt,    \* the attempt the leader's retry loop is in
    got,        \* the answer a caller holds
    err,        \* the error a caller holds
    cancelled,  \* the caller's own context is done
    elapsed,    \* ticks the current HTTP attempt has lasted
    negAge,     \* per key: age of the remembered negative answer, or NoEntry
    upstream    \* per key: what WHMCS would answer now

(***************************************************************************)
(* History, read by no action: `window` is what WHMCS held for the key      *)
(* since the caller asked, `shared` what it held since the flight the       *)
(* caller is in was opened, `blips` the transient failures of that flight,  *)
(* `sinceNone` the ticks since WHMCS last had nothing for a key.            *)
(***************************************************************************)
VARIABLES window, shared, blips, sinceNone

control == <<pc, key, flight, attempt, got, err, cancelled>>
clocks == <<elapsed, negAge, sinceNone>>
history == <<window, shared, blips>>
vars == <<control, clocks, history, upstream>>

PCs == {"idle", "check", "join", "wait", "recheck", "call", "responded",
        "backoff", "remember", "deliver", "done"}
Errors == {"none", "exhausted", "permanent", "cancelled"}
Answers == Values \cup {None}

NoEntry == -1
AnyKey == CHOOSE k \in Keys : TRUE

\* Ages beyond the last one that matters are not told apart.
AgeCap == NegativeTTL + 1
MaxNegativeStaleness == NegativeTTL + HttpTimeout
StaleCap == MaxNegativeStaleness + 1
Older(n, cap) == IF n < cap THEN n + 1 ELSE n

\* Callers inside sf.Do as the one that runs its function.
LeaderPCs == {"recheck", "call", "responded", "backoff", "remember", "deliver"}
\* Callers with a lookup of theirs under way upstream.
UpstreamPCs == {"call", "responded", "backoff"}
Pending(c) == pc[c] \notin {"idle", "done"}
\* Callers blocked in sf.Do for a key.
Waiters(k) == {c \in Callers : pc[c] = "wait" /\ key[c] = k}

Goto(c, l) == pc' = [pc EXCEPT ![c] = l]

Init ==
    /\ pc = [c \in Callers |-> "idle"]
    /\ key = [c \in Callers |-> AnyKey]
    /\ flight = [k \in Keys |-> NoCaller]
    /\ attempt = [c \in Callers |-> 0]
    /\ got = [c \in Callers |-> None]
    /\ err = [c \in Callers |-> "none"]
    /\ cancelled = [c \in Callers |-> FALSE]
    /\ elapsed = [c \in Callers |-> 0]
    /\ negAge = [k \in Keys |-> NoEntry]
    /\ upstream \in [Keys -> Answers]
    /\ sinceNone = [k \in Keys |-> IF upstream[k] = None THEN 0 ELSE StaleCap]
    /\ window = [c \in Callers |-> {}]
    /\ shared = [c \in Callers |-> {}]
    /\ blips = [c \in Callers |-> 0]

-----------------------------------------------------------------------------
(* The negative cache: negativeCached, rememberNegative                     *)

\* Mutant: the expiry is not looked at.
NegativeHit_NoExpiry(k) == NegativeTTL > 0 /\ negAge[k] # NoEntry

\* now().After(exp) is strict, so an entry of age exactly NegativeTTL hits.
NegativeHit(k) ==
    /\ NegativeTTL > 0
    /\ negAge[k] # NoEntry
    /\ negAge[k] <= NegativeTTL

\* The lookup also deletes the entry it finds expired.
Sweep(k) ==
    negAge' = IF NegativeTTL > 0 /\ ~NegativeHit(k)
              THEN [negAge EXCEPT ![k] = NoEntry] ELSE negAge

Store(k) ==
    negAge' = IF NegativeTTL > 0 THEN [negAge EXCEPT ![k] = 0] ELSE negAge

-----------------------------------------------------------------------------
(* GetClientByEmail / GetClientsProducts                                    *)

Start(c, k) ==
    /\ pc[c] = "idle"
    /\ Goto(c, "check")
    /\ key' = [key EXCEPT ![c] = k]
    /\ window' = [window EXCEPT ![c] = {upstream[k]}]
    /\ UNCHANGED <<flight, attempt, got, err, cancelled, clocks, shared,
                   blips, upstream>>

CheckCache(c) ==
    /\ pc[c] = "check"
    /\ Sweep(key[c])
    /\ Goto(c, IF NegativeHit(key[c]) THEN "done" ELSE "join")
    /\ UNCHANGED <<key, flight, attempt, got, err, cancelled, elapsed,
                   sinceNone, history, upstream>>

\* Mutant: no singleflight group.
Lead_NoGroup(c) ==
    /\ flight' = [flight EXCEPT ![key[c]] = c]
    /\ Goto(c, "recheck")
    /\ shared' = [shared EXCEPT ![c] = {upstream[key[c]]}]

\* sf.Do finds no flight for the key: the caller opens one and leads it.
Lead(c) ==
    /\ flight[key[c]] = NoCaller
    /\ flight' = [flight EXCEPT ![key[c]] = c]
    /\ Goto(c, "recheck")
    /\ shared' = [shared EXCEPT ![c] = {upstream[key[c]]}]

\* sf.Do finds a flight: the caller blocks, and no longer looks at its context.
Follow(c) ==
    /\ flight[key[c]] # NoCaller
    /\ Goto(c, "wait")
    /\ shared' = [shared EXCEPT ![c] = shared[flight[key[c]]]]
    /\ UNCHANGED flight

Join(c) ==
    /\ pc[c] = "join"
    /\ Lead(c) \/ Follow(c)
    /\ UNCHANGED <<key, attempt, got, err, cancelled, clocks, window, blips,
                   upstream>>

\* Mutant: the flight trusts the look at the cache made before it.
Recheck_Skipped(c) ==
    /\ pc[c] = "recheck"
    /\ Goto(c, "call")
    /\ attempt' = [attempt EXCEPT ![c] = 1]
    /\ UNCHANGED <<key, flight, got, err, cancelled, clocks, history, upstream>>

Recheck(c) ==
    /\ pc[c] = "recheck"
    /\ Sweep(key[c])
    /\ IF NegativeHit(key[c])
       THEN Goto(c, "deliver") /\ UNCHANGED attempt
       ELSE Goto(c, "call") /\ attempt' = [attempt EXCEPT ![c] = 1]
    /\ UNCHANGED <<key, flight, got, err, cancelled, elapsed, sinceNone,
                   history, upstream>>

\* The lookup came back without an error.
Receive(c) ==
    /\ pc[c] = "responded"
    /\ Goto(c, IF got[c] = None THEN "remember" ELSE "deliver")
    /\ elapsed' = [elapsed EXCEPT ![c] = 0]
    /\ attempt' = [attempt EXCEPT ![c] = 0]
    /\ UNCHANGED <<key, flight, got, err, cancelled, negAge, sinceNone,
                   history, upstream>>

Remember(c) ==
    /\ pc[c] = "remember"
    /\ Store(key[c])
    /\ Goto(c, "deliver")
    /\ UNCHANGED <<key, flight, attempt, got, err, cancelled, elapsed,
                   sinceNone, history, upstream>>

\* Mutant: the outcome is not handed to those who wait.
Deliver_LeaderOnly(c) ==
    /\ pc[c] = "deliver"
    /\ Goto(c, "done")
    /\ flight' = [flight EXCEPT ![key[c]] = NoCaller]
    /\ UNCHANGED <<key, attempt, got, err, cancelled, clocks, history, upstream>>

\* The flight closes; the leader and everyone who waits get its outcome.
Deliver(c) ==
    /\ pc[c] = "deliver"
    /\ LET all == {c} \cup Waiters(key[c])
       IN  /\ pc' = [d \in Callers |-> IF d \in all THEN "done" ELSE pc[d]]
           /\ got' = [d \in Callers |-> IF d \in all THEN got[c] ELSE got[d]]
           /\ err' = [d \in Callers |-> IF d \in all THEN err[c] ELSE err[d]]
           /\ blips' = [d \in Callers |->
                            IF d \in all THEN blips[c] ELSE blips[d]]
    /\ flight' = [flight EXCEPT ![key[c]] = NoCaller]
    /\ UNCHANGED <<key, attempt, cancelled, clocks, window, shared, upstream>>

\* Mutant: the answer is kept for the next lookup.
Return_KeepsAnswer(c) ==
    /\ pc[c] = "done"
    /\ Goto(c, "idle")
    /\ key' = [key EXCEPT ![c] = AnyKey]
    /\ err' = [err EXCEPT ![c] = "none"]
    /\ cancelled' = [cancelled EXCEPT ![c] = FALSE]
    /\ window' = [window EXCEPT ![c] = {}]
    /\ shared' = [shared EXCEPT ![c] = {}]
    /\ blips' = [blips EXCEPT ![c] = 0]
    /\ UNCHANGED <<flight, attempt, got, clocks, upstream>>

\* The answer goes back to the login; the goroutine is free for another one.
Return(c) ==
    /\ pc[c] = "done"
    /\ Goto(c, "idle")
    /\ key' = [key EXCEPT ![c] = AnyKey]
    /\ got' = [got EXCEPT ![c] = None]
    /\ err' = [err EXCEPT ![c] = "none"]
    /\ cancelled' = [cancelled EXCEPT ![c] = FALSE]
    /\ window' = [window EXCEPT ![c] = {}]
    /\ shared' = [shared EXCEPT ![c] = {}]
    /\ blips' = [blips EXCEPT ![c] = 0]
    /\ UNCHANGED <<flight, attempt, clocks, upstream>>

-----------------------------------------------------------------------------
(* retry: attempts under the LEADER's context                               *)

\* WHMCS reads its database; the reply is on its way.
WhmcsAnswers(c) ==
    /\ pc[c] = "call"
    /\ Goto(c, "responded")
    /\ got' = [got EXCEPT ![c] = upstream[key[c]]]
    /\ UNCHANGED <<key, flight, attempt, err, cancelled, clocks, history,
                   upstream>>

\* Mutant: that an error came with no record is remembered like an answer.
Fail_Remembered(c, e) ==
    /\ Goto(c, "remember")
    /\ err' = [err EXCEPT ![c] = e]
    /\ attempt' = [attempt EXCEPT ![c] = 0]

\* The lookup ends with error e.
Fail(c, e) ==
    /\ Goto(c, "deliver")
    /\ err' = [err EXCEPT ![c] = e]
    /\ attempt' = [attempt EXCEPT ![c] = 0]

\* Mutants: the budget is one attempt short, or one too long.
LastAttempt_Early(c) == attempt[c] + 1 >= RetryMaxAttempts
LastAttempt_Late(c) == attempt[c] > RetryMaxAttempts

\* `attempt < retryMaxAttempts` fails for the next round of the loop.
LastAttempt(c) == attempt[c] = RetryMaxAttempts

\* A transport error or a 5xx, before or after WHMCS did its part.
TransientFailure(c) ==
    /\ pc[c] \in {"call", "responded"}
    /\ blips' = [blips EXCEPT ![c] = @ + 1]
    /\ got' = [got EXCEPT ![c] = None]
    /\ elapsed' = [elapsed EXCEPT ![c] = 0]
    /\ \/ cancelled[c] /\ Fail(c, "cancelled")
       \/ ~cancelled[c] /\ LastAttempt(c) /\ Fail(c, "exhausted")
       \/ /\ ~cancelled[c] /\ ~LastAttempt(c)
          /\ Goto(c, "backoff")
          /\ UNCHANGED <<err, attempt>>
    /\ UNCHANGED <<key, flight, cancelled, negAge, sinceNone, window, shared,
                   upstream>>

\* A 4xx, an answer that does not decode, result != success: no retry.
PermanentFailure(c) ==
    /\ pc[c] \in {"call", "responded"}
    /\ Fail(c, "permanent")
    /\ got' = [got EXCEPT ![c] = None]
    /\ elapsed' = [elapsed EXCEPT ![c] = 0]
    /\ UNCHANGED <<key, flight, cancelled, negAge, sinceNone, history,
                   upstream>>

\* retrySleep's timer fired.  With the context done as well, the select may
\* still take this branch.
WakeUp(c) ==
    /\ pc[c] = "backoff"
    /\ Goto(c, "call")
    /\ attempt' = [attempt EXCEPT ![c] = @ + 1]
    /\ UNCHANGED <<key, flight, got, err, cancelled, clocks, history, upstream>>

AbortBackoff(c) ==
    /\ pc[c] = "backoff"
    /\ cancelled[c]
    /\ Fail(c, "cancelled")
    /\ UNCHANGED <<key, flight, got, cancelled, clocks, history, upstream>>

-----------------------------------------------------------------------------
(* The environment: the host, WHMCS, the clock                              *)

\* The login's context ends: the browser went away or the host's deadline passed.
Cancel(c) ==
    /\ Pending(c)
    /\ ~cancelled[c]
    /\ cancelled' = [cancelled EXCEPT ![c] = TRUE]
    /\ UNCHANGED <<pc, key, flight, attempt, got, err, clocks, history,
                   upstream>>

\* An order, a suspension, a cancellation, a deleted or a new client.
WhmcsChange(k, v) ==
    /\ v # upstream[k]
    /\ upstream' = [upstream EXCEPT ![k] = v]
    /\ window' = [c \in Callers |->
                     IF Pending(c) /\ key[c] = k
                     THEN window[c] \cup {v} ELSE window[c]]
    /\ shared' = [c \in Callers |->
                     IF pc[c] \in LeaderPCs \cup {"wait"} /\ key[c] = k
                     THEN shared[c] \cup {v} ELSE shared[c]]
    /\ sinceNone' = [sinceNone EXCEPT ![k] = IF v = None THEN 0 ELSE @]
    /\ UNCHANGED <<control, elapsed, negAge, blips>>

\* Time passes only in HTTP exchanges, backoff sleeps and between lookups;
\* the plugin's own steps take none, and no attempt outlives HttpTimeout.
Tick ==
    /\ \A c \in Callers :
          /\ pc[c] \in {"idle", "wait", "call", "responded", "backoff"}
          /\ pc[c] \in {"call", "responded"} => elapsed[c] < HttpTimeout
    /\ elapsed' = [c \in Callers |->
                      IF pc[c] \in {"call", "responded"}
                      THEN elapsed[c] + 1 ELSE elapsed[c]]
    /\ negAge' = [k \in Keys |-> IF negAge[k] = NoEntry THEN NoEntry
                                 ELSE Older(negAge[k], AgeCap)]
    /\ sinceNone' = [k \in Keys |-> IF upstream[k] = None THEN 0
                                    ELSE Older(sinceNone[k], StaleCap)]
    /\ UNCHANGED <<control, history, upstream>>

-----------------------------------------------------------------------------
CallerStep(c) ==
    \/ CheckCache(c)
    \/ Join(c)
    \/ Recheck(c)
    \/ WhmcsAnswers(c)
    \/ TransientFailure(c)
    \/ PermanentFailure(c)
    \/ WakeUp(c)
    \/ AbortBackoff(c)
    \/ Receive(c)
    \/ Remember(c)
    \/ Deliver(c)
    \/ Return(c)

Next ==
    \/ \E c \in Callers : CallerStep(c)
    \/ \E c \in Callers, k \in Keys : Start(c, k)
    \/ \E c \in Callers : Cancel(c)
    \/ \E k \in Keys, v \in Answers : WhmcsChange(k, v)
    \/ Tick

Spec == Init /\ [][Next]_vars

\* Every HTTP attempt ends (the client's 30 s timeout), every timer fires and
\* every runnable goroutine runs.
FairSpec == Spec /\ \A c \in Callers : WF_vars(CallerStep(c))

-----------------------------------------------------------------------------
(* What the component promises                                              *)

\* Every variable has its type; in particular no retry loop goes beyond
\* retryMaxAttempts (retry.go:72).
TypeOK ==
    /\ pc \in [Callers -> PCs]
    /\ key \in [Callers -> Keys]
    /\ flight \in [Keys -> Callers \cup {NoCaller}]
    /\ attempt \in [Callers -> 0 .. RetryMaxAttempts]
    /\ got \in [Callers -> Answers]
    /\ err \in [Callers -> Errors]
    /\ cancelled \in [Callers -> BOOLEAN]
    /\ elapsed \in [Callers -> 0 .. HttpTimeout]
    /\ negAge \in [Keys -> NoEntry .. AgeCap]
    /\ upstream \in [Keys -> Answers]
    /\ window \in [Callers -> SUBSET Answers]
    /\ shared \in [Callers -> SUBSET Answers]
    /\ blips \in [Callers -> 0 .. RetryMaxAttempts]
    /\ sinceNone \in [Keys -> 0 .. StaleCap]

\* Coalescing: a burst of logins for one key has one lookup upstream, whatever
\* the callers, retries and cancellations in between (entitlements.go:21-24).
OneUpstreamCallPerKey ==
    \A c, d \in Callers :
        /\ pc[c] \in UpstreamPCs /\ pc[d] \in UpstreamPCs
        /\ key[c] = key[d]
        => c = d

\* Nobody is left behind: a caller blocked in sf.Do has a leader that still
\* works for its key, and whose outcome it will get.
WaitersHaveLeader ==
    \A c \in Callers :
        pc[c] = "wait" =>
            \E d \in Callers : pc[d] \in LeaderPCs /\ key[d] = key[c]

\* While a negative answer is remembered for a key, nobody is asking WHMCS for
\* it: the second look at the cache, inside the flight, closes the gap between
\* the first look and sf.Do (entitlements.go:65-69).
NoCallWhileNegative ==
    \A c \in Callers : pc[c] \in UpstreamPCs => ~NegativeHit(key[c])

\* A non-empty answer is never older than the flight that fetched it: nothing
\* positive is kept from one flight to the next (entitlements.go:29-32).
FlightFresh ==
    \A c \in Callers :
        pc[c] = "done" /\ got[c] # None => got[c] \in shared[c]

\* A negative answer is at most NegativeTTL and one HTTP attempt old, for the
\* callers that hit the cache, lead or follow (entitlements.go:25-27).
NegativeStalenessBounded ==
    \A c \in Callers :
        pc[c] = "done" /\ err[c] = "none" /\ got[c] = None
            => sinceNone[key[c]] <= MaxNegativeStaleness

\* A login is told "WHMCS is failing" only after every attempt the retry
\* budget allows has failed (retry.go:10-14).
BlipTolerance ==
    \A c \in Callers :
        pc[c] = "done" /\ err[c] = "exhausted" => blips[c] = RetryMaxAttempts

\* Every lookup comes to an end for its caller, leader or follower.
EveryLookupReturns ==
    \A c \in Callers : (pc[c] = "check") ~> (pc[c] = "done")

-----------------------------------------------------------------------------
(* The resolver as a LookupService: flights, retries, contexts and the cache *)
(* disappear, an error is an error.                                         *)

Phase(c) == CASE pc[c] = "idle" -> "idle"
              [] pc[c] = "done" -> "answered"
              [] OTHER -> "pending"

Lookup == INSTANCE LookupService WITH
    MaxStale <- MaxNegativeStaleness,
    phase <- [c \in Callers |-> Phase(c)],
    asks <- key,
    answer <- [c \in Callers |-> IF pc[c] = "done" THEN got[c] ELSE None],
    failed <- [c \in Callers |-> pc[c] = "done" /\ err[c] # "none"],
    held <- window

\* The resolver gives every login what LookupService promises.
ImplementsLookup == Lookup!Spec
=============================================================================
