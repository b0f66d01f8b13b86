---------------------------- MODULE ProductCache ----------------------------
(***************************************************************************)
(* The admin product list: ProductCache (internal/whmcs/cache.go) and the   *)
(* two endpoints that serve it, HandleProducts and HandleProductsRefresh    *)
(* (internal/admin/server.go).  A request works in steps, each one a section *)
(* under the cache's mutex or one half of the exchange with WHMCS; the       *)
(* response is put together from several reads of the cache.                *)
(*                                                                          *)
(* The list is abstracted to the version of the WHMCS catalog it was read    *)
(* from, an error to being there or not.                                    *)
(***************************************************************************)
EXTENDS Integers

CONSTANTS
    Requests,       \* HTTP requests that may be served at once
    NoRequest,
    TTL,            \* productCacheTTL, in ticks
    HttpTimeout,    \* ticks after which the exchange with WHMCS has ended
    MaxCatalog,     \* bound on the changes of the catalog
    MaxClock        \* bound on the clock

ASSUME RequestAssumption == NoRequest \notin Requests
ASSUME BoundAssumption ==
    TTL \in Nat /\ HttpTimeout \in Nat /\ MaxCatalog \in Nat /\ MaxClock \in Nat

VARIABLES
    pc,         \* where each request is
    kind,       \* "get" or "refresh"
    flight,     \* the request that leads the "get" flight, or NoRequest
    got,        \* the list a request holds, or NoList
    failed,     \* it holds an error
    reply,      \* the diagnostics read for its response so far
    elapsed,    \* ticks its exchange with WHMCS has lasted
    cache,      \* the fields of ProductCache
    catalog,    \* WHMCS: the version of the catalog
    clock

\* History, read by no action: when each version of the catalog was replaced,
\* and when each request came.
VARIABLES replaced, born

history == <<replaced, born>>
request == <<pc, kind, flight, got, failed, reply, elapsed>>
vars == <<request, cache, catalog, clock, history>>

NoList == -1
Never == -1
Lists == 0 .. MaxCatalog
Times == 0 .. MaxClock

PCs == {"idle", "look", "join", "wait", "recheck", "fetch", "fetched",
        "deliver", "cached_at", "last_attempt_at", "last_error", "sent"}
Diagnostics == [cached_at : Times \cup {Never}, last_attempt_at : Times \cup {Never},
                last_error : BOOLEAN]
NoDiagnostics == [cached_at |-> Never, last_attempt_at |-> Never, last_error |-> FALSE]

Goto(x, l) == pc' = [pc EXCEPT ![x] = l]

Init ==
    /\ pc = [x \in Requests |-> "idle"]
    /\ kind = [x \in Requests |-> "get"]
    /\ flight = NoRequest
    /\ got = [x \in Requests |-> NoList]
    /\ failed = [x \in Requests |-> FALSE]
    /\ reply = [x \in Requests |-> NoDiagnostics]
    /\ elapsed = [x \in Requests |-> 0]
    /\ cache = [products |-> NoList, at |-> Never, lastAttempt |-> Never,
                lastErr |-> FALSE]
    /\ catalog = 0
    /\ clock = 0
    /\ replaced = [v \in Lists |-> Never]
    /\ born = [x \in Requests |-> 0]

-----------------------------------------------------------------------------
(* Get                                                                      *)

\* Mutant: freshness counts from the last attempt.
Fresh_SinceAttempt == cache.at # Never /\ clock - cache.lastAttempt < TTL

Fresh == cache.at # Never /\ clock - cache.at < TTL

Arrive(x, k) ==
    /\ pc[x] = "idle"
    /\ Goto(x, IF k = "get" THEN "look" ELSE "fetch")
    /\ kind' = [kind EXCEPT ![x] = k]
    /\ born' = [born EXCEPT ![x] = clock]
    /\ UNCHANGED <<flight, got, failed, reply, elapsed, cache, catalog, clock,
                   replaced>>

Look(x) ==
    /\ pc[x] = "look"
    /\ IF Fresh
       THEN Goto(x, "cached_at") /\ got' = [got EXCEPT ![x] = cache.products]
       ELSE Goto(x, "join") /\ UNCHANGED got
    /\ UNCHANGED <<kind, flight, failed, reply, elapsed, cache, catalog, clock,
                   history>>

\* Mutant: no singleflight group.
Join_NoGroup(x) ==
    /\ pc[x] = "join"
    /\ Goto(x, "recheck")
    /\ flight' = x
    /\ UNCHANGED <<kind, got, failed, reply, elapsed, cache, catalog, clock,
                   history>>

Join(x) ==
    /\ pc[x] = "join"
    /\ \/ flight = NoRequest /\ flight' = x /\ Goto(x, "recheck")
       \/ flight # NoRequest /\ Goto(x, "wait") /\ UNCHANGED flight
    /\ UNCHANGED <<kind, got, failed, reply, elapsed, cache, catalog, clock,
                   history>>

Recheck(x) ==
    /\ pc[x] = "recheck"
    /\ IF Fresh
       THEN Goto(x, "deliver") /\ got' = [got EXCEPT ![x] = cache.products]
       ELSE Goto(x, "fetch") /\ UNCHANGED got
    /\ UNCHANGED <<kind, flight, failed, reply, elapsed, cache, catalog, clock,
                   history>>

\* Mutant: the outcome is not handed to those who wait.
Deliver_LeaderOnly(x) ==
    /\ pc[x] = "deliver"
    /\ Goto(x, "cached_at")
    /\ flight' = NoRequest
    /\ UNCHANGED <<kind, got, failed, reply, elapsed, cache, catalog, clock, history>>

\* The flight closes: everyone in it gets its outcome.
Deliver(x) ==
    /\ pc[x] = "deliver"
    /\ LET all == {x} \cup {y \in Requests : pc[y] = "wait"}
       IN  /\ pc' = [y \in Requests |-> IF y \in all THEN "cached_at" ELSE pc[y]]
           /\ got' = [y \in Requests |-> IF y \in all THEN got[x] ELSE got[y]]
           /\ failed' = [y \in Requests |->
                             IF y \in all THEN failed[x] ELSE failed[y]]
    /\ flight' = NoRequest
    /\ UNCHANGED <<kind, reply, elapsed, cache, catalog, clock, history>>

-----------------------------------------------------------------------------
(* Refresh, forced or under Get                                             *)

\* WHMCS reads its catalog; the answer is on its way.
WhmcsReads(x) ==
    /\ pc[x] = "fetch"
    /\ Goto(x, "fetched")
    /\ got' = [got EXCEPT ![x] = catalog]
    /\ UNCHANGED <<kind, flight, failed, reply, elapsed, cache, catalog, clock,
                   history>>

\* Mutant: a failure counts as a fetch.
Record_StampsFailure(l) ==
    cache' = [products |-> IF l = NoList THEN cache.products ELSE l, at |-> clock,
              lastAttempt |-> clock, lastErr |-> l = NoList]

\* Refresh's locked section, for the list l it got, or for an error.
Record(l) ==
    cache' = IF l = NoList
             THEN [cache EXCEPT !.lastAttempt = clock, !.lastErr = TRUE]
             ELSE [products |-> l, at |-> clock, lastAttempt |-> clock, lastErr |-> FALSE]

\* Refresh returns, into the flight or to HandleProductsRefresh.
Return(x) ==
    /\ Goto(x, IF kind[x] = "get" THEN "deliver" ELSE "cached_at")
    /\ elapsed' = [elapsed EXCEPT ![x] = 0]

Receive(x) ==
    /\ pc[x] = "fetched"
    /\ Record(got[x])
    /\ Return(x)
    /\ UNCHANGED <<kind, flight, got, failed, reply, catalog, clock, history>>

\* Mutant: what was read is returned along with the error.
FetchFails_KeepsList(x) ==
    /\ pc[x] \in {"fetch", "fetched"}
    /\ Record(NoList)
    /\ Return(x)
    /\ failed' = [failed EXCEPT ![x] = TRUE]
    /\ UNCHANGED <<kind, flight, got, reply, catalog, clock, history>>

\* GetProducts does not run under retry: any failure ends it.
FetchFails(x) ==
    /\ pc[x] \in {"fetch", "fetched"}
    /\ Record(NoList)
    /\ Return(x)
    /\ got' = [got EXCEPT ![x] = NoList]
    /\ failed' = [failed EXCEPT ![x] = TRUE]
    /\ UNCHANGED <<kind, flight, reply, catalog, clock, history>>

-----------------------------------------------------------------------------
(* productsResponse                                                         *)

ReadCachedAt(x) ==
    /\ pc[x] = "cached_at"
    /\ Goto(x, "last_attempt_at")
    /\ reply' = [reply EXCEPT ![x].cached_at = cache.at]
    /\ UNCHANGED <<kind, flight, got, failed, elapsed, cache, catalog, clock,
                   history>>

ReadLastAttemptAt(x) ==
    /\ pc[x] = "last_attempt_at"
    /\ Goto(x, "last_error")
    /\ reply' = [reply EXCEPT ![x].last_attempt_at = cache.lastAttempt]
    /\ UNCHANGED <<kind, flight, got, failed, elapsed, cache, catalog, clock,
                   history>>

\* Mutant: the request's own error is taken to be the cache's.
ReportedError_CacheOnly(x) == cache.lastErr

\* The cache's error, or else the request's own.
ReportedError(x) == cache.lastErr \/ failed[x]

ReadLastError(x) ==
    /\ pc[x] = "last_error"
    /\ Goto(x, "sent")
    /\ reply' = [reply EXCEPT ![x].last_error = ReportedError(x)]
    /\ UNCHANGED <<kind, flight, got, failed, elapsed, cache, catalog, clock,
                   history>>

\* The response is out.
Finish(x) ==
    /\ pc[x] = "sent"
    /\ Goto(x, "idle")
    /\ kind' = [kind EXCEPT ![x] = "get"]
    /\ got' = [got EXCEPT ![x] = NoList]
    /\ failed' = [failed EXCEPT ![x] = FALSE]
    /\ reply' = [reply EXCEPT ![x] = NoDiagnostics]
    /\ born' = [born EXCEPT ![x] = 0]
    /\ UNCHANGED <<flight, elapsed, cache, catalog, clock, replaced>>

-----------------------------------------------------------------------------
CatalogChange ==
    /\ catalog < MaxCatalog
    /\ catalog' = catalog + 1
    /\ replaced' = [replaced EXCEPT ![catalog] = clock]
    /\ UNCHANGED <<request, cache, clock, born>>

\* Time passes in the exchanges with WHMCS and between requests.
Tick ==
    /\ clock < MaxClock
    /\ \A x \in Requests :
          /\ pc[x] \in {"idle", "wait", "fetch", "fetched"}
          /\ pc[x] \in {"fetch", "fetched"} => elapsed[x] < HttpTimeout
    /\ clock' = clock + 1
    /\ elapsed' = [x \in Requests |-> IF pc[x] \in {"fetch", "fetched"}
                                      THEN elapsed[x] + 1 ELSE elapsed[x]]
    /\ UNCHANGED <<pc, kind, flight, got, failed, reply, cache, catalog, history>>

RequestStep(x) ==
    \/ Look(x) \/ Join(x) \/ Recheck(x) \/ Deliver(x)
    \/ WhmcsReads(x) \/ Receive(x) \/ FetchFails(x)
    \/ ReadCachedAt(x) \/ ReadLastAttemptAt(x) \/ ReadLastError(x) \/ Finish(x)

Next ==
    \/ \E x \in Requests : RequestStep(x)
    \/ \E x \in Requests, k \in {"get", "refresh"} : Arrive(x, k)
    \/ CatalogChange
    \/ Tick

Spec == Init /\ [][Next]_vars

\* Every exchange ends (30 s timeout) and every runnable goroutine runs.
FairSpec == Spec /\ \A x \in Requests : WF_vars(RequestStep(x))

-----------------------------------------------------------------------------
(* What the endpoint promises                                               *)

\* Every variable has its type, and nobody holds both an error and a list.
TypeOK ==
    /\ pc \in [Requests -> PCs]
    /\ kind \in [Requests -> {"get", "refresh"}]
    /\ flight \in Requests \cup {NoRequest}
    /\ got \in [Requests -> Lists \cup {NoList}]
    /\ failed \in [Requests -> BOOLEAN]
    /\ \A x \in Requests : failed[x] => got[x] = NoList
    /\ reply \in [Requests -> Diagnostics]
    /\ elapsed \in [Requests -> 0 .. HttpTimeout]
    /\ cache \in [products : Lists \cup {NoList}, at : Times \cup {Never},
                  lastAttempt : Times \cup {Never}, lastErr : BOOLEAN]
    /\ catalog \in Lists
    /\ clock \in Times
    /\ replaced \in [Lists -> Times \cup {Never}]
    /\ born \in [Requests -> Times]

\* WHMCS still had list v at time t.
CurrentAt(v, t) == replaced[v] = Never \/ replaced[v] >= t

\* A burst of page loads makes one request of WHMCS, next to forced refreshes
\* (cache.go:34-37).
OneFetchForGets ==
    \A x, y \in Requests :
        /\ kind[x] = "get" /\ kind[y] = "get"
        /\ pc[x] \in {"fetch", "fetched"} /\ pc[y] \in {"fetch", "fetched"}
        => x = y

\* cached_at is honest, whichever of several overlapping fetches wrote last
\* and whatever failed since: the list was WHMCS's at most HttpTimeout before.
StampHonest ==
    cache.at # Never => /\ cache.products # NoList
                        /\ CurrentAt(cache.products, cache.at - HttpTimeout)

\* No response carries a list that WHMCS had replaced more than TTL and one
\* HTTP exchange before the request came.
ListAgeBounded ==
    \A x \in Requests :
        pc[x] = "sent" /\ got[x] # NoList =>
            CurrentAt(got[x], born[x] - TTL - HttpTimeout)

\* A response without a list says why, even if another request has cleared the
\* cache's error in the meantime (admin/server.go:148-150).
FailureVisible ==
    \A x \in Requests : pc[x] = "sent" /\ got[x] = NoList => reply[x].last_error

\* Every request for the list is answered, leader or follower.
EveryRequestAnswered ==
    \A x \in Requests : (pc[x] = "join") ~> (pc[x] = "sent")

\* web/src/pages/Products.tsx:628: next to an error, the page shows the last
\* known good list; so the response carries one if there ever was one.
LastGoodListShown ==
    \A x \in Requests :
        pc[x] = "sent" /\ reply[x].last_error /\ reply[x].cached_at # Never =>
            got[x] # NoList
=============================================================================
