--------------------------- MODULE LookupService ---------------------------
(***************************************************************************)
(* What a login may rely on when it looks a key up: no cache, no flight, no *)
(* retry.  A set of callers that asked for one key may be answered at once, *)
(* with something WHMCS held for that key since ONE of them asked; with     *)
(* "nothing", if WHMCS had nothing at most MaxStale ticks ago; or with an   *)
(* error.  EntitlementResolver implements it.                               *)
(***************************************************************************)
EXTENDS Integers

CONSTANTS Callers, Keys, Values, None, MaxStale

VARIABLES
    phase,      \* per caller: "idle", "pending" or "answered"
    asks,       \* per caller: the key it asks for, when it is not idle
    answer,     \* per caller: its answer, when answered without an error
    failed,     \* per caller: it was answered with an error
    held,       \* per caller: what WHMCS held for the key while it was pending
    upstream,   \* per key: what WHMCS holds now
    sinceNone   \* per key: ticks since WHMCS had nothing for it

vars == <<phase, asks, answer, failed, held, upstream, sinceNone>>

Answers == Values \cup {None}

Init ==
    /\ phase = [c \in Callers |-> "idle"]
    /\ asks \in [Callers -> Keys]
    /\ answer = [c \in Callers |-> None]
    /\ failed = [c \in Callers |-> FALSE]
    /\ held = [c \in Callers |-> {}]
    /\ upstream \in [Keys -> Answers]
    /\ sinceNone = [k \in Keys |-> IF upstream[k] = None THEN 0
                                   ELSE MaxStale + 1]

Ask(c, k) ==
    /\ phase[c] = "idle"
    /\ phase' = [phase EXCEPT ![c] = "pending"]
    /\ asks' = [asks EXCEPT ![c] = k]
    /\ held' = [held EXCEPT ![c] = {upstream[k]}]
    /\ UNCHANGED <<answer, failed, upstream, sinceNone>>

\* The callers in S, pending on k, are answered together.
Group(S, k) ==
    /\ S # {}
    /\ \A c \in S : phase[c] = "pending" /\ asks[c] = k
    /\ phase' = [c \in Callers |-> IF c \in S THEN "answered" ELSE phase[c]]
    /\ UNCHANGED <<asks, held, upstream, sinceNone>>

Answer(S, k, v) ==
    /\ Group(S, k)
    /\ IF v = None THEN sinceNone[k] <= MaxStale ELSE \E c \in S : v \in held[c]
    /\ answer' = [c \in Callers |-> IF c \in S THEN v ELSE answer[c]]
    /\ UNCHANGED failed

Refuse(S, k) ==
    /\ Group(S, k)
    /\ failed' = [c \in Callers |-> c \in S \/ failed[c]]
    /\ UNCHANGED answer

\* What an idle caller asks for means nothing.
Leave(c) ==
    /\ phase[c] = "answered"
    /\ phase' = [phase EXCEPT ![c] = "idle"]
    /\ \E k \in Keys : asks' = [asks EXCEPT ![c] = k]
    /\ answer' = [answer EXCEPT ![c] = None]
    /\ failed' = [failed EXCEPT ![c] = FALSE]
    /\ held' = [held EXCEPT ![c] = {}]
    /\ UNCHANGED <<upstream, sinceNone>>

Change(k, v) ==
    /\ upstream' = [upstream EXCEPT ![k] = v]
    /\ held' = [c \in Callers |-> IF phase[c] = "pending" /\ asks[c] = k
                                  THEN held[c] \cup {v} ELSE held[c]]
    /\ sinceNone' = [sinceNone EXCEPT ![k] = IF v = None THEN 0 ELSE @]
    /\ UNCHANGED <<phase, asks, answer, failed>>

\* Ages above MaxStale are not told apart.
Tick ==
    /\ sinceNone' = [k \in Keys |->
                        IF upstream[k] = None THEN 0
                        ELSE IF sinceNone[k] <= MaxStale THEN sinceNone[k] + 1
                        ELSE sinceNone[k]]
    /\ UNCHANGED <<phase, asks, answer, failed, held, upstream>>

Next ==
    \/ \E c \in Callers, k \in Keys : Ask(c, k)
    \/ \E S \in SUBSET Callers, k \in Keys, v \in Answers : Answer(S, k, v)
    \/ \E S \in SUBSET Callers, k \in Keys : Refuse(S, k)
    \/ \E c \in Callers : Leave(c)
    \/ \E k \in Keys, v \in Answers : Change(k, v)
    \/ Tick

Spec == Init /\ [][Next]_vars
=============================================================================
