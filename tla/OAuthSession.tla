---------------------------- MODULE OAuthSession ----------------------------
(***************************************************************************)
(* The OAuth protocol between the host, the plugin and WHMCS                *)
(* (internal/auth/server.go, internal/whmcs/oauth.go): a browser's flow from *)
(* InitAuthorize to ExchangeCode, and the sessions kept alive afterwards by  *)
(* RefreshSession with WHMCS's rotating refresh tokens.  What buildResponse  *)
(* decides is LoginDecision's subject; here it allows or refuses.            *)
(*                                                                          *)
(* The plugin keeps nothing between RPCs.  The host keeps provider_state and *)
(* the claims; WHMCS keeps codes and tokens.  Both are external, and modelled *)
(* by how the code uses them.                                               *)
(***************************************************************************)
EXTENDS Integers

CONSTANTS
    Flows,          \* browser tabs, each with one authorization attempt
    Calls,          \* gRPC calls that may run at once
    NoFlow, Missing,
    PkceChecked,    \* WHMCS compares code_verifier with the challenge
    MaxToken        \* bound on the tokens WHMCS issues for one grant

ASSUME FlowAssumption == NoFlow \notin Flows /\ Missing \notin Flows
ASSUME PkceAssumption == PkceChecked \in BOOLEAN
ASSUME TokenAssumption == MaxToken \in Nat \ {0}

VARIABLES
    config,     \* what cfgFn returns: "none", "no_secret" or "full"
    pstate,     \* host, per flow: provider_state, or NoFlow
    session,    \* host, per flow: the flow whose code it was opened with
    stored,     \* host, per flow: the refresh token in the claims, 0: none
    code,       \* WHMCS, per flow: "none", "issued" or "redeemed"
    grant,      \* WHMCS, per flow: the refresh token it accepts, 0: none
    pc,         \* per call
    kind,       \* per call: "exchange" or "refresh"
    flow,       \* per call: the flow the host calls for
    callback,   \* per call: the flow whose redirect brought the code
    token,      \* per call: nextRefresh / tok.RefreshToken
    outcome     \* per call

\* History, per flow: a call failed after WHMCS had issued another token, or
\* two calls for the flow overlapped.
VARIABLE spoiled

host == <<pstate, session, stored>>
whmcs == <<code, grant>>
call == <<pc, kind, flow, callback, token, outcome>>
vars == <<config, host, whmcs, call, spoiled>>

PCs == {"idle", "token", "swap", "userinfo", "build", "done"}
Outcomes == {"none", "allow", "refused", "FailedPrecondition", "InvalidArgument",
             "Unauthenticated", "Internal", "Unimplemented"}
ProviderStates == [verifier : Flows \cup {Missing}, state : Flows \cup {Missing}]

Goto(x, l) == pc' = [pc EXCEPT ![x] = l]
Finish(x, o) == Goto(x, "done") /\ outcome' = [outcome EXCEPT ![x] = o]
Busy(f) == \E x \in Calls : pc[x] # "idle" /\ flow[x] = f

Init ==
    /\ config \in {"none", "no_secret", "full"}
    /\ pstate = [f \in Flows |-> NoFlow]
    /\ session = [f \in Flows |-> NoFlow]
    /\ stored = [f \in Flows |-> 0]
    /\ code = [f \in Flows |-> "none"]
    /\ grant = [f \in Flows |-> 0]
    /\ pc = [x \in Calls |-> "idle"]
    /\ kind = [x \in Calls |-> "exchange"]
    /\ flow = [x \in Calls |-> NoFlow]
    /\ callback = [x \in Calls |-> NoFlow]
    /\ token = [x \in Calls |-> 0]
    /\ outcome = [x \in Calls |-> "none"]
    /\ spoiled = [f \in Flows |-> FALSE]

-----------------------------------------------------------------------------
(* The browser and the host                                                 *)

\* The verifier is fresh: no two flows have the same.
InitAuthorize(f) ==
    /\ pstate[f] = NoFlow
    /\ config # "none"
    /\ pstate' = [pstate EXCEPT ![f] = [verifier |-> f, state |-> f]]
    /\ UNCHANGED <<config, session, stored, whmcs, call, spoiled>>

\* The host does not keep all of provider_state (docs/debugging.md:32).
HostForgets(f) ==
    /\ pstate[f] # NoFlow
    /\ \/ pstate' = [pstate EXCEPT ![f].verifier = Missing]
       \/ pstate' = [pstate EXCEPT ![f].state = Missing]
    /\ UNCHANGED <<config, session, stored, whmcs, call, spoiled>>

\* The user consents; WHMCS redirects with the code and the flow's state.
Consent(f) ==
    /\ pstate[f] # NoFlow
    /\ code[f] = "none"
    /\ code' = [code EXCEPT ![f] = "issued"]
    /\ UNCHANGED <<config, host, grant, call, spoiled>>

Reconfigure ==
    /\ config' \in {"none", "no_secret", "full"} \ {config}
    /\ UNCHANGED <<host, whmcs, call, spoiled>>

\* A call for flow f begins.
Enter(x, k, f, c) ==
    /\ pc[x] = "idle"
    /\ kind' = [kind EXCEPT ![x] = k]
    /\ flow' = [flow EXCEPT ![x] = f]
    /\ callback' = [callback EXCEPT ![x] = c]
    /\ spoiled' = [spoiled EXCEPT ![f] = @ \/ Busy(f)]

-----------------------------------------------------------------------------
(* ExchangeCode                                                             *)

\* Mutant: without an expected state the comparison is skipped.
StateOk_Lenient(f, c) == pstate[f].state \in {c, Missing}

\* The state the redirect carries is the one provider_state expects.
StateOk(f, c) == pstate[f].state = c

\* The redirect of flow c reaches the host, which may well take it for flow f
\* as long as f has no session;
\* the checks made before anything is sent to WHMCS.
ExchangeCode(x, f, c) ==
    /\ code[c] # "none" /\ pstate[f] # NoFlow /\ session[f] = NoFlow
    /\ Enter(x, "exchange", f, c)
    /\ \/ config # "full" /\ Finish(x, "FailedPrecondition")
       \/ /\ config = "full"
          /\ \/ pstate[f].verifier = Missing /\ Finish(x, "InvalidArgument")
             \/ /\ pstate[f].verifier # Missing /\ ~StateOk(f, c)
                /\ Finish(x, "Unauthenticated")
             \/ /\ pstate[f].verifier # Missing /\ StateOk(f, c)
                /\ Goto(x, "token") /\ UNCHANGED outcome
    /\ UNCHANGED <<config, host, whmcs, token>>

\* WHMCS takes the code, once, and may issue a refresh token with the access
\* token; the answer may get lost.  The call sends its own flow's verifier.
RedeemCode(x) ==
    LET c == callback[x]
    IN  /\ pc[x] = "token"
        /\ code[c] = "issued"
        /\ PkceChecked => flow[x] = c
        /\ code' = [code EXCEPT ![c] = "redeemed"]
        /\ \E t \in {0, 1} :
              /\ grant' = [grant EXCEPT ![c] = t]
              /\ \/ /\ token' = [token EXCEPT ![x] = t]
                    /\ Goto(x, "userinfo") /\ UNCHANGED outcome
                 \/ Finish(x, "Internal") /\ UNCHANGED token
        /\ UNCHANGED <<config, host, kind, flow, callback, spoiled>>

\* WHMCS refuses the code, or does not get to see it.
RedeemFails(x) ==
    /\ pc[x] = "token"
    /\ Finish(x, "Internal")
    /\ UNCHANGED <<config, host, whmcs, kind, flow, callback, token, spoiled>>

-----------------------------------------------------------------------------
(* RefreshSession                                                           *)

\* Mutant: an empty token is sent to WHMCS.
NothingToRefresh_Never(t) == FALSE

\* The host sent no refresh token.
NothingToRefresh(t) == t = 0

RefreshSession(x, f) ==
    /\ session[f] # NoFlow
    /\ Enter(x, "refresh", f, session[f])
    /\ token' = [token EXCEPT ![x] = stored[f]]
    /\ \/ config # "full" /\ Finish(x, "FailedPrecondition")
       \/ /\ config = "full" /\ NothingToRefresh(stored[f])
          /\ Finish(x, "Unimplemented")
       \/ /\ config = "full" /\ ~NothingToRefresh(stored[f])
          /\ Goto(x, "swap") /\ UNCHANGED outcome
    /\ UNCHANGED <<config, host, whmcs>>

\* Mutant: the token the host sent is carried back.
NextRefresh_Same(old, new) == old

\* WHMCS's token if it returned one, else the one it was sent.
NextRefresh(old, new) == IF new = 0 THEN old ELSE new

\* WHMCS accepts the token, and may replace it; the answer may get lost.
SwapToken(x) ==
    LET g == callback[x]
    IN  /\ pc[x] = "swap"
        /\ token[x] = grant[g]
        /\ \/ /\ grant[g] < MaxToken
              /\ grant' = [grant EXCEPT ![g] = @ + 1]
              /\ \/ /\ token' = [token EXCEPT ![x] =
                                    NextRefresh(token[x], grant[g] + 1)]
                    /\ Goto(x, "userinfo") /\ UNCHANGED <<outcome, spoiled>>
                 \/ /\ Finish(x, "Unauthenticated") /\ UNCHANGED token
                    /\ spoiled' = [spoiled EXCEPT ![flow[x]] = TRUE]
           \/ /\ token' = [token EXCEPT ![x] = NextRefresh(token[x], 0)]
              /\ Goto(x, "userinfo")
              /\ UNCHANGED <<grant, outcome, spoiled>>
        /\ UNCHANGED <<config, host, code, kind, flow, callback>>

\* WHMCS no longer knows the token, or does not get to see it.
SwapFails(x) ==
    /\ pc[x] = "swap"
    /\ Finish(x, "Unauthenticated")
    /\ UNCHANGED <<config, host, whmcs, kind, flow, callback, token, spoiled>>

-----------------------------------------------------------------------------
(* Both: userinfo, buildResponse, and what the host does with the response  *)

UserInfo(x) ==
    /\ pc[x] = "userinfo"
    /\ Goto(x, "build")
    /\ UNCHANGED <<config, host, whmcs, kind, flow, callback, token, outcome,
                   spoiled>>

\* userinfo fails, or buildResponse refuses or fails: the token is dropped.
RefuseAfterToken(x, o) ==
    /\ \/ pc[x] = "userinfo" /\ o = "Internal"
       \/ pc[x] = "build" /\ o = "refused"
    /\ Finish(x, o)
    /\ spoiled' = [spoiled EXCEPT ![flow[x]] = @ \/ token[x] # stored[flow[x]]]
    /\ UNCHANGED <<config, host, whmcs, kind, flow, callback, token>>

Allow(x) ==
    /\ pc[x] = "build"
    /\ Finish(x, "allow")
    /\ UNCHANGED <<config, host, whmcs, kind, flow, callback, token, spoiled>>

\* The host keeps the claims of a response, and what it had after an error.
Reply(x) ==
    /\ pc[x] = "done"
    /\ IF outcome[x] = "allow"
       THEN /\ session' = [session EXCEPT ![flow[x]] = callback[x]]
            /\ stored' = [stored EXCEPT ![flow[x]] = token[x]]
       ELSE UNCHANGED <<session, stored>>
    /\ Goto(x, "idle")
    /\ kind' = [kind EXCEPT ![x] = "exchange"]
    /\ flow' = [flow EXCEPT ![x] = NoFlow]
    /\ callback' = [callback EXCEPT ![x] = NoFlow]
    /\ token' = [token EXCEPT ![x] = 0]
    /\ outcome' = [outcome EXCEPT ![x] = "none"]
    /\ UNCHANGED <<config, pstate, whmcs, spoiled>>

CallStep(x) ==
    \/ \E f, c \in Flows : ExchangeCode(x, f, c)
    \/ RedeemCode(x)
    \/ RedeemFails(x)
    \/ \E f \in Flows : RefreshSession(x, f)
    \/ SwapToken(x)
    \/ SwapFails(x)
    \/ UserInfo(x)
    \/ \E o \in {"Internal", "refused"} : RefuseAfterToken(x, o)
    \/ Allow(x)
    \/ Reply(x)

Next ==
    \/ \E x \in Calls : CallStep(x)
    \/ \E f \in Flows : InitAuthorize(f) \/ HostForgets(f) \/ Consent(f)
    \/ Reconfigure

Spec == Init /\ [][Next]_vars

-----------------------------------------------------------------------------
(* What the protocol must keep                                              *)

\* Every variable has its type, and a call about to swap a token has one.
TypeOK ==
    /\ config \in {"none", "no_secret", "full"}
    /\ pstate \in [Flows -> ProviderStates \cup {NoFlow}]
    /\ session \in [Flows -> Flows \cup {NoFlow}]
    /\ stored \in [Flows -> 0 .. MaxToken]
    /\ code \in [Flows -> {"none", "issued", "redeemed"}]
    /\ grant \in [Flows -> 0 .. MaxToken]
    /\ pc \in [Calls -> PCs]
    /\ kind \in [Calls -> {"exchange", "refresh"}]
    /\ flow \in [Calls -> Flows \cup {NoFlow}]
    /\ callback \in [Calls -> Flows \cup {NoFlow}]
    /\ token \in [Calls -> 0 .. MaxToken]
    /\ \A x \in Calls : pc[x] = "swap" => token[x] # 0
    /\ outcome \in [Calls -> Outcomes]
    /\ spoiled \in [Flows -> BOOLEAN]

\* Tabs do not mix: a session is opened only with the code its own flow was
\* given, even if WHMCS does not check PKCE and the host hands the redirect of
\* one tab over with the provider_state of another, or with half of it
\* (auth/server.go:192-200).
TabsDoNotMix == \A f \in Flows : session[f] \in {f, NoFlow}

\* As long as no refresh of a session failed half-way or overlapped another,
\* the token the host keeps is the one WHMCS accepts (auth/server.go:129-134).
TokenCarriedForward ==
    \A f \in Flows :
        session[f] # NoFlow /\ ~Busy(f) /\ ~spoiled[f] => stored[f] = grant[session[f]]

\* auth/server.go:129-130: the freshest token is carried forward so that the
\* next refresh uses it: a refresh that WHMCS answered with a new token returns
\* it to the host.
FreshestTokenKept ==
    \A x \in Calls :
        pc[x] = "done" /\ kind[x] = "refresh" /\ token[x] # stored[flow[x]] =>
            outcome[x] = "allow"
=============================================================================
