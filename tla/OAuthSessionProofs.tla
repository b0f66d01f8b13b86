-------------------------- MODULE OAuthSessionProofs --------------------------
(***************************************************************************)
(* Proofs about OAuthSession for any number of browser tabs and calls, with *)
(* or without PKCE at WHMCS, and any number of tokens.                      *)
(*                                                                          *)
(* FlowInv says that a call past ExchangeCode's checks works for the flow   *)
(* its code came from, which is why no session is opened with another tab's *)
(* code.  TokenInv follows the refresh token of a flow that is not spoiled: *)
(* one call at a time works for it, and at each of its statements the token *)
(* that WHMCS accepts is the host's, the call's, or both.                   *)
(***************************************************************************)
EXTENDS OAuthSession, TLAPS

\* A call that WHMCS has answered and that may still open or renew a session.
Granted(x) == pc[x] \in {"userinfo", "build"} \/ (pc[x] = "done" /\ outcome[x] = "allow")

\* Flows, sessions and redirects do not get mixed up.
FlowInv ==
    /\ TabsDoNotMix
    /\ \A f \in Flows : pstate[f] # NoFlow => pstate[f].state \in {f, Missing}
    /\ \A x \in Calls :
          /\ pc[x] # "done" => outcome[x] = "none"
          /\ pc[x] # "idle" => flow[x] \in Flows /\ callback[x] \in Flows
          /\ pc[x] \in {"token", "swap"} \/ Granted(x) => callback[x] = flow[x]
          /\ pc[x] = "token" => kind[x] = "exchange"
          /\ pc[x] = "swap" => kind[x] = "refresh"

\* One call at a time works for a flow that is not spoiled.
AloneInv ==
    \A x, y \in Calls :
        /\ pc[x] # "idle" /\ pc[y] # "idle" /\ flow[x] = flow[y]
        /\ ~spoiled[flow[x]]
        => x = y

\* With no call under way, the host has the token that WHMCS accepts.
RestInv ==
    \A f \in Flows :
        /\ ~spoiled[f] /\ session[f] # NoFlow
        /\ \A x \in Calls : pc[x] = "idle" \/ flow[x] # f
        => stored[f] = grant[f]

\* With a call under way, the call has it once WHMCS has answered, and the host
\* has it before that and after a failure.
CallInv ==
    \A x \in Calls : pc[x] # "idle" /\ ~spoiled[flow[x]] =>
        /\ kind[x] = "exchange" => session[flow[x]] = NoFlow
        /\ pc[x] = "swap" => session[flow[x]] # NoFlow /\ token[x] = stored[flow[x]]
        /\ Granted(x) => token[x] = grant[flow[x]]
        /\ session[flow[x]] # NoFlow /\ pc[x] \in {"swap", "done"} /\ ~Granted(x) =>
              stored[flow[x]] = grant[flow[x]]

TokenInv == AloneInv /\ RestInv /\ CallInv

-----------------------------------------------------------------------------
(* The steps                                                                *)

\* The initial state has the types; no flow is under way.
LEMMA InitInv == Init => TypeOK /\ FlowInv /\ TokenInv
<1> SUFFICES ASSUME Init PROVE TypeOK /\ FlowInv /\ TokenInv
  OBVIOUS
<1>1. TypeOK
  BY TokenAssumption DEF Init, TypeOK, PCs, Outcomes
<1>2. FlowInv
  BY DEF Init, FlowInv, TabsDoNotMix, Granted
<1>3. TokenInv
  BY DEF Init, TokenInv, AloneInv, RestInv, CallInv
<1> QED
  BY <1>1, <1>2, <1>3

\* Every step keeps the types.
LEMMA StepTypes ==
  ASSUME TypeOK, FlowInv, [Next]_vars
  PROVE  TypeOK'
<1> USE FlowAssumption, TokenAssumption
<1> USE DEF TypeOK, PCs, Goto, Outcomes, ProviderStates, host, whmcs, call
<1>1. ASSUME NEW x \in Calls, NEW f \in Flows, NEW c \in Flows,
             ExchangeCode(x, f, c)
      PROVE  TypeOK'
  BY <1>1 DEF ExchangeCode, Enter, Finish
<1>2. ASSUME NEW x \in Calls, RedeemCode(x)
      PROVE  TypeOK'
  <2>1. callback[x] \in Flows
    BY <1>2 DEF RedeemCode, FlowInv
  <2>2. /\ grant' \in [Flows -> 0 .. MaxToken]
        /\ code' \in [Flows -> {"none", "issued", "redeemed"}]
        /\ token' \in [Calls -> 0 .. MaxToken]
    BY <1>2, <2>1 DEF RedeemCode
  <2>3. pc' \in [Calls -> PCs] /\ outcome' \in [Calls -> Outcomes]
    BY <1>2 DEF RedeemCode, Finish
  <2>4. \A y \in Calls : pc'[y] = "swap" => token'[y] # 0
    BY <1>2 DEF RedeemCode, Finish
  <2> QED
    BY <1>2, <2>2, <2>3, <2>4 DEF RedeemCode
<1>3. ASSUME NEW x \in Calls, RedeemFails(x)
      PROVE  TypeOK'
  BY <1>3 DEF RedeemFails, Finish
<1>4. ASSUME NEW x \in Calls, NEW f \in Flows, RefreshSession(x, f)
      PROVE  TypeOK'
  <2>1. /\ kind' \in [Calls -> {"exchange", "refresh"}]
        /\ flow' \in [Calls -> Flows \cup {NoFlow}]
        /\ callback' \in [Calls -> Flows \cup {NoFlow}]
        /\ spoiled' \in [Flows -> BOOLEAN]
    BY <1>4 DEF RefreshSession, Enter, Busy
  <2>2. /\ pc' \in [Calls -> PCs] /\ outcome' \in [Calls -> Outcomes]
        /\ token' \in [Calls -> 0 .. MaxToken]
    BY <1>4 DEF RefreshSession, Finish
  <2>3. \A y \in Calls : pc'[y] = "swap" => token'[y] # 0
    BY <1>4 DEF RefreshSession, Finish, NothingToRefresh
  <2> QED
    BY <1>4, <2>1, <2>2, <2>3 DEF RefreshSession
<1>5. ASSUME NEW x \in Calls, SwapToken(x)
      PROVE  TypeOK'
  <2>1. callback[x] \in Flows /\ flow[x] \in Flows /\ token[x] # 0
    BY <1>5 DEF SwapToken, FlowInv
  <2>2. grant' \in [Flows -> 0 .. MaxToken]
    <3>1. grant' = grant \/ (grant[callback[x]] < MaxToken
                                /\ grant' = [grant EXCEPT ![callback[x]] = @ + 1])
      BY <1>5 DEF SwapToken
    <3>2. grant[callback[x]] < MaxToken => grant[callback[x]] + 1 \in 0 .. MaxToken
      BY <2>1
    <3> QED
      BY <2>1, <3>1, <3>2
  <2>6. spoiled' \in [Flows -> BOOLEAN]
    BY <1>5, <2>1 DEF SwapToken
  <2>3. token' \in [Calls -> 0 .. MaxToken]
    BY <1>5, <2>1 DEF SwapToken, NextRefresh
  <2>4. pc' \in [Calls -> PCs] /\ outcome' \in [Calls -> Outcomes]
    BY <1>5 DEF SwapToken, Finish
  <2>5. \A y \in Calls : pc'[y] = "swap" => token'[y] # 0
    BY <1>5 DEF SwapToken, Finish
  <2> QED
    BY <1>5, <2>2, <2>3, <2>4, <2>5, <2>6 DEF SwapToken
<1>6. ASSUME NEW x \in Calls, SwapFails(x)
      PROVE  TypeOK'
  BY <1>6 DEF SwapFails, Finish
<1>7. ASSUME NEW x \in Calls, UserInfo(x)
      PROVE  TypeOK'
  BY <1>7 DEF UserInfo
<1>8. ASSUME NEW x \in Calls, NEW o \in {"Internal", "refused"},
             RefuseAfterToken(x, o)
      PROVE  TypeOK'
  BY <1>8 DEF RefuseAfterToken, Finish
<1>9. ASSUME NEW x \in Calls, Allow(x)
      PROVE  TypeOK'
  BY <1>9 DEF Allow, Finish
<1>10. ASSUME NEW x \in Calls, Reply(x)
      PROVE  TypeOK'
  BY <1>10 DEF Reply
<1>11. ASSUME NEW f \in Flows, InitAuthorize(f)
      PROVE  TypeOK'
  BY <1>11 DEF InitAuthorize
<1>12. ASSUME NEW f \in Flows, HostForgets(f)
      PROVE  TypeOK'
  BY <1>12 DEF HostForgets
<1>13. ASSUME NEW f \in Flows, Consent(f)
      PROVE  TypeOK'
  BY <1>13 DEF Consent
<1>14. CASE Reconfigure
  BY <1>14 DEF Reconfigure
<1>15. CASE UNCHANGED vars
  BY <1>15 DEF vars
<1> HIDE DEF TypeOK
<1> QED
  BY <1>1, <1>2, <1>3, <1>4, <1>5, <1>6, <1>7, <1>8, <1>9, <1>10, <1>11,
     <1>12, <1>13, <1>14, <1>15 DEF Next, CallStep

\* Every step keeps flows apart.
LEMMA StepFlow ==
  ASSUME TypeOK, FlowInv, [Next]_vars
  PROVE  FlowInv'
<1> USE FlowAssumption
<1> USE DEF TypeOK, FlowInv, TabsDoNotMix, Granted, PCs, Goto, ProviderStates, StateOk,
            host, whmcs, call
<1>1. ASSUME NEW x \in Calls, NEW f \in Flows, NEW c \in Flows,
             ExchangeCode(x, f, c)
      PROVE  FlowInv'
  BY <1>1 DEF ExchangeCode, Enter, Finish
<1>2. ASSUME NEW x \in Calls, RedeemCode(x)
      PROVE  FlowInv'
  BY <1>2 DEF RedeemCode, Finish
<1>3. ASSUME NEW x \in Calls, RedeemFails(x)
      PROVE  FlowInv'
  BY <1>3 DEF RedeemFails, Finish
<1>4. ASSUME NEW x \in Calls, NEW f \in Flows, RefreshSession(x, f)
      PROVE  FlowInv'
  BY <1>4 DEF RefreshSession, Enter, Finish
<1>5. ASSUME NEW x \in Calls, SwapToken(x)
      PROVE  FlowInv'
  BY <1>5 DEF SwapToken, Finish, NextRefresh
<1>6. ASSUME NEW x \in Calls, SwapFails(x)
      PROVE  FlowInv'
  BY <1>6 DEF SwapFails, Finish
<1>7. ASSUME NEW x \in Calls, UserInfo(x)
      PROVE  FlowInv'
  BY <1>7 DEF UserInfo
<1>8. ASSUME NEW x \in Calls, NEW o \in {"Internal", "refused"},
             RefuseAfterToken(x, o)
      PROVE  FlowInv'
  BY <1>8 DEF RefuseAfterToken, Finish
<1>9. ASSUME NEW x \in Calls, Allow(x)
      PROVE  FlowInv'
  BY <1>9 DEF Allow, Finish
<1>10. ASSUME NEW x \in Calls, Reply(x)
      PROVE  FlowInv'
  BY <1>10 DEF Reply
<1>11. ASSUME NEW f \in Flows, InitAuthorize(f)
      PROVE  FlowInv'
  BY <1>11 DEF InitAuthorize
<1>12. ASSUME NEW f \in Flows, HostForgets(f)
      PROVE  FlowInv'
  BY <1>12 DEF HostForgets
<1>13. ASSUME NEW f \in Flows, Consent(f)
      PROVE  FlowInv'
  BY <1>13 DEF Consent
<1>14. CASE Reconfigure
  BY <1>14 DEF Reconfigure
<1>15. CASE UNCHANGED vars
  BY <1>15 DEF vars
<1> HIDE DEF TypeOK, FlowInv
<1> QED
  BY <1>1, <1>2, <1>3, <1>4, <1>5, <1>6, <1>7, <1>8, <1>9, <1>10, <1>11,
     <1>12, <1>13, <1>14, <1>15 DEF Next, CallStep

\* Every step keeps calls of an unspoiled flow apart.
LEMMA StepAlone ==
  ASSUME TypeOK, FlowInv, AloneInv, [Next]_vars
  PROVE  AloneInv'
<1> USE DEF TypeOK, FlowInv, AloneInv, Busy, Goto, host, whmcs, call
<1>1. ASSUME NEW x \in Calls, NEW f \in Flows, NEW c \in Flows,
             ExchangeCode(x, f, c)
      PROVE  AloneInv'
  <2>1. /\ flow' = [flow EXCEPT ![x] = f]
        /\ \A g \in Flows : g # f => spoiled'[g] = spoiled[g]
        /\ \A y \in Calls : y # x => pc'[y] = pc[y]
    BY <1>1 DEF ExchangeCode, Enter, Finish
  <2>2. spoiled'[f] = (spoiled[f] \/ Busy(f))
    BY <1>1 DEF ExchangeCode, Enter
  <2>3. ASSUME ~spoiled'[f]
        PROVE  ~spoiled[f] /\ \A y \in Calls : pc[y] = "idle" \/ flow[y] # f
    <3> HIDE DEF Busy
    <3>1. ~spoiled[f] /\ ~Busy(f)
      BY <2>2, <2>3
    <3> QED
      BY <3>1 DEF Busy
  <2> SUFFICES ASSUME NEW a \in Calls, NEW b \in Calls,
                      pc'[a] # "idle", pc'[b] # "idle", flow'[a] = flow'[b],
                      ~spoiled'[flow'[a]]
               PROVE  a = b
    OBVIOUS
  <2>4. CASE flow'[a] = f
    BY <2>1, <2>3, <2>4
  <2>5. CASE flow'[a] # f
    BY <2>1, <2>5
  <2> QED
    BY <2>4, <2>5
<1>2. ASSUME NEW x \in Calls, RedeemCode(x)
      PROVE  AloneInv'
  BY <1>2 DEF RedeemCode, Finish
<1>3. ASSUME NEW x \in Calls, RedeemFails(x)
      PROVE  AloneInv'
  BY <1>3 DEF RedeemFails, Finish
<1>4. ASSUME NEW x \in Calls, NEW f \in Flows, RefreshSession(x, f)
      PROVE  AloneInv'
  <2>1. /\ flow' = [flow EXCEPT ![x] = f]
        /\ \A g \in Flows : g # f => spoiled'[g] = spoiled[g]
        /\ \A y \in Calls : y # x => pc'[y] = pc[y]
    BY <1>4 DEF RefreshSession, Enter, Finish
  <2>2. spoiled'[f] = (spoiled[f] \/ Busy(f))
    BY <1>4 DEF RefreshSession, Enter
  <2>3. ASSUME ~spoiled'[f]
        PROVE  ~spoiled[f] /\ \A y \in Calls : pc[y] = "idle" \/ flow[y] # f
    <3> HIDE DEF Busy
    <3>1. ~spoiled[f] /\ ~Busy(f)
      BY <2>2, <2>3
    <3> QED
      BY <3>1 DEF Busy
  <2> SUFFICES ASSUME NEW a \in Calls, NEW b \in Calls,
                      pc'[a] # "idle", pc'[b] # "idle", flow'[a] = flow'[b],
                      ~spoiled'[flow'[a]]
               PROVE  a = b
    OBVIOUS
  <2>4. CASE flow'[a] = f
    BY <2>1, <2>3, <2>4
  <2>5. CASE flow'[a] # f
    BY <2>1, <2>5
  <2> QED
    BY <2>4, <2>5
<1>5. ASSUME NEW x \in Calls, SwapToken(x)
      PROVE  AloneInv'
  BY <1>5 DEF SwapToken, Finish, NextRefresh
<1>6. ASSUME NEW x \in Calls, SwapFails(x)
      PROVE  AloneInv'
  BY <1>6 DEF SwapFails, Finish
<1>7. ASSUME NEW x \in Calls, UserInfo(x)
      PROVE  AloneInv'
  BY <1>7 DEF UserInfo
<1>8. ASSUME NEW x \in Calls, NEW o \in {"Internal", "refused"},
             RefuseAfterToken(x, o)
      PROVE  AloneInv'
  BY <1>8 DEF RefuseAfterToken, Finish
<1>9. ASSUME NEW x \in Calls, Allow(x)
      PROVE  AloneInv'
  BY <1>9 DEF Allow, Finish
<1>10. ASSUME NEW x \in Calls, Reply(x)
      PROVE  AloneInv'
  BY <1>10 DEF Reply
<1>11. ASSUME NEW f \in Flows, InitAuthorize(f)
      PROVE  AloneInv'
  BY <1>11 DEF InitAuthorize
<1>12. ASSUME NEW f \in Flows, HostForgets(f)
      PROVE  AloneInv'
  BY <1>12 DEF HostForgets
<1>13. ASSUME NEW f \in Flows, Consent(f)
      PROVE  AloneInv'
  BY <1>13 DEF Consent
<1>14. CASE Reconfigure
  BY <1>14 DEF Reconfigure
<1>15. CASE UNCHANGED vars
  BY <1>15 DEF vars
<1> HIDE DEF TypeOK, FlowInv, AloneInv
<1> QED
  BY <1>1, <1>2, <1>3, <1>4, <1>5, <1>6, <1>7, <1>8, <1>9, <1>10, <1>11,
     <1>12, <1>13, <1>14, <1>15 DEF Next, CallStep

\* Every step leaves the host with the accepted token when a flow comes to rest.
LEMMA StepRest ==
  ASSUME TypeOK, FlowInv, TokenInv, [Next]_vars
  PROVE  RestInv'
<1> USE FlowAssumption
<1> USE DEF TypeOK, FlowInv, TokenInv, AloneInv, RestInv, CallInv, TabsDoNotMix, Granted, Goto,
            host, whmcs, call
<1>1. ASSUME NEW x \in Calls, NEW f \in Flows, NEW c \in Flows,
             ExchangeCode(x, f, c)
      PROVE  RestInv'
  BY <1>1 DEF ExchangeCode, Enter, Finish
<1>2. ASSUME NEW x \in Calls, RedeemCode(x)
      PROVE  RestInv'
  BY <1>2 DEF RedeemCode, Finish
<1>3. ASSUME NEW x \in Calls, RedeemFails(x)
      PROVE  RestInv'
  BY <1>3 DEF RedeemFails, Finish
<1>4. ASSUME NEW x \in Calls, NEW f \in Flows, RefreshSession(x, f)
      PROVE  RestInv'
  <2>1. /\ spoiled' = [spoiled EXCEPT ![f] = @ \/ Busy(f)]
        /\ UNCHANGED <<session, stored, grant>>
    BY <1>4 DEF RefreshSession, Enter
  <2>2. /\ pc[x] = "idle" /\ pc'[x] # "idle" /\ flow'[x] = f
        /\ \A y \in Calls : y # x => pc'[y] = pc[y] /\ flow'[y] = flow[y]
    BY <1>4 DEF RefreshSession, Enter, Finish
  <2>3. \A g \in Flows : ~spoiled'[g] => ~spoiled[g]
    BY <2>1
  <2> QED
    BY <2>1, <2>2, <2>3
<1>5. ASSUME NEW x \in Calls, SwapToken(x)
      PROVE  RestInv'
  BY <1>5 DEF SwapToken, Finish, NextRefresh
<1>6. ASSUME NEW x \in Calls, SwapFails(x)
      PROVE  RestInv'
  BY <1>6 DEF SwapFails, Finish
<1>7. ASSUME NEW x \in Calls, UserInfo(x)
      PROVE  RestInv'
  BY <1>7 DEF UserInfo
<1>8. ASSUME NEW x \in Calls, NEW o \in {"Internal", "refused"},
             RefuseAfterToken(x, o)
      PROVE  RestInv'
  BY <1>8 DEF RefuseAfterToken, Finish
<1>9. ASSUME NEW x \in Calls, Allow(x)
      PROVE  RestInv'
  BY <1>9 DEF Allow, Finish
<1>10. ASSUME NEW x \in Calls, Reply(x)
      PROVE  RestInv'
  BY <1>10 DEF Reply
<1>11. ASSUME NEW f \in Flows, InitAuthorize(f)
      PROVE  RestInv'
  BY <1>11 DEF InitAuthorize
<1>12. ASSUME NEW f \in Flows, HostForgets(f)
      PROVE  RestInv'
  BY <1>12 DEF HostForgets
<1>13. ASSUME NEW f \in Flows, Consent(f)
      PROVE  RestInv'
  BY <1>13 DEF Consent
<1>14. CASE Reconfigure
  BY <1>14 DEF Reconfigure
<1>15. CASE UNCHANGED vars
  BY <1>15 DEF vars
<1> HIDE DEF TypeOK, FlowInv, TokenInv, AloneInv, RestInv, CallInv
<1> QED
  BY <1>1, <1>2, <1>3, <1>4, <1>5, <1>6, <1>7, <1>8, <1>9, <1>10, <1>11,
     <1>12, <1>13, <1>14, <1>15 DEF Next, CallStep

\* Every step of a call keeps track of the accepted token.
LEMMA StepCall ==
  ASSUME TypeOK, FlowInv, TokenInv, [Next]_vars
  PROVE  CallInv'
<1> USE FlowAssumption
<1> USE DEF TypeOK, FlowInv, TokenInv, AloneInv, RestInv, CallInv, TabsDoNotMix, Granted, Goto,
            Busy, host, whmcs, call
<1>1. ASSUME NEW x \in Calls, NEW f \in Flows, NEW c \in Flows,
             ExchangeCode(x, f, c)
      PROVE  CallInv'
  BY <1>1 DEF ExchangeCode, Enter, Finish
<1>2. ASSUME NEW x \in Calls, RedeemCode(x)
      PROVE  CallInv'
  BY <1>2 DEF RedeemCode, Finish
<1>3. ASSUME NEW x \in Calls, RedeemFails(x)
      PROVE  CallInv'
  BY <1>3 DEF RedeemFails, Finish
<1>4. ASSUME NEW x \in Calls, NEW f \in Flows, RefreshSession(x, f)
      PROVE  CallInv'
  <2>1. session[f] # NoFlow /\ session[f] = f /\ f \in Flows
    BY <1>4 DEF RefreshSession
  <2>2. ~spoiled'[f] => ~spoiled[f] /\ stored[f] = grant[f]
    <3>1. spoiled'[f] = (spoiled[f] \/ Busy(f))
      BY <1>4 DEF RefreshSession, Enter
    <3>2. Busy(f) \/ \A y \in Calls : pc[y] = "idle" \/ flow[y] # f
      BY DEF Busy
    <3> HIDE DEF Busy
    <3> QED
      BY <2>1, <3>1, <3>2
  <2>3. /\ flow' = [flow EXCEPT ![x] = f]
        /\ kind' = [kind EXCEPT ![x] = "refresh"]
        /\ token' = [token EXCEPT ![x] = stored[f]]
        /\ \A g \in Flows : spoiled[g] => spoiled'[g]
        /\ UNCHANGED <<session, stored, grant>>
    BY <1>4 DEF RefreshSession, Enter
  <2>4. /\ \A y \in Calls : y # x => pc'[y] = pc[y] /\ outcome'[y] = outcome[y]
        /\ pc'[x] \in {"swap", "done"}
        /\ pc'[x] = "done" => outcome'[x] # "allow"
    BY <1>4 DEF RefreshSession, Finish
  <2> HIDE DEF Busy
  <2> QED
    BY <2>1, <2>2, <2>3, <2>4
<1>5. ASSUME NEW x \in Calls, SwapToken(x)
      PROVE  CallInv'
  BY <1>5 DEF SwapToken, Finish, NextRefresh
<1>6. ASSUME NEW x \in Calls, SwapFails(x)
      PROVE  CallInv'
  BY <1>6 DEF SwapFails, Finish
<1>7. ASSUME NEW x \in Calls, UserInfo(x)
      PROVE  CallInv'
  BY <1>7 DEF UserInfo
<1>8. ASSUME NEW x \in Calls, NEW o \in {"Internal", "refused"},
             RefuseAfterToken(x, o)
      PROVE  CallInv'
  <2>1. /\ flow[x] \in Flows /\ Granted(x)
        /\ pc' = [pc EXCEPT ![x] = "done"]
        /\ outcome' = [outcome EXCEPT ![x] = o]
        /\ o # "allow"
        /\ UNCHANGED <<flow, kind, token, session, stored, grant>>
    BY <1>8 DEF RefuseAfterToken, Finish
  <2>2. /\ \A g \in Flows : spoiled[g] => spoiled'[g]
        /\ ~spoiled'[flow[x]] => token[x] = stored[flow[x]]
    <3>1. spoiled' = [spoiled EXCEPT ![flow[x]] =
                         spoiled[flow[x]] \/ token[x] # stored[flow[x]]]
      BY <1>8 DEF RefuseAfterToken
    <3>2. spoiled'[flow[x]] = (spoiled[flow[x]] \/ token[x] # stored[flow[x]])
      BY <2>1, <3>1
    <3>3. ASSUME NEW g \in Flows, spoiled[g] PROVE spoiled'[g]
      <4>1. CASE g = flow[x]
        BY <3>2, <3>3, <4>1
      <4>2. CASE g # flow[x]
        BY <3>1, <3>3, <4>2
      <4> QED
        BY <4>1, <4>2
    <3>4. ~spoiled'[flow[x]] => token[x] = stored[flow[x]]
      BY <3>2
    <3> QED
      BY <3>3, <3>4
  <2> QED
    BY <2>1, <2>2
<1>9. ASSUME NEW x \in Calls, Allow(x)
      PROVE  CallInv'
  BY <1>9 DEF Allow, Finish
<1>10. ASSUME NEW x \in Calls, Reply(x)
      PROVE  CallInv'
  BY <1>10 DEF Reply
<1>11. ASSUME NEW f \in Flows, InitAuthorize(f)
      PROVE  CallInv'
  BY <1>11 DEF InitAuthorize
<1>12. ASSUME NEW f \in Flows, HostForgets(f)
      PROVE  CallInv'
  BY <1>12 DEF HostForgets
<1>13. ASSUME NEW f \in Flows, Consent(f)
      PROVE  CallInv'
  BY <1>13 DEF Consent
<1>14. CASE Reconfigure
  BY <1>14 DEF Reconfigure
<1>15. CASE UNCHANGED vars
  BY <1>15 DEF vars
<1> HIDE DEF TypeOK, FlowInv, TokenInv, AloneInv, RestInv, CallInv
<1> QED
  BY <1>1, <1>2, <1>3, <1>4, <1>5, <1>6, <1>7, <1>8, <1>9, <1>10, <1>11,
     <1>12, <1>13, <1>14, <1>15 DEF Next, CallStep

-----------------------------------------------------------------------------
(* The theorems                                                             *)

\* The inductive invariant.
Inv == TypeOK /\ FlowInv /\ TokenInv

\* Every reachable state satisfies the invariant.
LEMMA Invariant == Spec => []Inv
<1>1. Init => Inv
  BY InitInv DEF Inv
<1>2. Inv /\ [Next]_vars => Inv'
  BY StepTypes, StepFlow, StepAlone, StepRest, StepCall DEF Inv, TokenInv
<1> QED
  BY <1>1, <1>2, PTL DEF Spec

\* Every variable keeps its type; no empty token is ever sent to WHMCS.
THEOREM TypeCorrect == Spec => []TypeOK
<1>1. Inv => TypeOK
  BY DEF Inv
<1> QED
  BY <1>1, Invariant, PTL

\* Whatever redirect the host pairs with whatever provider_state, no tab gets
\* another one's session, even if WHMCS ignores PKCE (auth/server.go:192-200).
THEOREM TabsKeptApart == Spec => []TabsDoNotMix
<1>1. Inv => TabsDoNotMix
  BY DEF Inv, FlowInv
<1> QED
  BY <1>1, Invariant, PTL

\* The refresh token is carried forward through any number of refreshes, for as
\* long as none fails half-way or overlaps another (auth/server.go:129-134).
THEOREM TokenNeverStale == Spec => []TokenCarriedForward
<1>1. Inv => TokenCarriedForward
  BY FlowAssumption
     DEF Inv, TypeOK, FlowInv, TokenInv, RestInv, TabsDoNotMix, Busy, TokenCarriedForward
<1> QED
  BY <1>1, Invariant, PTL
===============================================================================
