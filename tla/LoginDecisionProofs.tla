-------------------------- MODULE LoginDecisionProofs --------------------------
(***************************************************************************)
(* Proofs about LoginDecision for any number of logins, accounts, product   *)
(* lists and configurations, applied in any number and order, and for any   *)
(* staleness of the lookup.                                                 *)
(*                                                                          *)
(* What a login decides on it got from lookups that others may have begun,  *)
(* on behalf of a client it learned about steps ago, under a configuration  *)
(* it read before that.  LookupInv says which lookup is whose.  CredibleInv *)
(* says that whatever WHMCS holds now, held since a lookup began, or may    *)
(* still be taken to hold, is credible to every login under way.  ClientInv *)
(* carries the client, and DecisionInv the products, to the response.       *)
(***************************************************************************)
EXTENDS LoginDecision, TLAPS

\* Who waits for a lookup, and of which key.
LookupInv ==
    \A p \in Rpcs :
        /\ pc[p] \in {"email", "await"} <=> phase[p] # "idle"
        /\ pc[p] = "email" => asks[p] = <<api[p], ui[p].email>>
        /\ pc[p] = "await" => asks[p] = <<api[p], client[p]>>

\* What is credible to a login under way: what WHMCS holds, what it may still
\* be taken to hold, ...
NowInv ==
    \A p \in Rpcs, k \in Keys : pc[p] # "idle" =>
        /\ upstream[k] \in credible[p][k]
        /\ sinceNone[k] <= MaxStale => {} \in credible[p][k]

\* ... what it held since any pending lookup began, ...
PendingInv ==
    \A p, q \in Rpcs :
        pc[p] # "idle" /\ phase[q] = "pending" => held[q] \subseteq credible[p][asks[q]]

\* ... and what the login itself was answered.
AnswerInv ==
    \A p \in Rpcs :
        phase[p] = "answered" /\ ~failed[p] => answer[p] \in credible[p][asks[p]]

CredibleInv == NowInv /\ PendingInv /\ AnswerInv

\* The address whose client a login without an id asks for.
ByAddress(p) == ui[p].id = NoClient /\ <<api[p], ui[p].email>> \in Addresses

\* An account the login may take for its own.
Own(p, a) ==
    /\ a \in Accounts /\ a \in OwnAccounts(p)
    /\ ui[p].id # NoClient \/ ByAddress(p)

\* From userinfo to the client it stands for, by one server's admin API.
ClientAt(p) ==
    /\ pc[p] = "email" => ByAddress(p)
    /\ pc[p] \in {"products", "await", "discord"} => Own(p, <<api[p], client[p]>>)
    /\ pc[p] \in {"products", "await"} => NeedsProducts(cfg[p])

ClientInv == \A p \in Rpcs : ClientAt(p)

\* What a login takes its account's products to be is a list it may believe in.
Believed(p) ==
    \E a \in Accounts : Own(p, a) /\ \E l \in credible[p][a] : owned[p] = ActiveProductIDs(l)

\* From the products to the response.
DecisionAt(p) ==
    /\ owned[p] # {} => pc[p] \in {"discord", "done"} /\ Believed(p)
    /\ role[p] = "admin" =>
          owned[p] # {} /\ RoleFromProducts(owned[p], cfg[p].mapping) = "admin"
    /\ pc[p] = "discord" \/ Decided(p, "allow") =>
          cfg[p].allowed = {} \/ (Believed(p) /\ AnyMatch(cfg[p].allowed, owned[p]))
    /\ Decided(p, "PermissionDenied_gate") =>
          Believed(p) /\ ~AnyMatch(cfg[p].allowed, owned[p])
    /\ Decided(p, "PermissionDenied_client") =>
          \/ ui[p] = Blank
          \/ ByAddress(p) /\ {} \in credible[p][<<api[p], ui[p].email>>]
    /\ Decided(p, "FailedPrecondition") => ~Usable(cfg[p]) \/ ~cfg[p].creds

DecisionInv == \A p \in Rpcs : DecisionAt(p)

-----------------------------------------------------------------------------
(* Keys, records and answers                                                *)

\* Accounts and addresses are told apart, and either may have nothing.
LEMMA RecordFacts ==
  /\ \A k \in Keys : {} \in Records(k) /\ Records(k) \subseteq AllRecords
  /\ \A k \in Accounts : k \in Keys /\ Records(k) = ProductLists
  /\ \A k \in Addresses : k \in Keys /\ Records(k) = {{}} \cup {{c} : c \in Clients}
<1>1. \A k \in Addresses : k \notin Accounts
  BY KeysAssumption DEF Addresses, Accounts
<1>2. \A k \in Keys : {} \in Records(k)
  BY ListsAssumption DEF Records
<1>3. \A k \in Keys : Records(k) \subseteq AllRecords
  BY DEF AllRecords
<1>4. \A k \in Accounts : k \in Keys /\ Records(k) = ProductLists
  BY DEF Records, Keys
<1>5. \A k \in Addresses : k \in Keys /\ Records(k) = {{}} \cup {{c} : c \in Clients}
  BY <1>1 DEF Records, Keys
<1> QED
  BY <1>2, <1>3, <1>4, <1>5

\* What a login is answered about an address is nobody, or a client it may take
\* for its own.
LEMMA AnsweredClient ==
  ASSUME TypeOK, LookupInv, AnswerInv, ClientInv, NEW p \in Rpcs,
         pc[p] = "email", phase[p] = "answered", ~failed[p]
  PROVE  /\ ByAddress(p)
         /\ answer[p] \in credible[p][<<api[p], ui[p].email>>]
         /\ \A c \in answer[p] : c \in Clients /\ Own(p, <<api[p], c>>)
<1>1. ByAddress(p) /\ asks[p] = <<api[p], ui[p].email>>
  BY DEF ClientInv, ClientAt, LookupInv
<1>2. answer[p] \in credible[p][asks[p]]
  BY DEF AnswerInv
<1>3. asks[p] \in Addresses
  BY <1>1 DEF ByAddress
<1>4. answer[p] \in {{}} \cup {{c} : c \in Clients}
  BY <1>2, <1>3, RecordFacts DEF TypeOK, LookupTypes
<1>5. api[p] \in Servers
  BY <1>1 DEF ByAddress, Addresses
<1>6. ASSUME NEW c \in answer[p]
      PROVE  c \in Clients /\ Own(p, <<api[p], c>>)
  <2>1. c \in Clients
    BY <1>4
  <2>2. c \in UNION credible[p][<<api[p], ui[p].email>>]
    BY <1>1, <1>2
  <2>3. <<api[p], c>> \in OwnAccounts(p)
    BY <1>1, <2>2 DEF OwnAccounts, ByAddress
  <2>4. <<api[p], c>> \in Accounts
    BY <1>5, <2>1 DEF Accounts
  <2> QED
    BY <1>1, <2>1, <2>3, <2>4 DEF Own
<1> QED
  BY <1>1, <1>2, <1>6

\* What a login is answered about its client is a list it may believe in.
LEMMA AnsweredProducts ==
  ASSUME TypeOK, LookupInv, AnswerInv, ClientInv, NEW p \in Rpcs,
         pc[p] = "await", phase[p] = "answered", ~failed[p]
  PROVE  /\ Own(p, <<api[p], client[p]>>)
         /\ answer[p] \in credible[p][<<api[p], client[p]>>]
         /\ answer[p] \in ProductLists
<1>1. Own(p, <<api[p], client[p]>>) /\ asks[p] = <<api[p], client[p]>>
  BY DEF ClientInv, ClientAt, LookupInv
<1>2. answer[p] \in credible[p][asks[p]] /\ asks[p] \in Accounts
  BY <1>1 DEF AnswerInv, Own
<1>3. answer[p] \in ProductLists
  BY <1>2, RecordFacts DEF TypeOK, LookupTypes
<1> QED
  BY <1>1, <1>2, <1>3

-----------------------------------------------------------------------------
(* The steps                                                                *)

\* The initial state has the types and nobody is logging in.
LEMMA InitInv == Init => TypeOK /\ LookupInv /\ CredibleInv /\ ClientInv /\ DecisionInv
<1> SUFFICES ASSUME Init
             PROVE  TypeOK /\ LookupInv /\ CredibleInv /\ ClientInv /\ DecisionInv
  OBVIOUS
<1>1. AnyConfig \in Configs
  BY DEF Init, AnyConfig
<1>2. TypeOK
  <2>1. /\ live \in Configs
        /\ resolver \in Servers \cup {NoServer}
        /\ storing \in [Appliers -> Servers \cup {NoServer, "idle"}]
        /\ cfg \in [Rpcs -> Configs]
    BY <1>1, ConfigsAssumption DEF Init, ResolverOf
  <2>2. /\ pc \in [Rpcs -> PCs]
        /\ ui \in [Rpcs -> UserInfos]
        /\ api \in [Rpcs -> Servers \cup {NoServer}]
        /\ client \in [Rpcs -> Clients \cup {NoClient}]
    BY DEF Init, PCs, UserInfos, Blank
  <2>3. /\ owned \in [Rpcs -> SUBSET UNION {ActiveProductIDs(l) : l \in ProductLists}]
        /\ role \in [Rpcs -> {"absent", "user", "admin"}]
        /\ discord \in [Rpcs -> BOOLEAN]
        /\ outcome \in [Rpcs -> Outcomes]
    BY DEF Init, Outcomes
  <2>4. /\ credible \in [Rpcs -> [Keys -> SUBSET AllRecords]]
        /\ phase \in [Rpcs -> {"idle", "pending", "answered"}]
        /\ asks \in [Rpcs -> Keys]
        /\ failed \in [Rpcs -> BOOLEAN]
        /\ held \in [Rpcs -> SUBSET AllRecords]
    BY DEF Init, Lookups!Init
  <2>6. \A k \in Keys : /\ upstream[k] \in Records(k)
                       /\ \A p \in Rpcs : credible[p][k] \subseteq Records(k)
    BY DEF Init
  <2>7. upstream \in [Keys -> AllRecords]
    BY <2>6, RecordFacts DEF Init, Lookups!Init
  <2>8. answer \in [Rpcs -> AllRecords]
    BY <2>4, RecordFacts DEF Init, Lookups!Init
  <2>5. sinceNone \in [Keys -> 0 .. MaxStale + 1]
    BY MaxStaleAssumption DEF Init, Lookups!Init
  <2> QED
    BY <2>1, <2>2, <2>3, <2>4, <2>5, <2>6, <2>7, <2>8
       DEF TypeOK, ConfigTypes, LoginTypes, ResponseTypes, LookupTypes
<1>3. LookupInv /\ CredibleInv
  BY DEF Init, Lookups!Init, LookupInv, CredibleInv, NowInv, PendingInv, AnswerInv
<1>4. ClientInv /\ DecisionInv
  BY DEF Init, ClientInv, ClientAt, DecisionInv, DecisionAt, Decided
<1> QED
  BY <1>2, <1>3, <1>4

\* The admin API a login gets is that of a server; without any, its own
\* configuration has no credentials.
LEMMA ApiOfServer ==
  ASSUME TypeOK, NEW p \in Rpcs
  PROVE  /\ EntitlementApi(p) \in Servers \cup {NoServer}
         /\ EntitlementApi(p) = NoServer => ~cfg[p].creds
  BY ConfigsAssumption, AbsentAssumption
     DEF TypeOK, ConfigTypes, LoginTypes, EntitlementApi, ResolverOf

\* A login that only sees more become credible keeps its accounts, ...
LEMMA OwnStays ==
  ASSUME NEW q \in Rpcs, ui'[q] = ui[q], api'[q] = api[q],
         \A k \in Keys : credible[q][k] \subseteq credible'[q][k]
  PROVE  /\ ByAddress(q) => ByAddress(q)'
         /\ \A a : Own(q, a) => Own(q, a)'
<1>1. ByAddress(q) => ByAddress(q)'
  BY DEF ByAddress
<1>2. ASSUME NEW a, Own(q, a)
      PROVE  Own(q, a)'
  <2>1. CASE ui[q].id # NoClient
    BY <1>2, <2>1 DEF Own, OwnAccounts
  <2>2. CASE ui[q].id = NoClient
    <3>1. <<api[q], ui[q].email>> \in Keys /\ ByAddress(q)
      BY <1>2, <2>2, RecordFacts DEF Own, ByAddress
    <3>2. UNION credible[q][<<api[q], ui[q].email>>]
             \subseteq UNION credible'[q][<<api[q], ui[q].email>>]
      BY <3>1
    <3>3. a \in OwnAccounts(q)'
      BY <1>2, <2>2, <3>2 DEF Own, OwnAccounts
    <3> QED
      BY <1>1, <1>2, <3>1, <3>3 DEF Own
  <2> QED
    BY <2>1, <2>2
<1> QED
  BY <1>1, <1>2

\* ... its client, ...
LEMMA ClientStays ==
  ASSUME NEW q \in Rpcs, ClientAt(q),
         pc'[q] = pc[q], cfg'[q] = cfg[q], ui'[q] = ui[q], api'[q] = api[q],
         client'[q] = client[q],
         \A k \in Keys : credible[q][k] \subseteq credible'[q][k]
  PROVE  ClientAt(q)'
  BY OwnStays DEF ClientAt

\* ... and stands by its decision.
LEMMA DecisionStays ==
  ASSUME NEW q \in Rpcs, DecisionAt(q),
         pc'[q] = pc[q], cfg'[q] = cfg[q], ui'[q] = ui[q], api'[q] = api[q],
         owned'[q] = owned[q], role'[q] = role[q], outcome'[q] = outcome[q],
         \A k \in Keys : credible[q][k] \subseteq credible'[q][k]
  PROVE  DecisionAt(q)'
<1>1. Believed(q) => Believed(q)'
  <2> SUFFICES ASSUME Believed(q) PROVE Believed(q)'
    OBVIOUS
  <2>1. PICK a \in Accounts : Own(q, a) /\ \E l \in credible[q][a] : owned[q] = ActiveProductIDs(l)
    BY DEF Believed
  <2>2. Own(q, a)'
    BY <2>1, OwnStays
  <2>3. credible[q][a] \subseteq credible'[q][a]
    BY RecordFacts
  <2> QED
    BY <2>1, <2>2, <2>3 DEF Believed
<1>2. ByAddress(q) /\ {} \in credible[q][<<api[q], ui[q].email>>]
         => ByAddress(q)' /\ {} \in credible'[q][<<api[q], ui[q].email>>]
  BY RecordFacts DEF ByAddress
<1> QED
  BY <1>1, <1>2 DEF DecisionAt, Decided

\* Every step keeps the types of the configuration.
LEMMA StepConfigTypes ==
  ASSUME TypeOK, [Next]_vars
  PROVE  ConfigTypes'
<1> USE ConfigsAssumption
<1> USE DEF TypeOK, ConfigTypes, ResolverOf, config
<1>1. ASSUME NEW p \in Rpcs, Begin(p)
      PROVE  ConfigTypes'
  BY <1>1 DEF Begin, Finish
<1>2. ASSUME NEW p \in Rpcs, NEW info \in UserInfos, UserInfo(p, info)
      PROVE  ConfigTypes'
  BY <1>2 DEF UserInfo
<1>3. ASSUME NEW p \in Rpcs, UserInfoFails(p)
      PROVE  ConfigTypes'
  BY <1>3 DEF UserInfoFails, Finish
<1>4. ASSUME NEW p \in Rpcs, PlainLogin(p)
      PROVE  ConfigTypes'
  BY <1>4 DEF PlainLogin, Finish
<1>5. ASSUME NEW p \in Rpcs, CannotResolve(p)
      PROVE  ConfigTypes'
  BY <1>5 DEF CannotResolve, Finish
<1>6. ASSUME NEW p \in Rpcs, ClientFromId(p)
      PROVE  ConfigTypes'
  BY <1>6 DEF ClientFromId, TakeApi, WithClient
<1>7. ASSUME NEW p \in Rpcs, AskByEmail(p)
      PROVE  ConfigTypes'
  BY <1>7 DEF AskByEmail, AskForClient, TakeApi, Lookups!Ask
<1>8. ASSUME NEW p \in Rpcs, ClientFromEmail(p)
      PROVE  ConfigTypes'
  BY <1>8 DEF ClientFromEmail, WithClient, Finish, TakeAnswer, Lookups!Leave
<1>9. ASSUME NEW p \in Rpcs, AskProducts(p)
      PROVE  ConfigTypes'
  BY <1>9 DEF AskProducts, Lookups!Ask
<1>10. ASSUME NEW p \in Rpcs, DecideOnProducts(p)
      PROVE  ConfigTypes'
  BY <1>10 DEF DecideOnProducts, Finish, TakeAnswer, Lookups!Leave
<1>11. ASSUME NEW p \in Rpcs, Respond(p)
      PROVE  ConfigTypes'
  BY <1>11 DEF Respond, Finish
<1>12. ASSUME NEW p \in Rpcs, Reply(p)
      PROVE  ConfigTypes'
  BY <1>12 DEF Reply
<1>13. ASSUME NEW S \in SUBSET Rpcs, NEW k \in Keys, AnswerLookup(S, k)
      PROVE  ConfigTypes'
  BY <1>13 DEF AnswerLookup, Lookups!Answer, Lookups!Refuse,
     Lookups!Group
<1>14. ASSUME NEW k \in Keys, NEW v \in Records(k), WhmcsChange(k, v)
      PROVE  ConfigTypes'
  BY <1>14 DEF WhmcsChange, Lookups!Change
<1>15. ASSUME NEW o \in Appliers, NEW c \in Configs,
             Reconfigure(o, c)
      PROVE  ConfigTypes'
  BY <1>15 DEF Reconfigure
<1>16. ASSUME NEW o \in Appliers, StoreResolver(o)
      PROVE  ConfigTypes'
  BY <1>16 DEF StoreResolver
<1>17. CASE Tick
  BY <1>17 DEF Tick, Lookups!Tick
<1>18. CASE UNCHANGED vars
  BY <1>18 DEF vars
<1> HIDE DEF TypeOK, ConfigTypes
<1> QED
  BY <1>1, <1>2, <1>3, <1>4, <1>5, <1>6, <1>7, <1>8, <1>9, <1>10, <1>11,
     <1>12, <1>13, <1>14, <1>15, <1>16, <1>17, <1>18 DEF Next, RpcStep

\* Every step keeps the types of a login's inputs.
LEMMA StepLoginTypes ==
  ASSUME TypeOK, LookupInv, AnswerInv, ClientInv, [Next]_vars
  PROVE  LoginTypes'
<1> USE AbsentAssumption
<1> USE DEF TypeOK, LoginTypes, PCs, Goto, rpc
<1>1. ASSUME NEW p \in Rpcs, Begin(p)
      PROVE  LoginTypes'
  BY <1>1 DEF Begin, Finish, ConfigTypes
<1>2. ASSUME NEW p \in Rpcs, NEW info \in UserInfos, UserInfo(p, info)
      PROVE  LoginTypes'
  BY <1>2 DEF UserInfo
<1>3. ASSUME NEW p \in Rpcs, UserInfoFails(p)
      PROVE  LoginTypes'
  BY <1>3 DEF UserInfoFails, Finish
<1>4. ASSUME NEW p \in Rpcs, PlainLogin(p)
      PROVE  LoginTypes'
  BY <1>4 DEF PlainLogin, Finish
<1>5. ASSUME NEW p \in Rpcs, CannotResolve(p)
      PROVE  LoginTypes'
  BY <1>5 DEF CannotResolve, Finish
<1>6. ASSUME NEW p \in Rpcs, ClientFromId(p)
      PROVE  LoginTypes'
  BY <1>6, ApiOfServer DEF ClientFromId, TakeApi, WithClient, UserInfos
<1>7. ASSUME NEW p \in Rpcs, AskByEmail(p)
      PROVE  LoginTypes'
  BY <1>7, ApiOfServer DEF AskByEmail, AskForClient, TakeApi, Lookups!Ask
<1>8. ASSUME NEW p \in Rpcs, ClientFromEmail(p)
      PROVE  LoginTypes'
  <2>1. phase[p] = "answered" /\ pc[p] = "email"
    BY <1>8 DEF ClientFromEmail, TakeAnswer, Lookups!Leave
  <2>2. ~failed[p] => \A c \in answer[p] : c \in Clients
    BY <2>1, AnsweredClient
  <2>3. client' \in [Rpcs -> Clients \cup {NoClient}]
    BY <1>8, <2>2 DEF ClientFromEmail, WithClient
  <2>4. pc' \in [Rpcs -> PCs]
    BY <1>8 DEF ClientFromEmail, WithClient, Finish
  <2> QED
    BY <1>8, <2>3, <2>4 DEF ClientFromEmail
<1>9. ASSUME NEW p \in Rpcs, AskProducts(p)
      PROVE  LoginTypes'
  BY <1>9 DEF AskProducts, Lookups!Ask
<1>10. ASSUME NEW p \in Rpcs, DecideOnProducts(p)
      PROVE  LoginTypes'
  BY <1>10 DEF DecideOnProducts, Finish, TakeAnswer, Lookups!Leave
<1>11. ASSUME NEW p \in Rpcs, Respond(p)
      PROVE  LoginTypes'
  BY <1>11 DEF Respond, Finish
<1>12. ASSUME NEW p \in Rpcs, Reply(p)
      PROVE  LoginTypes'
  <2>1. AnyConfig \in Configs /\ Blank \in UserInfos
    BY DEF ConfigTypes, AnyConfig, Blank, UserInfos
  <2> QED
    BY <1>12, <2>1 DEF Reply
<1>13. ASSUME NEW S \in SUBSET Rpcs, NEW k \in Keys, AnswerLookup(S, k)
      PROVE  LoginTypes'
  BY <1>13 DEF AnswerLookup, Lookups!Answer, Lookups!Refuse,
     Lookups!Group
<1>14. ASSUME NEW k \in Keys, NEW v \in Records(k), WhmcsChange(k, v)
      PROVE  LoginTypes'
  BY <1>14 DEF WhmcsChange, Lookups!Change
<1>15. ASSUME NEW o \in Appliers, NEW c \in Configs,
             Reconfigure(o, c)
      PROVE  LoginTypes'
  BY <1>15 DEF Reconfigure
<1>16. ASSUME NEW o \in Appliers, StoreResolver(o)
      PROVE  LoginTypes'
  BY <1>16 DEF StoreResolver
<1>17. CASE Tick
  BY <1>17 DEF Tick, Lookups!Tick
<1>18. CASE UNCHANGED vars
  BY <1>18 DEF vars
<1> HIDE DEF TypeOK, LoginTypes
<1> QED
  BY <1>1, <1>2, <1>3, <1>4, <1>5, <1>6, <1>7, <1>8, <1>9, <1>10, <1>11,
     <1>12, <1>13, <1>14, <1>15, <1>16, <1>17, <1>18 DEF Next, RpcStep

\* Every step keeps the types of a login's response.
LEMMA StepResponseTypes ==
  ASSUME TypeOK, LookupInv, AnswerInv, ClientInv, [Next]_vars
  PROVE  ResponseTypes'
<1> USE DEF TypeOK, ResponseTypes, Outcomes, rpc
<1>1. ASSUME NEW p \in Rpcs, Begin(p)
      PROVE  ResponseTypes'
  BY <1>1 DEF Begin, Finish
<1>2. ASSUME NEW p \in Rpcs, NEW info \in UserInfos, UserInfo(p, info)
      PROVE  ResponseTypes'
  BY <1>2 DEF UserInfo
<1>3. ASSUME NEW p \in Rpcs, UserInfoFails(p)
      PROVE  ResponseTypes'
  BY <1>3 DEF UserInfoFails, Finish
<1>4. ASSUME NEW p \in Rpcs, PlainLogin(p)
      PROVE  ResponseTypes'
  BY <1>4 DEF PlainLogin, Finish
<1>5. ASSUME NEW p \in Rpcs, CannotResolve(p)
      PROVE  ResponseTypes'
  BY <1>5 DEF CannotResolve, Finish
<1>6. ASSUME NEW p \in Rpcs, ClientFromId(p)
      PROVE  ResponseTypes'
  BY <1>6 DEF ClientFromId, TakeApi, WithClient
<1>7. ASSUME NEW p \in Rpcs, AskByEmail(p)
      PROVE  ResponseTypes'
  BY <1>7 DEF AskByEmail, AskForClient, TakeApi, Lookups!Ask
<1>8. ASSUME NEW p \in Rpcs, ClientFromEmail(p)
      PROVE  ResponseTypes'
  BY <1>8 DEF ClientFromEmail, WithClient, Finish, TakeAnswer, Lookups!Leave
<1>9. ASSUME NEW p \in Rpcs, AskProducts(p)
      PROVE  ResponseTypes'
  BY <1>9 DEF AskProducts, Lookups!Ask
<1>10. ASSUME NEW p \in Rpcs, DecideOnProducts(p)
      PROVE  ResponseTypes'
  <2>1. phase[p] = "answered" /\ pc[p] = "await"
    BY <1>10 DEF DecideOnProducts, TakeAnswer, Lookups!Leave
  <2>4. ~failed[p] => ActiveProductIDs(answer[p])
                        \in SUBSET UNION {ActiveProductIDs(l) : l \in ProductLists}
    <3>1. ~failed[p] => answer[p] \in ProductLists
      BY <2>1, AnsweredProducts
    <3> QED
      BY <3>1
  <2>2. owned' \in [Rpcs -> SUBSET UNION {ActiveProductIDs(l) : l \in ProductLists}]
    BY <1>10, <2>4 DEF DecideOnProducts
  <2>3. outcome' \in [Rpcs -> Outcomes]
    BY <1>10 DEF DecideOnProducts, Finish
  <2> QED
    BY <1>10, <2>2, <2>3 DEF DecideOnProducts
<1>11. ASSUME NEW p \in Rpcs, Respond(p)
      PROVE  ResponseTypes'
  <2>1. role' \in [Rpcs -> {"absent", "user", "admin"}]
    BY <1>11 DEF Respond, RoleFromProducts
  <2>2. discord' \in [Rpcs -> BOOLEAN]
    BY <1>11 DEF Respond
  <2>3. outcome' \in [Rpcs -> Outcomes]
    BY <1>11 DEF Respond, Finish
  <2> QED
    BY <1>11, <2>1, <2>2, <2>3 DEF Respond
<1>12. ASSUME NEW p \in Rpcs, Reply(p)
      PROVE  ResponseTypes'
  BY <1>12 DEF Reply
<1>13. ASSUME NEW S \in SUBSET Rpcs, NEW k \in Keys, AnswerLookup(S, k)
      PROVE  ResponseTypes'
  BY <1>13 DEF AnswerLookup, Lookups!Answer, Lookups!Refuse,
     Lookups!Group
<1>14. ASSUME NEW k \in Keys, NEW v \in Records(k), WhmcsChange(k, v)
      PROVE  ResponseTypes'
  BY <1>14 DEF WhmcsChange, Lookups!Change
<1>15. ASSUME NEW o \in Appliers, NEW c \in Configs,
             Reconfigure(o, c)
      PROVE  ResponseTypes'
  BY <1>15 DEF Reconfigure
<1>16. ASSUME NEW o \in Appliers, StoreResolver(o)
      PROVE  ResponseTypes'
  BY <1>16 DEF StoreResolver
<1>17. CASE Tick
  BY <1>17 DEF Tick, Lookups!Tick
<1>18. CASE UNCHANGED vars
  BY <1>18 DEF vars
<1> HIDE DEF TypeOK, ResponseTypes
<1> QED
  BY <1>1, <1>2, <1>3, <1>4, <1>5, <1>6, <1>7, <1>8, <1>9, <1>10, <1>11,
     <1>12, <1>13, <1>14, <1>15, <1>16, <1>17, <1>18 DEF Next, RpcStep

\* Every step keeps the types of the lookups.
LEMMA StepLookupTypes ==
  ASSUME TypeOK, LookupInv, PendingInv, ClientInv, [Next]_vars
  PROVE  LookupTypes'
<1> USE ListsAssumption, MaxStaleAssumption
<1> USE DEF TypeOK, LookupTypes, lookup
<1>1. ASSUME NEW p \in Rpcs, Begin(p)
      PROVE  LookupTypes'
  <2>1. ASSUME NEW k \in Keys
        PROVE  CredibleNow(k) \cup InFlight(k) \subseteq Records(k)
    <3>1. CredibleNow(k) \subseteq Records(k)
      BY RecordFacts DEF CredibleNow
    <3>2. ASSUME NEW q \in Rpcs, phase[q] = "pending", asks[q] = k
          PROVE  held[q] \subseteq Records(k)
      <4>1. pc[q] # "idle"
        BY <3>2 DEF LookupInv
      <4>2. held[q] \subseteq credible[q][k]
        BY <3>2, <4>1 DEF PendingInv
      <4> QED
        BY <4>2
    <3>3. InFlight(k) \subseteq Records(k)
      BY <3>2 DEF InFlight
    <3> QED
      BY <3>1, <3>3
  <2>2. credible' = [credible EXCEPT ![p] = [k \in Keys |-> CredibleNow(k) \cup InFlight(k)]]
    BY <1>1 DEF Begin
  <2>3. \A k \in Keys : CredibleNow(k) \cup InFlight(k) \in SUBSET AllRecords
    BY <2>1, RecordFacts
  <2>4. credible' \in [Rpcs -> [Keys -> SUBSET AllRecords]]
    BY <2>2, <2>3
  <2>5. \A k \in Keys, q \in Rpcs : credible'[q][k] \subseteq Records(k)
    BY <2>1, <2>2
  <2> QED
    BY <1>1, <2>4, <2>5 DEF Begin
<1>2. ASSUME NEW p \in Rpcs, NEW info \in UserInfos, UserInfo(p, info)
      PROVE  LookupTypes'
  BY <1>2 DEF UserInfo
<1>3. ASSUME NEW p \in Rpcs, UserInfoFails(p)
      PROVE  LookupTypes'
  BY <1>3 DEF UserInfoFails, Finish
<1>4. ASSUME NEW p \in Rpcs, PlainLogin(p)
      PROVE  LookupTypes'
  BY <1>4 DEF PlainLogin, Finish
<1>5. ASSUME NEW p \in Rpcs, CannotResolve(p)
      PROVE  LookupTypes'
  BY <1>5 DEF CannotResolve, Finish
<1>6. ASSUME NEW p \in Rpcs, ClientFromId(p)
      PROVE  LookupTypes'
  BY <1>6 DEF ClientFromId, TakeApi, WithClient
<1>7. ASSUME NEW p \in Rpcs, AskByEmail(p)
      PROVE  LookupTypes'
  <2>1. EntitlementApi(p) \in Servers /\ ui[p].email \in Emails
    BY <1>7, ApiOfServer DEF AskByEmail, AskForClient, TakeApi, LoginTypes, UserInfos
  <2>2. <<EntitlementApi(p), ui[p].email>> \in Keys
    BY <2>1, RecordFacts DEF Addresses
  <2> QED
    BY <1>7, <2>2, RecordFacts DEF AskByEmail, AskForClient, Lookups!Ask
<1>8. ASSUME NEW p \in Rpcs, ClientFromEmail(p)
      PROVE  LookupTypes'
  <2>1. {} \in AllRecords
    BY RecordFacts
  <2> QED
    BY <1>8, <2>1 DEF ClientFromEmail, TakeAnswer, Lookups!Leave
<1>9. ASSUME NEW p \in Rpcs, AskProducts(p)
      PROVE  LookupTypes'
  <2>1. <<api[p], client[p]>> \in Keys
    BY <1>9, RecordFacts DEF AskProducts, ClientInv, ClientAt, Own
  <2> QED
    BY <1>9, <2>1, RecordFacts DEF AskProducts, Lookups!Ask
<1>10. ASSUME NEW p \in Rpcs, DecideOnProducts(p)
      PROVE  LookupTypes'
  <2>1. {} \in AllRecords
    BY RecordFacts
  <2> QED
    BY <1>10, <2>1 DEF DecideOnProducts, TakeAnswer, Lookups!Leave
<1>11. ASSUME NEW p \in Rpcs, Respond(p)
      PROVE  LookupTypes'
  BY <1>11 DEF Respond, Finish
<1>12. ASSUME NEW p \in Rpcs, Reply(p)
      PROVE  LookupTypes'
  BY <1>12 DEF Reply
<1>13. ASSUME NEW S \in SUBSET Rpcs, NEW k \in Keys, AnswerLookup(S, k)
      PROVE  LookupTypes'
  BY <1>13, RecordFacts DEF AnswerLookup, Lookups!Answer, Lookups!Refuse, Lookups!Group
<1>14. ASSUME NEW k \in Keys, NEW v \in Records(k), WhmcsChange(k, v)
      PROVE  LookupTypes'
  <2>1. v \in AllRecords
    BY RecordFacts
  <2>2. /\ credible' = [p \in Rpcs |-> IF pc[p] = "idle" THEN credible[p]
                            ELSE [credible[p] EXCEPT ![k] = @ \cup {v}]]
        /\ upstream' = [upstream EXCEPT ![k] = v]
        /\ sinceNone' = [sinceNone EXCEPT ![k] = IF v = {} THEN 0 ELSE @]
        /\ held' = [p \in Rpcs |-> IF phase[p] = "pending" /\ asks[p] = k
                                  THEN held[p] \cup {v} ELSE held[p]]
        /\ UNCHANGED <<phase, asks, answer, failed>>
    BY <1>14 DEF WhmcsChange, Lookups!Change
  <2>3. /\ upstream' \in [Keys -> AllRecords] /\ sinceNone' \in [Keys -> 0 .. MaxStale + 1]
        /\ held' \in [Rpcs -> SUBSET AllRecords]
    BY <2>1, <2>2
  <2>4. credible' \in [Rpcs -> [Keys -> SUBSET AllRecords]]
    BY <2>1, <2>2
  <2>5. \A j \in Keys : /\ upstream'[j] \in Records(j)
                       /\ \A p \in Rpcs : credible'[p][j] \subseteq Records(j)
    BY <2>2
  <2> QED
    BY <2>2, <2>3, <2>4, <2>5
<1>15. ASSUME NEW o \in Appliers, NEW c \in Configs,
             Reconfigure(o, c)
      PROVE  LookupTypes'
  BY <1>15 DEF Reconfigure
<1>16. ASSUME NEW o \in Appliers, StoreResolver(o)
      PROVE  LookupTypes'
  BY <1>16 DEF StoreResolver
<1>17. CASE Tick
  BY <1>17 DEF Tick, Lookups!Tick
<1>18. CASE UNCHANGED vars
  BY <1>18 DEF vars
<1> HIDE DEF TypeOK, LookupTypes
<1> QED
  BY <1>1, <1>2, <1>3, <1>4, <1>5, <1>6, <1>7, <1>8, <1>9, <1>10, <1>11,
     <1>12, <1>13, <1>14, <1>15, <1>16, <1>17, <1>18 DEF Next, RpcStep

\* Every step keeps lookups with their logins.
LEMMA StepLookup ==
  ASSUME TypeOK, LookupInv, [Next]_vars
  PROVE  LookupInv'
<1> USE DEF TypeOK, LoginTypes, LookupTypes, LookupInv, Goto, PCs, config, rpc, lookup
<1>1. ASSUME NEW p \in Rpcs, Begin(p)
      PROVE  LookupInv'
  BY <1>1 DEF Begin, Finish
<1>2. ASSUME NEW p \in Rpcs, NEW info \in UserInfos, UserInfo(p, info)
      PROVE  LookupInv'
  BY <1>2 DEF UserInfo
<1>3. ASSUME NEW p \in Rpcs, UserInfoFails(p)
      PROVE  LookupInv'
  BY <1>3 DEF UserInfoFails, Finish
<1>4. ASSUME NEW p \in Rpcs, PlainLogin(p)
      PROVE  LookupInv'
  BY <1>4 DEF PlainLogin, Finish
<1>5. ASSUME NEW p \in Rpcs, CannotResolve(p)
      PROVE  LookupInv'
  BY <1>5 DEF CannotResolve, Finish
<1>6. ASSUME NEW p \in Rpcs, ClientFromId(p)
      PROVE  LookupInv'
  BY <1>6 DEF ClientFromId, TakeApi, WithClient
<1>7. ASSUME NEW p \in Rpcs, AskByEmail(p)
      PROVE  LookupInv'
  BY <1>7 DEF AskByEmail, AskForClient, TakeApi, Lookups!Ask
<1>8. ASSUME NEW p \in Rpcs, ClientFromEmail(p)
      PROVE  LookupInv'
  BY <1>8 DEF ClientFromEmail, WithClient, Finish, TakeAnswer, Lookups!Leave
<1>9. ASSUME NEW p \in Rpcs, AskProducts(p)
      PROVE  LookupInv'
  BY <1>9 DEF AskProducts, Lookups!Ask
<1>10. ASSUME NEW p \in Rpcs, DecideOnProducts(p)
      PROVE  LookupInv'
  BY <1>10 DEF DecideOnProducts, Finish, TakeAnswer, Lookups!Leave
<1>11. ASSUME NEW p \in Rpcs, Respond(p)
      PROVE  LookupInv'
  BY <1>11 DEF Respond, Finish
<1>12. ASSUME NEW p \in Rpcs, Reply(p)
      PROVE  LookupInv'
  BY <1>12 DEF Reply
<1>13. ASSUME NEW S \in SUBSET Rpcs, NEW k \in Keys, AnswerLookup(S, k)
      PROVE  LookupInv'
  BY <1>13 DEF AnswerLookup, Lookups!Answer, Lookups!Refuse,
     Lookups!Group
<1>14. ASSUME NEW k \in Keys, NEW v \in Records(k), WhmcsChange(k, v)
      PROVE  LookupInv'
  BY <1>14 DEF WhmcsChange, Lookups!Change
<1>15. ASSUME NEW o \in Appliers, NEW c \in Configs,
             Reconfigure(o, c)
      PROVE  LookupInv'
  BY <1>15 DEF Reconfigure
<1>16. ASSUME NEW o \in Appliers, StoreResolver(o)
      PROVE  LookupInv'
  BY <1>16 DEF StoreResolver
<1>17. CASE Tick
  BY <1>17 DEF Tick, Lookups!Tick
<1>18. CASE UNCHANGED vars
  BY <1>18 DEF vars
<1> HIDE DEF LoginTypes, LookupTypes, LookupInv
<1> QED
  BY <1>1, <1>2, <1>3, <1>4, <1>5, <1>6, <1>7, <1>8, <1>9, <1>10, <1>11,
     <1>12, <1>13, <1>14, <1>15, <1>16, <1>17, <1>18 DEF Next, RpcStep

\* Every step keeps what WHMCS holds credible.
LEMMA StepNow ==
  ASSUME TypeOK, NowInv, [Next]_vars
  PROVE  NowInv'
<1> USE MaxStaleAssumption
<1> USE DEF TypeOK, LoginTypes, LookupTypes, NowInv, Goto, config, rpc, lookup
<1>1. ASSUME NEW p \in Rpcs, Begin(p)
      PROVE  NowInv'
  <2>1. \A k \in Keys : CredibleNow(k) \subseteq credible'[p][k]
    BY <1>1 DEF Begin
  <2>2. \A q \in Rpcs : q # p => pc'[q] = pc[q] /\ credible'[q] = credible[q]
    BY <1>1 DEF Begin, Finish
  <2> QED
    BY <1>1, <2>1, <2>2 DEF Begin, CredibleNow
<1>2. ASSUME NEW p \in Rpcs, NEW info \in UserInfos, UserInfo(p, info)
      PROVE  NowInv'
  BY <1>2 DEF UserInfo
<1>3. ASSUME NEW p \in Rpcs, UserInfoFails(p)
      PROVE  NowInv'
  BY <1>3 DEF UserInfoFails, Finish
<1>4. ASSUME NEW p \in Rpcs, PlainLogin(p)
      PROVE  NowInv'
  BY <1>4 DEF PlainLogin, Finish
<1>5. ASSUME NEW p \in Rpcs, CannotResolve(p)
      PROVE  NowInv'
  BY <1>5 DEF CannotResolve, Finish
<1>6. ASSUME NEW p \in Rpcs, ClientFromId(p)
      PROVE  NowInv'
  BY <1>6 DEF ClientFromId, TakeApi, WithClient
<1>7. ASSUME NEW p \in Rpcs, AskByEmail(p)
      PROVE  NowInv'
  BY <1>7 DEF AskByEmail, AskForClient, TakeApi, Lookups!Ask
<1>8. ASSUME NEW p \in Rpcs, ClientFromEmail(p)
      PROVE  NowInv'
  BY <1>8 DEF ClientFromEmail, WithClient, Finish, TakeAnswer, Lookups!Leave
<1>9. ASSUME NEW p \in Rpcs, AskProducts(p)
      PROVE  NowInv'
  BY <1>9 DEF AskProducts, Lookups!Ask
<1>10. ASSUME NEW p \in Rpcs, DecideOnProducts(p)
      PROVE  NowInv'
  BY <1>10 DEF DecideOnProducts, Finish, TakeAnswer, Lookups!Leave
<1>11. ASSUME NEW p \in Rpcs, Respond(p)
      PROVE  NowInv'
  BY <1>11 DEF Respond, Finish
<1>12. ASSUME NEW p \in Rpcs, Reply(p)
      PROVE  NowInv'
  BY <1>12 DEF Reply
<1>13. ASSUME NEW S \in SUBSET Rpcs, NEW k \in Keys, AnswerLookup(S, k)
      PROVE  NowInv'
  BY <1>13 DEF AnswerLookup, Lookups!Answer, Lookups!Refuse,
     Lookups!Group
<1>14. ASSUME NEW k \in Keys, NEW v \in Records(k), WhmcsChange(k, v)
      PROVE  NowInv'
  BY <1>14 DEF WhmcsChange, Lookups!Change
<1>15. ASSUME NEW o \in Appliers, NEW c \in Configs,
             Reconfigure(o, c)
      PROVE  NowInv'
  BY <1>15 DEF Reconfigure
<1>16. ASSUME NEW o \in Appliers, StoreResolver(o)
      PROVE  NowInv'
  BY <1>16 DEF StoreResolver
<1>17. CASE Tick
  BY <1>17 DEF Tick, Lookups!Tick
<1>18. CASE UNCHANGED vars
  BY <1>18 DEF vars
<1> HIDE DEF TypeOK, NowInv
<1> QED
  BY <1>1, <1>2, <1>3, <1>4, <1>5, <1>6, <1>7, <1>8, <1>9, <1>10, <1>11,
     <1>12, <1>13, <1>14, <1>15, <1>16, <1>17, <1>18 DEF Next, RpcStep

\* Every step keeps what pending lookups may return credible.
LEMMA StepPending ==
  ASSUME TypeOK, LookupInv, ClientInv, NowInv, PendingInv, [Next]_vars
  PROVE  PendingInv'
<1> USE DEF TypeOK, LoginTypes, LookupTypes, LookupInv, NowInv, PendingInv, Goto,
            config, rpc, lookup
<1>1. ASSUME NEW p \in Rpcs, Begin(p)
      PROVE  PendingInv'
  <2>1. ASSUME NEW q \in Rpcs, NEW r \in Rpcs, pc'[q] # "idle", phase[r] = "pending"
        PROVE  held[r] \subseteq credible'[q][asks[r]]
    <3>1. asks[r] \in Keys
      OBVIOUS
    <3>2. CASE q = p
      <4>1. held[r] \subseteq InFlight(asks[r])
        BY <2>1 DEF InFlight
      <4>2. credible'[p][asks[r]] = CredibleNow(asks[r]) \cup InFlight(asks[r])
        BY <1>1, <3>1 DEF Begin
      <4> QED
        BY <3>2, <4>1, <4>2
    <3>3. CASE q # p
      BY <1>1, <2>1, <3>3 DEF Begin, Finish
    <3> QED
      BY <3>2, <3>3
  <2> QED
    BY <1>1, <2>1 DEF Begin
<1>2. ASSUME NEW p \in Rpcs, NEW info \in UserInfos, UserInfo(p, info)
      PROVE  PendingInv'
  BY <1>2 DEF UserInfo
<1>3. ASSUME NEW p \in Rpcs, UserInfoFails(p)
      PROVE  PendingInv'
  BY <1>3 DEF UserInfoFails, Finish
<1>4. ASSUME NEW p \in Rpcs, PlainLogin(p)
      PROVE  PendingInv'
  BY <1>4 DEF PlainLogin, Finish
<1>5. ASSUME NEW p \in Rpcs, CannotResolve(p)
      PROVE  PendingInv'
  BY <1>5 DEF CannotResolve, Finish
<1>6. ASSUME NEW p \in Rpcs, ClientFromId(p)
      PROVE  PendingInv'
  BY <1>6 DEF ClientFromId, TakeApi, WithClient
<1>7. ASSUME NEW p \in Rpcs, AskByEmail(p)
      PROVE  PendingInv'
  <2> DEFINE k == <<EntitlementApi(p), ui[p].email>>
  <2>1. /\ phase' = [phase EXCEPT ![p] = "pending"]
        /\ asks' = [asks EXCEPT ![p] = k]
        /\ held' = [held EXCEPT ![p] = {upstream[k]}]
        /\ pc' = [pc EXCEPT ![p] = "email"] /\ pc[p] = "client"
        /\ credible' = credible
    BY <1>7 DEF AskByEmail, AskForClient, TakeApi, Lookups!Ask
  <2>2. k \in Keys
    <3>1. EntitlementApi(p) \in Servers /\ ui[p].email \in Emails
      BY <1>7, ApiOfServer DEF AskByEmail, AskForClient, TakeApi, UserInfos
    <3> QED
      BY <3>1 DEF Addresses, Keys
  <2> HIDE DEF k
  <2> QED
    BY <2>1, <2>2
<1>8. ASSUME NEW p \in Rpcs, ClientFromEmail(p)
      PROVE  PendingInv'
  BY <1>8 DEF ClientFromEmail, WithClient, Finish, TakeAnswer, Lookups!Leave
<1>9. ASSUME NEW p \in Rpcs, AskProducts(p)
      PROVE  PendingInv'
  <2>1. /\ phase' = [phase EXCEPT ![p] = "pending"]
        /\ asks' = [asks EXCEPT ![p] = <<api[p], client[p]>>]
        /\ held' = [held EXCEPT ![p] = {upstream[<<api[p], client[p]>>]}]
        /\ pc' = [pc EXCEPT ![p] = "await"] /\ pc[p] = "products"
        /\ credible' = credible
    BY <1>9 DEF AskProducts, Lookups!Ask
  <2>2. <<api[p], client[p]>> \in Keys
    BY <1>9, RecordFacts DEF AskProducts, ClientInv, ClientAt, Own
  <2> QED
    BY <2>1, <2>2
<1>10. ASSUME NEW p \in Rpcs, DecideOnProducts(p)
      PROVE  PendingInv'
  BY <1>10 DEF DecideOnProducts, Finish, TakeAnswer, Lookups!Leave
<1>11. ASSUME NEW p \in Rpcs, Respond(p)
      PROVE  PendingInv'
  BY <1>11 DEF Respond, Finish
<1>12. ASSUME NEW p \in Rpcs, Reply(p)
      PROVE  PendingInv'
  BY <1>12 DEF Reply
<1>13. ASSUME NEW S \in SUBSET Rpcs, NEW k \in Keys, AnswerLookup(S, k)
      PROVE  PendingInv'
  <2>1. /\ \A q \in Rpcs : phase'[q] = "pending" => phase[q] = "pending"
        /\ UNCHANGED <<pc, asks, held, credible>>
    BY <1>13 DEF AnswerLookup, Lookups!Answer, Lookups!Refuse, Lookups!Group
  <2> QED
    BY <2>1
<1>14. ASSUME NEW k \in Keys, NEW v \in Records(k), WhmcsChange(k, v)
      PROVE  PendingInv'
  BY <1>14 DEF WhmcsChange, Lookups!Change
<1>15. ASSUME NEW o \in Appliers, NEW c \in Configs,
             Reconfigure(o, c)
      PROVE  PendingInv'
  BY <1>15 DEF Reconfigure
<1>16. ASSUME NEW o \in Appliers, StoreResolver(o)
      PROVE  PendingInv'
  BY <1>16 DEF StoreResolver
<1>17. CASE Tick
  BY <1>17 DEF Tick, Lookups!Tick
<1>18. CASE UNCHANGED vars
  BY <1>18 DEF vars
<1> HIDE DEF TypeOK, LookupInv, NowInv, PendingInv
<1> QED
  BY <1>1, <1>2, <1>3, <1>4, <1>5, <1>6, <1>7, <1>8, <1>9, <1>10, <1>11,
     <1>12, <1>13, <1>14, <1>15, <1>16, <1>17, <1>18 DEF Next, RpcStep

\* Every step keeps answers credible.
LEMMA StepAnswer ==
  ASSUME TypeOK, LookupInv, CredibleInv, [Next]_vars
  PROVE  AnswerInv'
<1> USE DEF TypeOK, LoginTypes, LookupTypes, LookupInv, CredibleInv, NowInv, PendingInv,
            AnswerInv, Goto, config, rpc, lookup
<1>1. ASSUME NEW p \in Rpcs, Begin(p)
      PROVE  AnswerInv'
  BY <1>1 DEF Begin, Finish
<1>2. ASSUME NEW p \in Rpcs, NEW info \in UserInfos, UserInfo(p, info)
      PROVE  AnswerInv'
  BY <1>2 DEF UserInfo
<1>3. ASSUME NEW p \in Rpcs, UserInfoFails(p)
      PROVE  AnswerInv'
  BY <1>3 DEF UserInfoFails, Finish
<1>4. ASSUME NEW p \in Rpcs, PlainLogin(p)
      PROVE  AnswerInv'
  BY <1>4 DEF PlainLogin, Finish
<1>5. ASSUME NEW p \in Rpcs, CannotResolve(p)
      PROVE  AnswerInv'
  BY <1>5 DEF CannotResolve, Finish
<1>6. ASSUME NEW p \in Rpcs, ClientFromId(p)
      PROVE  AnswerInv'
  BY <1>6 DEF ClientFromId, TakeApi, WithClient
<1>7. ASSUME NEW p \in Rpcs, AskByEmail(p)
      PROVE  AnswerInv'
  BY <1>7 DEF AskByEmail, AskForClient, TakeApi, Lookups!Ask
<1>8. ASSUME NEW p \in Rpcs, ClientFromEmail(p)
      PROVE  AnswerInv'
  BY <1>8 DEF ClientFromEmail, WithClient, Finish, TakeAnswer, Lookups!Leave
<1>9. ASSUME NEW p \in Rpcs, AskProducts(p)
      PROVE  AnswerInv'
  BY <1>9 DEF AskProducts, Lookups!Ask
<1>10. ASSUME NEW p \in Rpcs, DecideOnProducts(p)
      PROVE  AnswerInv'
  BY <1>10 DEF DecideOnProducts, Finish, TakeAnswer, Lookups!Leave
<1>11. ASSUME NEW p \in Rpcs, Respond(p)
      PROVE  AnswerInv'
  BY <1>11 DEF Respond, Finish
<1>12. ASSUME NEW p \in Rpcs, Reply(p)
      PROVE  AnswerInv'
  BY <1>12 DEF Reply
<1>13. ASSUME NEW S \in SUBSET Rpcs, NEW k \in Keys, AnswerLookup(S, k)
      PROVE  AnswerInv'
  <2>1. credible' = credible /\ asks' = asks
    BY <1>13 DEF AnswerLookup, Lookups!Answer, Lookups!Refuse, Lookups!Group
  <2>2. /\ \A q \in S : phase[q] = "pending" /\ asks[q] = k
        /\ \A q \in Rpcs \ S : phase'[q] = phase[q]
    BY <1>13 DEF AnswerLookup, Lookups!Answer, Lookups!Refuse, Lookups!Group
  <2>3. ASSUME NEW v \in Records(k), Lookups!Answer(S, k, v) PROVE AnswerInv'
    <3>1. \A q \in S : v \in credible[q][k]
      <4>1. CASE v = {}
        BY <2>2, <2>3, <4>1 DEF Lookups!Answer
      <4>2. CASE v # {}
        BY <2>2, <2>3, <4>2 DEF Lookups!Answer
      <4> QED
        BY <4>1, <4>2
    <3>2. answer' = [q \in Rpcs |-> IF q \in S THEN v ELSE answer[q]] /\ failed' = failed
      BY <2>3 DEF Lookups!Answer
    <3> QED
      BY <2>1, <2>2, <3>1, <3>2
  <2>4. CASE Lookups!Refuse(S, k)
    <3>1. failed' = [q \in Rpcs |-> q \in S \/ failed[q]] /\ answer' = answer
      BY <2>4 DEF Lookups!Refuse
    <3>2. \A q \in Rpcs : ~failed'[q] => q \notin S /\ ~failed[q]
      BY <3>1
    <3> QED
      BY <2>1, <2>2, <3>1, <3>2
  <2> QED
    BY <1>13, <2>3, <2>4 DEF AnswerLookup
<1>14. ASSUME NEW k \in Keys, NEW v \in Records(k), WhmcsChange(k, v)
      PROVE  AnswerInv'
  BY <1>14 DEF WhmcsChange, Lookups!Change
<1>15. ASSUME NEW o \in Appliers, NEW c \in Configs,
             Reconfigure(o, c)
      PROVE  AnswerInv'
  BY <1>15 DEF Reconfigure
<1>16. ASSUME NEW o \in Appliers, StoreResolver(o)
      PROVE  AnswerInv'
  BY <1>16 DEF StoreResolver
<1>17. CASE Tick
  BY <1>17 DEF Tick, Lookups!Tick
<1>18. CASE UNCHANGED vars
  BY <1>18 DEF vars
<1> HIDE DEF TypeOK, LookupInv, CredibleInv, NowInv, PendingInv, AnswerInv
<1> QED
  BY <1>1, <1>2, <1>3, <1>4, <1>5, <1>6, <1>7, <1>8, <1>9, <1>10, <1>11,
     <1>12, <1>13, <1>14, <1>15, <1>16, <1>17, <1>18 DEF Next, RpcStep

\* Every step keeps the login's client the one that userinfo stands for.
LEMMA StepClient ==
  ASSUME TypeOK, LookupInv, AnswerInv, ClientInv, [Next]_vars
  PROVE  ClientInv'
<1> USE DEF TypeOK, LoginTypes, LookupTypes, ClientInv, Goto, config, rpc, lookup
<1>1. ASSUME NEW p \in Rpcs, Begin(p)
      PROVE  ClientInv'
  <2>1. \A q \in Rpcs \ {p} : ClientAt(q)'
    BY <1>1, ClientStays DEF Begin, Finish
  <2>2. pc'[p] \notin {"email", "products", "await", "discord"}
    BY <1>1 DEF Begin, Finish
  <2> QED
    BY <2>1, <2>2 DEF ClientAt
<1>2. ASSUME NEW p \in Rpcs, NEW info \in UserInfos, UserInfo(p, info)
      PROVE  ClientInv'
  <2>1. \A q \in Rpcs \ {p} : ClientAt(q)'
    BY <1>2, ClientStays DEF UserInfo
  <2>2. pc'[p] \notin {"email", "products", "await", "discord"}
    BY <1>2 DEF UserInfo
  <2> QED
    BY <2>1, <2>2 DEF ClientAt
<1>3. ASSUME NEW p \in Rpcs, UserInfoFails(p)
      PROVE  ClientInv'
  <2>1. \A q \in Rpcs \ {p} : ClientAt(q)'
    BY <1>3, ClientStays DEF UserInfoFails, Finish
  <2>2. pc'[p] \notin {"email", "products", "await", "discord"}
    BY <1>3 DEF UserInfoFails, Finish
  <2> QED
    BY <2>1, <2>2 DEF ClientAt
<1>4. ASSUME NEW p \in Rpcs, PlainLogin(p)
      PROVE  ClientInv'
  <2>1. \A q \in Rpcs \ {p} : ClientAt(q)'
    BY <1>4, ClientStays DEF PlainLogin, Finish
  <2>2. pc'[p] \notin {"email", "products", "await", "discord"}
    BY <1>4 DEF PlainLogin, Finish
  <2> QED
    BY <2>1, <2>2 DEF ClientAt
<1>5. ASSUME NEW p \in Rpcs, CannotResolve(p)
      PROVE  ClientInv'
  <2>1. \A q \in Rpcs \ {p} : ClientAt(q)'
    BY <1>5, ClientStays DEF CannotResolve, Finish
  <2>2. pc'[p] \notin {"email", "products", "await", "discord"}
    BY <1>5 DEF CannotResolve, Finish
  <2> QED
    BY <2>1, <2>2 DEF ClientAt
<1>6. ASSUME NEW p \in Rpcs, ClientFromId(p)
      PROVE  ClientInv'
  <2>1. \A q \in Rpcs \ {p} : ClientAt(q)'
    BY <1>6, ClientStays DEF ClientFromId, TakeApi, WithClient
  <2>2. EntitlementApi(p) \in Servers /\ ui[p].id \in Clients
    BY <1>6, ApiOfServer DEF ClientFromId, TakeApi, UserInfos
  <2>3. /\ pc'[p] \in {"products", "discord"}
        /\ pc'[p] = "products" => NeedsProducts(cfg[p])
        /\ ui'[p].id # NoClient /\ cfg' = cfg
        /\ api'[p] = EntitlementApi(p) /\ client'[p] = ui'[p].id
        /\ ui'[p].id = ui[p].id
    BY <1>6 DEF ClientFromId, TakeApi, WithClient
  <2>4. <<api'[p], client'[p]>> \in Accounts
    BY <2>2, <2>3 DEF Accounts
  <2>5. Own(p, <<api[p], client[p]>>)'
    BY <2>3, <2>4 DEF Own, OwnAccounts
  <2>6. ClientAt(p)'
    BY <2>3, <2>5 DEF ClientAt
  <2> QED
    BY <2>1, <2>6
<1>7. ASSUME NEW p \in Rpcs, AskByEmail(p)
      PROVE  ClientInv'
  <2>1. \A q \in Rpcs \ {p} : ClientAt(q)'
    BY <1>7, ClientStays DEF AskByEmail, AskForClient, TakeApi
  <2>2. EntitlementApi(p) \in Servers /\ ui[p].email \in Emails
    BY <1>7, ApiOfServer DEF AskByEmail, AskForClient, TakeApi, UserInfos
  <2>3. /\ pc'[p] = "email" /\ ui' = ui /\ ui[p].id = NoClient
        /\ api'[p] = EntitlementApi(p)
    BY <1>7 DEF AskByEmail, AskForClient, TakeApi
  <2>4. ByAddress(p)'
    BY <2>2, <2>3 DEF ByAddress, Addresses
  <2> QED
    BY <2>1, <2>3, <2>4 DEF ClientAt
<1>8. ASSUME NEW p \in Rpcs, ClientFromEmail(p)
      PROVE  ClientInv'
  <2>1. \A q \in Rpcs \ {p} : ClientAt(q)'
    BY <1>8, ClientStays DEF ClientFromEmail, WithClient, Finish
  <2>2. phase[p] = "answered" /\ pc[p] = "email"
    BY <1>8 DEF ClientFromEmail, TakeAnswer, Lookups!Leave
  <2>3. CASE pc'[p] = "done"
    BY <2>1, <2>3 DEF ClientAt
  <2>4. CASE pc'[p] # "done"
    <3>1. PICK c \in answer[p] : ~failed[p] /\ WithClient(p, c)
      BY <1>8, <2>4 DEF ClientFromEmail, Finish
    <3>2. Own(p, <<api[p], c>>)
      BY <2>2, <3>1, AnsweredClient
    <3>3. UNCHANGED <<api, ui, cfg, credible>>
      BY <1>8 DEF ClientFromEmail
    <3>4. Own(p, <<api[p], c>>)'
      BY <3>2, <3>3, OwnStays
    <3>5. /\ client'[p] = c /\ pc'[p] \in {"products", "discord"}
          /\ pc'[p] = "products" => NeedsProducts(cfg[p])
      BY <3>1 DEF WithClient
    <3> QED
      BY <2>1, <3>3, <3>4, <3>5 DEF ClientAt
  <2> QED
    BY <2>3, <2>4
<1>9. ASSUME NEW p \in Rpcs, AskProducts(p)
      PROVE  ClientInv'
  <2>1. \A q \in Rpcs \ {p} : ClientAt(q)'
    BY <1>9, ClientStays DEF AskProducts
  <2>2. /\ UNCHANGED <<api, ui, cfg, client, credible>> /\ pc[p] = "products"
        /\ pc'[p] \in {"await", "discord", "done"}
    BY <1>9 DEF AskProducts
  <2>3. Own(p, <<api[p], client[p]>>)' /\ NeedsProducts(cfg[p])'
    BY <2>2, OwnStays DEF ClientAt
  <2> QED
    BY <2>1, <2>2, <2>3 DEF ClientAt
<1>10. ASSUME NEW p \in Rpcs, DecideOnProducts(p)
      PROVE  ClientInv'
  <2>1. \A q \in Rpcs \ {p} : ClientAt(q)'
    BY <1>10, ClientStays DEF DecideOnProducts, Finish
  <2>2. /\ UNCHANGED <<api, ui, cfg, client, credible>> /\ pc[p] = "await"
        /\ pc'[p] \in {"await", "discord", "done"}
    BY <1>10 DEF DecideOnProducts, Finish
  <2>3. Own(p, <<api[p], client[p]>>)' /\ NeedsProducts(cfg[p])'
    BY <2>2, OwnStays DEF ClientAt
  <2> QED
    BY <2>1, <2>2, <2>3 DEF ClientAt
<1>11. ASSUME NEW p \in Rpcs, Respond(p)
      PROVE  ClientInv'
  <2>1. \A q \in Rpcs \ {p} : ClientAt(q)'
    BY <1>11, ClientStays DEF Respond, Finish
  <2>2. pc'[p] \notin {"email", "products", "await", "discord"}
    BY <1>11 DEF Respond, Finish
  <2> QED
    BY <2>1, <2>2 DEF ClientAt
<1>12. ASSUME NEW p \in Rpcs, Reply(p)
      PROVE  ClientInv'
  <2>1. \A q \in Rpcs \ {p} : ClientAt(q)'
    BY <1>12, ClientStays DEF Reply
  <2>2. pc'[p] \notin {"email", "products", "await", "discord"}
    BY <1>12 DEF Reply
  <2> QED
    BY <2>1, <2>2 DEF ClientAt
<1>13. ASSUME NEW S \in SUBSET Rpcs, NEW k \in Keys, AnswerLookup(S, k)
      PROVE  ClientInv'
  BY <1>13, ClientStays DEF AnswerLookup
<1>14. ASSUME NEW k \in Keys, NEW v \in Records(k), WhmcsChange(k, v)
      PROVE  ClientInv'
  BY <1>14, ClientStays DEF WhmcsChange
<1>15. ASSUME NEW o \in Appliers, NEW c \in Configs, Reconfigure(o, c)
      PROVE  ClientInv'
  BY <1>15, ClientStays DEF Reconfigure
<1>16. ASSUME NEW o \in Appliers, StoreResolver(o)
      PROVE  ClientInv'
  BY <1>16, ClientStays DEF StoreResolver
<1>17. CASE Tick
  BY <1>17, ClientStays DEF Tick
<1>18. CASE UNCHANGED vars
  BY <1>18, ClientStays DEF vars
<1> HIDE DEF TypeOK, LoginTypes, LookupTypes, ClientInv
<1> QED
  BY <1>1, <1>2, <1>3, <1>4, <1>5, <1>6, <1>7, <1>8, <1>9, <1>10, <1>11,
     <1>12, <1>13, <1>14, <1>15, <1>16, <1>17, <1>18 DEF Next, RpcStep

\* Every step keeps decisions on what the login may believe.
LEMMA StepDecision ==
  ASSUME TypeOK, LookupInv, CredibleInv, ClientInv, DecisionInv, [Next]_vars
  PROVE  DecisionInv'
<1> USE DEF TypeOK, LoginTypes, ResponseTypes, LookupTypes, Goto, config, rpc, lookup
<1>1. ASSUME NEW p \in Rpcs, Begin(p)
      PROVE  DecisionInv'
  <2>1. \A q \in Rpcs \ {p} : DecisionAt(q)'
    BY <1>1, DecisionStays DEF DecisionInv, Begin, Finish
  <2>2. DecisionAt(p)'
    <3>1. owned'[p] = {} /\ role'[p] # "admin"
      BY <1>1 DEF DecisionInv, DecisionAt, Begin
    <3>2. /\ cfg'[p] = live /\ pc'[p] \in {"userinfo", "done"}
          /\ pc'[p] = "done" => outcome'[p] = "FailedPrecondition" /\ ~Usable(live)
      BY <1>1 DEF Begin, Finish
    <3> QED
      BY <3>1, <3>2 DEF DecisionAt, Decided
  <2> QED
    BY <2>1, <2>2 DEF DecisionInv
<1>2. ASSUME NEW p \in Rpcs, NEW info \in UserInfos, UserInfo(p, info)
      PROVE  DecisionInv'
  <2>1. \A q \in Rpcs \ {p} : DecisionAt(q)'
    BY <1>2, DecisionStays DEF DecisionInv, UserInfo
  <2>2. DecisionAt(p)'
    BY <1>2 DEF DecisionInv, DecisionAt, Decided, UserInfo
  <2> QED
    BY <2>1, <2>2 DEF DecisionInv
<1>3. ASSUME NEW p \in Rpcs, UserInfoFails(p)
      PROVE  DecisionInv'
  <2>1. \A q \in Rpcs \ {p} : DecisionAt(q)'
    BY <1>3, DecisionStays DEF DecisionInv, UserInfoFails, Finish
  <2>2. DecisionAt(p)'
    BY <1>3 DEF DecisionInv, DecisionAt, Decided, UserInfoFails, Finish
  <2> QED
    BY <2>1, <2>2 DEF DecisionInv
<1>4. ASSUME NEW p \in Rpcs, PlainLogin(p)
      PROVE  DecisionInv'
  <2>1. \A q \in Rpcs \ {p} : DecisionAt(q)'
    BY <1>4, DecisionStays DEF DecisionInv, PlainLogin, Finish
  <2>2. DecisionAt(p)'
    BY <1>4 DEF DecisionInv, DecisionAt, Decided, PlainLogin, Finish, NeedsApi, NeedsProducts
  <2> QED
    BY <2>1, <2>2 DEF DecisionInv
<1>5. ASSUME NEW p \in Rpcs, CannotResolve(p)
      PROVE  DecisionInv'
  <2>1. \A q \in Rpcs \ {p} : DecisionAt(q)'
    BY <1>5, DecisionStays DEF DecisionInv, CannotResolve, Finish
  <2>2. DecisionAt(p)'
    BY <1>5, ApiOfServer DEF DecisionInv, DecisionAt, Decided, CannotResolve, Finish
  <2> QED
    BY <2>1, <2>2 DEF DecisionInv
<1>6. ASSUME NEW p \in Rpcs, ClientFromId(p)
      PROVE  DecisionInv'
  <2>1. \A q \in Rpcs \ {p} : DecisionAt(q)'
    BY <1>6, DecisionStays DEF DecisionInv, ClientFromId, TakeApi, WithClient
  <2>2. DecisionAt(p)'
    BY <1>6 DEF DecisionInv, DecisionAt, Decided, ClientFromId, TakeApi, WithClient, NeedsProducts
  <2> QED
    BY <2>1, <2>2 DEF DecisionInv
<1>7. ASSUME NEW p \in Rpcs, AskByEmail(p)
      PROVE  DecisionInv'
  <2>1. \A q \in Rpcs \ {p} : DecisionAt(q)'
    BY <1>7, DecisionStays DEF DecisionInv, AskByEmail, AskForClient, TakeApi
  <2>2. DecisionAt(p)'
    BY <1>7 DEF DecisionInv, DecisionAt, Decided, AskByEmail, AskForClient, TakeApi
  <2> QED
    BY <2>1, <2>2 DEF DecisionInv
<1>8. ASSUME NEW p \in Rpcs, ClientFromEmail(p)
      PROVE  DecisionInv'
  <2>1. \A q \in Rpcs \ {p} : DecisionAt(q)'
    BY <1>8, DecisionStays DEF DecisionInv, ClientFromEmail, WithClient, Finish
  <2>2. phase[p] = "answered" /\ pc[p] = "email"
    BY <1>8 DEF ClientFromEmail, TakeAnswer, Lookups!Leave
  <2>3. ~failed[p] => ByAddress(p) /\ answer[p] \in credible[p][<<api[p], ui[p].email>>]
    BY <2>2, AnsweredClient DEF CredibleInv
  <2>4. UNCHANGED <<api, ui, cfg, credible, owned, role>>
    BY <1>8 DEF ClientFromEmail
  <2>5. ByAddress(p)' = ByAddress(p)
    BY <2>4 DEF ByAddress
  <2>6. owned[p] = {} /\ role[p] # "admin"
    BY <2>2 DEF DecisionInv, DecisionAt
  <2>7. \/ pc'[p] = "done" /\ outcome'[p] = "Internal"
        \/ /\ pc'[p] = "done" /\ outcome'[p] = "PermissionDenied_client"
           /\ ~failed[p] /\ answer[p] = {}
        \/ pc'[p] = "products"
        \/ pc'[p] = "discord" /\ cfg[p].allowed = {}
    BY <1>8 DEF ClientFromEmail, WithClient, Finish, NeedsProducts
  <2>8. DecisionAt(p)'
    BY <2>3, <2>4, <2>5, <2>6, <2>7 DEF DecisionAt, Decided
  <2> QED
    BY <2>1, <2>8 DEF DecisionInv
<1>9. ASSUME NEW p \in Rpcs, AskProducts(p)
      PROVE  DecisionInv'
  <2>1. \A q \in Rpcs \ {p} : DecisionAt(q)'
    BY <1>9, DecisionStays DEF DecisionInv, AskProducts
  <2>2. DecisionAt(p)'
    BY <1>9 DEF DecisionInv, DecisionAt, Decided, AskProducts
  <2> QED
    BY <2>1, <2>2 DEF DecisionInv
<1>10. ASSUME NEW p \in Rpcs, DecideOnProducts(p)
      PROVE  DecisionInv'
  <2>1. \A q \in Rpcs \ {p} : DecisionAt(q)'
    BY <1>10, DecisionStays DEF DecisionInv, DecideOnProducts, Finish
  <2> DEFINE a == <<api[p], client[p]>>
  <2>2. phase[p] = "answered" /\ pc[p] = "await"
    BY <1>10 DEF DecideOnProducts, TakeAnswer, Lookups!Leave
  <2>3. ~failed[p] => Own(p, a) /\ answer[p] \in credible[p][a]
    BY <2>2, AnsweredProducts DEF CredibleInv
  <2>4. UNCHANGED <<api, client, ui, cfg, credible, role>>
    BY <1>10 DEF DecideOnProducts
  <2>5. Own(p, a) => Own(p, a)' /\ a \in Accounts
    BY <2>4 DEF Own, OwnAccounts, ByAddress
  <2>8. owned'[p] = ActiveProductIDs(answer[p]) /\ ~failed[p] => Believed(p)'
    BY <2>3, <2>4, <2>5 DEF Believed
  <2>6. owned[p] = {} /\ role[p] # "admin"
    BY <2>2 DEF DecisionInv, DecisionAt
  <2>7. \/ pc'[p] = "done" /\ outcome'[p] = "Internal" /\ owned'[p] = {}
        \/ /\ pc'[p] = "done" /\ outcome'[p] = "PermissionDenied_gate" /\ ~failed[p]
           /\ owned'[p] = ActiveProductIDs(answer[p])
           /\ ~AnyMatch(cfg[p].allowed, owned'[p])
        \/ /\ pc'[p] = "discord" /\ ~failed[p]
           /\ owned'[p] = ActiveProductIDs(answer[p])
           /\ cfg[p].allowed = {} \/ AnyMatch(cfg[p].allowed, owned'[p])
    BY <1>10, <2>6 DEF DecideOnProducts, Finish, Gate
  <2>9. DecisionAt(p)'
    BY <2>4, <2>6, <2>7, <2>8 DEF DecisionAt, Decided
  <2> QED
    BY <2>1, <2>9 DEF DecisionInv
<1>11. ASSUME NEW p \in Rpcs, Respond(p)
      PROVE  DecisionInv'
  <2>1. \A q \in Rpcs \ {p} : DecisionAt(q)'
    BY <1>11, DecisionStays DEF DecisionInv, Respond, Finish
  <2>3. Believed(p) => Believed(p)'
    BY <1>11 DEF Respond, Believed, Own, OwnAccounts, ByAddress
  <2>2. DecisionAt(p)'
    BY <1>11, <2>3 DEF DecisionInv, DecisionAt, Decided, Respond, Finish
  <2> QED
    BY <2>1, <2>2 DEF DecisionInv
<1>12. ASSUME NEW p \in Rpcs, Reply(p)
      PROVE  DecisionInv'
  <2>1. \A q \in Rpcs \ {p} : DecisionAt(q)'
    BY <1>12, DecisionStays DEF DecisionInv, Reply
  <2>2. DecisionAt(p)'
    BY <1>12 DEF DecisionInv, DecisionAt, Decided, Reply
  <2> QED
    BY <2>1, <2>2 DEF DecisionInv
<1>13. ASSUME NEW S \in SUBSET Rpcs, NEW k \in Keys, AnswerLookup(S, k)
      PROVE  DecisionInv'
  BY <1>13, DecisionStays DEF DecisionInv, AnswerLookup
<1>14. ASSUME NEW k \in Keys, NEW v \in Records(k), WhmcsChange(k, v)
      PROVE  DecisionInv'
  BY <1>14, DecisionStays DEF DecisionInv, WhmcsChange
<1>15. ASSUME NEW o \in Appliers, NEW c \in Configs,
             Reconfigure(o, c)
      PROVE  DecisionInv'
  BY <1>15, DecisionStays DEF DecisionInv, Reconfigure
<1>16. ASSUME NEW o \in Appliers, StoreResolver(o)
      PROVE  DecisionInv'
  BY <1>16, DecisionStays DEF DecisionInv, StoreResolver
<1>17. CASE Tick
  BY <1>17, DecisionStays DEF DecisionInv, Tick
<1>18. CASE UNCHANGED vars
  BY <1>18, DecisionStays DEF DecisionInv, vars
<1> HIDE DEF TypeOK
<1> QED
  BY <1>1, <1>2, <1>3, <1>4, <1>5, <1>6, <1>7, <1>8, <1>9, <1>10, <1>11,
     <1>12, <1>13, <1>14, <1>15, <1>16, <1>17, <1>18 DEF Next, RpcStep

-----------------------------------------------------------------------------
(* The theorems                                                             *)

\* The inductive invariant.
Inv == TypeOK /\ LookupInv /\ CredibleInv /\ ClientInv /\ DecisionInv

\* Every reachable state satisfies the invariant.
LEMMA Invariant == Spec => []Inv
<1>1. Init => Inv
  BY InitInv DEF Inv
<1>2. Inv /\ [Next]_vars => Inv'
  BY StepConfigTypes, StepLoginTypes, StepResponseTypes, StepLookupTypes, StepLookup, StepNow,
     StepPending, StepAnswer, StepClient, StepDecision DEF Inv, CredibleInv, TypeOK
<1> QED
  BY <1>1, <1>2, PTL DEF Spec

\* Every variable keeps its type.
THEOREM TypeCorrect == Spec => []TypeOK
<1>1. Inv => TypeOK
  BY DEF Inv
<1> QED
  BY <1>1, Invariant, PTL

\* With any number of logins sharing lookups and any configurations applied in
\* between, nobody passes the gate of the configuration it read without products
\* of its own client to show for it (buildResponse in auth/server.go).
THEOREM AllowsAreJustified == Spec => []AllowJustified
<1>1. Inv => AllowJustified
  BY DEF Inv, DecisionInv, DecisionAt, Believed, Own, Decided, AllowJustified
<1> QED
  BY <1>1, Invariant, PTL

\* Nobody is turned away at the gate for products that its client did not lack
\* within the staleness of the lookup, whoever asked first.
THEOREM DenialsAreJustified == Spec => []DenialJustified
<1>1. Inv => DenialJustified
  <2> SUFFICES ASSUME Inv, NEW p \in Rpcs, Decided(p, "PermissionDenied_gate")
               PROVE  \E a \in OwnAccounts(p) : \E l \in credible[p][a] :
                         \A id \in cfg[p].allowed : id \notin ActiveProductIDs(l)
    BY DEF DenialJustified
  <2>1. Believed(p) /\ ~AnyMatch(cfg[p].allowed, owned[p])
    BY DEF Inv, DecisionInv, DecisionAt
  <2>2. PICK a \in OwnAccounts(p) : \E l \in credible[p][a] : owned[p] = ActiveProductIDs(l)
    BY <2>1 DEF Believed, Own
  <2>3. \A id \in cfg[p].allowed : id \notin owned[p]
    BY <2>1 DEF AnyMatch
  <2> QED
    BY <2>2, <2>3
<1> QED
  BY <1>1, Invariant, PTL

\* Nobody is told that WHMCS does not know them unless it may have been so:
\* answers remembered by address are as fresh as those by client.
THEOREM UnknownsAreJustified == Spec => []UnknownJustified
<1>1. Inv => UnknownJustified
  BY DEF Inv, DecisionInv, DecisionAt, ByAddress, Decided, UnknownJustified
<1> QED
  BY <1>1, Invariant, PTL

\* Nobody becomes an admin but by a mapped product of its own client.
THEOREM AdminsAreJustified == Spec => []AdminJustified
<1>1. Inv => AdminJustified
  <2> SUFFICES ASSUME Inv, NEW p \in Rpcs, role[p] = "admin"
               PROVE  \E a \in OwnAccounts(p) : \E l \in credible[p][a], m \in cfg[p].mapping :
                         m.role = "admin" /\ m.product \in ActiveProductIDs(l)
    BY DEF AdminJustified
  <2>1. PICK m \in cfg[p].mapping : m.role = "admin" /\ m.product \in owned[p]
    BY DEF Inv, DecisionInv, DecisionAt, RoleFromProducts
  <2> QED
    BY <2>1 DEF Inv, DecisionInv, DecisionAt, Believed, Own
<1> QED
  BY <1>1, Invariant, PTL

\* Credentials of its own are enough for a login at every moment of a
\* reconfiguration: entitlementAPI falls back on them (auth/server.go:71-84).
THEOREM OwnCredentialsSuffice == Spec => []CredentialsSuffice
<1>1. Inv => CredentialsSuffice
  BY DEF Inv, DecisionInv, DecisionAt, CredentialsSuffice
<1> QED
  BY <1>1, Invariant, PTL
================================================================================
