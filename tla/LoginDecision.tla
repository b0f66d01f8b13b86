--------------------------- MODULE LoginDecision ---------------------------
(***************************************************************************)
(* How a login is decided (internal/auth/server.go): ExchangeCode and       *)
(* RefreshSession, from the configuration they read first to the response   *)
(* buildResponse makes.  Concurrent RPCs share the lookups of clients by    *)
(* email and of products by client; both are the abstract LookupService,    *)
(* which EntitlementResolver implements.  Meanwhile products are ordered    *)
(* and suspended and addresses change hands in WHMCS, and the plugin is     *)
(* reconfigured: applyConfig (main.go) stores the configuration first and   *)
(* the shared resolver for it later.  The exchange of codes and tokens is   *)
(* not modelled here.                                                       *)
(***************************************************************************)
EXTENDS Integers, EntitlementRules

CONSTANTS
    Rpcs,           \* gRPC calls that may run at once
    Servers,        \* WHMCS installations
    Clients,        \* WHMCS client ids; each installation has its own clients
    Emails,
    ProductLists,   \* the product lists a client may have, {} among them
    Configs,        \* the configurations the plugin may be given
    Appliers,       \* Configures and PATCHes that may apply one at once
    NoServer, NoClient, NoEmail,
    MaxStale        \* how old a "no products" answer of the lookup may be

ASSUME KeysAssumption == Clients \cap Emails = {}
ASSUME ListsAssumption == {} \in ProductLists
ASSUME ConfigsAssumption ==
    \A c \in Configs : /\ c.server \in Servers
                       /\ c.oauth \in BOOLEAN /\ c.creds \in BOOLEAN
                       /\ c.discord \in BOOLEAN
ASSUME MaxStaleAssumption == MaxStale \in Nat
ASSUME AbsentAssumption ==
    NoServer \notin Servers /\ NoClient \notin Clients /\ NoEmail \notin Emails

\* What /oauth/userinfo.php may say of a user, its subject aside.
UserInfos == [id : Clients \cup {NoClient}, email : Emails \cup {NoEmail}]
\* What is looked up: an account's products, and whose an address is.
Accounts == Servers \X Clients
Addresses == Servers \X Emails
Keys == Accounts \cup Addresses
\* What WHMCS may hold for a key; for an address, its client if it has one.
Records(k) ==
    IF k \in Accounts THEN ProductLists ELSE {{}} \cup {{c} : c \in Clients}
AllRecords == UNION {Records(k) : k \in Keys}

VARIABLES
    live,       \* the configuration cfgFn returns now
    resolver,   \* the server the shared resolver asks, NoServer without one
    storing,    \* per applier: it has stored its configuration, and will store
                \* the resolver for this server ("idle": nothing to store)
    pc,         \* per RPC: where it is
    cfg,        \* per RPC: the configuration it read when it began
    ui,         \* per RPC: the userinfo it was given
    api,        \* per RPC: the server whose admin API it asks
    client,     \* per RPC: the WHMCS client it decides about
    owned,      \* per RPC: ownedActive
    role,       \* per RPC: the silo_role claim, "absent" when there is none
    discord,    \* per RPC: the discord_id claim is there
    outcome,    \* per RPC: "allow" or the gRPC status it failed with
    credible    \* history: per key, what an RPC may decide on, see Begin

\* The variables of the lookups.
VARIABLES phase, asks, answer, failed, held, upstream, sinceNone

lookup == <<phase, asks, answer, failed, held, upstream, sinceNone>>
rpc == <<pc, cfg, ui, api, client, owned, role, discord, outcome>>
config == <<live, resolver, storing>>
vars == <<config, rpc, credible, lookup>>

Lookups == INSTANCE LookupService WITH
    Callers <- Rpcs, Values <- AllRecords \ {{}}, None <- {}

PCs == {"idle", "userinfo", "client", "email", "products", "await", "discord",
        "done"}
\* PermissionDenied is split by its cause.
Outcomes == {"none", "allow", "FailedPrecondition", "PermissionDenied_client",
             "PermissionDenied_gate", "Internal"}

\* WHMCSServerURL, ClientID and ClientSecret are set.
Usable(c) == c.oauth
NeedsProducts(c) == c.allowed # {} \/ c.mapping # {}
NeedsApi(c) == NeedsProducts(c) \/ c.discord

\* The resolver applyConfig builds: none without admin API credentials.
ResolverOf(c) == IF c.creds THEN c.server ELSE NoServer

AnyAccount == CHOOSE a \in Accounts : TRUE
AnyConfig == CHOOSE c \in Configs : TRUE
Blank == [id |-> NoClient, email |-> NoEmail]

Goto(p, l) == pc' = [pc EXCEPT ![p] = l]
Finish(p, o) == Goto(p, "done") /\ outcome' = [outcome EXCEPT ![p] = o]

Init ==
    /\ live \in Configs
    /\ resolver = ResolverOf(live)
    /\ storing = [o \in Appliers |-> "idle"]
    /\ pc = [p \in Rpcs |-> "idle"]
    /\ cfg = [p \in Rpcs |-> AnyConfig]
    /\ ui = [p \in Rpcs |-> Blank]
    /\ api = [p \in Rpcs |-> NoServer]
    /\ client = [p \in Rpcs |-> NoClient]
    /\ owned = [p \in Rpcs |-> {}]
    /\ role = [p \in Rpcs |-> "absent"]
    /\ discord = [p \in Rpcs |-> FALSE]
    /\ outcome = [p \in Rpcs |-> "none"]
    /\ credible = [p \in Rpcs |-> [k \in Keys |-> {}]]
    /\ Lookups!Init
    /\ \A k \in Keys : upstream[k] \in Records(k)
    /\ asks = [p \in Rpcs |-> AnyAccount]

-----------------------------------------------------------------------------
(* ExchangeCode / RefreshSession                                            *)

\* What WHMCS holds for a key, and "nothing" as long as a remembered answer may
\* still say so.
CredibleNow(k) ==
    {upstream[k]} \cup (IF sinceNone[k] <= MaxStale THEN {{}} ELSE {})

\* What the pending lookups of a key may return: all WHMCS held for it since
\* they began.
InFlight(k) == UNION {held[q] : q \in {r \in Rpcs : phase[r] = "pending" /\ asks[r] = k}}

\* cfgFn() is read once.  The login may yet be given what WHMCS holds now or
\* later, what a remembered answer says, and, as it may join a lookup that is
\* already pending, what that may return.
Begin(p) ==
    /\ pc[p] = "idle"
    /\ cfg' = [cfg EXCEPT ![p] = live]
    /\ IF Usable(live)
       THEN Goto(p, "userinfo") /\ UNCHANGED outcome
       ELSE Finish(p, "FailedPrecondition")
    /\ credible' = [credible EXCEPT ![p] =
                        [k \in Keys |-> CredibleNow(k) \cup InFlight(k)]]
    /\ UNCHANGED <<config, ui, api, client, owned, role, discord, lookup>>

\* FetchUserInfo after a successful token exchange.
UserInfo(p, info) ==
    /\ pc[p] = "userinfo"
    /\ ui' = [ui EXCEPT ![p] = info]
    /\ Goto(p, "client")
    /\ UNCHANGED <<config, cfg, api, client, owned, role, discord, outcome,
                   credible, lookup>>

UserInfoFails(p) ==
    /\ pc[p] = "userinfo"
    /\ Finish(p, "Internal")
    /\ UNCHANGED <<config, cfg, ui, api, client, owned, role, discord,
                   credible, lookup>>

-----------------------------------------------------------------------------
(* buildResponse                                                            *)

\* No gating, no mapping, no Discord: the admin API is not consulted.
PlainLogin(p) ==
    /\ pc[p] = "client"
    /\ ~NeedsApi(cfg[p])
    /\ Finish(p, "allow")
    /\ UNCHANGED <<config, cfg, ui, api, client, owned, role, discord,
                   credible, lookup>>

\* Mutant: no client of the RPC's own while the shared one is missing.
EntitlementApi_SharedOnly(p) == resolver

\* entitlementAPI: the shared resolver if there is one, whatever the RPC's
\* configuration; else a client of the RPC's own, if it has credentials.
EntitlementApi(p) == IF resolver # NoServer THEN resolver ELSE ResolverOf(cfg[p])

\* entitlementAPI returns nil, or userinfo identifies nobody.
CannotResolve(p) ==
    /\ pc[p] = "client"
    /\ NeedsApi(cfg[p])
    /\ \/ EntitlementApi(p) = NoServer /\ Finish(p, "FailedPrecondition")
       \/ EntitlementApi(p) # NoServer /\ ui[p] = Blank
                                       /\ Finish(p, "PermissionDenied_client")
    /\ UNCHANGED <<config, cfg, ui, api, client, owned, role, discord,
                   credible, lookup>>

\* The admin API an RPC gets it keeps until it responds.
TakeApi(p) ==
    /\ pc[p] = "client"
    /\ NeedsApi(cfg[p])
    /\ EntitlementApi(p) # NoServer
    /\ api' = [api EXCEPT ![p] = EntitlementApi(p)]

\* The step after the client is known.
WithClient(p, c) ==
    /\ client' = [client EXCEPT ![p] = c]
    /\ Goto(p, IF NeedsProducts(cfg[p]) THEN "products" ELSE "discord")

\* GetClientByEmail is asked, on the server whose admin API the login uses.
AskForClient(p) ==
    /\ TakeApi(p)
    /\ ui[p].email # NoEmail
    /\ Lookups!Ask(p, <<EntitlementApi(p), ui[p].email>>)
    /\ Goto(p, "email")
    /\ UNCHANGED <<config, cfg, ui, client, owned, role, discord, outcome,
                   credible>>

\* Mutant: the unverified email comes first.
ClientFromId_EmailFirst(p) ==
    /\ ui[p].id # NoClient
    /\ \/ AskForClient(p)
       \/ /\ TakeApi(p) /\ ui[p].email = NoEmail
          /\ WithClient(p, ui[p].id)
          /\ UNCHANGED <<config, cfg, ui, owned, role, discord, outcome,
                         credible, lookup>>

ClientFromId(p) ==
    /\ TakeApi(p)
    /\ ui[p].id # NoClient
    /\ WithClient(p, ui[p].id)
    /\ UNCHANGED <<config, cfg, ui, owned, role, discord, outcome, credible, lookup>>

AskByEmail(p) == ui[p].id = NoClient /\ AskForClient(p)

\* What an idle RPC asks for means nothing.
TakeAnswer(p) == Lookups!Leave(p) /\ asks' = [asks EXCEPT ![p] = AnyAccount]

\* Mutant: an error is taken for "no such client".
ClientFromEmail_ErrorIsNobody(p) ==
    /\ pc[p] = "email"
    /\ \/ /\ answer[p] = {}
          /\ Finish(p, "PermissionDenied_client")
          /\ UNCHANGED client
       \/ ~failed[p] /\ (\E c \in answer[p] : WithClient(p, c)) /\ UNCHANGED outcome
    /\ TakeAnswer(p)
    /\ UNCHANGED <<config, cfg, ui, api, owned, role, discord, credible>>

\* GetClientByEmail has returned.
ClientFromEmail(p) ==
    /\ pc[p] = "email"
    /\ \/ failed[p] /\ Finish(p, "Internal") /\ UNCHANGED client
       \/ /\ ~failed[p] /\ answer[p] = {}
          /\ Finish(p, "PermissionDenied_client")
          /\ UNCHANGED client
       \/ ~failed[p] /\ (\E c \in answer[p] : WithClient(p, c)) /\ UNCHANGED outcome
    /\ TakeAnswer(p)
    /\ UNCHANGED <<config, cfg, ui, api, owned, role, discord, credible>>

AskProducts(p) ==
    /\ pc[p] = "products"
    /\ Lookups!Ask(p, <<api[p], client[p]>>)
    /\ Goto(p, "await")
    /\ UNCHANGED <<config, cfg, ui, api, client, owned, role, discord, outcome,
                   credible>>

\* The lookup has returned: the gate, and the role for whoever passes it.
DecideOnProducts(p) ==
    /\ pc[p] = "await"
    /\ LET ids == ActiveProductIDs(answer[p])
       IN  \/ /\ failed[p]
              /\ Finish(p, "Internal")
              /\ UNCHANGED owned
           \/ /\ ~failed[p] /\ ~Gate(cfg[p].allowed, ids)
              /\ owned' = [owned EXCEPT ![p] = ids]
              /\ Finish(p, "PermissionDenied_gate")
           \/ /\ ~failed[p] /\ Gate(cfg[p].allowed, ids)
              /\ owned' = [owned EXCEPT ![p] = ids]
              /\ Goto(p, "discord")
              /\ UNCHANGED outcome
    /\ TakeAnswer(p)
    /\ UNCHANGED <<config, cfg, ui, api, client, role, discord, credible>>

\* The Discord id may be found, may be missing, and may fail without harm; then
\* the role, for those who own something, and the response.
Respond(p) ==
    /\ pc[p] = "discord"
    /\ \E found \in IF cfg[p].discord THEN BOOLEAN ELSE {FALSE} :
          discord' = [discord EXCEPT ![p] = found]
    /\ role' = [role EXCEPT ![p] =
                   IF owned[p] # {} THEN RoleFromProducts(owned[p], cfg[p].mapping)
                   ELSE "absent"]
    /\ Finish(p, "allow")
    /\ UNCHANGED <<config, cfg, ui, api, client, owned, credible, lookup>>

\* The response has gone to the host.
Reply(p) ==
    /\ pc[p] = "done"
    /\ Goto(p, "idle")
    /\ cfg' = [cfg EXCEPT ![p] = AnyConfig]
    /\ ui' = [ui EXCEPT ![p] = Blank]
    /\ api' = [api EXCEPT ![p] = NoServer]
    /\ client' = [client EXCEPT ![p] = NoClient]
    /\ owned' = [owned EXCEPT ![p] = {}]
    /\ role' = [role EXCEPT ![p] = "absent"]
    /\ discord' = [discord EXCEPT ![p] = FALSE]
    /\ outcome' = [outcome EXCEPT ![p] = "none"]
    /\ credible' = [credible EXCEPT ![p] = [k \in Keys |-> {}]]
    /\ UNCHANGED <<config, lookup>>

-----------------------------------------------------------------------------
(* The lookup at work, WHMCS, and the operator                              *)

AnswerLookup(S, k) ==
    /\ \/ \E v \in Records(k) : Lookups!Answer(S, k, v)
       \/ Lookups!Refuse(S, k)
    /\ UNCHANGED <<config, rpc, credible>>

\* An order, a suspension, a new or a deleted client, an address that moves.
WhmcsChange(k, v) ==
    /\ v # upstream[k]
    /\ Lookups!Change(k, v)
    /\ credible' = [p \in Rpcs |->
                       IF pc[p] = "idle" THEN credible[p]
                       ELSE [credible[p] EXCEPT ![k] = @ \cup {v}]]
    /\ UNCHANGED <<config, rpc>>

Tick ==
    /\ Lookups!Tick
    /\ UNCHANGED <<config, rpc, credible>>

\* applyConfig begins: every RPC from here on reads the new configuration.
Reconfigure(o, c) ==
    /\ storing[o] = "idle"
    /\ c # live
    /\ live' = c
    /\ storing' = [storing EXCEPT ![o] = ResolverOf(c)]
    /\ UNCHANGED <<resolver, rpc, credible, lookup>>

\* applyConfig ends: the shared resolver is the new one, or none.
StoreResolver(o) ==
    /\ storing[o] # "idle"
    /\ resolver' = storing[o]
    /\ storing' = [storing EXCEPT ![o] = "idle"]
    /\ UNCHANGED <<live, rpc, credible, lookup>>

RpcStep(p) ==
    \/ Begin(p)
    \/ \E info \in UserInfos : UserInfo(p, info)
    \/ UserInfoFails(p)
    \/ PlainLogin(p)
    \/ CannotResolve(p)
    \/ ClientFromId(p)
    \/ AskByEmail(p)
    \/ ClientFromEmail(p)
    \/ AskProducts(p)
    \/ DecideOnProducts(p)
    \/ Respond(p)
    \/ Reply(p)

Next ==
    \/ \E p \in Rpcs : RpcStep(p)
    \/ \E S \in SUBSET Rpcs, k \in Keys : AnswerLookup(S, k)
    \/ \E k \in Keys : \E v \in Records(k) : WhmcsChange(k, v)
    \/ \E o \in Appliers, c \in Configs : Reconfigure(o, c)
    \/ \E o \in Appliers : StoreResolver(o)
    \/ Tick

Spec == Init /\ [][Next]_vars

-----------------------------------------------------------------------------
(* What a decision may rest on                                              *)

ConfigTypes ==
    /\ live \in Configs
    /\ resolver \in Servers \cup {NoServer}
    /\ storing \in [Appliers -> Servers \cup {NoServer, "idle"}]

LoginTypes ==
    /\ pc \in [Rpcs -> PCs]
    /\ cfg \in [Rpcs -> Configs]
    /\ ui \in [Rpcs -> UserInfos]
    /\ api \in [Rpcs -> Servers \cup {NoServer}]
    /\ client \in [Rpcs -> Clients \cup {NoClient}]

ResponseTypes ==
    /\ owned \in [Rpcs -> SUBSET UNION {ActiveProductIDs(l) : l \in ProductLists}]
    /\ role \in [Rpcs -> {"absent", "user", "admin"}]
    /\ discord \in [Rpcs -> BOOLEAN]
    /\ outcome \in [Rpcs -> Outcomes]

LookupTypes ==
    /\ credible \in [Rpcs -> [Keys -> SUBSET AllRecords]]
    /\ phase \in [Rpcs -> {"idle", "pending", "answered"}]
    /\ asks \in [Rpcs -> Keys]
    /\ answer \in [Rpcs -> AllRecords]
    /\ failed \in [Rpcs -> BOOLEAN]
    /\ held \in [Rpcs -> SUBSET AllRecords]
    /\ upstream \in [Keys -> AllRecords]
    /\ sinceNone \in [Keys -> 0 .. MaxStale + 1]
    /\ \A k \in Keys : /\ upstream[k] \in Records(k)
                       /\ \A p \in Rpcs : credible[p][k] \subseteq Records(k)

\* Every variable has its type.
TypeOK == ConfigTypes /\ LoginTypes /\ ResponseTypes /\ LookupTypes

Decided(p, o) == pc[p] = "done" /\ outcome[p] = o

\* The accounts userinfo stands for: the id's, and without an id those of the
\* clients the address had.
OwnAccounts(p) ==
    {api[p]} \X (IF ui[p].id # NoClient THEN {ui[p].id}
                 ELSE UNION credible[p][<<api[p], ui[p].email>>])

(***************************************************************************)
(* What is credible to a login, and so what its decision may rest on: what  *)
(* WHMCS has held since the login began, or since a lookup of the same key  *)
(* began that was still pending at that moment; and "nothing", if WHMCS     *)
(* held nothing at most MaxStale ticks before the login began, or later.    *)
(***************************************************************************)

\* Nobody passes the gate of the configuration it read without a credible list
\* of an account of its own with an allowed active product: neither a newer
\* configuration nor another client's products can let a login in.
AllowJustified ==
    \A p \in Rpcs :
        Decided(p, "allow") /\ cfg[p].allowed # {} =>
            \E a \in OwnAccounts(p) : \E l \in credible[p][a] :
                AnyMatch(cfg[p].allowed, ActiveProductIDs(l))

\* Nobody is turned away at the gate unless a credible list of an account of its
\* own has no allowed active product.
DenialJustified ==
    \A p \in Rpcs :
        Decided(p, "PermissionDenied_gate") =>
            \E a \in OwnAccounts(p) : \E l \in credible[p][a] :
                \A id \in cfg[p].allowed : id \notin ActiveProductIDs(l)

\* Nobody is told that there is no WHMCS client for them unless userinfo
\* identified nobody, or it is credible that the address had no client: an
\* error, or an answer remembered for too long, does not pass for it.
UnknownJustified ==
    \A p \in Rpcs :
        Decided(p, "PermissionDenied_client") =>
            \/ ui[p] = Blank
            \/ ui[p].id = NoClient /\ {} \in credible[p][<<api[p], ui[p].email>>]

\* A login comes out as an admin only by a credible active product of an account
\* of its own that its configuration maps to admin.
AdminJustified ==
    \A p \in Rpcs :
        role[p] = "admin" =>
            \E a \in OwnAccounts(p) : \E l \in credible[p][a], m \in cfg[p].mapping :
                m.role = "admin" /\ m.product \in ActiveProductIDs(l)

\* A login whose own configuration has everything it needs never fails for want
\* of configuration, whatever is being applied meanwhile.
CredentialsSuffice ==
    \A p \in Rpcs :
        Decided(p, "FailedPrecondition") => ~Usable(cfg[p]) \/ ~cfg[p].creds

\* auth/server.go:69-70: "entitlementAPI returns the entitlement API client for
\* cfg": the WHMCS that says who somebody is also says what they own.
ApiForOwnConfig ==
    \A p \in Rpcs : api[p] # NoServer => api[p] = cfg[p].server
=============================================================================
