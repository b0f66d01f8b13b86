------------------------------ MODULE AdminSite ------------------------------
(***************************************************************************)
(* The plugin's HTTP side as one administrator's browser uses it            *)
(* (internal/httproutes, internal/server, internal/admin): the page and its *)
(* assets, the configuration it shows and sends, and simulate-login, which  *)
(* asks WHMCS in several steps.  One request is followed at a time; what    *)
(* others do to it they do through the live configuration and WHMCS, which  *)
(* change at any moment.  PluginConfig has the steps of Configure and of    *)
(* PATCH, ProductCache the product routes.                                  *)
(***************************************************************************)
EXTENDS WhmcsWire

CONSTANTS
    Clients, Emails, NoEmail,
    MaxFound,       \* how many clients a search may find
    EmailOf,        \* the address of each client
    ProductLists,   \* what a client may own; pid 0: an entry without a valid id
    HostAllowed,    \* allowed_product_ids as the host may send it
    HostMappings,   \* claim_role_mapping as the host may send it
    SentIDs,        \* allowed_product_ids of a PATCH or a simulation, if any
    SentMappings,   \* claim_role_mapping of a PATCH or a simulation, if any
    Paths,          \* pages, as the segments between the slashes
    Mount           \* the segments the host has put before them

ASSUME EmailOfAssumption == EmailOf \in [Clients -> Emails]
ASSUME MaxFoundAssumption == MaxFound \in Nat
ASSUME ListsAssumption ==
    ProductLists \subseteq Seq([pid : Nat, status : ProductStatuses])
\* The host may send anything; a PATCH or a simulation any numbers, which nobody
\* looks at.
ASSUME HostAssumption ==
    /\ \A allowed \in HostAllowed : allowed \subseteq Texts
    /\ HostMappings \subseteq Mappings
ASSUME SentAssumption ==
    /\ \A ids \in SentIDs : \A s \in ids : s \subseteq Int
    /\ \A sent \in SentMappings : sent \subseteq Mappings
ASSUME MountAssumption == Mount \in Seq(STRING)
ASSUME NobodyAssumption == NoClient \notin Clients /\ NoEmail \notin Emails
ASSUME PathsAssumption ==
    \A path \in Paths : path \in Seq(STRING) /\ path # <<>> /\ path[1] = "admin"

VARIABLES
    handler,    \* the routes are published
    live,       \* the live configuration
    upstream,   \* per client: the products WHMCS holds
    pc,         \* where the request is
    email,      \* the address simulate-login is asked about
    rules,      \* the configuration it judges by: the live one with overrides
    client, rows,
    reply,
    saved,      \* history: what PATCH would have made of the overrides
    seen        \* history: what WHMCS held for `client` since it was known

request == <<pc, email, rules, client, rows, reply, saved, seen>>
vars == <<handler, live, upstream, request>>

NoRules == [allowed |-> {}, mapping |-> <<>>]
NoReply == [kind |-> "none"]

Init ==
    /\ handler = FALSE
    /\ live = NoRules
    /\ upstream \in [Clients -> ProductLists]
    /\ pc = "idle"
    /\ email = NoEmail
    /\ rules = NoRules
    /\ client = NoClient
    /\ rows = <<>>
    /\ reply = NoReply
    /\ saved = {}
    /\ seen = {}

-----------------------------------------------------------------------------
(* WHMCS, and the configuration                                             *)

\* The ways WHMCS writes the id n, and the status, of a product.
PidForms(n) ==
    IF n > 0 THEN {Num(n), Str(Itoa(n)), Str(Decimal(n, "blanks"))}
    ELSE {Absent, Num(0), Str(Junk)}
StatusForms(s) == IF s = "missing" THEN {Absent, Null} ELSE {Str(s)}

Entries(row) ==
    {Obj([pid |-> p, status |-> t]) : p \in PidForms(row.pid), t \in StatusForms(row.status)}

\* The ways WHMCS writes a list of products: a list of one also as the one
\* object, an empty list also in five other ways.
ProductAnswers(list) ==
    LET Product(v) == Obj([product |-> v])
        Lists == {es \in [DOMAIN list -> UNION {Entries(list[i]) : i \in DOMAIN list}] :
                     \A i \in DOMAIN list : es[i] \in Entries(list[i])}
    IN  {Product(List(es)) : es \in Lists}
        \cup (IF Len(list) = 1 THEN {Product(e) : e \in Entries(list[1])} ELSE {})
        \cup (IF list = <<>>
              THEN {Absent, Null, Str(Blank), List(<<>>), Product(Absent)} ELSE {})

\* The ways WHMCS writes its clients.
ClientForms ==
    UNION {{Obj([id |-> v, email |-> EmailOf[c]]) : v \in {Num(c), Str(c)}} : c \in Clients}

\* A search finds any clients whose data resembles the address.
ClientAnswers ==
    LET Client(v) == Obj([client |-> v])
        Found == UNION {[1 .. n -> ClientForms] : n \in 0 .. MaxFound}
    IN  {Absent, Str(Blank)} \cup {Client(r) : r \in ClientForms}
        \cup {Client(List(s)) : s \in Found}

WhmcsChange(c, list) ==
    /\ upstream[c] # list
    /\ upstream' = [upstream EXCEPT ![c] = list]
    /\ seen' = IF pc = "products" /\ c = client THEN seen \cup {list} ELSE seen
    /\ UNCHANGED <<handler, live, pc, email, rules, client, rows, reply, saved>>

\* What the host sends is refused, or becomes live and the routes are served.  The
\* code imports it only into a row that holds the default (PluginConfig); here it
\* may become live at any time.
Configure(allowed, mapping) ==
    /\ live' \in LoadConfig(allowed, mapping)
    /\ handler' = TRUE
    /\ UNCHANGED <<upstream, request>>

-----------------------------------------------------------------------------
(* Requests answered in one step                                            *)

Respond(r) == reply' = r /\ pc' = "replied"

\* httproutes answers by itself until the first Configure.
NotReady ==
    /\ pc = "idle" /\ ~handler
    /\ Respond([kind |-> "status", status |-> 503])
    /\ UNCHANGED <<handler, live, upstream, email, rules, client, rows, saved, seen>>

\* RequireAdmin sends others than administrators away.
Forbidden ==
    /\ pc = "idle" /\ handler
    /\ Respond([kind |-> "status", status |-> 403])
    /\ UNCHANGED <<handler, live, upstream, email, rules, client, rows, saved, seen>>

ConfigSummary ==
    /\ pc = "idle" /\ handler
    /\ Respond([kind |-> "summary", ids |-> SummaryIDs(live),
                mapping |-> live.mapping, of |-> live])
    /\ UNCHANGED <<handler, live, upstream, email, rules, client, rows, saved, seen>>

UpdateConfig(ids, mapping) ==
    /\ pc = "idle" /\ handler
    /\ IF PatchConfig(live, ids, mapping) = {}
       THEN Respond([kind |-> "status", status |-> 400]) /\ UNCHANGED live
       ELSE /\ live' \in PatchConfig(live, ids, mapping)
            /\ Respond([kind |-> "status", status |-> 200])
    /\ UNCHANGED <<handler, upstream, email, rules, client, rows, saved, seen>>

\* Mutant: the page's own segment is counted as a directory.
ComputeBaseHref_OffByOne(path) == Len(path)

\* How many directories the page's base lies above the page.
ComputeBaseHref(path) == Len(path) - 1

Page(path) ==
    /\ pc = "idle" /\ handler
    /\ Respond([kind |-> "page", path |-> path, up |-> ComputeBaseHref(path)])
    /\ UNCHANGED <<handler, live, upstream, email, rules, client, rows, saved, seen>>

\* Where a browser finds ./assets/... of a page: the segments of the page's
\* directory, without the last `up`.
AssetURL(path, up) ==
    LET dir == Mount \o Front(path)
    IN  (IF up >= Len(dir) THEN <<>> ELSE SubSeq(dir, 1, Len(dir) - up))
            \o <<"assets", "bundle">>

\* The host forwards what lies below the mount, and /assets/* is served.
Asset ==
    /\ pc = "replied" /\ reply.kind = "page"
    /\ Respond([kind |-> "asset",
                found |-> AssetURL(reply.path, reply.up)
                             = Mount \o <<"assets", "bundle">>])
    /\ UNCHANGED <<handler, live, upstream, email, rules, client, rows, saved, seen>>

\* The browser has the reply.
Receive ==
    /\ pc = "replied"
    /\ pc' = "idle"
    /\ email' = NoEmail /\ rules' = NoRules /\ client' = NoClient /\ rows' = <<>>
    /\ reply' = NoReply /\ saved' = {} /\ seen' = {}
    /\ UNCHANGED <<handler, live, upstream>>

-----------------------------------------------------------------------------
(* simulate-login: HandleSimulateLogin                                      *)

Fail(reason) == Respond([kind |-> "failed", reason |-> reason])

\* Neither an address nor an id is sent, or the configuration has no
\* credentials.
SimulateRefused ==
    /\ pc = "idle" /\ handler
    /\ \/ Respond([kind |-> "status", status |-> 400])
       \/ Fail("admin_api_required")
    /\ UNCHANGED <<handler, live, upstream, email, rules, client, rows, saved, seen>>

\* The live configuration is read once.  An address leads to the client, and
\* an id only counts without one.
Simulate(address, id, ids, mapping) ==
    /\ pc = "idle" /\ handler
    /\ address # NoEmail \/ id # NoClient
    /\ email' = address
    /\ rules' = WithFields(live, ids, mapping)
    /\ saved' = PatchConfig(live, ids, mapping)
    /\ IF address # NoEmail
       THEN pc' = "email" /\ UNCHANGED <<client, seen>>
       ELSE pc' = "products" /\ client' = id /\ seen' = {upstream[id]}
    /\ UNCHANGED <<handler, live, upstream, rows, reply>>

SimulateEmail(answer) ==
    /\ pc = "email"
    /\ LET found == FindClient(answer, email)
       IN  \/ found = {} /\ Fail("client_lookup_failed") /\ UNCHANGED <<client, seen>>
           \/ found = {NoClient} /\ Fail("client_not_found") /\ UNCHANGED <<client, seen>>
           \/ /\ found \cap Clients # {}
              /\ client' \in found
              /\ seen' = {upstream[client']}
              /\ pc' = "products" /\ UNCHANGED reply
    /\ UNCHANGED <<handler, live, upstream, email, rules, rows, saved>>

SimulateProducts(answer) ==
    /\ pc = "products"
    /\ IF ClientProducts(answer) = {}
       THEN Fail("products_lookup_failed") /\ UNCHANGED rows
       ELSE rows' \in ClientProducts(answer) /\ pc' = "details" /\ UNCHANGED reply
    /\ UNCHANGED <<handler, live, upstream, email, rules, client, saved, seen>>

\* The call fails, or WHMCS answers with an error.
SimulateCallFails ==
    /\ \/ pc = "email" /\ Fail("client_lookup_failed")
       \/ pc = "products" /\ Fail("products_lookup_failed")
    /\ UNCHANGED <<handler, live, upstream, email, rules, client, rows, saved, seen>>

\* The role of the first entry that maps the product.
RoleHit(pid, mapping) ==
    LET hits == {i \in DOMAIN mapping : /\ mapping[i].product = Itoa(pid)
                                        /\ mapping[i].role \in ValidRoles}
    IN  IF hits = {} THEN "absent" ELSE mapping[Min(hits)].role

\* Mutant: what is not active is allowed too.
TableRow_AnyStatus(c, p) ==
    [pid |-> p.pid, allowed |-> Itoa(p.pid) \in c.allowed,
     roleHit |-> RoleHit(p.pid, c.mapping)]

\* A row of the table the page draws; only active products count.
TableRow(c, p) ==
    LET active == ActiveProductIDs({p}) # {}
    IN  [pid |-> p.pid, allowed |-> active /\ Itoa(p.pid) \in c.allowed,
         roleHit |-> IF active THEN RoleHit(p.pid, c.mapping) ELSE "absent"]

\* The page is shown a role for everybody.
Preview(c, list, ok) ==
    LET owned == OwnedActive(list)
    IN  [kind |-> "verdict", allowed |-> Gate(c.allowed, owned),
         role |-> IF owned = {} THEN "user"
                  ELSE RoleFromProducts(owned, ToSet(c.mapping)),
         details |-> ok, table |-> [i \in DOMAIN list |-> TableRow(c, list[i])]]

\* Mutant: the simulation judges by whatever is live when it ends.
SimulateVerdict_LateConfig(ok) ==
    /\ pc = "details"
    /\ Respond(Preview(live, rows, ok))
    /\ UNCHANGED <<handler, live, upstream, email, rules, client, rows, saved, seen>>

\* The details, which may fail without harm, and the reply.
SimulateVerdict(ok) ==
    /\ pc = "details"
    /\ Respond(Preview(rules, rows, ok))
    /\ UNCHANGED <<handler, live, upstream, email, rules, client, rows, saved, seen>>

Next ==
    \/ \E c \in Clients, list \in ProductLists : WhmcsChange(c, list)
    \/ \E allowed \in HostAllowed, mapping \in HostMappings : Configure(allowed, mapping)
    \/ NotReady
    \/ Forbidden
    \/ ConfigSummary
    \/ \E ids \in SentIDs, mapping \in SentMappings : UpdateConfig(ids, mapping)
    \/ \E path \in Paths : Page(path)
    \/ Asset
    \/ Receive
    \/ SimulateRefused
    \/ \E address \in Emails \cup {NoEmail}, id \in Clients \cup {NoClient},
          ids \in SentIDs, mapping \in SentMappings :
             Simulate(address, id, ids, mapping)
    \/ \E answer \in ClientAnswers : SimulateEmail(answer)
    \/ pc = "products" /\ \E answer \in ProductAnswers(upstream[client]) :
                              SimulateProducts(answer)
    \/ SimulateCallFails
    \/ \E ok \in BOOLEAN : SimulateVerdict(ok)

Spec == Init /\ [][Next]_vars

-----------------------------------------------------------------------------
(* What an administrator may rely on                                        *)

\* Every variable has its type; the live configuration's ids are canonical and
\* its roles known, however they were written.
TypeOK ==
    /\ handler \in BOOLEAN
    /\ \A t \in live.allowed : t = Itoa(t.n)
    /\ \A i \in DOMAIN live.mapping :
          /\ live.mapping[i].product = Itoa(live.mapping[i].product.n)
          /\ live.mapping[i].role \in ValidRoles
    /\ upstream \in [Clients -> ProductLists]
    /\ pc \in {"idle", "email", "products", "details", "replied"}
    /\ email \in Emails \cup {NoEmail}
    /\ client \in Clients \cup {NoClient}
    /\ seen \subseteq ProductLists

\* What a PATCH makes of the page as it came: only positive ids are sent back.
SavedBack == PatchConfig(reply.of, {{n \in reply.ids : n > 0}}, {reply.mapping})

\* The lists a login decides on: one bad id fails the lookup.
Readable == {list \in ProductLists : \A i \in DOMAIN list : list[i].pid > 0}

\* An administrator who saves the page as it came changes nobody's login: what
\* the summary shows, sent back, decides as the configuration it showed.  Except
\* where ids are allowed and none of them is positive: there see
\* OpenOnlyWhenEmpty.
SavedBackUnchanged ==
    reply.kind = "summary" /\ (reply.ids = {} \/ \E n \in reply.ids : n > 0) =>
        \E c \in SavedBack :
            \A list \in Readable : LoginVerdict(c, list) = LoginVerdict(reply.of, list)

\* The claim of the page (web/.../ProductSelector.tsx:81-82): a selection that is not
\* empty, saved as it came, does not let everybody in.
OpenOnlyWhenEmpty ==
    reply.kind = "summary" /\ reply.ids # {} => \A c \in SavedBack : c.allowed # {}

\* The simulation decides as a login would once the request's settings are
\* saved, whatever is configured meanwhile: on a list WHMCS held while it ran.
\* Who gets in without a role is shown as a user; and a role holds for mappings
\* whose ids are sent as they will be kept.
PreviewIsLogin ==
    reply.kind = "verdict" =>
        \E list \in seen : \A c \in saved :
            LET login == LoginVerdict(c, list)
            IN  /\ reply.allowed = login.allowed
                /\ login.allowed /\ c.mapping = rules.mapping =>
                      \/ reply.role = login.role
                      \/ reply.role = "user" /\ login.role = "absent"

\* The table agrees with the verdict above it: somebody is let in by an allowed
\* row, and nobody is an administrator, or shown to be one, without a hit.
TableExplainsVerdict ==
    reply.kind = "verdict" =>
        LET table == ToSet(reply.table)
        IN  /\ reply.allowed = (rules.allowed = {} \/ \E row \in table : row.allowed)
            /\ (\E row \in table : row.roleHit = "admin") => reply.role = "admin"
            /\ reply.role = "admin" => \E row \in table : row.roleHit # "absent"

\* However WHMCS writes a list, all of it is read, in order, or none.
NothingDropped == pc = "details" => rows \in seen

\* Nobody else's products are shown for an address, whomever WHMCS finds.
OwnClientOnly ==
    pc \in {"products", "details"} /\ email # NoEmail =>
        EmailOf[client] = email

\* Every page finds its scripts and styles, at whatever path it was opened.
AssetsFound == reply.kind = "asset" => reply.found
=============================================================================
