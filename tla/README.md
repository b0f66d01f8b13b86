# silo-plugin-whmcs-login in TLA+

Models, model-checking runs and machine-checked proofs for the Silo plugin that
logs users in through WHMCS (OAuth), gates logins on the products they own, and
lets an administrator configure all of that from a small web page.

## 1. The system

Paths are relative to the repository. The Silo *host* starts the plugin as a
child process and calls it over gRPC; WHMCS is the billing system; both are
external.

| part | source | state it keeps | operations |
| --- | --- | --- | --- |
| Entitlement resolver | `internal/whmcs/entitlements.go` | two singleflight groups (by email, by client id), two maps of remembered negative answers with their expiry | `GetClientByEmail`, `GetClientsProducts` |
| Retry | `internal/whmcs/retry.go` | none (a loop's attempt) | `retry` around each idempotent lookup |
| Auth server | `internal/auth/server.go` | none between RPCs | `InitAuthorize`, `ExchangeCode`, `RefreshSession`, `buildResponse` |
| OAuth client | `internal/whmcs/oauth.go` | none | `GeneratePKCE`, `BuildAuthorizeURL`, `ExchangeCode`, `RefreshAccessToken`, `FetchUserInfo` |
| Bootstrap | `cmd/silo-plugin-whmcs-login/main.go` | atomic pointers to the live config, the pool, the store, the product cache and the resolver; the HTTP handler | the Configure callback, `applyConfig` |
| Runtime server | `internal/runtime/runtime.go` | a copy of the last accepted config | `Configure`, `loadConfig`, `ValidateConfig` |
| Store | `internal/store/store.go` | one row, `app_config` | `Migrate`, `GetConfig`, `UpdateConfig`, `ImportLegacyConfig` |
| Product cache | `internal/whmcs/cache.go` | product list, time of the last success, of the last attempt, last error, a singleflight group | `Get`, `Refresh`, three getters |
| Admin API | `internal/admin/server.go` | none | config summary and PATCH, products and refresh, simulate-login, diagnostics |
| WHMCS admin client | `internal/whmcs/api.go` | none | one function per WHMCS API action, tolerant JSON decoding |
| HTTP plumbing | `internal/httproutes`, `internal/server` | the handler the host's HTTP calls go to | route table, SPA and asset serving, `<base href>` |
| Web page | `web/src` | browser state | Products, Settings, Diagnostics |

How they interact. A login is two RPCs with the browser in between:
`InitAuthorize` hands the host a URL and `provider_state`; `ExchangeCode` gets
both back with WHMCS's code, swaps it for a token, fetches userinfo and runs
`buildResponse`, which asks the shared resolver for the client and its products
and decides. Later the host calls `RefreshSession` with the claims it kept,
which swaps the refresh token and decides again. Every RPC reads the
configuration once, through an atomic pointer that `Configure` (from the host)
and PATCH (from the page) replace at any time; both also write or read the
database row, and both rebuild the resolver and the product cache.

What is hard about it:

* logins for one client at the same moment share a lookup, its retries, its
  error and its context; a negative answer outlives the lookup;
* status changes in WHMCS race with logins that are deciding;
* WHMCS rotates refresh tokens, and a refresh that fails after the swap has
  already used up the old one; refreshes may overlap;
* the host may confuse the callbacks of two browser tabs;
* Configure and PATCH write several pointers and a row, one after the other;
  the process may die or a statement fail between any two;
* a Configure replaces the connection pool PATCH requests are using;
* the product page is assembled from several reads of a cache that other
  requests are refreshing;
* simulate-login promises an administrator what a login would get, with
  settings that are not saved yet, from three calls to WHMCS and one read of
  the configuration;
* product ids are numbers for people and WHMCS and texts for the gate, which
  compares them literally; they reach it by five ways;
* WHMCS writes one value in many ways: ids as numbers or texts, a list of one as
  an object, an empty list as a text.

What makes each part correct is stated as the properties of its module, below.

## 2. Modules

| module | models |
| --- | --- |
| `EntitlementResolver` | the resolver with the retry loop inside it, one caller per login |
| `LookupService` | abstract: what a login may rely on when it looks a key up |
| `EntitlementRules` | `ActiveProductIDs`, `AnyMatch`, the gate, `RoleFromProducts` |
| `LoginDecision` | `buildResponse` for concurrent RPCs, on top of `LookupService`, with WHMCS and the configuration changing |
| `OAuthSession` | flows, codes and refresh tokens: `InitAuthorize`, `ExchangeCode`, `RefreshSession` |
| `PluginConfig` | Configure, import, PATCH, crashes, pools and pointers |
| `ProductCache` | the product list's cache and its two endpoints |
| `ConfigText` | how product ids are parsed, validated, shown and sent; a login's verdict on a product list |
| `WhmcsWire` | how WHMCS's JSON for clients and products is decoded |
| `AdminSite` | the HTTP side: routes, page and assets, summary, PATCH, simulate-login; on top of the two |
| `EntitlementResolverProofs`, `LoginDecisionProofs`, `OAuthSessionProofs`, `PluginConfigProofs`, `ProductCacheProofs`, `AdminSiteProofs` | the theorems about the module each is named after, and their proofs |
| `MC…` | small instances: symmetry sets, configurations, product lists |

`LoginDecision` uses `LookupService` where the code uses the resolver; that
`EntitlementResolver` implements `LookupService` is checked by TLC
(`resolver`) and proved (theorem `Refinement`). So the login is
verified against what the resolver promises and not against its details.

### 2.1 EntitlementResolver

`GetClientByEmail` and `GetClientsProducts` have the same control, so one module
stands for either. A caller goes

    idle → check → join → (wait | recheck → call ⇄ backoff → responded → remember) → deliver → done

where each arrow is one mutex-protected section, one entry to or exit from the
singleflight group, or one half of an HTTP exchange. `flight[k]` is the open
singleflight call for key `k`. `negAge[k]` is the age of the remembered negative
answer instead of its expiry, which keeps the state space finite; an entry of
age exactly `NegativeTTL` still hits, because the code's `now().After(exp)` is
strict. Retries run under the leader's context only, so a leader whose login is
cancelled fails its followers with it, as in the code; a follower that is
cancelled keeps waiting.

`window`, `shared`, `blips` and `sinceNone` are history: no guard reads them.

`Tick` is urgent: it waits for local steps of goroutines and passes only in HTTP
exchanges, backoff sleeps and between lookups. Local steps take microseconds,
ticks are seconds; without this, no bound on staleness could hold in any
program. One HTTP attempt lasts at most `HttpTimeout` ticks
(`sharedClient.Timeout`, 30 s, which includes reading the body).

### 2.2 LoginDecision

One process per RPC. A configuration is a record of what `buildResponse` looks
at: `server` (the WHMCS installation), `oauth` (URL, client id and secret set),
`creds` (admin API credentials set), `allowed`, `mapping`, `discord`. `Begin`
copies the live configuration. `Reconfigure` and `StoreResolver` are the two
ends of `applyConfig`: between them RPCs read the new configuration and the old
`resolver`, and since Configure and PATCH call it without a lock, there is one
`storing` per applier and they may overlap. `api[p]` is the installation an RPC
asks: the shared resolver's if there is one, else that of its own configuration
(`EntitlementApi`). The same client id means somebody else at another
installation, and so is whose an address is; the keys of the two lookups are
`Accounts` and `Addresses`, both through `LookupService`: a login by email first
asks for the address (`AskForClient`, `ClientFromEmail`), may join another's
lookup, be told of a remembered "no client", or fail. Product lists are sets of
`[pid, status]`; statuses are those the code tells apart: field missing (or
null), "Active" up to case and blanks, empty, anything else. What WHMCS holds for
an address is the set of its client, `{}` if there is none.

`credible[p][k]` is history: what RPC `p` may be told of key `k`, and so what its
decision may rest on. It is what WHMCS has held since the RPC began, or since a
lookup of the same key began that was still pending at that moment (a login that
joins a running flight is given what the flight fetched, entitlements.go:92);
and "nothing", if WHMCS held nothing at most `MaxStale` ticks before the RPC
began, or later. Of lists there is no bound in ticks: how long a pending lookup
lasts is the retry budget and the HTTP timeout of `EntitlementResolver`.
`OwnAccounts` says whose list counts: the account of userinfo's id at the
installation asked, or, without an id, those of the clients the address had.

### 2.3 OAuthSession

A *flow* is one browser tab; its verifier, its state and its code carry its
name. WHMCS keeps, per flow, the code (usable once) and the refresh token it
accepts; the host keeps `provider_state` (or loses half of it), and the claims.
Tokens are numbered in the order WHMCS issues them, 0 is no token. A lost
answer is an exchange that took effect and failed for the caller. What
`buildResponse` decides is left open.

### 2.4 PluginConfig

A configuration is `gate` (`claim_role_mapping`, standing for any
plugin-managed list: nil, one valid value in two spellings, one invalid value),
`discord` (the field with a default) and `secret` (client secret and
admin API secret). A list that a PATCH has emptied is not nil, in memory and in
the row, and `reflect.DeepEqual` tells the two apart; so the valid value stands
for an emptied list as well, PATCH cannot send nil, and only a row without any
list is the default (`ImportWanted`). `Canon` is what `ValidateConfig` makes of
the ids of a mapping; since a Go slice is shared by the copies of the struct it
is in, the validation inside `UpdateConfig` rewrites the caller's copy too
(`CallersCopy`), which is why what PATCH applies is canonical. Filling in the
Discord default rewrites only the copy: `LiveMatchesRow` names that difference.
Steps are the statements of the Configure callback in their order and the ones of
PATCH in theirs; each database statement may fail before or after it took effect;
`Crash`, at any moment, keeps nothing but the row. Pools are identities that are
reused once nothing refers to them.

Three variables of history say when a property speaks. `clash`: two Configures
overlapped, and none has since run alone. `muddled`: in this process operations
overlapped, or a write took effect that the plugin was told had failed, and no
operation has since run alone and succeeded; a crash ends it, as the next
process starts from the row. `accepted`: what the last successful PATCH wrote.
Nothing but another PATCH takes it back, no crash, no overlap, no failure; it is
not set while a Configure stands between its read of a default row and its
import, which then writes over the PATCH.

### 2.5 ProductCache

A product list is the version of the WHMCS catalog it was read from.
`HandleProducts` and `HandleProductsRefresh` run through `Get` and `Refresh`
into the three separate reads of `productsResponse`. `Refresh` takes its time
stamp right before its lock; the two are one step here.

### 2.6 AdminSite, WhmcsWire, ConfigText

`AdminSite` follows one request of an administrator at a time; the configuration
(`Configure`, which may come more often than the import of `PluginConfig` lets
it) and WHMCS (`WhmcsChange`) change between its steps. One request is
enough because the handlers share nothing but the live configuration: PATCHes
that overlap are in `PluginConfig`, product requests in `ProductCache`.
simulate-login has a step for its read of the configuration, one per call to
WHMCS and one for the reply; `rules` is the configuration it judges by, `saved`
(history) what PATCH would have made of the same overrides, `seen` (history) the
lists WHMCS held since the client is known.
`Preview` is the simulator's own code, `LoginVerdict` what `buildResponse` makes of
a list; the two are written from the two places in the source and compared.

An id is a text `[n, form]`: the number it shows and how it is written (as
`Itoa` would, with leading zeros, with blanks, nothing but blanks, no number).
`Atoi`, `TrimSpace` and `Itoa` are what they do to these. A parser that may fail
returns the set of what it parsed, `{}` for an error; `{{...}}` in a request is
a field that is there, `{}` one that is left out. A request's ids are any
integers, since `HandleUpdateConfig` takes any; the page's save sends back only
the positive ones (`SavedBack`).

A JSON value is a record whose only field is its kind, `[int |-> 1]`,
`[str |-> t]`, `[list |-> s]`, `[obj |-> fields]`, `[null |-> TRUE]`, or absent.
`ProductAnswers` are the forms in which WHMCS may write a list of products of any
length: every id as number, text or padded text, a status missing or null, one
entry alone or in a list, an empty list in six ways, an entry without an id.
`ClientAnswers` are the ones for a search that finds up to `MaxFound` clients,
whoever they are.
`ClientProducts` and `FindClient` are what the plugin reads out of them.

A page's path is a sequence of segments; `AssetURL` is where a browser finds
`./assets/...` with the base the plugin puts into the page, behind a mount the
plugin is not told.

## 3. Runs

Passing runs, with their bounds:

| run | module, cfg | bounds | shows |
| --- | --- | --- | --- |
| `resolver` | `MCEntitlementResolver` | 2 callers, 1 key, 1 value, TTL 2, 3 attempts, timeout 1, fair | coalescing, nobody orphaned, no call while a negative answer holds, freshness, bounded staleness, retries spent, every lookup returns; the resolver implements `LookupService` |
| `login_shared` | `MCLoginDecision`, `MCLoginShared` | 2 RPCs, 1 client, 3 product lists, 3 configurations, 1 applier | allow, deny and admin are justified when lookups are shared |
| `login_paths` | `MCLoginDecision`, `MCLoginPaths` | 1 RPC, 2 clients, 1 address that may be either's or nobody's, 5 configurations with and without credentials, 1 applier | every path of `buildResponse`; nobody is an admin by somebody else's product, or unknown without a reason; a complete configuration suffices while another is being applied |
| `oauth_session` | `MCOAuthSession` | 2 flows, 2 calls, 2 tokens per grant, WHMCS without PKCE | tabs do not mix; the stored token is the accepted one |
| `plugin_config` | `MCPluginConfig` | 2 Configures, 1 PATCH, 4 pools, 1 crash | the configuration's life |
| `product_cache` | `MCProductCache`, `MCProductCache` | 2 requests, 2 changes, 3 ticks, TTL 1, fair | honest stamps, bounded age, visible failures, every request answered |
| `admin_site` | `MCAdminSite`, `MCAdminSite` | 2 clients, 4 product lists in every form, 2 x 3 host settings, 4 x 4 fields of a request, 4 paths | what is shown and sent back changes nothing, if there is something to send or nothing was set; the preview is what a login gets; the table agrees with it; nothing of a list is dropped; nobody else's products; assets are found |

Why these are enough. Two callers give a leader and a follower, or a leader and
one that comes a moment late; a caller that leaves and asks again is the newcomer.
Keys interact through nothing but shared maps, and `resolver` has one; that
several do not mix is part of the proofs, in which there is any set of keys. With
TTL 2 and timeout 1, "just before", "exactly at" and "just after" the expiry all
occur, as does an attempt that straddles it; three attempts are the code's own
number. The invariants and the refinement are proved for any number of each
(section 4), which is why the runs are no larger. `login_shared` has no
addresses and `login_paths` one RPC: what two logins by email may hand to one
another is what two by id do, and is proved for any number. Four pools let two
Configures each hold one while a PATCH holds a third and one is published. The
lists of `admin_site` have at most two entries, and a search finds at most two
clients, the least for an order and for one bad entry among good ones; its
requests have a product's id next to 0, and a negative one alone; the
proofs are for lists of any length, any `MaxFound` and any integers. One crash is
enough for every prefix of a behaviour, since a crash forgets everything but the
row. The symmetry sets are permutations of callers, RPCs, flows and requests,
which no definition tells apart; runs with a liveness property use none.

Every property is violated, in its own run, by a plausible mutation of the code
that `PROJECT.json` lists.

Fairness. `resolver` and `product_cache` assume weak fairness
of each caller's steps: every HTTP exchange ends (30 s timeout of the client),
every backoff timer fires and every runnable goroutine runs. Nothing is assumed
of WHMCS (its failure is an outcome like any other), of the host, of the clock
or of new requests.

### 3.1 Where code and documents disagree

Each of these runs checks one statement of the repository that the code does
not keep, and TLC shows how.

| run | statement | what happens |
| --- | --- | --- |
| `config_secrets` | secrets are injected through Configure and used | `ImportLegacyConfig` returns the row, which never has them, on every path |
| `login_api` | a login asks the admin API of its own configuration | while a move to another WHMCS is applied, it is identified by one installation and judged by what the same id owns at the other |
| `oauth_freshest` | the freshest token is carried forward | a refresh that fails after the swap drops the new token while WHMCS has dropped the old one |
| `product_last_good` | next to an error the page shows the last known good list | a response with an error carries no list |
| `saved_back` | only an empty selection lets everybody in | PATCH takes ids that are not positive, which Configure rejects; if there are no others, the page shows them as selected, saves the positive ones, that is none, and opens the gate |

Met while modelling, visible in the modules, and without a run of their own:

* `docs/product-gating-and-roles.md` has every login with a role mapping start
  as "user"; without an active product there is no `silo_role` at all
  (`Respond`).
* `docs/whmcs-quirks.md` and `docs/whmcs-oauth-setup.md` have `RefreshSession`
  return Unimplemented; it refreshes (`SwapToken`).
* `README.md` gives `discord_id_custom_field` a default; a PATCH with an empty
  value fills it in the row and leaves the live field empty until the next
  Configure (`WriteRow` fills a copy, `ApplyConfig` applies the original), and
  logins until then look the Discord id up under an empty name
  (auth/server.go:302). It is the exception `LiveMatchesRow` names.
* An emptied list is not nil, so a row whose settings a PATCH has cleared is not
  the default and is not imported over; one that a PATCH never touched is.
* `docs/product-gating-and-roles.md` has each login trigger a fresh product
  lookup; a login that joins a flight may get an answer from before it began
  (`Follow`), and a remembered "no products" triggers none (`CheckCache`).
* `docs/product-gating-and-roles.md` has a non-empty email override userinfo's
  id; the id is preferred and the email is the fallback (`ClientFromId`).
* A comment in `main.go` has new values seen immediately on Configure; of two
  `applyConfig`s that overlap, one may store its configuration last and the
  other its resolver, and the mismatch of `login_api` then lasts
  (`StoreResolver`).
* The simulator is documented to always answer 200; bad or missing input is
  answered 400 (`SimulateRefused`).
* The simulator differs from a login in what it shows beside the verdict: role
  "user" where a login without active products has no `silo_role`; the first
  entry that maps a product in its table, while admin wins for the role
  (`RoleHit`, the reason `TableExplainsVerdict` does not ask for more); a
  default for an empty Discord field. With a mapping whose ids are sent padded
  it previews the padded ids, which saving would make canonical (`Simulate`,
  the last conjunct of `PreviewIsLogin`).
* `"products": ""` is an empty list and `"clients": ""` an error
  (`ClientRows`, `ExtractProductArray`).
* The product page, when the summary fails to load and the list does not, shows
  nothing as allowed, and saving it clears the gate
  (`web/src/pages/Products.tsx:205`).
* `README.md` has the refresh action invalidate the product cache; a fetch that
  began before it and ends after it puts the older list back (`Receive`).

`config_secrets` matters for the rest: as the code stands, the live
configuration in production never has a client secret, so `ExchangeCode` and
`RefreshSession` answer FailedPrecondition, and neither the resolver nor the
product cache is built. `LoginDecision`, `EntitlementResolver`, `OAuthSession`
and `ProductCache` start from configurations with secrets, which is what the
tests inject and what these components are written for.

## 4. Proofs

Every invariant that a passing run checks is also a theorem, for every value of
the constants that the ASSUMEs of its module allow; so is the refinement of
`LookupService`. In each proof module the argument is the same: an inductive
invariant (`IInv` or `Inv`), a conjunction of named parts; it holds at first; a
lemma for each part or each action shows that a step keeps it; and each theorem
reads its property off it. What follows is what each invariant has to know, and
why the property alone would not do.

| module | theorem | property |
| --- | --- | --- |
| `EntitlementResolverProofs` | `TypeCorrect` | `TypeOK` |
| | `Coalescing` | `OneUpstreamCallPerKey` |
| | `NobodyOrphaned` | `WaitersHaveLeader` |
| | `NegativeAnswersShield` | `NoCallWhileNegative` |
| | `PositiveFreshness` | `FlightFresh` |
| | `NegativeStaleness` | `NegativeStalenessBounded` |
| | `RetriesAreSpent` | `BlipTolerance` |
| | `Refinement` | `ImplementsLookup` |
| `LoginDecisionProofs` | `TypeCorrect` | `TypeOK` |
| | `AllowsAreJustified` | `AllowJustified` |
| | `DenialsAreJustified` | `DenialJustified` |
| | `UnknownsAreJustified` | `UnknownJustified` |
| | `AdminsAreJustified` | `AdminJustified` |
| | `OwnCredentialsSuffice` | `CredentialsSuffice` |
| `OAuthSessionProofs` | `TypeCorrect` | `TypeOK` |
| | `TabsKeptApart` | `TabsDoNotMix` |
| | `TokenNeverStale` | `TokenCarriedForward` |
| `PluginConfigProofs` | `TypeCorrect` | `TypeOK` |
| | `SecretsStayOut` | `SecretsNeverPersisted` |
| | `ReadyWhenServed` | `HandlerReady` |
| | `PoolsAccountedFor` | `NoPoolLeak` |
| | `StoreUsable` | `StorePoolOpen` |
| | `LiveIdsCanonical` | `LiveCanonical` |
| | `LiveAgreesWithRow` | `LiveMatchesRow` |
| | `AcceptedPatchSurvives` | `AcceptedPatchDurable` |
| | `SecretsNeverLive` | no run's property, see below |
| `ProductCacheProofs` | `TypeCorrect` | `TypeOK` |
| | `PageLoadsCoalesce` | `OneFetchForGets` |
| | `StampTellsTheTruth` | `StampHonest` |
| | `ListAge` | `ListAgeBounded` |
| | `FailuresAreSeen` | `FailureVisible` |
| `AdminSiteProofs` | `TypeCorrect` | `TypeOK` |
| | `SavingIsHarmless` | `SavedBackUnchanged` |
| | `PreviewIsHonest` | `PreviewIsLogin` |
| | `TableIsHonest` | `TableExplainsVerdict` |
| | `NothingIsDropped` | `NothingDropped` |
| | `OnlyTheOwnClient` | `OwnClientOnly` |
| | `AssetsAreFound` | `AssetsFound` |

### 4.1 EntitlementResolver

Any finite or infinite set of callers, keys and values, any TTL, timeout and
number of attempts (`None` is not a value, `NoCaller` is not a caller, there is a
key, the parameters are naturals, at least one attempt). `IInv` is `TypeOK` with:
a caller is in a leader's place exactly when it is `flight` of its key (so two
leaders of one key are one); a waiter's key has a flight; what a leader has
received is in what it saw since its flight opened; the remembered age and the
history `sinceNone` move together, from which the staleness bound follows;
`blips` counts the attempts that failed. The refinement maps every internal step
to a stutter, `Deliver` and a cache hit to `Answer` of a group, and an error to
`Refuse`.

### 4.2 LoginDecision

Any set of RPCs, servers, clients, addresses (that are no client ids),
configurations, product lists (among them the empty one) and appliers, any
`MaxStale`. A verdict is reached in steps between which WHMCS, the configuration
and the resolver change, so `Inv` follows it: `ClientInv`, the client that is
asked about is that of `userinfo` at the installation that is asked, or one the
address had; `CredibleInv`, what WHMCS holds, a negative answer that may still be
remembered, and all that a pending lookup of any other RPC may return, are in
`credible` of every RPC that could be given them; `DecisionInv`, once products
are known they are the active ones of a credible list, and role and outcome
follow from them. The least obvious part is `PendingInv`, about two RPCs: a
newcomer may be handed what a lookup of the same key saw before it began.

### 4.3 OAuthSession

Any set of flows and calls, any number of tokens, WHMCS with or without PKCE.
`TabsDoNotMix` rests on `FlowInv`: a call past its checks has the callback of its
own flow. `TokenCarriedForward` excludes flows that are `spoiled` (a refresh
failed half-way, or two overlapped); `AloneInv` says what that buys, one call per
flow, `RestInv` that between calls the stored token is the accepted one, and
`CallInv` who holds the accepted token while one runs.

### 4.4 PluginConfig

Any number of Configures, PATCHes, pools and crashes; any settings and canonical
forms with `Canon` idempotent on the valid ones, as parsing and printing an id
is. What the host sends to the callback is canonical and has its Discord default,
since `loadConfig` ran before. `SettingsInv` says, per step, which of the values
under way are already validated and stripped of secrets; `OrderInv` what is
published by when; `PoolInv` who owns which pool (nobody shares one, each open
pool is published or in a Configure's hands), from which `NoPoolLeak` follows;
`StoreInv` whose pool the store uses, when no two Configures `clash`; `RowInv`
whom the row belongs to while one operation is `alone`, step by step: before its
write the live configuration matches the row, after it the operation's own copy
does; `SavedInv` why no import reaches an accepted PATCH, whatever overlaps: a
Configure at its import found the default, so none stands there once something
else was accepted, and none can come there while that is in the row.

`SecretsNeverLive` explains the finding `config_secrets`: from a row that is the
default one, as a new installation has it, no configuration that becomes live
ever has a secret, and therefore the resolver and the product cache are never
built, for every order of Configures, PATCHes and crashes.

### 4.5 ProductCache

Any number of requests, any TTL and timeout, any bounds on changes and on the
clock. `LeaderInv` identifies the leader of the `get` flight; `HeldInv` says that a
list or an error is held wherever the code takes it for granted; `AgeInv` bounds
the age of a list at every place it passes on its way (fetched, cached,
delivered, in a response), and `ClockInv` keeps the history in the past.

### 4.6 AdminSite

Any clients and addresses, product lists of any length, any settings of the host,
any fields of requests, any pages and mount. Assumed are the shapes only: what
the host sends is ids as texts and a mapping; a request's ids are integers; a
page's path starts at the plugin. Most of it is about pure
operators, from the source's parsers and loops:

* a configuration that passed `ValidateConfig` passes again unchanged
  (`ValidPasses`), and its positive ids survive the way to numbers and back
  (`SentBack`); the others are no product's, so a login misses them only if they
  were all there was (`SameLogins`);
* a product list is read back from each of its forms as it was, or not at all
  (`PidsRead`, `RowsRead`, `EntriesFound`, `ReadsBack`), and the client that is
  found has the address (`OwnClient`);
* simulator and login agree, given the same ids (`PreviewDecides`), and the table
  and the verdict do (`TableAgrees`), which needs that a first hit exists when
  there are hits (`Least`, by well-foundedness);
* base and mount cancel out (`AssetsResolve`).

The invariant `Inv` then only says that the right things are put together: the
live configuration is `Valid`; while a simulation runs, what WHMCS holds for its
client is in `seen` and `saved` has the ids it judges by; a reply on its way is
what its operator gives.

### 4.7 Only model-checked

`EveryLookupReturns` and `EveryRequestAnswered`: liveness under fairness is outside
the prover's reach. The five runs that expect a violation are counterexamples,
which TLC shows (`SecretsNeverLive` says of one that it is so in every run of the
program). That the JSON forms of `ProductAnswers` are all that WHMCS writes is an
assumption about WHMCS, taken from what the decoders and their tests provide for.

## 5. Not modelled

* Custom fields: which of a client's fields holds the Discord id, and its
  value. A login's Discord lookup finds it, does not, or fails, all without harm
  (`Respond`), and the simulator only shows it. Product details of
  `GetProducts` beyond there being a list.
* The shape of `server_url` and the other text settings: one valid and one
  invalid value stand for them (`BadGate`).
* The manifest, route table, theming, MIME types and the health route; who is an
  administrator is the host's word (`Forbidden`).
* The web page's rendering and its queries. Its filter of ids that are not
  positive is in `SavedBack`.
* The token exchange's wire format (form fields, headers): its outcomes are in
  `OAuthSession`.
* Logging and audit lines; backoff durations (a sleep ends at any time).
* Cancellation of admin requests: the host gives the plugin a request whose
  context it never cancels.
* Two PATCHes that set different fields: each writes the whole configuration it
  copied, and the later undoes the earlier. The model has it (`ReadLive`); the
  code takes no measure against it, so no property speaks of it;
  `AcceptedPatchDurable` is about what the later one wrote, and `LiveMatchesRow`
  waits for an operation that runs alone.
* The copy `Snapshot` of the runtime server returns, which nothing reads.
* Growth of the negative maps: expired entries of keys that never come back are
  kept.

## 6. Plan

Done: all components but the page, checked; every invariant of the passing runs
and the refinement of `LookupService` proved.

What remains:

1. `LoginVerdict` (`ConfigText`) and `LoginDecision` are two views of
   `buildResponse`, on one list and in its steps; a theorem that an undisturbed
   run of the steps ends in `LoginVerdict`.
2. Action properties worth proving beside the invariants, first of the pools (a
   closed pool is never published) and of the remembered negative answers (only
   a lookup sets one).
3. Custom fields, if a property about the Discord id turns out to be worth it.
