---------------------------- MODULE PluginConfig ----------------------------
(***************************************************************************)
(* How the plugin's configuration gets into the process and into its own    *)
(* database row: the host's Configure (cmd/.../main.go, runtime.go, the     *)
(* import in store.go) and the admin SPA's PATCH (admin/server.go).  Both   *)
(* run on goroutines of their own; the process may die and be started       *)
(* again, and the database may fail or lose an acknowledgement.             *)
(*                                                                          *)
(* A configuration is the fields `gate` (claim_role_mapping, for any        *)
(* plugin-managed list) and `discord` (discord_id_custom_field, which has a *)
(* default), and `secret`, which stands for client_secret and               *)
(* whmcs_admin_api_secret.  A list that was never set is nil, and not the   *)
(* same as one that a PATCH has emptied.                                    *)
(***************************************************************************)
EXTENDS Integers, FiniteSets

CONSTANTS
    Configurers,    \* goroutines serving Configure
    Patchers,       \* goroutines serving PATCH
    Pools,          \* identities for connection pools, reused once free
    GateValues,     \* valid settings of `gate`, Unset (nil) among them
    BadGate,        \* a setting ValidateConfig rejects
    Canon,          \* how ValidateConfig rewrites the ids of a setting
    Unset, NoPool, NoConfig, NoSecret,
    HostConfigs,    \* what the host may send, as loadConfig parses it
    MaxCrashes      \* bound on the crashes of a behaviour

ASSUME GateAssumption == Unset \in GateValues /\ BadGate \notin GateValues
ASSUME CanonAssumption ==
    /\ Canon \in [GateValues \cup {BadGate} -> GateValues \cup {BadGate}]
    /\ Canon[Unset] = Unset
    /\ \A g \in GateValues : Canon[g] \in GateValues /\ Canon[Canon[g]] = Canon[g]
ASSUME ActorsAssumption == Configurers \cap Patchers = {}
ASSUME PoolAssumption == NoPool \notin Pools
ASSUME CrashAssumption == MaxCrashes \in Nat

Ops == Configurers \cup Patchers

\* A Discord field that is not given.
Blank == ""

Default == [gate |-> Unset, discord |-> "Discord ID", secret |-> NoSecret]

\* The configurations with a setting in G and a Discord field in D.
Settings(G, D) == [gate : G, discord : D,
                   secret : {NoSecret} \cup {h.secret : h \in HostConfigs}]
Discords == {Blank, "Other", Default.discord} \cup {h.discord : h \in HostConfigs}

\* loadConfig canonicalises the ids, and fills the Discord field in.
ASSUME HostAssumption ==
    \A h \in HostConfigs :
        /\ h \in [gate : GateValues, discord : {h.discord}, secret : {h.secret}]
        /\ Canon[h.gate] = h.gate
        /\ h.discord # Blank
ASSUME NoConfigAssumption == NoConfig \notin Settings(GateValues \cup {BadGate}, Discords)

PCs == {"idle", "read", "import", "reread", "apply", "clients", "store",
        "handler", "swap", "close", "load", "write", "reply"}

VARIABLES
    row,        \* app_config, which outlives the process
    cfgPtr, storePtr, poolPtr, handler,     \* main.go; a store is its pool
    clients,    \* cachePtr and resolverPtr: the configuration both were built for
    open,       \* the pools that are not closed
    pc, cfg, pool,                          \* per operation: place and locals
    crashes

(***************************************************************************)
(* History.  `sent` is the secret the last Configure was given, unless it   *)
(* failed.                                                                  *)
(* `alone` says of an operation that no other was under way with it.        *)
(* `muddled`: in this process operations overlapped, or the database took a *)
(* write that the plugin was told had failed, and no operation has since    *)
(* run alone and succeeded.                                                 *)
(* `accepted` is what the last PATCH that succeeded wrote, if no Configure  *)
(* had by then found the default and was about to import over it.           *)
(* `clash`: two Configures overlapped, and none has since run alone.        *)
(***************************************************************************)
VARIABLES sent, alone, muddled, accepted, clash

memory == <<cfgPtr, storePtr, poolPtr, handler, clients>>
history == <<sent, alone, muddled, accepted, clash>>
vars == <<row, memory, open, pc, cfg, pool, crashes, history>>

\* An empty discord_id_custom_field becomes the default.
Fill(c) == IF c.discord = Blank THEN [c EXCEPT !.discord = Default.discord] ELSE c

\* Mutant: host-managed secrets are persisted like any other field.
Strip_Nothing(c) == c

Strip(c) == [c EXCEPT !.secret = NoSecret]

\* Mutant: nothing is rejected.
Valid_Anything(c) == TRUE

Valid(c) == c.gate # BadGate

\* ValidateConfig rewrites the ids of the mapping.
Canonical(c) == [c EXCEPT !.gate = Canon[@]]

\* Mutant: it validates a copy of the mapping.
CallersCopy_Apart(c) == c

\* What that does to the caller's copy of the configuration: by-value copies
\* share the array of the mapping, whose entries are rewritten in place.
CallersCopy(c) == Canonical(c)

Idle == \A o \in Ops : pc[o] = "idle"

Goto(o, l) == pc' = [pc EXCEPT ![o] = l]

Init ==
    /\ row = Default
    /\ cfgPtr = NoConfig
    /\ storePtr = NoPool
    /\ poolPtr = NoPool
    /\ handler = FALSE
    /\ clients = NoConfig
    /\ open = {}
    /\ pc = [o \in Ops |-> "idle"]
    /\ cfg = [o \in Ops |-> Default]
    /\ pool = [o \in Ops |-> NoPool]
    /\ crashes = 0
    /\ sent = NoSecret
    /\ alone = [o \in Ops |-> FALSE]
    /\ muddled = FALSE
    /\ accepted = NoConfig
    /\ clash = FALSE

\* An operation enters, with c as its configuration.
Enter(o, c, l) ==
    /\ pc[o] = "idle"
    /\ cfg' = [cfg EXCEPT ![o] = c]
    /\ Goto(o, l)
    /\ alone' = [a \in Ops |-> IF a = o THEN Idle ELSE FALSE]
    /\ muddled' = (muddled \/ ~Idle)
    /\ clash' = (clash \/ (o \in Configurers
                            /\ \E a \in Configurers : pc[a] # "idle"))

\* An operation leaves.
Leave(o) ==
    /\ Goto(o, "idle")
    /\ cfg' = [cfg EXCEPT ![o] = Default]
    /\ pool' = [pool EXCEPT ![o] = NoPool]
    /\ alone' = [alone EXCEPT ![o] = FALSE]

-----------------------------------------------------------------------------
(* store.UpdateConfig                                                       *)

WriteRow(c) == row' = Fill(Strip(Canonical(c)))

\* The statement fails, before or after it took effect.
LoseWrite(c) ==
    \/ UNCHANGED <<row, muddled>>
    \/ WriteRow(c) /\ muddled' = TRUE

-----------------------------------------------------------------------------
(* Configure                                                                *)

\* A pool is connected and the table migrated.
OpenPool(o) ==
    /\ pc[o] = "idle" /\ o \in Configurers
    /\ \E h \in HostConfigs : Enter(o, h, "read") /\ sent' = h.secret
    /\ \E p \in Pools \ open :
          /\ \A q \in Ops : pool[q] # p
          /\ p \notin {storePtr, poolPtr}
          /\ pool' = [pool EXCEPT ![o] = p]
          /\ open' = open \cup {p}
    /\ UNCHANGED <<row, memory, crashes, accepted>>

\* Mutant: the host's settings are imported whatever the row holds.
ImportWanted_Always(c) == Fill(Strip(c)) # Fill(row)

\* The row still holds the default, and the host sends something else.
ImportWanted(c) == Fill(row) = Default /\ Fill(Strip(c)) # Default

\* ImportLegacyConfig's first GetConfig.  What it hands on has no secret.
ReadRow(o) ==
    /\ pc[o] = "read"
    /\ IF ImportWanted(cfg[o])
       THEN Goto(o, "import") /\ UNCHANGED cfg
       ELSE Goto(o, "apply") /\ cfg' = [cfg EXCEPT ![o] = Fill(row)]
    /\ UNCHANGED <<row, memory, open, pool, crashes, history>>

ImportRow(o) ==
    /\ pc[o] = "import"
    /\ WriteRow(cfg[o])
    /\ Goto(o, "reread")
    /\ UNCHANGED <<memory, open, cfg, pool, crashes, history>>

RereadRow(o) ==
    /\ pc[o] = "reread"
    /\ cfg' = [cfg EXCEPT ![o] = Fill(row)]
    /\ Goto(o, "apply")
    /\ UNCHANGED <<row, memory, open, pool, crashes, history>>

\* Mutant: the new pool stays open.
ConfigureFails_Leak(o) ==
    /\ pc[o] \in {"read", "import", "reread"}
    /\ Leave(o)
    /\ sent' = NoSecret
    /\ CASE pc[o] = "read" -> UNCHANGED <<row, muddled>>
         [] pc[o] = "import" -> LoseWrite(cfg[o])
         [] pc[o] = "reread" -> UNCHANGED row /\ muddled' = TRUE
    /\ UNCHANGED <<memory, open, crashes, accepted, clash>>

\* Any of the three statements fails: the new pool is closed, Configure too.
ConfigureFails(o) ==
    /\ pc[o] \in {"read", "import", "reread"}
    /\ Leave(o)
    /\ open' = open \ {pool[o]}
    /\ sent' = NoSecret
    /\ CASE pc[o] = "read" -> UNCHANGED <<row, muddled>>
         [] pc[o] = "import" -> LoseWrite(cfg[o])
         [] pc[o] = "reread" -> UNCHANGED row /\ muddled' = TRUE
    /\ UNCHANGED <<memory, crashes, accepted, clash>>

\* applyConfig, for Configure and for PATCH: cfgPtr first ...
ApplyConfig(o) ==
    /\ pc[o] = "apply"
    /\ cfgPtr' = cfg[o]
    /\ Goto(o, "clients")
    /\ UNCHANGED <<row, storePtr, poolPtr, handler, clients, open, cfg, pool,
                   crashes, history>>

\* ... then the product cache and the resolver, or neither without a secret: one
\* step, as nothing reads both.
ApplyClients(o) ==
    /\ pc[o] = "clients"
    /\ clients' = IF cfg[o].secret = NoSecret THEN NoConfig ELSE cfg[o]
    /\ Goto(o, IF o \in Configurers THEN "store" ELSE "reply")
    /\ UNCHANGED <<row, cfgPtr, storePtr, poolPtr, handler, open, cfg, pool,
                   crashes, history>>

\* Mutants: the new store is not published; the handler comes before it.
StoreStore_Skipped(o) ==
    /\ pc[o] = "store"
    /\ Goto(o, "handler")
    /\ storePtr' = IF storePtr = NoPool THEN pool[o] ELSE storePtr
    /\ UNCHANGED <<row, cfgPtr, poolPtr, handler, clients, open, cfg, pool,
                   crashes, history>>
StoreStore_AfterHandler(o) ==
    /\ pc[o] = "store"
    /\ handler' = TRUE
    /\ Goto(o, "handler")
    /\ UNCHANGED <<row, cfgPtr, storePtr, poolPtr, clients, open, cfg, pool,
                   crashes, history>>

StoreStore(o) ==
    /\ pc[o] = "store"
    /\ storePtr' = pool[o]
    /\ Goto(o, "handler")
    /\ UNCHANGED <<row, cfgPtr, poolPtr, handler, clients, open, cfg, pool,
                   crashes, history>>

\* From here on the HTTP routes are served.
SetHandler(o) ==
    /\ pc[o] = "handler"
    /\ handler' = TRUE
    /\ Goto(o, "swap")
    /\ UNCHANGED <<row, cfgPtr, storePtr, poolPtr, clients, open, cfg, pool,
                   crashes, history>>

\* poolPtr.Swap; `pool` becomes the one to close, if any.
SwapPool(o) ==
    /\ pc[o] = "swap"
    /\ poolPtr' = pool[o]
    /\ pool' = [pool EXCEPT ![o] = poolPtr]
    /\ Goto(o, "close")
    /\ UNCHANGED <<row, cfgPtr, storePtr, handler, clients, open, cfg, crashes,
                   history>>

CloseOldPool(o) ==
    /\ pc[o] = "close"
    /\ open' = open \ {pool[o]}
    /\ Leave(o)
    /\ muddled' = (muddled /\ ~alone[o])
    /\ clash' = (clash /\ ~alone[o])
    /\ UNCHANGED <<row, memory, crashes, sent, accepted>>

-----------------------------------------------------------------------------
(* PATCH /config: HandleUpdateConfig and UpdateConfigFn                     *)

\* The handler copies the live configuration and sets the fields it was sent.  It
\* cannot be sent nil: a list that is null or absent is left alone.
ReadLive(o) ==
    /\ pc[o] = "idle" /\ o \in Patchers
    /\ handler
    /\ \/ \E g \in (GateValues \ {Unset}) \cup {BadGate} :
             Enter(o, [cfgPtr EXCEPT !.gate = g], "load")
       \/ \E d \in {Blank, "Other"} : Enter(o, [cfgPtr EXCEPT !.discord = d], "load")
    /\ UNCHANGED <<row, memory, open, pool, crashes, sent, accepted>>

LoadStore(o) ==
    /\ pc[o] = "load"
    /\ storePtr # NoPool
    /\ pool' = [pool EXCEPT ![o] = storePtr]
    /\ Goto(o, "write")
    /\ UNCHANGED <<row, memory, open, cfg, crashes, history>>

\* Mutant: the row is left for later.
PatchRow_ApplyOnly(o) ==
    /\ pc[o] = "write"
    /\ Valid(cfg[o])
    /\ pool[o] \in open
    /\ Goto(o, "apply")
    /\ UNCHANGED <<row, memory, open, cfg, pool, crashes, history>>

\* UpdateConfig strips and fills its own copy; of `cfg` it only rewrites the
\* mapping's ids, where the array of the mapping is the same.
PatchRow(o) ==
    /\ pc[o] = "write"
    /\ Valid(cfg[o])
    /\ pool[o] \in open
    /\ WriteRow(cfg[o])
    /\ accepted' = IF \E a \in Configurers : pc[a] = "import" THEN NoConfig ELSE row'
    /\ cfg' = [cfg EXCEPT ![o] = CallersCopy(@)]
    /\ Goto(o, "apply")
    /\ UNCHANGED <<memory, open, pool, crashes, sent, alone, muddled, clash>>

\* No store, a value that does not validate, a closed pool, or a failing
\* statement, which may have taken effect.  The live configuration stays.
PatchFails(o) ==
    /\ \/ pc[o] = "load" /\ storePtr = NoPool /\ UNCHANGED <<row, muddled>>
       \/ /\ pc[o] = "write"
          /\ IF Valid(cfg[o]) /\ pool[o] \in open THEN LoseWrite(cfg[o])
             ELSE UNCHANGED <<row, muddled>>
    /\ accepted' = IF row' = row THEN accepted ELSE NoConfig
    /\ Leave(o)
    /\ UNCHANGED <<memory, open, crashes, sent, clash>>

\* 200 {"ok": true}
PatchReply(o) ==
    /\ pc[o] = "reply"
    /\ Leave(o)
    /\ muddled' = (muddled /\ ~alone[o])
    /\ UNCHANGED <<row, memory, open, crashes, sent, accepted, clash>>

-----------------------------------------------------------------------------
\* The process dies; the row is what is left of it.
Crash ==
    /\ crashes < MaxCrashes
    /\ crashes' = crashes + 1
    /\ cfgPtr' = NoConfig
    /\ storePtr' = NoPool
    /\ poolPtr' = NoPool
    /\ handler' = FALSE
    /\ clients' = NoConfig
    /\ open' = {}
    /\ pc' = [o \in Ops |-> "idle"]
    /\ cfg' = [o \in Ops |-> Default]
    /\ pool' = [o \in Ops |-> NoPool]
    /\ alone' = [o \in Ops |-> FALSE]
    /\ muddled' = FALSE
    /\ clash' = FALSE
    /\ UNCHANGED <<row, sent, accepted>>

-----------------------------------------------------------------------------
OpStep(o) ==
    \/ OpenPool(o)
    \/ ReadRow(o)
    \/ ImportRow(o)
    \/ RereadRow(o)
    \/ ConfigureFails(o)
    \/ ApplyConfig(o)
    \/ ApplyClients(o)
    \/ StoreStore(o)
    \/ SetHandler(o)
    \/ SwapPool(o)
    \/ CloseOldPool(o)
    \/ ReadLive(o)
    \/ LoadStore(o)
    \/ PatchRow(o)
    \/ PatchFails(o)
    \/ PatchReply(o)

Next == (\E o \in Ops : OpStep(o)) \/ Crash

Spec == Init /\ [][Next]_vars

-----------------------------------------------------------------------------
(* What must hold of the configuration                                      *)

\* Every variable has its type; the row in particular only ever holds settings
\* that validate, with a Discord field.
TypeOK ==
    /\ row \in Settings(GateValues, Discords \ {Blank})
    /\ cfgPtr \in Settings(GateValues, Discords) \cup {NoConfig}
    /\ storePtr \in Pools \cup {NoPool}
    /\ poolPtr \in Pools \cup {NoPool}
    /\ handler \in BOOLEAN
    /\ clients \in Settings(GateValues, Discords) \cup {NoConfig}
    /\ open \subseteq Pools
    /\ pc \in [Ops -> PCs]
    /\ cfg \in [Ops -> Settings(GateValues \cup {BadGate}, Discords)]
    /\ pool \in [Ops -> Pools \cup {NoPool}]
    /\ crashes \in 0 .. MaxCrashes
    /\ alone \in [Ops -> BOOLEAN]
    /\ muddled \in BOOLEAN /\ clash \in BOOLEAN

\* Host-managed secrets never reach the plugin's own table, by the import, by
\* a PATCH, or by a write whose acknowledgement got lost (store.go:63-68).
SecretsNeverPersisted == row.secret = NoSecret

\* Whoever can reach the admin routes finds a configuration and a store: the
\* handler is published last, and reconfiguring takes nothing away.
HandlerReady == handler => cfgPtr # NoConfig /\ storePtr # NoPool

\* The published store's pool is open, also while it is being replaced, unless
\* two Configures overlapped: then one may close the pool under the store the
\* other published last, until the next Configure that runs alone.
StorePoolOpen == storePtr # NoPool /\ ~clash => storePtr \in open

\* Between operations the process holds the one published pool and no other,
\* whatever failed on the way, and whichever Configures overlapped.
NoPoolLeak == Idle => open = {poolPtr} \ {NoPool}

\* The gate only ever compares ids in the form WHMCS reports them in: the live
\* configuration's are canonical, although only the row is validated on the way.
LiveCanonical ==
    cfgPtr # NoConfig => Canon[cfgPtr.gate] = cfgPtr.gate

\* Between operations the live configuration is the persisted one, unless
\* operations overlapped or a write's acknowledgement got lost; after that the
\* next operation that runs alone brings them together again.  In one field they
\* may differ even so: a PATCH that clears discord_id_custom_field leaves it
\* empty in memory, while UpdateConfig puts the default into its own copy and
\* the row (store.go:69).
LiveMatchesRow ==
    Idle /\ ~muddled /\ cfgPtr # NoConfig =>
        \/ cfgPtr = row
        \/ cfgPtr.discord = Blank /\ row = [cfgPtr EXCEPT !.discord = Default.discord]

\* What a PATCH has written is what the row says until another PATCH writes, at
\* every moment of any number of overlapping Configures, of statements that fail
\* and of crashes.  The import spares it, unless the Configure had found the
\* default in the row before the PATCH, or the PATCH restored the default.
AcceptedPatchDurable ==
    accepted \notin {NoConfig, Default} => row = accepted

\* README.md:70 and docs/admin-api-setup.md:52-56: secrets are injected via
\* Configure and used from then on.
SecretsReachLive ==
    Idle /\ handler /\ sent # NoSecret => cfgPtr.secret = sent
=============================================================================
