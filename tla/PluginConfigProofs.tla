------------------------- MODULE PluginConfigProofs -------------------------
(***************************************************************************)
(* Proofs about PluginConfig for any number of Configures and PATCHes, any  *)
(* pools, settings and crashes.                                             *)
(*                                                                          *)
(* The invariant has parts with a lemma each.  SettingsInv says *)
(* what a configuration may hold at each statement: no secret once the row  *)
(* was read, ids that are canonical once they were validated.  OrderInv     *)
(* says which pointers are set by then.  PoolInv says who owns which pool.  *)
(* RowInv relates the row and the live configuration to the operation that  *)
(* runs alone.  SavedInv says that no import is under way over what a PATCH *)
(* has written.                                                             *)
(***************************************************************************)
EXTENDS PluginConfig, TLAPS

ConfigurePCs == {"read", "import", "reread", "store", "handler", "swap", "close"}
PatchPCs == {"load", "write", "reply"}

\* A configuration the gate may be given: validated, and without secrets.
Clean(c) == c.gate \in GateValues /\ Canon[c.gate] = c.gate /\ c.secret = NoSecret

\* What the configurations may hold, and who may be where.
SettingsInv ==
    /\ Clean(row)
    /\ cfgPtr # NoConfig => Clean(cfgPtr)
    /\ \A o \in Ops :
          /\ pc[o] \in ConfigurePCs => o \in Configurers
          /\ pc[o] \in PatchPCs => o \in Patchers
          /\ pc[o] \in {"read", "import", "reread"} =>
                /\ cfg[o].gate \in GateValues /\ Canon[cfg[o].gate] = cfg[o].gate
                /\ cfg[o].discord # Blank
          /\ pc[o] \in {"load", "write"} => cfg[o].secret = NoSecret
          /\ pc[o] \notin {"read", "import", "reread", "load", "write"} => Clean(cfg[o])

\* What has been published by the time a statement is reached.
OrderInv ==
    /\ HandlerReady
    /\ \A o \in Ops :
          /\ pc[o] \in {"clients", "store", "handler", "swap", "close", "reply"} =>
                cfgPtr # NoConfig
          /\ pc[o] \in {"handler", "swap", "close"} => storePtr # NoPool
          /\ pc[o] \in ConfigurePCs \ {"close"} => pool[o] # NoPool
          /\ pc[o] \in {"apply", "clients"} /\ o \in Configurers => pool[o] # NoPool
          /\ pc[o] \in PatchPCs \/ (pc[o] \in {"apply", "clients"} /\ o \in Patchers) =>
                handler

\* Every open pool is the published one or belongs to one Configure.
PoolInv ==
    /\ poolPtr \in open \cup {NoPool}
    /\ \A o \in Configurers :
          /\ pc[o] \notin {"idle", "close"} => pool[o] \in open \ {poolPtr}
          /\ pc[o] = "close" => pool[o] \in (open \ {poolPtr}) \cup {NoPool}
    /\ \A o, a \in Configurers :
          o # a /\ pc[o] # "idle" /\ pc[a] # "idle" /\ pool[o] = pool[a] =>
             pool[o] = NoPool
    /\ \A p \in open :
          p = poolPtr \/ \E o \in Configurers : pc[o] # "idle" /\ pool[o] = p

\* An operation that is alone, and whose store is the published one.
StoreInv ==
    /\ \A o \in Ops : alone[o] => \A a \in Ops \ {o} : pc[a] = "idle"
    /\ ~clash => \A o, a \in Configurers : pc[o] # "idle" /\ pc[a] # "idle" => o = a
    /\ \A o \in Configurers :
          alone[o] \/ ~clash =>
             /\ pc[o] \in {"handler", "swap"} => storePtr = pool[o]
             /\ pc[o] = "close" => storePtr = poolPtr
    /\ ~clash /\ (\A o \in Configurers : pc[o] \notin {"handler", "swap"}) =>
          storePtr = poolPtr

Match == cfgPtr # NoConfig => Fill(cfgPtr) = row

\* The row and the live configuration, while at most one operation is under way.
RowInv ==
    /\ ~muddled => \A o \in Ops : pc[o] # "idle" => alone[o]
    /\ Idle /\ ~muddled => Match
    /\ \A o \in Ops :
          alone[o] =>
             /\ pc[o] \in {"read", "import", "load", "write"} /\ ~muddled => Match
             /\ pc[o] \in {"apply", "clients", "store", "handler", "swap",
                           "close", "reply"} => Fill(cfg[o]) = row
             /\ pc[o] \in {"clients", "store", "handler", "swap", "close",
                           "reply"} => cfgPtr = cfg[o]

\* What a PATCH wrote and nobody is about to overwrite.
SavedInv ==
    accepted \notin {NoConfig, Default} =>
        row = accepted /\ \A o \in Ops : pc[o] # "import"

-----------------------------------------------------------------------------
(* Types and settings                                                       *)

\* The default needs no completion and no rewriting.
LEMMA DefaultIsClean ==
  /\ Default \in Settings(GateValues, Discords \ {Blank})
  /\ Clean(Default)
  BY GateAssumption, CanonAssumption DEF Default, Blank, Clean, Settings, Discords

\* Valid settings are settings, and complete ones have a Discord field.
LEMMA Kinds ==
  /\ \A c \in Settings(GateValues \cup {BadGate}, Discords) :
        c.gate # BadGate => c \in Settings(GateValues, Discords)
  /\ \A c \in Settings(GateValues, Discords) :
        /\ c \in Settings(GateValues \cup {BadGate}, Discords)
        /\ c.gate \in GateValues
        /\ c.discord # Blank => c \in Settings(GateValues, Discords \ {Blank})
  /\ \A c \in Settings(GateValues, Discords \ {Blank}) :
        c \in Settings(GateValues, Discords) /\ c.discord # Blank
  BY DEF Settings

\* Clean settings are valid.
LEMMA CleanIsValid == \A c : Clean(c) => c.gate # BadGate /\ c.gate \in GateValues
  BY GateAssumption DEF Clean

\* What the host sends is valid, canonical and complete.
LEMMA HostSettings ==
  \A h \in HostConfigs :
     /\ h \in Settings(GateValues, Discords \ {Blank})
     /\ Canon[h.gate] = h.gate
  BY HostAssumption DEF Settings, Discords

\* What the row is made of when a valid setting is written: complete, without
\* its secret, in canonical form.
LEMMA Written ==
  ASSUME NEW c \in Settings(GateValues, Discords)
  PROVE  /\ Fill(Strip(Canonical(c))) \in Settings(GateValues, Discords \ {Blank})
         /\ Clean(Fill(Strip(Canonical(c))))
         /\ Canonical(c) \in Settings(GateValues, Discords)
         /\ Canonical(c).secret = c.secret
         /\ Canonical(c).discord = c.discord
         /\ Canon[Canonical(c).gate] = Canonical(c).gate
<1>1. /\ Canonical(c) = [gate |-> Canon[c.gate], discord |-> c.discord, secret |-> c.secret]
      /\ c.gate \in GateValues /\ c.discord \in Discords
      /\ c.secret \in {NoSecret} \cup {h.secret : h \in HostConfigs}
  BY DEF Canonical, Settings
<1>2. Strip(Canonical(c)) = [gate |-> Canon[c.gate], discord |-> c.discord, secret |-> NoSecret]
  BY <1>1 DEF Strip
<1>3. Canon[c.gate] \in GateValues /\ Canon[Canon[c.gate]] = Canon[c.gate]
  BY <1>1, CanonAssumption
<1>4. Default.discord \in Discords \ {Blank}
  BY DEF Discords, Default, Blank
<1>5. Fill(Strip(Canonical(c)))
         = [gate |-> Canon[c.gate],
            discord |-> IF c.discord = Blank THEN Default.discord ELSE c.discord,
            secret |-> NoSecret]
  <2>1. CASE c.discord = Blank
    BY <1>2, <2>1 DEF Fill
  <2>2. CASE c.discord # Blank
    BY <1>2, <2>2 DEF Fill
  <2> QED
    BY <2>1, <2>2
<1>6. Fill(Strip(Canonical(c))) \in Settings(GateValues, Discords \ {Blank})
  <2>1. CASE c.discord = Blank
    BY <1>1, <1>3, <1>4, <1>5, <2>1 DEF Settings
  <2>2. CASE c.discord # Blank
    BY <1>1, <1>3, <1>5, <2>2 DEF Settings
  <2> QED
    BY <2>1, <2>2
<1>7. Clean(Fill(Strip(Canonical(c))))
  BY <1>3, <1>5 DEF Clean
<1>8. Canonical(c) \in Settings(GateValues, Discords)
  BY <1>1, <1>3 DEF Settings
<1> QED
  BY <1>1, <1>3, <1>6, <1>7, <1>8

\* A complete configuration is left as it is.
LEMMA FillComplete ==
  ASSUME NEW c, c.discord # Blank
  PROVE  Fill(c) = c
  BY DEF Fill

\* A PATCH changes one field and keeps the secret.
LEMMA Patched ==
  ASSUME NEW c \in Settings(GateValues, Discords)
  PROVE  /\ \A g \in GateValues \cup {BadGate} :
               /\ [c EXCEPT !.gate = g] \in Settings(GateValues \cup {BadGate}, Discords)
               /\ [c EXCEPT !.gate = g].secret = c.secret
         /\ \A d \in {Blank, "Other"} :
               /\ [c EXCEPT !.discord = d] \in Settings(GateValues \cup {BadGate}, Discords)
               /\ [c EXCEPT !.discord = d].secret = c.secret
  BY DEF Settings, Discords

\* The initial state has the types and the settings, and nothing is published.
LEMMA InitSettings == Init => TypeOK /\ SettingsInv /\ OrderInv
<1> SUFFICES ASSUME Init PROVE TypeOK /\ SettingsInv /\ OrderInv
  OBVIOUS
<1>1. Default \in Settings(GateValues \cup {BadGate}, Discords)
  BY DefaultIsClean, Kinds
<1>2. TypeOK
  <2>1. pc \in [Ops -> PCs] /\ alone \in [Ops -> BOOLEAN]
    BY DEF Init, PCs
  <2>2. /\ cfg \in [Ops -> Settings(GateValues \cup {BadGate}, Discords)]
        /\ pool \in [Ops -> Pools \cup {NoPool}]
    BY <1>1 DEF Init
  <2>3. crashes \in 0 .. MaxCrashes
    BY CrashAssumption DEF Init
  <2> QED
    BY <2>1, <2>2, <2>3, DefaultIsClean DEF Init, TypeOK
<1>3. SettingsInv
  BY DefaultIsClean DEF Init, SettingsInv, ConfigurePCs, PatchPCs
<1>4. OrderInv
  BY DEF Init, OrderInv, HandlerReady, ConfigurePCs, PatchPCs
<1> QED
  BY <1>2, <1>3, <1>4

\* Every step keeps the types: what is written is valid and complete.
LEMMA StepTypes ==
  ASSUME TypeOK, SettingsInv, OrderInv, [Next]_vars
  PROVE  TypeOK'
<1> USE ActorsAssumption, PoolAssumption, CrashAssumption
<1> USE DEF TypeOK, PCs, Goto, memory, history, Ops
<1>1. ASSUME NEW o \in Ops, OpenPool(o)
      PROVE  TypeOK'
  <2>1. PICK h \in HostConfigs : Enter(o, h, "read")
    BY <1>1 DEF OpenPool
  <2>2. PICK p \in Pools : pool' = [pool EXCEPT ![o] = p] /\ open' = open \cup {p}
    BY <1>1 DEF OpenPool
  <2>3. /\ h \in Settings(GateValues \cup {BadGate}, Discords) /\ h.discord # Blank
        /\ h.gate \in GateValues /\ Canon[h.gate] = h.gate
    BY HostSettings, Kinds
  <2>4. alone' \in [Ops -> BOOLEAN] /\ muddled' \in BOOLEAN /\ clash' \in BOOLEAN
    BY <2>1 DEF Enter, Idle
  <2> QED
    BY <1>1, <2>1, <2>2, <2>3, <2>4 DEF OpenPool, Enter
<1>2. ASSUME NEW o \in Ops, ReadRow(o)
      PROVE  TypeOK'
  <2>1. Fill(row) = row /\ row \in Settings(GateValues \cup {BadGate}, Discords)
    BY FillComplete, Kinds
  <2>2. pc' \in [Ops -> PCs]
    BY <1>2 DEF ReadRow
  <2>3. cfg' \in [Ops -> Settings(GateValues \cup {BadGate}, Discords)]
    <3>1. cfg' = cfg \/ cfg' = [cfg EXCEPT ![o] = row]
      BY <1>2, <2>1 DEF ReadRow
    <3> QED
      BY <2>1, <3>1
  <2> QED
    BY <1>2, <2>2, <2>3 DEF ReadRow
<1>3. ASSUME NEW o \in Ops, ImportRow(o)
      PROVE  TypeOK'
  <2>1. cfg[o] \in Settings(GateValues, Discords)
    BY <1>3, Kinds, GateAssumption DEF ImportRow, SettingsInv
  <2>2. row' \in Settings(GateValues, Discords \ {Blank})
    BY <1>3, <2>1, Written DEF ImportRow, WriteRow
  <2> QED
    BY <1>3, <2>2 DEF ImportRow
<1>4. ASSUME NEW o \in Ops, RereadRow(o)
      PROVE  TypeOK'
  <2>1. Fill(row) = row /\ row \in Settings(GateValues \cup {BadGate}, Discords)
    BY FillComplete, Kinds
  <2> QED
    BY <1>4, <2>1 DEF RereadRow
<1>5. ASSUME NEW o \in Ops, ConfigureFails(o)
      PROVE  TypeOK'
  <2>1. cfg[o] \in Settings(GateValues, Discords)
    BY <1>5, Kinds, GateAssumption DEF ConfigureFails, SettingsInv
  <2>2. row' \in Settings(GateValues, Discords \ {Blank})
    BY <1>5, <2>1, Written DEF ConfigureFails, LoseWrite, WriteRow
  <2>3. Default \in Settings(GateValues \cup {BadGate}, Discords)
    BY DefaultIsClean, Kinds
  <2>4. muddled' \in BOOLEAN
    BY <1>5 DEF ConfigureFails, LoseWrite
  <2> QED
    BY <1>5, <2>2, <2>3, <2>4 DEF ConfigureFails, Leave
<1>6. ASSUME NEW o \in Ops, ApplyConfig(o)
      PROVE  TypeOK'
  <2>1. cfg[o] \in Settings(GateValues, Discords)
    BY <1>6, Kinds, CleanIsValid DEF ApplyConfig, SettingsInv
  <2> QED
    BY <1>6, <2>1 DEF ApplyConfig
<1>7. ASSUME NEW o \in Ops, ApplyClients(o)
      PROVE  TypeOK'
  <2>1. cfg[o] \in Settings(GateValues, Discords)
    BY <1>7, Kinds, CleanIsValid DEF ApplyClients, SettingsInv
  <2> QED
    BY <1>7, <2>1 DEF ApplyClients
<1>8. ASSUME NEW o \in Ops, StoreStore(o)
      PROVE  TypeOK'
  BY <1>8 DEF StoreStore
<1>9. ASSUME NEW o \in Ops, SetHandler(o)
      PROVE  TypeOK'
  BY <1>9 DEF SetHandler
<1>10. ASSUME NEW o \in Ops, SwapPool(o)
      PROVE  TypeOK'
  BY <1>10 DEF SwapPool
<1>11. ASSUME NEW o \in Ops, CloseOldPool(o)
      PROVE  TypeOK'
  <2>3. Default \in Settings(GateValues \cup {BadGate}, Discords)
    BY DefaultIsClean, Kinds
  <2> QED
    BY <1>11, <2>3 DEF CloseOldPool, Leave
<1>12. ASSUME NEW o \in Ops, ReadLive(o)
      PROVE  TypeOK'
  <2>1. cfgPtr \in Settings(GateValues, Discords) /\ cfgPtr.secret = NoSecret
    BY <1>12 DEF ReadLive, Clean, SettingsInv, OrderInv, HandlerReady
  <2>2. PICK c \in Settings(GateValues \cup {BadGate}, Discords) :
           c.secret = NoSecret /\ Enter(o, c, "load")
    <3>1. CASE \E g \in GateValues \cup {BadGate} :
                  Enter(o, [cfgPtr EXCEPT !.gate = g], "load")
      BY <2>1, <3>1, Patched
    <3>2. CASE \E d \in {Blank, "Other"} : Enter(o, [cfgPtr EXCEPT !.discord = d], "load")
      BY <2>1, <3>2, Patched
    <3> QED
      BY <1>12, <3>1, <3>2 DEF ReadLive
  <2>4. alone' \in [Ops -> BOOLEAN] /\ muddled' \in BOOLEAN /\ clash' \in BOOLEAN
    BY <2>2 DEF Enter, Idle
  <2> QED
    BY <1>12, <2>2, <2>4 DEF ReadLive, Enter
<1>13. ASSUME NEW o \in Ops, LoadStore(o)
      PROVE  TypeOK'
  BY <1>13 DEF LoadStore
<1>14. ASSUME NEW o \in Ops, PatchRow(o)
      PROVE  TypeOK'
  <2>1. cfg[o] \in Settings(GateValues, Discords)
    BY <1>14, Kinds DEF PatchRow, Valid
  <2>2. /\ row' \in Settings(GateValues, Discords \ {Blank})
        /\ CallersCopy(cfg[o]) \in Settings(GateValues \cup {BadGate}, Discords)
    BY <1>14, <2>1, Written, Kinds DEF PatchRow, WriteRow, CallersCopy
  <2> QED
    BY <1>14, <2>2 DEF PatchRow
<1>15. ASSUME NEW o \in Ops, PatchFails(o)
      PROVE  TypeOK'
  <2>1. Valid(cfg[o]) => cfg[o] \in Settings(GateValues, Discords)
    BY <1>15, Kinds DEF PatchFails, Valid
  <2>2. row' \in Settings(GateValues, Discords \ {Blank})
    BY <1>15, <2>1, Written DEF PatchFails, LoseWrite, WriteRow
  <2>3. Default \in Settings(GateValues \cup {BadGate}, Discords)
    BY DefaultIsClean, Kinds
  <2>4. muddled' \in BOOLEAN
    BY <1>15 DEF PatchFails, LoseWrite
  <2> QED
    BY <1>15, <2>2, <2>3, <2>4 DEF PatchFails, Leave
<1>16. ASSUME NEW o \in Ops, PatchReply(o)
      PROVE  TypeOK'
  <2>3. Default \in Settings(GateValues \cup {BadGate}, Discords)
    BY DefaultIsClean, Kinds
  <2> QED
    BY <1>16, <2>3 DEF PatchReply, Leave
<1>17. CASE Crash
  <2>1. Default \in Settings(GateValues \cup {BadGate}, Discords)
    BY DefaultIsClean, Kinds
  <2>2. crashes' \in 0 .. MaxCrashes
    BY <1>17 DEF Crash
  <2> QED
    BY <1>17, <2>1, <2>2 DEF Crash
<1>18. CASE UNCHANGED vars
  BY <1>18 DEF vars
<1> QED
  BY <1>1, <1>2, <1>3, <1>4, <1>5, <1>6, <1>7, <1>8, <1>9, <1>10, <1>11,
     <1>12, <1>13, <1>14, <1>15, <1>16, <1>17, <1>18 DEF Next, OpStep

\* Every step keeps the settings in order: what is read, written and applied is
\* clean, and only what arrives is not.
LEMMA StepSettings ==
  ASSUME TypeOK, SettingsInv, OrderInv, [Next]_vars
  PROVE  SettingsInv'
<1> USE ActorsAssumption, PoolAssumption
<1> USE DEF TypeOK, SettingsInv, ConfigurePCs, PatchPCs, PCs, Goto, memory, history, Ops
<1>1. ASSUME NEW o \in Ops, OpenPool(o)
      PROVE  SettingsInv'
  <2>1. PICK h \in HostConfigs : Enter(o, h, "read")
    BY <1>1 DEF OpenPool
  <2>2. PICK p \in Pools : pool' = [pool EXCEPT ![o] = p] /\ open' = open \cup {p}
    BY <1>1 DEF OpenPool
  <2>3. /\ h \in Settings(GateValues \cup {BadGate}, Discords) /\ h.discord # Blank
        /\ h.gate \in GateValues /\ Canon[h.gate] = h.gate
    BY HostSettings, Kinds
  <2> QED
    BY <1>1, <2>1, <2>2, <2>3 DEF OpenPool, Enter
<1>2. ASSUME NEW o \in Ops, ReadRow(o)
      PROVE  SettingsInv'
  <2>1. Fill(row) = row
    BY FillComplete, Kinds
  <2> QED
    BY <1>2, <2>1 DEF ReadRow, ImportWanted
<1>3. ASSUME NEW o \in Ops, ImportRow(o)
      PROVE  SettingsInv'
  <2>1. cfg[o] \in Settings(GateValues, Discords)
    <3>1. cfg[o].gate \in GateValues
      BY <1>3 DEF ImportRow
    <3> QED
      BY <3>1, Kinds, GateAssumption
  <2>2. Clean(row')
    BY <1>3, <2>1, Written DEF ImportRow, WriteRow
  <2> QED
    BY <1>3, <2>2 DEF ImportRow
<1>4. ASSUME NEW o \in Ops, RereadRow(o)
      PROVE  SettingsInv'
  <2>1. Fill(row) = row
    BY FillComplete, Kinds
  <2> QED
    BY <1>4, <2>1 DEF RereadRow
<1>5. ASSUME NEW o \in Ops, ConfigureFails(o)
      PROVE  SettingsInv'
  <2>1. cfg[o] \in Settings(GateValues, Discords)
    <3>1. cfg[o].gate \in GateValues
      BY <1>5 DEF ConfigureFails
    <3> QED
      BY <3>1, Kinds, GateAssumption
  <2>2. Clean(row')
    <3>1. row' = row \/ row' = Fill(Strip(Canonical(cfg[o])))
      BY <1>5 DEF ConfigureFails, LoseWrite, WriteRow
    <3> QED
      BY <2>1, <3>1, Written
  <2> QED
    BY <1>5, <2>2, DefaultIsClean DEF ConfigureFails, Leave
<1>6. ASSUME NEW o \in Ops, ApplyConfig(o)
      PROVE  SettingsInv'
  BY <1>6 DEF ApplyConfig
<1>7. ASSUME NEW o \in Ops, ApplyClients(o)
      PROVE  SettingsInv'
  BY <1>7 DEF ApplyClients
<1>8. ASSUME NEW o \in Ops, StoreStore(o)
      PROVE  SettingsInv'
  BY <1>8 DEF StoreStore
<1>9. ASSUME NEW o \in Ops, SetHandler(o)
      PROVE  SettingsInv'
  BY <1>9 DEF SetHandler
<1>10. ASSUME NEW o \in Ops, SwapPool(o)
      PROVE  SettingsInv'
  BY <1>10 DEF SwapPool
<1>11. ASSUME NEW o \in Ops, CloseOldPool(o)
      PROVE  SettingsInv'
  BY <1>11, DefaultIsClean DEF CloseOldPool, Leave
<1>12. ASSUME NEW o \in Ops, ReadLive(o)
      PROVE  SettingsInv'
  <2>1. cfgPtr \in Settings(GateValues, Discords) /\ cfgPtr.secret = NoSecret
    BY <1>12 DEF ReadLive, Clean, SettingsInv, OrderInv, HandlerReady
  <2>2. PICK c \in Settings(GateValues \cup {BadGate}, Discords) :
           c.secret = NoSecret /\ Enter(o, c, "load")
    <3>1. CASE \E g \in GateValues \cup {BadGate} :
                  Enter(o, [cfgPtr EXCEPT !.gate = g], "load")
      BY <2>1, <3>1, Patched
    <3>2. CASE \E d \in {Blank, "Other"} : Enter(o, [cfgPtr EXCEPT !.discord = d], "load")
      BY <2>1, <3>2, Patched
    <3> QED
      BY <1>12, <3>1, <3>2 DEF ReadLive
  <2> QED
    BY <1>12, <2>2 DEF ReadLive, Enter
<1>13. ASSUME NEW o \in Ops, LoadStore(o)
      PROVE  SettingsInv'
  BY <1>13 DEF LoadStore
<1>14. ASSUME NEW o \in Ops, PatchRow(o)
      PROVE  SettingsInv'
  <2>1. cfg[o] \in Settings(GateValues, Discords) /\ cfg[o].secret = NoSecret
    BY <1>14, Kinds DEF PatchRow, Valid
  <2>2. Clean(row') /\ Clean(CallersCopy(cfg[o]))
    BY <1>14, <2>1, Written, Kinds DEF PatchRow, WriteRow, CallersCopy, Clean
  <2> QED
    BY <1>14, <2>2 DEF PatchRow
<1>15. ASSUME NEW o \in Ops, PatchFails(o)
      PROVE  SettingsInv'
  <2>1. Valid(cfg[o]) => cfg[o] \in Settings(GateValues, Discords)
    BY <1>15, Kinds DEF PatchFails, Valid
  <2>2. Clean(row')
    BY <1>15, <2>1, Written DEF PatchFails, LoseWrite, WriteRow
  <2> QED
    BY <1>15, <2>2, DefaultIsClean DEF PatchFails, Leave
<1>16. ASSUME NEW o \in Ops, PatchReply(o)
      PROVE  SettingsInv'
  BY <1>16, DefaultIsClean DEF PatchReply, Leave
<1>17. CASE Crash
  BY <1>17, DefaultIsClean DEF Crash
<1>18. CASE UNCHANGED vars
  BY <1>18 DEF vars
<1> QED
  BY <1>1, <1>2, <1>3, <1>4, <1>5, <1>6, <1>7, <1>8, <1>9, <1>10, <1>11,
     <1>12, <1>13, <1>14, <1>15, <1>16, <1>17, <1>18 DEF Next, OpStep

\* Every step keeps the order of publication: the configuration, then the store,
\* then the handler.
LEMMA StepOrder ==
  ASSUME TypeOK, SettingsInv, OrderInv, [Next]_vars
  PROVE  OrderInv'
<1> USE ActorsAssumption, PoolAssumption
<1> USE DEF TypeOK, OrderInv, HandlerReady, ConfigurePCs, PatchPCs, PCs, Goto, memory, history, Ops
<1>1. ASSUME NEW o \in Ops, OpenPool(o)
      PROVE  OrderInv'
  <2>1. PICK h \in HostConfigs : Enter(o, h, "read")
    BY <1>1 DEF OpenPool
  <2>2. PICK p \in Pools : pool' = [pool EXCEPT ![o] = p]
    BY <1>1 DEF OpenPool
  <2> QED
    BY <1>1, <2>1, <2>2 DEF OpenPool, Enter
<1>2. ASSUME NEW o \in Ops, ReadRow(o)
      PROVE  OrderInv'
  BY <1>2 DEF ReadRow, ImportWanted, SettingsInv
<1>3. ASSUME NEW o \in Ops, ImportRow(o)
      PROVE  OrderInv'
  BY <1>3 DEF ImportRow, WriteRow
<1>4. ASSUME NEW o \in Ops, RereadRow(o)
      PROVE  OrderInv'
  BY <1>4 DEF RereadRow, SettingsInv
<1>5. ASSUME NEW o \in Ops, ConfigureFails(o)
      PROVE  OrderInv'
  BY <1>5 DEF ConfigureFails, Leave, LoseWrite, WriteRow
<1>6. ASSUME NEW o \in Ops, ApplyConfig(o)
      PROVE  OrderInv'
  BY <1>6, Kinds, CleanIsValid, NoConfigAssumption DEF ApplyConfig, SettingsInv
<1>7. ASSUME NEW o \in Ops, ApplyClients(o)
      PROVE  OrderInv'
  BY <1>7 DEF ApplyClients
<1>8. ASSUME NEW o \in Ops, StoreStore(o)
      PROVE  OrderInv'
  BY <1>8 DEF StoreStore
<1>9. ASSUME NEW o \in Ops, SetHandler(o)
      PROVE  OrderInv'
  BY <1>9 DEF SetHandler
<1>10. ASSUME NEW o \in Ops, SwapPool(o)
      PROVE  OrderInv'
  BY <1>10 DEF SwapPool
<1>11. ASSUME NEW o \in Ops, CloseOldPool(o)
      PROVE  OrderInv'
  BY <1>11 DEF CloseOldPool, Leave
<1>12. ASSUME NEW o \in Ops, ReadLive(o)
      PROVE  OrderInv'
  BY <1>12 DEF ReadLive, Enter
<1>13. ASSUME NEW o \in Ops, LoadStore(o)
      PROVE  OrderInv'
  BY <1>13 DEF LoadStore
<1>14. ASSUME NEW o \in Ops, PatchRow(o)
      PROVE  OrderInv'
  BY <1>14 DEF PatchRow, WriteRow, CallersCopy
<1>15. ASSUME NEW o \in Ops, PatchFails(o)
      PROVE  OrderInv'
  BY <1>15 DEF PatchFails, Leave, LoseWrite, WriteRow
<1>16. ASSUME NEW o \in Ops, PatchReply(o)
      PROVE  OrderInv'
  BY <1>16 DEF PatchReply, Leave
<1>17. CASE Crash
  BY <1>17 DEF Crash
<1>18. CASE UNCHANGED vars
  BY <1>18 DEF vars
<1> QED
  BY <1>1, <1>2, <1>3, <1>4, <1>5, <1>6, <1>7, <1>8, <1>9, <1>10, <1>11,
     <1>12, <1>13, <1>14, <1>15, <1>16, <1>17, <1>18 DEF Next, OpStep

-----------------------------------------------------------------------------
(* Pools and stores                                                         *)

\* Every step keeps the ownership of the pools: a Configure owns the pool it opened
\* until it publishes it, and from then on the one it took down.
LEMMA StepPool ==
  ASSUME TypeOK, SettingsInv, OrderInv, PoolInv, [Next]_vars
  PROVE  PoolInv'
<1> USE ActorsAssumption, PoolAssumption
<1> USE DEF TypeOK, PoolInv, ConfigurePCs, PatchPCs, PCs, Goto, memory, history, Ops
<1>1. ASSUME NEW o \in Ops, OpenPool(o)
      PROVE  PoolInv'
  <2>1. PICK h \in HostConfigs : Enter(o, h, "read")
    BY <1>1 DEF OpenPool
  <2>2. PICK p \in Pools \ open : /\ \A q \in Ops : pool[q] # p
                                  /\ p \notin {storePtr, poolPtr}
                                  /\ pool' = [pool EXCEPT ![o] = p]
                                  /\ open' = open \cup {p}
    BY <1>1 DEF OpenPool
  <2> QED
    BY <1>1, <2>1, <2>2 DEF OpenPool, Enter
<1>2. ASSUME NEW o \in Ops, ReadRow(o)
      PROVE  PoolInv'
  BY <1>2 DEF ReadRow, ImportWanted, SettingsInv, OrderInv
<1>3. ASSUME NEW o \in Ops, ImportRow(o)
      PROVE  PoolInv'
  BY <1>3 DEF ImportRow, WriteRow
<1>4. ASSUME NEW o \in Ops, RereadRow(o)
      PROVE  PoolInv'
  BY <1>4 DEF RereadRow, SettingsInv, OrderInv
<1>5. ASSUME NEW o \in Ops, ConfigureFails(o)
      PROVE  PoolInv'
  BY <1>5 DEF ConfigureFails, Leave, LoseWrite, WriteRow, SettingsInv, OrderInv
<1>6. ASSUME NEW o \in Ops, ApplyConfig(o)
      PROVE  PoolInv'
  BY <1>6 DEF ApplyConfig
<1>7. ASSUME NEW o \in Ops, ApplyClients(o)
      PROVE  PoolInv'
  BY <1>7 DEF ApplyClients, SettingsInv, OrderInv
<1>8. ASSUME NEW o \in Ops, StoreStore(o)
      PROVE  PoolInv'
  BY <1>8 DEF StoreStore, SettingsInv, OrderInv
<1>9. ASSUME NEW o \in Ops, SetHandler(o)
      PROVE  PoolInv'
  BY <1>9 DEF SetHandler, SettingsInv, OrderInv
<1>10. ASSUME NEW o \in Ops, SwapPool(o)
      PROVE  PoolInv'
  BY <1>10 DEF SwapPool, SettingsInv, OrderInv
<1>11. ASSUME NEW o \in Ops, CloseOldPool(o)
      PROVE  PoolInv'
  BY <1>11 DEF CloseOldPool, Leave, SettingsInv, OrderInv
<1>12. ASSUME NEW o \in Ops, ReadLive(o)
      PROVE  PoolInv'
  <2>1. pc' = [pc EXCEPT ![o] = "load"] /\ o \in Patchers
    BY <1>12 DEF ReadLive, Enter
  <2> QED
    BY <1>12, <2>1 DEF ReadLive
<1>13. ASSUME NEW o \in Ops, LoadStore(o)
      PROVE  PoolInv'
  BY <1>13 DEF LoadStore, SettingsInv, OrderInv
<1>14. ASSUME NEW o \in Ops, PatchRow(o)
      PROVE  PoolInv'
  BY <1>14 DEF PatchRow, WriteRow, CallersCopy
<1>15. ASSUME NEW o \in Ops, PatchFails(o)
      PROVE  PoolInv'
  BY <1>15 DEF PatchFails, Leave, LoseWrite, WriteRow, SettingsInv, OrderInv
<1>16. ASSUME NEW o \in Ops, PatchReply(o)
      PROVE  PoolInv'
  BY <1>16 DEF PatchReply, Leave, SettingsInv, OrderInv
<1>17. CASE Crash
  BY <1>17 DEF Crash
<1>18. CASE UNCHANGED vars
  BY <1>18 DEF vars
<1> QED
  BY <1>1, <1>2, <1>3, <1>4, <1>5, <1>6, <1>7, <1>8, <1>9, <1>10, <1>11,
     <1>12, <1>13, <1>14, <1>15, <1>16, <1>17, <1>18 DEF Next, OpStep

\* Every step keeps the published store with the published pool, while Configures
\* come one at a time.
LEMMA StepStore ==
  ASSUME TypeOK, SettingsInv, OrderInv, PoolInv, StoreInv, [Next]_vars
  PROVE  StoreInv'
<1> USE ActorsAssumption, PoolAssumption
<1> USE DEF TypeOK, StoreInv, ConfigurePCs, PatchPCs, PCs, Goto, memory, history, Ops
<1>1. ASSUME NEW o \in Ops, OpenPool(o)
      PROVE  StoreInv'
  <2>1. PICK h \in HostConfigs : Enter(o, h, "read")
    BY <1>1 DEF OpenPool
  <2>2. PICK p \in Pools \ open : /\ \A q \in Ops : pool[q] # p
                                  /\ p \notin {storePtr, poolPtr}
                                  /\ pool' = [pool EXCEPT ![o] = p]
                                  /\ open' = open \cup {p}
    BY <1>1 DEF OpenPool
  <2> QED
    BY <1>1, <2>1, <2>2 DEF OpenPool, Enter, Idle
<1>2. ASSUME NEW o \in Ops, ReadRow(o)
      PROVE  StoreInv'
  BY <1>2 DEF ReadRow, ImportWanted, SettingsInv, OrderInv
<1>3. ASSUME NEW o \in Ops, ImportRow(o)
      PROVE  StoreInv'
  BY <1>3 DEF ImportRow, WriteRow, SettingsInv, OrderInv
<1>4. ASSUME NEW o \in Ops, RereadRow(o)
      PROVE  StoreInv'
  BY <1>4 DEF RereadRow, SettingsInv, OrderInv
<1>5. ASSUME NEW o \in Ops, ConfigureFails(o)
      PROVE  StoreInv'
  BY <1>5 DEF ConfigureFails, Leave, LoseWrite, WriteRow, SettingsInv, OrderInv
<1>6. ASSUME NEW o \in Ops, ApplyConfig(o)
      PROVE  StoreInv'
  BY <1>6 DEF ApplyConfig, SettingsInv, OrderInv
<1>7. ASSUME NEW o \in Ops, ApplyClients(o)
      PROVE  StoreInv'
  BY <1>7 DEF ApplyClients, SettingsInv, OrderInv
<1>8. ASSUME NEW o \in Ops, StoreStore(o)
      PROVE  StoreInv'
  BY <1>8 DEF StoreStore, SettingsInv, OrderInv
<1>9. ASSUME NEW o \in Ops, SetHandler(o)
      PROVE  StoreInv'
  BY <1>9 DEF SetHandler, SettingsInv, OrderInv
<1>10. ASSUME NEW o \in Ops, SwapPool(o)
      PROVE  StoreInv'
  BY <1>10 DEF SwapPool, SettingsInv, OrderInv
<1>11. ASSUME NEW o \in Ops, CloseOldPool(o)
      PROVE  StoreInv'
  BY <1>11 DEF CloseOldPool, Leave, SettingsInv, OrderInv
<1>12. ASSUME NEW o \in Ops, ReadLive(o)
      PROVE  StoreInv'
  BY <1>12 DEF ReadLive, Enter, Idle, SettingsInv, OrderInv
<1>13. ASSUME NEW o \in Ops, LoadStore(o)
      PROVE  StoreInv'
  BY <1>13 DEF LoadStore, SettingsInv, OrderInv
<1>14. ASSUME NEW o \in Ops, PatchRow(o)
      PROVE  StoreInv'
  BY <1>14 DEF PatchRow, WriteRow, CallersCopy, SettingsInv, OrderInv
<1>15. ASSUME NEW o \in Ops, PatchFails(o)
      PROVE  StoreInv'
  BY <1>15 DEF PatchFails, Leave, LoseWrite, WriteRow, SettingsInv, OrderInv
<1>16. ASSUME NEW o \in Ops, PatchReply(o)
      PROVE  StoreInv'
  BY <1>16 DEF PatchReply, Leave, SettingsInv, OrderInv
<1>17. CASE Crash
  BY <1>17 DEF Crash
<1>18. CASE UNCHANGED vars
  BY <1>18 DEF vars
<1> QED
  BY <1>1, <1>2, <1>3, <1>4, <1>5, <1>6, <1>7, <1>8, <1>9, <1>10, <1>11,
     <1>12, <1>13, <1>14, <1>15, <1>16, <1>17, <1>18 DEF Next, OpStep

\* A setting without a secret has none to lose.
LEMMA Stripped ==
  ASSUME NEW c \in Settings(GateValues, Discords), c.secret = NoSecret
  PROVE  Strip(c) = c
  BY DEF Strip, Settings

\* Every step keeps the row with the live configuration, while operations come one
\* at a time.
LEMMA StepRow ==
  ASSUME TypeOK, SettingsInv, OrderInv, StoreInv, RowInv, [Next]_vars
  PROVE  RowInv'
<1> USE ActorsAssumption, PoolAssumption
<1> USE DEF TypeOK, RowInv, Match, Idle, ConfigurePCs, PatchPCs, PCs, Goto, memory, history, Ops
<1>1. ASSUME NEW o \in Ops, OpenPool(o)
      PROVE  RowInv'
  BY <1>1 DEF OpenPool, Enter, SettingsInv, OrderInv, StoreInv, HandlerReady
<1>2. ASSUME NEW o \in Ops, ReadRow(o)
      PROVE  RowInv'
  <2>1. Fill(row) = row
    BY FillComplete, Kinds
  <2> QED
    BY <1>2, <2>1 DEF ReadRow, SettingsInv, OrderInv, StoreInv
<1>3. ASSUME NEW o \in Ops, ImportRow(o)
      PROVE  RowInv'
  BY <1>3 DEF ImportRow, WriteRow, SettingsInv, OrderInv, StoreInv, HandlerReady
<1>4. ASSUME NEW o \in Ops, RereadRow(o)
      PROVE  RowInv'
  <2>1. Fill(row) = row
    BY FillComplete, Kinds
  <2> QED
    BY <1>4, <2>1 DEF RereadRow, SettingsInv, OrderInv, StoreInv
<1>5. ASSUME NEW o \in Ops, ConfigureFails(o)
      PROVE  RowInv'
  <2>1. CASE muddled'
    BY <1>5, <2>1 DEF ConfigureFails, Leave, SettingsInv, OrderInv, StoreInv
  <2>2. CASE ~muddled'
    <3>1. UNCHANGED <<row, muddled>> /\ pc[o] \in {"read", "import"}
      BY <1>5, <2>2 DEF ConfigureFails, LoseWrite
    <3> QED
      BY <1>5, <3>1 DEF ConfigureFails, Leave, SettingsInv, OrderInv, StoreInv
  <2> QED
    BY <2>1, <2>2
<1>6. ASSUME NEW o \in Ops, ApplyConfig(o)
      PROVE  RowInv'
  BY <1>6 DEF ApplyConfig, SettingsInv, OrderInv, StoreInv, HandlerReady
<1>7. ASSUME NEW o \in Ops, ApplyClients(o)
      PROVE  RowInv'
  BY <1>7 DEF ApplyClients, SettingsInv, OrderInv, StoreInv, HandlerReady
<1>8. ASSUME NEW o \in Ops, StoreStore(o)
      PROVE  RowInv'
  BY <1>8 DEF StoreStore, SettingsInv, OrderInv, StoreInv, HandlerReady
<1>9. ASSUME NEW o \in Ops, SetHandler(o)
      PROVE  RowInv'
  BY <1>9 DEF SetHandler, SettingsInv, OrderInv, StoreInv, HandlerReady
<1>10. ASSUME NEW o \in Ops, SwapPool(o)
      PROVE  RowInv'
  BY <1>10 DEF SwapPool, SettingsInv, OrderInv, StoreInv, HandlerReady
<1>11. ASSUME NEW o \in Ops, CloseOldPool(o)
      PROVE  RowInv'
  BY <1>11 DEF CloseOldPool, Leave, SettingsInv, OrderInv, StoreInv, HandlerReady
<1>12. ASSUME NEW o \in Ops, ReadLive(o)
      PROVE  RowInv'
  BY <1>12 DEF ReadLive, Enter, SettingsInv, OrderInv, StoreInv, HandlerReady
<1>13. ASSUME NEW o \in Ops, LoadStore(o)
      PROVE  RowInv'
  BY <1>13 DEF LoadStore, SettingsInv, OrderInv, StoreInv, HandlerReady
<1>14. ASSUME NEW o \in Ops, PatchRow(o)
      PROVE  RowInv'
  <2>1. cfg[o] \in Settings(GateValues, Discords) /\ cfg[o].secret = NoSecret
    BY <1>14, Kinds DEF PatchRow, Valid, SettingsInv
  <2>2. Fill(CallersCopy(cfg[o])) = row'
    BY <1>14, <2>1, Written, Stripped DEF PatchRow, WriteRow, CallersCopy
  <2> QED
    BY <1>14, <2>2 DEF PatchRow, SettingsInv, OrderInv, StoreInv
<1>15. ASSUME NEW o \in Ops, PatchFails(o)
      PROVE  RowInv'
  BY <1>15 DEF PatchFails, Leave, LoseWrite, WriteRow, SettingsInv, OrderInv, StoreInv, HandlerReady
<1>16. ASSUME NEW o \in Ops, PatchReply(o)
      PROVE  RowInv'
  <2>1. ASSUME NEW a \in Ops, a # o
        PROVE  pc'[a] = pc[a] /\ cfg'[a] = cfg[a] /\ alone'[a] = alone[a]
    BY <1>16, <2>1 DEF PatchReply, Leave
  <2>2. /\ pc[o] = "reply" /\ pc'[o] = "idle" /\ ~alone'[o] /\ UNCHANGED <<row, cfgPtr>>
        /\ muddled' = (muddled /\ ~alone[o])
    BY <1>16 DEF PatchReply, Leave
  <2>3. CASE alone[o]
    <3>1. /\ \A a \in Ops : pc'[a] = "idle" /\ ~alone'[a]
          /\ row = Fill(cfg[o]) /\ cfgPtr = cfg[o] /\ ~muddled'
      BY <2>1, <2>2, <2>3 DEF StoreInv
    <3> QED
      BY <2>2, <2>3, <3>1
  <2>4. CASE ~alone[o]
    <3>1. muddled'
      BY <1>16, <2>2, <2>4
    <3> QED
      BY <2>1, <2>2, <3>1
  <2> QED
    BY <2>3, <2>4
<1>17. CASE Crash
  BY <1>17 DEF Crash
<1>18. CASE UNCHANGED vars
  BY <1>18 DEF vars
<1> QED
  BY <1>1, <1>2, <1>3, <1>4, <1>5, <1>6, <1>7, <1>8, <1>9, <1>10, <1>11,
     <1>12, <1>13, <1>14, <1>15, <1>16, <1>17, <1>18 DEF Next, OpStep

\* Every step keeps imports away from what a PATCH has written.
LEMMA StepSaved ==
  ASSUME TypeOK, SettingsInv, SavedInv, [Next]_vars
  PROVE  SavedInv'
<1> USE ActorsAssumption
<1> USE DEF TypeOK, SavedInv, Goto, memory, history, Ops
<1>1. ASSUME NEW o \in Ops, OpenPool(o)
      PROVE  SavedInv'
  BY <1>1 DEF OpenPool, Enter
<1>2. ASSUME NEW o \in Ops, ReadRow(o)
      PROVE  SavedInv'
  <2>1. Fill(row) = row
    BY FillComplete, Kinds
  <2>2. CASE row = Default
    BY <1>2, <2>2 DEF ReadRow
  <2>3. CASE row # Default
    BY <1>2, <2>1, <2>3 DEF ReadRow, ImportWanted
  <2> QED
    BY <2>2, <2>3
<1>3. ASSUME NEW o \in Ops, ImportRow(o)
      PROVE  SavedInv'
  BY <1>3 DEF ImportRow
<1>4. ASSUME NEW o \in Ops, RereadRow(o)
      PROVE  SavedInv'
  BY <1>4 DEF RereadRow
<1>5. ASSUME NEW o \in Ops, ConfigureFails(o)
      PROVE  SavedInv'
  BY <1>5 DEF ConfigureFails, Leave, LoseWrite
<1>6. ASSUME NEW o \in Ops, PatchRow(o)
      PROVE  SavedInv'
  <2>1. CASE \E a \in Configurers : pc[a] = "import"
    BY <1>6, <2>1 DEF PatchRow
  <2>2. CASE \A a \in Configurers : pc[a] # "import"
    <3>1. \A a \in Ops : pc[a] # "import"
      BY <2>2 DEF SettingsInv, ConfigurePCs
    <3> QED
      BY <1>6, <2>2, <3>1 DEF PatchRow
  <2> QED
    BY <2>1, <2>2
<1>7. ASSUME NEW o \in Ops, PatchFails(o)
      PROVE  SavedInv'
  BY <1>7 DEF PatchFails, Leave
<1>8. ASSUME NEW o \in Ops,
             \/ ApplyConfig(o) \/ ApplyClients(o) \/ StoreStore(o) \/ SetHandler(o)
             \/ SwapPool(o) \/ CloseOldPool(o) \/ LoadStore(o) \/ PatchReply(o)
      PROVE  SavedInv'
  BY <1>8 DEF ApplyConfig, ApplyClients, StoreStore, SetHandler, SwapPool, CloseOldPool,
              LoadStore, PatchReply, Leave
<1>9. ASSUME NEW o \in Ops, ReadLive(o)
      PROVE  SavedInv'
  BY <1>9 DEF ReadLive, Enter
<1>10. CASE Crash
  BY <1>10 DEF Crash
<1>11. CASE UNCHANGED vars
  BY <1>11 DEF vars
<1> QED
  BY <1>1, <1>2, <1>3, <1>4, <1>5, <1>6, <1>7, <1>8, <1>9, <1>10, <1>11
     DEF Next, OpStep

-----------------------------------------------------------------------------
(* The theorems                                                             *)

\* The inductive invariant.
Inv ==
    /\ TypeOK
    /\ SettingsInv
    /\ OrderInv
    /\ PoolInv
    /\ StoreInv
    /\ RowInv
    /\ SavedInv

\* The initial state satisfies it: nothing is published and nothing is under way.
LEMMA InitInv == Init => Inv
<1> SUFFICES ASSUME Init PROVE Inv
  OBVIOUS
<1>1. PoolInv
  BY DEF Init, PoolInv, Ops
<1>2. StoreInv
  BY DEF Init, StoreInv, Ops
<1>3. RowInv /\ SavedInv
  BY DEF Init, RowInv, SavedInv, Match, Idle, Ops
<1> QED
  BY <1>1, <1>2, <1>3, InitSettings DEF Inv

\* Every reachable state satisfies the invariant.
LEMMA Invariant == Spec => []Inv
<1>1. Inv /\ [Next]_vars => Inv'
  BY StepTypes, StepSettings, StepOrder, StepPool, StepStore, StepRow, StepSaved DEF Inv
<1> QED
  BY <1>1, InitInv, PTL DEF Spec

\* Every variable keeps its type; the row only ever holds settings that validate.
THEOREM TypeCorrect == Spec => []TypeOK
<1>1. Inv => TypeOK
  BY DEF Inv
<1> QED
  BY <1>1, Invariant, PTL

\* No path writes a host-managed secret into the plugin's own table
\* (store.go:63-68): the import, a PATCH, or a write whose answer was lost.
THEOREM SecretsStayOut == Spec => []SecretsNeverPersisted
<1>1. Inv => SecretsNeverPersisted
  BY DEF Inv, SettingsInv, Clean, SecretsNeverPersisted
<1> QED
  BY <1>1, Invariant, PTL

\* The admin routes are only reachable with a configuration and a store behind
\* them, through any number of reconfigurations (runtime.go's order of stores).
THEOREM ReadyWhenServed == Spec => []HandlerReady
<1>1. Inv => HandlerReady
  BY DEF Inv, OrderInv
<1> QED
  BY <1>1, Invariant, PTL

\* No failure of Configure and no overlap of Configures leaves a pool behind.
THEOREM PoolsAccountedFor == Spec => []NoPoolLeak
<1>1. Inv => NoPoolLeak
  <2> SUFFICES ASSUME Inv, Idle PROVE open = {poolPtr} \ {NoPool}
    BY DEF NoPoolLeak
  <2>1. \A p \in open : p = poolPtr
    BY DEF Inv, PoolInv, Idle, Ops
  <2>2. NoPool \notin open
    BY PoolAssumption DEF Inv, TypeOK
  <2> QED
    BY <2>1, <2>2 DEF Inv, PoolInv
<1> QED
  BY <1>1, Invariant, PTL

\* While Configures come one at a time, the published store's pool is open at
\* every moment, also between the store's replacement and the pool's.
THEOREM StoreUsable == Spec => []StorePoolOpen
<1>1. Inv => StorePoolOpen
  <2> SUFFICES ASSUME Inv, storePtr # NoPool, ~clash PROVE storePtr \in open
    BY DEF StorePoolOpen
  <2>1. CASE \A o \in Configurers : pc[o] \notin {"handler", "swap"}
    BY <2>1 DEF Inv, StoreInv, PoolInv
  <2>2. ASSUME NEW o \in Configurers, pc[o] \in {"handler", "swap"}
        PROVE  storePtr \in open
    BY <2>2 DEF Inv, StoreInv, PoolInv
  <2> QED
    BY <2>1, <2>2
<1> QED
  BY <1>1, Invariant, PTL

\* The live configuration's ids are in the form WHMCS reports them in, although
\* a PATCH publishes the caller's copy and only the store's is validated.
THEOREM LiveIdsCanonical == Spec => []LiveCanonical
<1>1. Inv => LiveCanonical
  BY DEF Inv, SettingsInv, Clean, LiveCanonical
<1> QED
  BY <1>1, Invariant, PTL

\* Once an operation has run alone, the live configuration is the persisted one
\* until operations overlap or a write's acknowledgement is lost; all it may differ
\* in is a Discord field that a PATCH left empty, where the row has the default
\* (store.go:69).
THEOREM LiveAgreesWithRow == Spec => []LiveMatchesRow
<1>1. Inv => LiveMatchesRow
  BY DEF Inv, RowInv, Match, Fill, LiveMatchesRow
<1> QED
  BY <1>1, Invariant, PTL

\* What a PATCH has written outlives crashes, failures and any number of later and
\* overlapping Configures: they import the host's settings only over a row that
\* holds the default (store.go:94).
THEOREM AcceptedPatchSurvives == Spec => []AcceptedPatchDurable
<1>1. Inv => AcceptedPatchDurable
  BY DEF Inv, SavedInv, AcceptedPatchDurable
<1> QED
  BY <1>1, Invariant, PTL

\* No live configuration holds a secret, and the clients that need one are not
\* built.
LiveWithoutSecrets ==
    /\ clients = NoConfig
    /\ cfgPtr # NoConfig => cfgPtr.secret = NoSecret

\* However often the host injects secrets, neither the product cache nor the
\* resolver is ever built: Configure applies what it read back from the row, which
\* has no secrets (main.go's Configure and applyConfig, store.go:63-68).
THEOREM SecretsNeverLive == Spec => []LiveWithoutSecrets
<1>1. Init => LiveWithoutSecrets
  BY DEF Init, LiveWithoutSecrets
<1>2. Inv /\ Inv' /\ LiveWithoutSecrets /\ [Next]_vars => LiveWithoutSecrets'
  <2> SUFFICES ASSUME Inv, Inv', LiveWithoutSecrets, [Next]_vars
               PROVE  clients' = NoConfig
    BY DEF LiveWithoutSecrets, Inv, SettingsInv, Clean
  <2>1. ASSUME NEW o \in Ops, ApplyClients(o) PROVE clients' = NoConfig
    BY <2>1 DEF ApplyClients, Inv, SettingsInv, Clean
  <2>2. CASE clients' = clients
    BY <2>2 DEF LiveWithoutSecrets
  <2>3. CASE Crash
    BY <2>3 DEF Crash
  <2> QED
    BY <2>1, <2>2, <2>3
       DEF Next, OpStep, vars, memory, OpenPool, ReadRow, ImportRow, RereadRow,
           ConfigureFails, ApplyConfig, StoreStore, SetHandler, SwapPool,
           CloseOldPool, ReadLive, LoadStore, PatchRow, PatchFails, PatchReply
<1> QED
  BY <1>1, <1>2, Invariant, PTL DEF Spec
=============================================================================
