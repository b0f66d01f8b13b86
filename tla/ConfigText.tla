----------------------------- MODULE ConfigText -----------------------------
(***************************************************************************)
(* Product ids on their way into the configuration, the page and the gate   *)
(* (internal/runtime/runtime.go, internal/admin/server.go).  The gate       *)
(* compares ids as text, people and the page write them in several ways, so *)
(* a text is the number it shows and how it is written.  A parser that may  *)
(* fail returns the set of what it parsed: {} for an error.                 *)
(***************************************************************************)
EXTENDS Integers, Sequences, SequencesExt, EntitlementRules

\* How a text is written: as Itoa would; with leading zeros; with blanks around
\* it; with nothing but blanks; not as a number at all.
Forms == {"plain", "zeros", "blanks", "blank", "junk"}
Texts == [n : Int, form : Forms]
Decimal(n, form) == [n |-> n, form |-> form]
Blank == Decimal(0, "blank")
Junk == Decimal(0, "junk")

Itoa(n) == Decimal(n, "plain")
TrimSpace(t) == IF t.form = "blanks" THEN Itoa(t.n) ELSE t
Atoi(t) == IF t.form \in {"plain", "zeros"} THEN {t.n} ELSE {}

ParsePositiveID(t) == {n \in Atoi(TrimSpace(t)) : n > 0}

\* Mutant: an id that parses is kept the way it was written.
CanonicalID_AsWritten(t) == {t : n \in ParsePositiveID(t)}

\* What is kept of an id that parses.
CanonicalID(t) == {Itoa(n) : n \in ParsePositiveID(t)}

-----------------------------------------------------------------------------
(* A configuration, as far as the gate and the roles go, is the ids of      *)
(* allowed_product_ids and the sequence of claim_role_mapping, whose        *)
(* entries are [product, role].                                             *)

\* Roles, as far as the code tells them apart.
ValidRoles == {"user", "admin"}
Mappings == Seq([product : Texts, role : ValidRoles \cup {"other"}])

\* Mutant: any role will do.
ValidMapping_AnyRole(mapping) ==
    \A i \in DOMAIN mapping : CanonicalID(mapping[i].product) # {}

\* ValidateConfig has no error for the mapping.
ValidMapping(mapping) ==
    \A i \in DOMAIN mapping :
        /\ CanonicalID(mapping[i].product) # {}
        /\ mapping[i].role \in ValidRoles

\* ValidateConfig: every id in its canonical form, or an error.
ValidateConfig(c) ==
    IF ValidMapping(c.mapping)
    THEN {[allowed |-> c.allowed,
           mapping |-> [i \in DOMAIN c.mapping |->
                           [product |-> CHOOSE t \in CanonicalID(c.mapping[i].product) : TRUE,
                            role |-> c.mapping[i].role]]]}
    ELSE {}

\* loadConfig, of the texts between the commas of allowed_product_ids and the
\* entries of claim_role_mapping: one bad id fails the whole.
LoadConfig(allowed, mapping) ==
    LET ids == allowed \ {Blank}
    IN  IF \E t \in ids : CanonicalID(t) = {} THEN {}
        ELSE ValidateConfig([allowed |-> UNION {CanonicalID(t) : t \in ids},
                             mapping |-> mapping])

-----------------------------------------------------------------------------
(* What the admin page is shown, and what it sends                          *)

\* config-summary shows ids as numbers, and drops what Atoi does not take.
SummaryIDs(c) == UNION {Atoi(t) : t \in c.allowed}

\* A request may name ids and a mapping, or leave them out: sets of at most one.
WithFields(c, ids, mapping) ==
    [allowed |-> IF ids = {} THEN c.allowed ELSE {Itoa(n) : n \in UNION ids},
     mapping |-> IF mapping = {} THEN c.mapping
                 ELSE CHOOSE m \in mapping : TRUE]

\* PATCH /config on c: the configuration that is live after it, or an error.
PatchConfig(c, ids, mapping) == ValidateConfig(WithFields(c, ids, mapping))

-----------------------------------------------------------------------------
(* What a login makes of a product list (rows of [pid, status])             *)

OwnedActive(rows) == {Itoa(pid) : pid \in ActiveProductIDs(ToSet(rows))}

\* buildResponse: the gate, and the role of those who own something; nothing is
\* looked up without a gate or a mapping.
LoginVerdict(c, rows) ==
    LET owned == IF c.allowed = {} /\ c.mapping = <<>> THEN {} ELSE OwnedActive(rows)
    IN  [allowed |-> Gate(c.allowed, owned),
         role |-> IF owned = {} THEN "absent"
                  ELSE RoleFromProducts(owned, ToSet(c.mapping))]
=============================================================================
