-------------------------- MODULE EntitlementRules --------------------------
(***************************************************************************)
(* The rules that turn a client's product list and a configuration into a   *)
(* decision and a role (internal/auth/server.go).  Only membership matters  *)
(* to them, so lists are sets: of [pid, status] records for what WHMCS      *)
(* returns, of ids for `allowed_product_ids`, of [product, role] records    *)
(* for `claim_role_mapping`.                                                *)
(***************************************************************************)

\* What WHMCS may put in a product's status, as far as the code tells values
\* apart: the field is missing, it is "Active" up to case and blanks, it is
\* the empty string, it is anything else.
ProductStatuses == {"missing", "Active", "empty", "other"}

ActiveProductIDs(prods) ==
    {p.pid : p \in {q \in prods : q.status \in {"missing", "Active"}}}

\* Mutant: all of the wanted products, not any.
AnyMatch_All(want, have) == want \subseteq have

AnyMatch(want, have) == want \cap have # {}

\* Mutant: the gate is passed when nothing is owned.
Gate_NothingOwned(allowed, ids) ==
    allowed = {} \/ ids = {} \/ AnyMatch(allowed, ids)

\* Whoever owns one of the allowed products passes, and everybody without gating.
Gate(allowed, ids) == allowed = {} \/ AnyMatch(allowed, ids)

\* Mutant: any mapped product elevates.
RoleFromProducts_AnyRole(products, mappings) ==
    IF \E m \in mappings : m.product \in products THEN "admin" ELSE "user"

\* Mutant: no role for those whose products are not mapped.
RoleFromProducts_NoDefault(products, mappings) ==
    IF \E m \in mappings : m.role = "admin" /\ m.product \in products
    THEN "admin" ELSE ""

\* "admin" wins; other roles never elevate.
RoleFromProducts(products, mappings) ==
    IF \E m \in mappings : m.role = "admin" /\ m.product \in products
    THEN "admin" ELSE "user"
=============================================================================
