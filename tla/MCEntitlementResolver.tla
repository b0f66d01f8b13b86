----------------------- MODULE MCEntitlementResolver -----------------------
(* EntitlementResolver on a small instance. *)
EXTENDS EntitlementResolver
=============================================================================
