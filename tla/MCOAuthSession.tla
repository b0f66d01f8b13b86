--------------------------- MODULE MCOAuthSession ---------------------------
(* OAuthSession on small instances. *)
EXTENDS OAuthSession, TLC

\* Flows and calls are interchangeable.
Symmetries == Permutations(Flows) \cup Permutations(Calls)
=============================================================================
