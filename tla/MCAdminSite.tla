----------------------------- MODULE MCAdminSite -----------------------------
(* AdminSite on a small instance. *)
EXTENDS AdminSite

CONSTANTS c1, c2, e1, e2

MCEmailOf == [c \in Clients |-> IF c = c1 THEN e1 ELSE e2]

Item(pid, status) == [pid |-> pid, status |-> status]
MCProductLists ==
    {<<>>, <<Item(1, "Active")>>, <<Item(2, "missing"), Item(1, "other")>>,
     <<Item(1, "Active"), Item(0, "Active")>>}

MapTo(id, role) == [product |-> id, role |-> role]
\* Nothing, ids written in every valid way, and one that is none.
MCHostAllowed == {{Blank, Decimal(1, "zeros"), Decimal(2, "blanks")}, {Itoa(1), Junk}}
MCHostMappings ==
    {<<>>, <<MapTo(Decimal(1, "blanks"), "user"), MapTo(Itoa(1), "admin")>>,
     <<MapTo(Itoa(1), "other")>>}

\* No list, an empty one, one of a product and a number that is none, and one of
\* no product at all.
MCSentIDs == {{}, {{}}, {{2, 0}}, {{-1}}}
MCSentMappings ==
    {{}, {<<MapTo(Itoa(2), "admin")>>}, {<<MapTo(Decimal(1, "zeros"), "admin")>>},
     {<<MapTo(Itoa(1), "other"), MapTo(Itoa(1), "admin")>>}}

MCPaths == {<<"admin">>, <<"admin", "">>, <<"admin", "products">>,
            <<"admin", "settings", "x", "">>}
MCMount == <<"plugins", "7">>
=============================================================================
