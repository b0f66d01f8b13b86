------------------------------ MODULE WhmcsWire ------------------------------
(***************************************************************************)
(* What the plugin reads out of the JSON WHMCS answers with                 *)
(* (internal/whmcs/api.go).  WHMCS writes an id as a number or as a text, a *)
(* list of one as the one object, and an empty list in several ways.  A     *)
(* JSON value is a record whose one field is its kind; only the kinds the   *)
(* decoders tell apart are kept.  A decoder returns the set of what it      *)
(* decoded: {} for an error.                                                *)
(***************************************************************************)
EXTENDS ConfigText

CONSTANT NoClient

Absent == [absent |-> TRUE]     \* the field is not there
Null == [null |-> TRUE]
Num(n) == [int |-> n]
Str(t) == [str |-> t]           \* a text of ConfigText, or any other string
List(s) == [list |-> s]
Obj(fields) == [obj |-> fields]
Other == [other |-> TRUE]       \* a boolean, or a number that is no int

Is(v, kinds) == DOMAIN v \subseteq kinds
Missing(v) == Is(v, {"absent", "null"})

-----------------------------------------------------------------------------
(* Products                                                                 *)

ParseOptionalInt(v) ==
    CASE Missing(v) -> {0}
      [] Is(v, {"int"}) -> {v.int}
      [] Is(v, {"str"}) -> IF v.str.form = "blank" THEN {0} ELSE Atoi(TrimSpace(v.str))
      [] OTHER -> {}

ParseRequiredPositiveInt(v) == {n \in ParseOptionalInt(v) : n > 0}

\* json.Unmarshal takes v for a rawProduct: null leaves it empty.
IsRawProduct(v) ==
    \/ Is(v, {"null"})
    \/ Is(v, {"obj"}) /\ Is(v.obj.status, {"absent", "null", "str"})

RawProduct(v) ==
    IF Is(v, {"null"}) THEN [pid |-> Absent, status |-> Absent] ELSE v.obj

\* The entries of `product`, a list or the one object.
ProductEntries(v) ==
    CASE Missing(v) -> {<<>>}
      [] Is(v, {"list"}) ->
             IF \A i \in DOMAIN v.list : IsRawProduct(v.list[i]) THEN {v.list} ELSE {}
      [] OTHER -> IF IsRawProduct(v) THEN {<<v>>} ELSE {}

\* extractProductArray, of the field `products`.
ExtractProductArray(v) ==
    CASE Missing(v) \/ Is(v, {"str"}) \/ v = List(<<>>) -> {<<>>}
      [] Is(v, {"obj"}) -> ProductEntries(v.obj.product)
      [] OTHER -> {}

\* A missing status is told from an empty one, and null is missing.
ToClientProduct(raw) ==
    [pid |-> CHOOSE n \in ParseRequiredPositiveInt(raw.pid) : TRUE,
     status |-> IF Missing(raw.status) THEN "missing" ELSE raw.status.str]

HasPid(v) == ParseRequiredPositiveInt(RawProduct(v).pid) # {}

\* Mutant: entries that do not decode are skipped.
ClientProducts_SkipBad(v) ==
    {LET good == SelectSeq(entries, HasPid)
     IN  [i \in DOMAIN good |-> ToClientProduct(RawProduct(good[i]))] :
        entries \in ExtractProductArray(v)}

\* getClientsProducts: every entry, or an error.
ClientProducts(v) ==
    {[i \in DOMAIN entries |-> ToClientProduct(RawProduct(entries[i]))] :
        entries \in {es \in ExtractProductArray(v) :
                        \A i \in DOMAIN es : HasPid(es[i])}}

-----------------------------------------------------------------------------
(* Clients                                                                  *)

\* rawToString; the empty string names no client.
RawToString(v) ==
    CASE Missing(v) -> NoClient
      [] Is(v, {"int"}) -> v.int
      [] OTHER -> v.str

\* The rows of `client`, a list or the one object.
ClientEntries(v) ==
    CASE Missing(v) -> {<<>>}
      [] Is(v, {"obj"}) -> {<<v>>}
      [] Is(v, {"list"}) ->
             IF \A i \in DOMAIN v.list : Is(v.list[i], {"obj", "null"})
             THEN {v.list} ELSE {}
      [] OTHER -> {}

\* The field `clients`, which unlike `products` must be an object.
ClientRows(v) ==
    CASE Missing(v) -> {<<>>}
      [] Is(v, {"obj"}) -> ClientEntries(v.obj.client)
      [] OTHER -> {}

\* Mutant: WHMCS has searched already, so its first row is taken.
MatchingRows_All(rows, email) == DOMAIN rows

\* Where the rows are whose address is the one asked for, up to case and blanks.
MatchingRows(rows, email) ==
    {i \in DOMAIN rows : Is(rows[i], {"obj"}) /\ rows[i].obj.email = email}

\* getClientByEmail: the first of them.
FindClient(v, email) ==
    {LET found == MatchingRows(rows, email)
     IN  IF found = {} THEN NoClient ELSE RawToString(rows[Min(found)].obj.id) :
        rows \in ClientRows(v)}
=============================================================================
