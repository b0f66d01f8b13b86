-------------------------- MODULE AdminSiteProofs --------------------------
(***************************************************************************)
(* AdminSite's invariants, for every set of clients and addresses, every    *)
(* product list, whatever the host, a PATCH or a simulation sends, and      *)
(* wherever the plugin is mounted.  Most of it is about what is read:       *)
(* validated configurations (Valid), the JSON of WHMCS (ReadsBack,          *)
(* OwnClient) and the verdict (PreviewDecides, TableAgrees).  The           *)
(* invariant, Inv, then says what is known while a request runs.            *)
(***************************************************************************)
EXTENDS AdminSite, SequenceTheorems, FiniteSetTheorems, WellFoundedInduction, TLAPS

\* The ids of products, in canonical form.
IDs == {Itoa(n) : n \in Nat \ {0}}

\* Numbers as the page sends them, of products or not.
Sendable == {Itoa(n) : n \in Int}

\* What validation lets through: of allowed_product_ids, anything.
Valid(c) ==
    c \in [allowed : SUBSET Sendable, mapping : Seq([product : IDs, role : ValidRoles])]

-----------------------------------------------------------------------------
(* Product ids and configurations                                           *)

\* Sequences are functions on 1 .. n.
LEMMA Members ==
  ASSUME NEW S, NEW s \in Seq(S)
  PROVE  /\ Len(s) \in Nat /\ DOMAIN s = 1 .. Len(s)
         /\ \A i \in DOMAIN s : s[i] \in S
  OBVIOUS

LEMMA Sequence ==
  ASSUME NEW S, NEW n \in Nat, NEW f \in [1 .. n -> S]
  PROVE  f \in Seq(S)
  OBVIOUS

\* The beginning of a sequence.
LEMMA Prefix ==
  ASSUME NEW S, NEW s \in Seq(S), NEW k \in 0 .. Len(s)
  PROVE  SubSeq(s, 1, k) \in Seq(S) /\ Len(SubSeq(s, 1, k)) = k
  OBVIOUS

\* Where there are hits there is a first.
LEMMA Least ==
  ASSUME NEW S \in SUBSET Nat, S # {}
  PROVE  Min(S) \in S
<1> DEFINE R == StrictSubsetOrdering(Nat)
           T == {0 .. k : k \in S}
<1>1. T \subseteq FiniteSubsetsOf(Nat) /\ T # {}
  <2>1. \A k \in S : IsFiniteSet(0 .. k) /\ 0 .. k \subseteq Nat
    BY FS_Interval
  <2> QED
    BY <2>1 DEF FiniteSubsetsOf
<1>2. PICK t \in T : \A u \in T : <<u, t>> \notin R
  <2>1. IsWellFoundedOn(R, FiniteSubsetsOf(Nat))
    BY FS_StrictSubsetOrderingWellFounded
  <2> HIDE DEF R, T
  <2> QED
    BY <1>1, <2>1, WFMin
<1>3. PICK m \in S : t = 0 .. m
  OBVIOUS
<1>4. ASSUME NEW k \in S
      PROVE  m <= k
  <2> SUFFICES ASSUME k < m PROVE FALSE
    OBVIOUS
  <2>1. 0 .. k \subseteq 0 .. m /\ m \in 0 .. m /\ m \notin 0 .. k
    OBVIOUS
  <2>2. <<0 .. k, 0 .. m>> \in R
    BY <2>1 DEF StrictSubsetOrdering
  <2> QED
    BY <1>2, <1>3, <2>2
<1> QED
  BY <1>4 DEF Min

LEMMA IdText == ASSUME NEW n PROVE Itoa(n) = [n |-> n, form |-> "plain"]
  BY DEF Itoa, Decimal

\* An id that parses is kept in its one canonical form.
LEMMA CanonicalForm ==
  ASSUME NEW t \in Texts
  PROVE  CanonicalID(t) = {} \/ \E id \in IDs : CanonicalID(t) = {id}
<1>1. t.n \in Int
  BY DEF Texts
<1>2. Atoi(TrimSpace(t)) = {} \/ Atoi(TrimSpace(t)) = {t.n}
  BY IdText DEF Atoi, TrimSpace
<1>3. CASE Atoi(TrimSpace(t)) = {} \/ t.n <= 0
  <2>1. ParsePositiveID(t) = {}
    BY <1>1, <1>2, <1>3 DEF ParsePositiveID
  <2> QED
    BY <2>1 DEF CanonicalID
<1>4. CASE Atoi(TrimSpace(t)) = {t.n} /\ t.n > 0
  <2>1. ParsePositiveID(t) = {t.n}
    BY <1>1, <1>4 DEF ParsePositiveID
  <2>2. CanonicalID(t) = {Itoa(t.n)} /\ t.n \in Nat \ {0}
    BY <1>1, <1>4, <2>1 DEF CanonicalID
  <2> QED
    BY <2>2 DEF IDs
<1> QED
  BY <1>1, <1>2, <1>3, <1>4

\* A canonical id is itself when it is parsed again.
LEMMA CanonicalAgain ==
  ASSUME NEW id \in IDs
  PROVE  id \in Texts /\ id.n \in Nat \ {0} /\ id = Itoa(id.n) /\ CanonicalID(id) = {id}
<1>1. PICK n \in Nat \ {0} : id = Itoa(n)
  BY DEF IDs
<1>2. id.n = n /\ id.form = "plain"
  BY <1>1, IdText
<1>3. id \in Texts
  BY <1>1, IdText DEF Texts, Forms
<1>4. ParsePositiveID(id) = {n}
  BY <1>2 DEF ParsePositiveID, Atoi, TrimSpace
<1>5. CanonicalID(id) = {id}
  BY <1>1, <1>4 DEF CanonicalID
<1> QED
  BY <1>1, <1>2, <1>3, <1>5

\* Numbers become texts and numbers again.
LEMMA SentAgain ==
  /\ IDs \subseteq Sendable
  /\ \A t \in Sendable : t.n \in Int /\ t = Itoa(t.n) /\ Atoi(t) = {t.n}
<1>1. IDs \subseteq Sendable
  BY DEF IDs, Sendable
<1>2. ASSUME NEW t \in Sendable
      PROVE  t.n \in Int /\ t = Itoa(t.n) /\ Atoi(t) = {t.n}
  <2>1. PICK n \in Int : t = Itoa(n)
    BY DEF Sendable
  <2>2. t.n = n /\ t.form = "plain"
    BY <2>1, IdText
  <2> QED
    BY <2>1, <2>2 DEF Atoi
<1> QED
  BY <1>1, <1>2

\* Validation keeps the allowed ids and makes a mapping's canonical.
LEMMA Validated ==
  ASSUME NEW c, c.allowed \subseteq Sendable, c.mapping \in Mappings, NEW d \in ValidateConfig(c)
  PROVE  Valid(d) /\ d.allowed = c.allowed
<1> DEFINE m == [i \in DOMAIN c.mapping |->
                    [product |-> CHOOSE t \in CanonicalID(c.mapping[i].product) : TRUE,
                     role |-> c.mapping[i].role]]
<1>1. d = [allowed |-> c.allowed, mapping |-> m] /\ ValidMapping(c.mapping)
  BY DEF ValidateConfig
<1>2. ASSUME NEW i \in DOMAIN c.mapping
      PROVE  m[i] \in [product : IDs, role : ValidRoles]
  <2>1. c.mapping[i] \in [product : Texts, role : ValidRoles \cup {"other"}]
    BY <1>2, Members DEF Mappings
  <2>2. c.mapping[i].role \in ValidRoles /\ CanonicalID(c.mapping[i].product) # {}
    BY <1>1, <1>2 DEF ValidMapping
  <2>3. (CHOOSE t \in CanonicalID(c.mapping[i].product) : TRUE) \in IDs
    BY <2>1, <2>2, CanonicalForm
  <2> QED
    BY <2>2, <2>3, <1>2
<1>3. DOMAIN c.mapping = 1 .. Len(c.mapping) /\ Len(c.mapping) \in Nat
  BY Members DEF Mappings
<1>4. m \in Seq([product : IDs, role : ValidRoles])
  <2>1. m \in [1 .. Len(c.mapping) -> [product : IDs, role : ValidRoles]]
    BY <1>2, <1>3
  <2> HIDE DEF m
  <2> QED
    BY <1>3, <2>1, Sequence
<1> QED
  BY <1>1, <1>4 DEF Valid

\* A valid configuration passes as it is.
LEMMA ValidPasses ==
  ASSUME NEW c, Valid(c)
  PROVE  ValidateConfig(c) = {c}
<1> DEFINE m == [i \in DOMAIN c.mapping |->
                    [product |-> CHOOSE t \in CanonicalID(c.mapping[i].product) : TRUE,
                     role |-> c.mapping[i].role]]
<1>1. ASSUME NEW i \in DOMAIN c.mapping
      PROVE  c.mapping[i] \in [product : IDs, role : ValidRoles]
  BY <1>1, Members DEF Valid
<1>2. ValidMapping(c.mapping)
  BY <1>1, CanonicalAgain DEF ValidMapping
<1>3. ASSUME NEW i \in DOMAIN c.mapping
      PROVE  m[i] = c.mapping[i]
  <2>1. (CHOOSE t \in CanonicalID(c.mapping[i].product) : TRUE) = c.mapping[i].product
    BY <1>1, <1>3, CanonicalAgain
  <2> QED
    BY <1>1, <1>3, <2>1
<1>4. m = c.mapping
  BY <1>3 DEF Valid
<1>5. ValidateConfig(c) = {[allowed |-> c.allowed, mapping |-> m]}
  BY <1>2 DEF ValidateConfig
<1> QED
  BY <1>4, <1>5 DEF Valid

\* A valid mapping may be sent.
LEMMA ValidSendable == ASSUME NEW c, Valid(c) PROVE c.mapping \in Mappings
<1>1. c.mapping \in Seq([product : IDs, role : ValidRoles])
  BY DEF Valid
<1> DEFINE R == [product : Texts, role : ValidRoles \cup {"other"}]
<1>2. \A i \in DOMAIN c.mapping : c.mapping[i] \in R
  <2>1. IDs \subseteq Texts
    BY CanonicalAgain
  <2>2. \A r \in [product : IDs, role : ValidRoles] : r \in R
    BY <2>1
  <2> QED
    BY <1>1, <2>2, Members
<1>3. c.mapping \in [1 .. Len(c.mapping) -> R]
  BY <1>1, <1>2, Members
<1> QED
  BY <1>1, <1>3, Members, Sequence DEF Mappings

\* What the host sends is valid, or refused.
LEMMA Loaded ==
  ASSUME NEW allowed \in HostAllowed, NEW mapping \in HostMappings,
         NEW d \in LoadConfig(allowed, mapping)
  PROVE  Valid(d)
<1> DEFINE ids == allowed \ {Blank}
<1> DEFINE c == [allowed |-> UNION {CanonicalID(t) : t \in ids}, mapping |-> mapping]
<1>1. d \in ValidateConfig(c)
  BY DEF LoadConfig
<1>2. \A t \in ids : CanonicalID(t) \subseteq IDs
  BY CanonicalForm, HostAssumption
<1>3. UNION {CanonicalID(t) : t \in ids} \subseteq IDs
  BY <1>2
<1>4. mapping \in Mappings
  BY HostAssumption DEF Mappings
<1> QED
  BY <1>1, <1>3, <1>4, SentAgain, Validated

\* The fields of a request put into a valid configuration.
LEMMA Fields ==
  ASSUME NEW c, Valid(c), NEW ids \in SentIDs, NEW sent \in SentMappings
  PROVE  /\ WithFields(c, ids, sent).allowed \subseteq Sendable
         /\ WithFields(c, ids, sent).mapping \in Mappings
<1>1. \A n \in UNION ids : Itoa(n) \in Sendable
  BY SentAssumption DEF Sendable
<1>2. WithFields(c, ids, sent).allowed \subseteq Sendable
  BY <1>1 DEF WithFields, Valid
<1>3. sent # {} => (CHOOSE m \in sent : TRUE) \in sent
  OBVIOUS
<1>4. WithFields(c, ids, sent).mapping \in Mappings
  BY <1>3, SentAssumption, ValidSendable DEF WithFields, Mappings
<1> QED
  BY <1>2, <1>4

\* What a PATCH makes of a valid configuration is valid, and has the ids that a
\* simulation with the same fields goes by.
LEMMA Patched ==
  ASSUME NEW c, Valid(c), NEW ids \in SentIDs, NEW sent \in SentMappings,
         NEW d \in PatchConfig(c, ids, sent)
  PROVE  Valid(d) /\ d.allowed = WithFields(c, ids, sent).allowed
  BY Fields, Validated DEF PatchConfig

\* Of the ids that went to the page as numbers, the positive ones come back as
\* the texts they were.
LEMMA SentBack ==
  ASSUME NEW c, Valid(c)
  PROVE  PatchConfig(c, {{n \in SummaryIDs(c) : n > 0}}, {c.mapping})
            = {[allowed |-> {t \in c.allowed : t.n > 0}, mapping |-> c.mapping]}
<1>1. \A t \in c.allowed : t.n \in Int /\ t = Itoa(t.n) /\ Atoi(t) = {t.n}
  BY SentAgain DEF Valid
<1> DEFINE shown == {n \in SummaryIDs(c) : n > 0}
           d == [allowed |-> {t \in c.allowed : t.n > 0}, mapping |-> c.mapping]
<1>2. \A n : n \in SummaryIDs(c) <=> \E t \in c.allowed : n = t.n
  BY <1>1 DEF SummaryIDs
<1>3. {Itoa(n) : n \in shown} = {t \in c.allowed : t.n > 0}
  BY <1>1, <1>2
<1>4. UNION {shown} = shown
  OBVIOUS
<1>5. (CHOOSE m \in {c.mapping} : TRUE) = c.mapping
  OBVIOUS
<1>6. WithFields(c, {shown}, {c.mapping}) = d
  <2> HIDE DEF shown
  <2>1. WithFields(c, {shown}, {c.mapping})
           = [allowed |-> {Itoa(n) : n \in shown}, mapping |-> c.mapping]
    BY <1>4, <1>5 DEF WithFields
  <2> QED
    BY <2>1, <1>3
<1>7. Valid(d)
  BY DEF Valid
<1> QED
  BY <1>6, <1>7, ValidPasses DEF PatchConfig

\* A login that owns products only does not miss the ids that are of none, if
\* some are left or there were none at all.
LEMMA SameLogins ==
  ASSUME NEW c, Valid(c), c.allowed = {} \/ \E t \in c.allowed : t.n > 0,
         NEW list \in Readable
  PROVE  LoginVerdict([allowed |-> {t \in c.allowed : t.n > 0}, mapping |-> c.mapping], list)
            = LoginVerdict(c, list)
<1> DEFINE d == [allowed |-> {t \in c.allowed : t.n > 0}, mapping |-> c.mapping]
           owned == IF c.allowed = {} /\ c.mapping = <<>> THEN {} ELSE OwnedActive(list)
<1>1. d.allowed = {t \in c.allowed : t.n > 0} /\ d.mapping = c.mapping
  OBVIOUS
<1>2. d.allowed = {} <=> c.allowed = {}
  BY <1>1
<1>3. \A id \in OwnedActive(list) : id.n > 0
  <2>1. \A i \in DOMAIN list : list[i].pid > 0
    BY DEF Readable
  <2> QED
    BY <2>1, IdText DEF OwnedActive, ActiveProductIDs, ToSet
<1>4. d.allowed \cap owned = c.allowed \cap owned
  BY <1>1, <1>3
<1> HIDE DEF d
<1>5. Gate(d.allowed, owned) = Gate(c.allowed, owned)
  BY <1>2, <1>4 DEF Gate, AnyMatch
<1>6. owned = IF d.allowed = {} /\ d.mapping = <<>> THEN {} ELSE OwnedActive(list)
  BY <1>1, <1>2
<1>7. LoginVerdict(c, list)
         = [allowed |-> Gate(c.allowed, owned),
            role |-> IF owned = {} THEN "absent" ELSE RoleFromProducts(owned, ToSet(c.mapping))]
  BY DEF LoginVerdict
<1> HIDE DEF owned
<1>8. LoginVerdict(d, list)
         = [allowed |-> Gate(d.allowed, owned),
            role |-> IF owned = {} THEN "absent" ELSE RoleFromProducts(owned, ToSet(d.mapping))]
  BY <1>6 DEF LoginVerdict
<1>9. LoginVerdict(d, list) = LoginVerdict(c, list)
  BY <1>1, <1>5, <1>7, <1>8
<1> QED
  BY <1>9 DEF d

-----------------------------------------------------------------------------
(* What WHMCS wrote and what is read                                        *)

\* The kinds of JSON values are told apart.
LEMMA Kinds ==
  /\ \A kinds : /\ Is(Absent, kinds) <=> "absent" \in kinds
                /\ Is(Null, kinds) <=> "null" \in kinds
  /\ \A x, kinds : /\ Is(Num(x), kinds) <=> "int" \in kinds
                   /\ Is(Str(x), kinds) <=> "str" \in kinds
                   /\ Is(List(x), kinds) <=> "list" \in kinds
                   /\ Is(Obj(x), kinds) <=> "obj" \in kinds
<1>1. /\ DOMAIN Absent = {"absent"}
      /\ DOMAIN Null = {"null"}
  BY DEF Absent, Null
<1>2. \A x : /\ DOMAIN Num(x) = {"int"}
             /\ DOMAIN Str(x) = {"str"}
             /\ DOMAIN List(x) = {"list"}
             /\ DOMAIN Obj(x) = {"obj"}
  BY DEF Num, Str, List, Obj
<1> QED
  BY <1>1, <1>2 DEF Is

LEMMA Values ==
  \A x : Num(x).int = x /\ Str(x).str = x /\ List(x).list = x /\ Obj(x).obj = x
  BY DEF Num, Str, List, Obj

\* WHMCS writes an id so that it is read as it was, or not at all.
LEMMA PidsRead ==
  ASSUME NEW n \in Nat, NEW p \in PidForms(n), NEW k \in ParseRequiredPositiveInt(p)
  PROVE  k = n /\ ParseRequiredPositiveInt(p) = {n}
<1>1. k \in ParseOptionalInt(p) /\ k > 0
  BY DEF ParseRequiredPositiveInt
<1>2. CASE n > 0
  <2>1. CASE p = Num(n)
    <3>1. ParseOptionalInt(p) = {n}
      BY <2>1, Kinds, Values DEF ParseOptionalInt, Missing
    <3> QED
      BY <1>2, <3>1 DEF ParseRequiredPositiveInt
  <2>2. ASSUME NEW form \in {"plain", "blanks"}, p = Str(Decimal(n, form))
        PROVE  k = n /\ ParseRequiredPositiveInt(p) = {n}
    <3>1. TrimSpace(Decimal(n, form)) = Itoa(n)
      BY <2>2 DEF TrimSpace, Itoa, Decimal
    <3>2. Atoi(Itoa(n)) = {n}
      BY DEF Atoi, Itoa, Decimal
    <3>3. Decimal(n, form).form # "blank"
      BY <2>2 DEF Decimal
    <3>4. ParseOptionalInt(p) = {n}
      BY <2>2, <3>1, <3>2, <3>3, Kinds, Values DEF ParseOptionalInt, Missing
    <3> QED
      BY <1>2, <3>4 DEF ParseRequiredPositiveInt
  <2> QED
    BY <1>2, <2>1, <2>2 DEF PidForms, Itoa
<1>3. CASE ~(n > 0)
  <2>1. CASE p = Absent
    BY <1>1, <2>1, Kinds DEF ParseOptionalInt, Missing
  <2>2. CASE p = Num(0)
    BY <1>1, <2>2, Kinds, Values DEF ParseOptionalInt, Missing
  <2>3. CASE p = Str(Junk)
    <3>1. Atoi(TrimSpace(Junk)) = {} /\ Junk.form # "blank"
      BY DEF Junk, Decimal, TrimSpace, Atoi
    <3>2. ParseOptionalInt(p) = {}
      BY <2>3, <3>1, Kinds, Values DEF ParseOptionalInt, Missing
    <3> QED
      BY <1>1, <3>2
  <2> QED
    BY <1>3, <2>1, <2>2, <2>3 DEF PidForms
<1> QED
  BY <1>2, <1>3

\* A row that is read at all is read as it was.
LEMMA RowsRead ==
  ASSUME NEW row \in [pid : Nat, status : ProductStatuses], NEW e \in Entries(row)
  PROVE  /\ Is(e, {"obj"}) /\ ~Missing(e) /\ IsRawProduct(e) /\ RawProduct(e) = e.obj
         /\ HasPid(e) => ToClientProduct(RawProduct(e)) = row
<1>1. PICK p \in PidForms(row.pid), t \in StatusForms(row.status) :
         e = Obj([pid |-> p, status |-> t])
  BY DEF Entries
<1>2. e.obj.pid = p /\ e.obj.status = t
  BY <1>1, Values
<1>3. \/ Missing(t) /\ row.status = "missing"
      \/ Is(t, {"str"}) /\ ~Missing(t) /\ t.str = row.status
  BY Kinds, Values DEF StatusForms, Missing
<1>4. Is(t, {"absent", "null", "str"})
  BY Kinds DEF StatusForms
<1>5. Is(e, {"obj"}) /\ ~Is(e, {"null"}) /\ ~Missing(e)
  BY <1>1, Kinds DEF Missing
<1>6. IsRawProduct(e) /\ RawProduct(e) = e.obj
  BY <1>2, <1>4, <1>5 DEF IsRawProduct, RawProduct
<1>7. ASSUME HasPid(e) PROVE ToClientProduct(e.obj) = row
  <2>1. ParseRequiredPositiveInt(p) = {row.pid}
    BY <1>2, <1>6, <1>7, PidsRead DEF HasPid
  <2>2. ToClientProduct(e.obj) = [pid |-> row.pid, status |-> row.status]
    BY <1>2, <1>3, <2>1 DEF ToClientProduct
  <2> QED
    BY <2>2
<1> QED
  BY <1>5, <1>6, <1>7

\* However WHMCS writes a list, the entries that are found in it are its own.
LEMMA EntriesFound ==
  ASSUME NEW list \in ProductLists, NEW answer \in ProductAnswers(list),
         NEW es \in ExtractProductArray(answer)
  PROVE  DOMAIN es = DOMAIN list /\ \A i \in DOMAIN list : es[i] \in Entries(list[i])
<1> DEFINE Product(v) == Obj([product |-> v])
           Lists == {ls \in [DOMAIN list -> UNION {Entries(list[i]) : i \in DOMAIN list}] :
                        \A i \in DOMAIN list : ls[i] \in Entries(list[i])}
<1>1. /\ DOMAIN list = 1 .. Len(list) /\ Len(list) \in Nat
      /\ \A i \in DOMAIN list : list[i] \in [pid : Nat, status : ProductStatuses]
  BY ListsAssumption, Members
<1>2. \A v : ExtractProductArray(Product(v)) = ProductEntries(v)
  BY Kinds, Values DEF ExtractProductArray, Missing, Obj, List
<1>3. ASSUME NEW ls \in Lists, answer = Product(List(ls))
      PROVE  es = ls
  <2>1. es \in ProductEntries(List(ls))
    BY <1>2, <1>3
  <2>2. Is(List(ls), {"list"}) /\ ~Missing(List(ls)) /\ List(ls).list = ls
    BY Kinds, Values DEF Missing
  <2> QED
    BY <2>1, <2>2 DEF ProductEntries
<1>4. ASSUME Len(list) = 1, NEW e \in Entries(list[1]), answer = Product(e)
      PROVE  es = <<e>>
  <2>1. Is(e, {"obj"}) /\ ~Missing(e)
    BY <1>1, <1>4, RowsRead
  <2>2. PICK p \in PidForms(list[1].pid), t \in StatusForms(list[1].status) :
           e = Obj([pid |-> p, status |-> t])
    BY <1>4 DEF Entries
  <2>3. ~Is(e, {"list"}) /\ es \in ProductEntries(e)
    BY <1>2, <1>4, <2>2, Kinds
  <2> QED
    BY <2>1, <2>3 DEF ProductEntries
<1>5. ASSUME list = <<>>, answer \in {Absent, Null, Str(Blank), List(<<>>), Product(Absent)}
      PROVE  es = <<>>
  <2>1. CASE answer = Product(Absent)
    <3>1. es \in ProductEntries(Absent) /\ Missing(Absent) /\ ~Is(Absent, {"list"})
      BY <1>2, <2>1, Kinds DEF Missing
    <3> QED
      BY <3>1 DEF ProductEntries
  <2>2. CASE answer \in {Absent, Null, Str(Blank), List(<<>>)}
    BY <2>2, Kinds DEF ExtractProductArray, Missing
  <2> QED
    BY <1>5, <2>1, <2>2
<1>6. \/ \E ls \in Lists : answer = Product(List(ls))
      \/ Len(list) = 1 /\ \E e \in Entries(list[1]) : answer = Product(e)
      \/ list = <<>> /\ answer \in {Absent, Null, Str(Blank), List(<<>>), Product(Absent)}
  BY DEF ProductAnswers
<1>7. CASE \E ls \in Lists : answer = Product(List(ls))
  BY <1>3, <1>7
<1>8. CASE Len(list) = 1 /\ \E e \in Entries(list[1]) : answer = Product(e)
  <2>1. PICK e \in Entries(list[1]) : es = <<e>>
    BY <1>4, <1>8
  <2> QED
    BY <1>1, <1>8, <2>1
<1>9. CASE list = <<>> /\ answer \in {Absent, Null, Str(Blank), List(<<>>), Product(Absent)}
  BY <1>5, <1>9
<1> QED
  BY <1>6, <1>7, <1>8, <1>9

\* However WHMCS writes a list, all of it is read, in order, or none.
LEMMA ReadsBack ==
  ASSUME NEW list \in ProductLists, NEW answer \in ProductAnswers(list),
         NEW r \in ClientProducts(answer)
  PROVE  r = list
<1>1. PICK es \in ExtractProductArray(answer) :
         /\ \A i \in DOMAIN es : HasPid(es[i])
         /\ r = [i \in DOMAIN es |-> ToClientProduct(RawProduct(es[i]))]
  BY DEF ClientProducts
<1>2. DOMAIN es = DOMAIN list /\ \A i \in DOMAIN list : es[i] \in Entries(list[i])
  BY <1>1, EntriesFound
<1>3. \A i \in DOMAIN list : list[i] \in [pid : Nat, status : ProductStatuses]
  BY ListsAssumption, Members
<1>4. \A i \in DOMAIN list : ToClientProduct(RawProduct(es[i])) = list[i]
  BY <1>1, <1>2, <1>3, RowsRead
<1>5. list = [i \in DOMAIN list |-> list[i]]
  BY ListsAssumption
<1> QED
  BY <1>1, <1>2, <1>4, <1>5

\* A row of a client is the client's.
LEMMA ClientRead ==
  ASSUME NEW r \in ClientForms
  PROVE  /\ Is(r, {"obj"}) /\ ~Is(r, {"list"}) /\ ~Missing(r)
         /\ \E c \in Clients : r.obj.email = EmailOf[c] /\ RawToString(r.obj.id) = c
<1>1. PICK c \in Clients : \E v \in {Num(c), Str(c)} : r = Obj([id |-> v, email |-> EmailOf[c]])
  BY DEF ClientForms
<1>2. PICK v \in {Num(c), Str(c)} : r = Obj([id |-> v, email |-> EmailOf[c]])
  BY <1>1
<1>3. r.obj.id = v /\ r.obj.email = EmailOf[c]
  BY <1>2, Values
<1>4. RawToString(v) = c
  BY Kinds, Values DEF RawToString, Missing
<1>5. Is(r, {"obj"}) /\ ~Is(r, {"list"}) /\ ~Missing(r)
  BY <1>2, Kinds DEF Missing
<1> QED
  BY <1>3, <1>4, <1>5

\* However WHMCS writes the clients it found, they are read as rows of clients.
LEMMA ClientsRead ==
  ASSUME NEW answer \in ClientAnswers, NEW rs \in ClientRows(answer)
  PROVE  rs \in Seq(ClientForms) /\ ClientRows(answer) = {rs}
<1> DEFINE Client(v) == Obj([client |-> v])
<1>1. \A v : ClientRows(Client(v)) = ClientEntries(v)
  BY Kinds, Values DEF ClientRows, Missing, Obj
<1>2. ASSUME NEW r \in ClientForms, answer = Client(r)
      PROVE  rs \in Seq(ClientForms) /\ ClientRows(answer) = {rs}
  <2>1. ClientRows(answer) = ClientEntries(r)
    BY <1>1, <1>2
  <2>2. Is(r, {"obj"}) /\ ~Is(r, {"list"}) /\ ~Missing(r)
    BY <1>2, ClientRead
  <2>3. ClientEntries(r) = {<<r>>}
    BY <2>2 DEF ClientEntries
  <2>4. <<r>> \in Seq(ClientForms)
    BY <1>2
  <2> QED
    BY <2>1, <2>3, <2>4
<1>3. ASSUME NEW s \in Seq(ClientForms), answer = Client(List(s))
      PROVE  rs \in Seq(ClientForms) /\ ClientRows(answer) = {rs}
  <2>1. ClientRows(answer) = ClientEntries(List(s))
    BY <1>1, <1>3
  <2>2. Is(List(s), {"list"}) /\ ~Is(List(s), {"obj"}) /\ ~Missing(List(s)) /\ List(s).list = s
    BY Kinds, Values DEF Missing
  <2>3. ClientEntries(List(s)) = {s} \/ ClientEntries(List(s)) = {}
    BY <2>2 DEF ClientEntries
  <2> QED
    BY <1>3, <2>1, <2>3
<1>4. ASSUME answer \in {Absent, Str(Blank)}
      PROVE  rs \in Seq(ClientForms) /\ ClientRows(answer) = {rs}
  <2>1. ClientRows(answer) = {<<>>} \/ ClientRows(answer) = {}
    BY <1>4, Kinds DEF ClientRows, Missing
  <2>2. <<>> \in Seq(ClientForms)
    OBVIOUS
  <2> QED
    BY <2>1, <2>2
<1>5. \/ answer \in {Absent, Str(Blank)}
      \/ \E r \in ClientForms : answer = Client(r)
      \/ \E s \in Seq(ClientForms) : answer = Client(List(s))
  <2> DEFINE Found == UNION {[1 .. n -> ClientForms] : n \in 0 .. MaxFound}
  <2>1. \A s \in Found : s \in Seq(ClientForms)
    BY MaxFoundAssumption, Sequence
  <2>2. answer \in {Absent, Str(Blank)} \cup {Client(r) : r \in ClientForms}
                     \cup {Client(List(s)) : s \in Found}
    BY DEF ClientAnswers
  <2> HIDE DEF Client, Found
  <2> QED
    BY <2>1, <2>2
<1> QED
  BY <1>2, <1>3, <1>4, <1>5

\* Whomever WHMCS finds, the one that is taken has the address.
LEMMA OwnClient ==
  ASSUME NEW answer \in ClientAnswers, NEW address, NEW c \in FindClient(answer, address)
  PROVE  /\ FindClient(answer, address) = {c}
         /\ c = NoClient \/ (c \in Clients /\ EmailOf[c] = address)
<1>1. PICK rs \in ClientRows(answer) :
         c = IF MatchingRows(rs, address) = {} THEN NoClient
             ELSE RawToString(rs[Min(MatchingRows(rs, address))].obj.id)
  BY DEF FindClient
<1>2. rs \in Seq(ClientForms) /\ ClientRows(answer) = {rs}
  BY ClientsRead
<1>3. FindClient(answer, address) = {c}
  BY <1>1, <1>2 DEF FindClient
<1>4. ASSUME MatchingRows(rs, address) # {}
      PROVE  c \in Clients /\ EmailOf[c] = address
  <2> DEFINE i == Min(MatchingRows(rs, address))
  <2>1. MatchingRows(rs, address) \subseteq DOMAIN rs /\ DOMAIN rs \subseteq Nat
    BY <1>2, Members DEF MatchingRows
  <2>2. i \in MatchingRows(rs, address)
    BY <1>4, <2>1, Least
  <2>3. i \in DOMAIN rs /\ rs[i].obj.email = address
    BY <2>2 DEF MatchingRows
  <2>4. rs[i] \in ClientForms
    BY <1>2, <2>3, Members
  <2>5. c = RawToString(rs[i].obj.id)
    BY <1>1, <1>4
  <2> HIDE DEF i
  <2> QED
    BY <2>3, <2>4, <2>5, ClientRead
<1> QED
  BY <1>1, <1>3, <1>4

-----------------------------------------------------------------------------
(* Paths and verdicts                                                       *)

\* From every page, its base leads back to the mount.
LEMMA AssetsResolve ==
  ASSUME NEW path \in Paths
  PROVE  AssetURL(path, ComputeBaseHref(path)) = Mount \o <<"assets", "bundle">>
<1> DEFINE dir == Mount \o Front(path)
           up == Len(path) - 1
<1>1. path \in Seq(STRING) /\ Len(path) \in Nat \ {0}
  BY PathsAssumption, EmptySeq
<1>2. Front(path) \in Seq(STRING) /\ Len(Front(path)) = up
  <2>1. Front(path) = SubSeq(path, 1, Len(path) - 1)
    BY DEF Front
  <2>2. Len(path) - 1 \in 0 .. Len(path)
    BY <1>1
  <2>3. \A k \in 0 .. Len(path) : /\ SubSeq(path, 1, k) \in Seq(STRING)
                                   /\ Len(SubSeq(path, 1, k)) = k
    BY <1>1, Prefix
  <2> QED
    BY <2>1, <2>2, <2>3
<1>3. Mount \in Seq(STRING) /\ Len(Mount) \in Nat
  BY MountAssumption
<1>4. dir \in Seq(STRING) /\ Len(dir) = Len(Mount) + up
  BY <1>2, <1>3
<1>5. CASE up >= Len(dir)
  <2>1. Mount = <<>>
    BY <1>1, <1>3, <1>4, <1>5, EmptySeq
  <2> QED
    BY <1>5, <2>1 DEF AssetURL, ComputeBaseHref
<1>6. CASE ~(up >= Len(dir))
  <2>1. SubSeq(dir, 1, Len(dir) - up) = SubSeq(Mount, 1, Len(Mount))
    BY <1>1, <1>2, <1>3, <1>4, SubSeqOfConcat1
  <2>2. SubSeq(Mount, 1, Len(Mount)) = Mount
    BY <1>3, SubSeqFull
  <2> QED
    BY <1>6, <2>1, <2>2 DEF AssetURL, ComputeBaseHref
<1> QED
  BY <1>5, <1>6

\* What is shown as allowed is what a login would be: whatever the mappings.
LEMMA PreviewDecides ==
  ASSUME NEW r, NEW c, NEW list, NEW ok, c.allowed = r.allowed
  PROVE  /\ Preview(r, list, ok).allowed = LoginVerdict(c, list).allowed
         /\ c.mapping = r.mapping =>
               \/ Preview(r, list, ok).role = LoginVerdict(c, list).role
               \/ /\ Preview(r, list, ok).role = "user"
                  /\ LoginVerdict(c, list).role = "absent"
<1> DEFINE all == OwnedActive(list)
           owned == IF c.allowed = {} /\ c.mapping = <<>> THEN {} ELSE all
           role == IF owned = {} THEN "absent" ELSE RoleFromProducts(owned, ToSet(c.mapping))
           shown == IF all = {} THEN "user" ELSE RoleFromProducts(all, ToSet(r.mapping))
<1>1. LoginVerdict(c, list) = [allowed |-> Gate(c.allowed, owned), role |-> role]
  BY DEF LoginVerdict
<1>2. /\ Preview(r, list, ok).allowed = Gate(r.allowed, all)
      /\ Preview(r, list, ok).role = shown
  BY DEF Preview
<1>3. Gate(r.allowed, all) <=> Gate(c.allowed, owned)
  <2> HIDE DEF all
  <2> QED
    BY DEF Gate
<1>4. ASSUME c.mapping = r.mapping
      PROVE  shown = role \/ (shown = "user" /\ role = "absent")
  <2>1. CASE owned = all
    BY <1>4, <2>1
  <2>2. CASE owned = {} /\ c.mapping = <<>>
    <3>1. RoleFromProducts(all, ToSet(r.mapping)) = "user"
      BY <1>4, <2>2 DEF RoleFromProducts, ToSet
    <3> QED
      BY <2>2, <3>1
  <2> QED
    BY <2>1, <2>2
<1>5. LoginVerdict(c, list).allowed = Gate(c.allowed, owned)
  BY <1>1
<1>6. LoginVerdict(c, list).role = role
  BY <1>1
<1> HIDE DEF all, owned, role, shown
<1>7. Preview(r, list, ok).allowed = LoginVerdict(c, list).allowed
  <2>1. Gate(r.allowed, all) = Gate(c.allowed, owned)
    BY <1>3 DEF Gate
  <2> QED
    BY <1>2, <1>5, <2>1
<1> QED
  BY <1>2, <1>4, <1>6, <1>7

\* The role a row shows is that of a mapping of its product, if there is any.
LEMMA Hit ==
  ASSUME NEW pid, NEW mapping \in Mappings
  PROVE  \/ /\ RoleHit(pid, mapping) = "absent"
            /\ \A m \in ToSet(mapping) : m.product = Itoa(pid) => m.role \notin ValidRoles
         \/ \E m \in ToSet(mapping) : /\ m.product = Itoa(pid)
                                      /\ m.role = RoleHit(pid, mapping)
                                      /\ m.role \in ValidRoles
<1> DEFINE hits == {i \in DOMAIN mapping : /\ mapping[i].product = Itoa(pid)
                                           /\ mapping[i].role \in ValidRoles}
<1>1. RoleHit(pid, mapping) = IF hits = {} THEN "absent" ELSE mapping[Min(hits)].role
  BY DEF RoleHit
<1>2. CASE hits = {}
  BY <1>1, <1>2 DEF ToSet
<1>3. CASE hits # {}
  <2>1. hits \in SUBSET Nat
    BY Members DEF Mappings
  <2>2. Min(hits) \in hits
    BY <1>3, <2>1, Least
  <2>3. mapping[Min(hits)] \in ToSet(mapping)
    BY <2>2 DEF ToSet
  <2> QED
    BY <1>1, <1>3, <2>2, <2>3
<1> QED
  BY <1>2, <1>3

\* What is owned are the ids of the active rows.
LEMMA Owned ==
  ASSUME NEW list, NEW id
  PROVE  id \in OwnedActive(list) <=>
            \E i \in DOMAIN list : id = Itoa(list[i].pid) /\ ActiveProductIDs({list[i]}) # {}
  BY DEF OwnedActive, ActiveProductIDs, ToSet

\* The verdict and the table follow from one another.
LEMMA TableAgrees ==
  ASSUME NEW r, r.mapping \in Mappings, NEW list, NEW ok
  PROVE  LET verdict == Preview(r, list, ok)
             table == ToSet(verdict.table)
         IN  /\ verdict.allowed = (r.allowed = {} \/ \E row \in table : row.allowed)
             /\ (\E row \in table : row.roleHit = "admin") => verdict.role = "admin"
             /\ verdict.role = "admin" => \E row \in table : row.roleHit # "absent"
<1> DEFINE owned == OwnedActive(list)
           table == [i \in DOMAIN list |-> TableRow(r, list[i])]
           active(i) == ActiveProductIDs({list[i]}) # {}
           role == IF owned = {} THEN "user" ELSE RoleFromProducts(owned, ToSet(r.mapping))
<1>1. /\ Preview(r, list, ok).allowed = Gate(r.allowed, owned)
      /\ Preview(r, list, ok).role = role
      /\ Preview(r, list, ok).table = table
  BY DEF Preview
<1>2. ASSUME NEW i \in DOMAIN list
      PROVE  /\ TableRow(r, list[i]).allowed <=> (active(i) /\ Itoa(list[i].pid) \in r.allowed)
             /\ TableRow(r, list[i]).roleHit
                   = IF active(i) THEN RoleHit(list[i].pid, r.mapping) ELSE "absent"
  BY DEF TableRow
<1>3. ToSet(table) = {TableRow(r, list[i]) : i \in DOMAIN list}
  BY DEF ToSet
<1>4. \A id : id \in owned <=> \E i \in DOMAIN list : id = Itoa(list[i].pid) /\ active(i)
  BY Owned
<1> HIDE DEF owned, table, active, role
<1>5. Gate(r.allowed, owned) <=> (r.allowed = {} \/ \E row \in ToSet(table) : row.allowed)
  <2>1. (\E row \in ToSet(table) : row.allowed)
           <=> \E i \in DOMAIN list : active(i) /\ Itoa(list[i].pid) \in r.allowed
    BY <1>2, <1>3
  <2>2. r.allowed \cap owned # {}
           <=> \E i \in DOMAIN list : active(i) /\ Itoa(list[i].pid) \in r.allowed
    BY <1>4
  <2> QED
    BY <2>1, <2>2 DEF Gate, AnyMatch
<1>6. ASSUME NEW i \in DOMAIN list, TableRow(r, list[i]).roleHit = "admin"
      PROVE  role = "admin"
  <2>1. active(i) /\ RoleHit(list[i].pid, r.mapping) = "admin"
    BY <1>2, <1>6
  <2>2. PICK m \in ToSet(r.mapping) : m.product = Itoa(list[i].pid) /\ m.role = "admin"
    BY <2>1, Hit
  <2>3. m.product \in owned
    BY <1>4, <2>1, <2>2
  <2> QED
    BY <2>2, <2>3 DEF role, RoleFromProducts
<1>7. ASSUME role = "admin"
      PROVE  \E i \in DOMAIN list : TableRow(r, list[i]).roleHit # "absent"
  <2>1. PICK m \in ToSet(r.mapping) : m.role = "admin" /\ m.product \in owned
    BY <1>7 DEF role, RoleFromProducts
  <2>2. PICK i \in DOMAIN list : m.product = Itoa(list[i].pid) /\ active(i)
    BY <1>4, <2>1
  <2>3. RoleHit(list[i].pid, r.mapping) \in ValidRoles
    BY <2>1, <2>2, Hit DEF ValidRoles
  <2> QED
    BY <1>2, <2>2, <2>3 DEF ValidRoles
<1>8. (\E row \in ToSet(table) : row.roleHit = "admin") => role = "admin"
  BY <1>3, <1>6
<1>9. role = "admin" => \E row \in ToSet(table) : row.roleHit # "absent"
  BY <1>3, <1>7
<1>10. Gate(r.allowed, owned) = (r.allowed = {} \/ \E row \in ToSet(table) : row.allowed)
  BY <1>5 DEF Gate
<1> QED
  BY <1>1, <1>8, <1>9, <1>10

-----------------------------------------------------------------------------
(* The invariant                                                            *)

LiveInv == Valid(live)

TypeInv ==
    /\ handler \in BOOLEAN
    /\ upstream \in [Clients -> ProductLists]
    /\ pc \in {"idle", "email", "products", "details", "replied"}
    /\ email \in Emails \cup {NoEmail}
    /\ client \in Clients \cup {NoClient}
    /\ seen \subseteq ProductLists

\* What is known while simulate-login runs.
RequestInv ==
    /\ rules.mapping \in Mappings
    /\ \A c \in saved : c.allowed = rules.allowed
    /\ pc \in {"products", "details"} => client \in Clients
    /\ pc = "products" => upstream[client] \in seen
    /\ NothingDropped
    /\ OwnClientOnly

\* What a reply that is on its way says.
ReplyInv ==
    /\ reply.kind = "summary" => /\ Valid(reply.of)
                                 /\ reply.ids = SummaryIDs(reply.of)
                                 /\ reply.mapping = reply.of.mapping
    /\ reply.kind = "verdict" => /\ pc = "replied" /\ rows \in seen
                                 /\ reply = Preview(rules, rows, reply.details)
    /\ reply.kind = "page" => reply.path \in Paths /\ reply.up = ComputeBaseHref(reply.path)
    /\ reply.kind = "asset" => reply.found

Inv == LiveInv /\ TypeInv /\ RequestInv /\ ReplyInv

\* A preview is a verdict and keeps what it says of the details.
LEMMA PreviewKind ==
  ASSUME NEW c, NEW list, NEW ok
  PROVE  Preview(c, list, ok).kind = "verdict" /\ Preview(c, list, ok).details = ok
  BY DEF Preview

\* At first nothing is configured or asked.
LEMMA Starts == Init => Inv
<1> SUFFICES ASSUME Init PROVE Inv
  OBVIOUS
<1>1. LiveInv
  <2>1. NoRules \in [allowed : SUBSET Sendable, mapping : Seq([product : IDs, role : ValidRoles])]
    BY DEF NoRules
  <2> QED
    BY <2>1 DEF Init, LiveInv, Valid
<1>2. TypeInv
  BY DEF Init, TypeInv
<1>3. RequestInv
  <2>1. NoRules.mapping \in Mappings
    BY DEF NoRules, Mappings
  <2> QED
    BY <2>1 DEF Init, RequestInv, NothingDropped, OwnClientOnly
<1>4. ReplyInv
  BY DEF Init, ReplyInv, NoReply
<1> QED
  BY <1>1, <1>2, <1>3, <1>4 DEF Inv

\* A reply that says nothing but its kind and a status or a reason keeps the
\* invariant, whatever it is given for.
LEMMA PlainReply ==
  ASSUME Inv, reply'.kind \in {"status", "failed"}, pc' = "replied",
         UNCHANGED <<handler, upstream, email, rules, client, rows, saved, seen>>,
         Valid(live')
  PROVE  Inv'
<1>1. LiveInv' /\ TypeInv'
  BY DEF Inv, LiveInv, TypeInv
<1>2. RequestInv'
  BY DEF Inv, RequestInv, NothingDropped, OwnClientOnly
<1>3. ReplyInv'
  BY DEF ReplyInv
<1> QED
  BY <1>1, <1>2, <1>3 DEF Inv

\* WHMCS may change what a client owns at any moment: what the running
\* simulation may still read is kept in `seen`.
LEMMA Changes ==
  ASSUME Inv, NEW c \in Clients, NEW list \in ProductLists, WhmcsChange(c, list)
  PROVE  Inv'
<1> USE DEF WhmcsChange
<1>1. LiveInv'
  BY DEF Inv, LiveInv
<1>2. TypeInv'
  BY DEF Inv, TypeInv
<1>3. RequestInv'
  <2>1. seen \subseteq seen'
    OBVIOUS
  <2>2. pc = "products" => upstream'[client] \in seen'
    <3>1. CASE c = client
      BY <3>1 DEF Inv, TypeInv
    <3>2. CASE c # client
      BY <2>1, <3>2 DEF Inv, RequestInv, TypeInv
    <3> QED
      BY <3>1, <3>2
  <2> QED
    BY <2>1, <2>2 DEF Inv, RequestInv, NothingDropped, OwnClientOnly
<1>4. ReplyInv'
  BY DEF Inv, ReplyInv
<1> QED
  BY <1>1, <1>2, <1>3, <1>4 DEF Inv

\* What the host or a PATCH makes live is valid.
LEMMA Configures ==
  ASSUME Inv, NEW allowed \in HostAllowed, NEW mapping \in HostMappings,
         Configure(allowed, mapping)
  PROVE  Inv'
<1> USE DEF Configure, request
<1>1. LiveInv'
  BY Loaded DEF LiveInv
<1>2. TypeInv'
  BY DEF Inv, TypeInv
<1>3. RequestInv'
  BY DEF Inv, RequestInv, NothingDropped, OwnClientOnly
<1>4. ReplyInv'
  BY DEF Inv, ReplyInv
<1> QED
  BY <1>1, <1>2, <1>3, <1>4 DEF Inv

\* The requests that are answered in one step.
LEMMA Answers ==
  ASSUME Inv, \/ NotReady \/ Forbidden \/ ConfigSummary \/ Asset
              \/ \E ids \in SentIDs, mapping \in SentMappings : UpdateConfig(ids, mapping)
              \/ \E path \in Paths : Page(path)
  PROVE  Inv'
<1>1. CASE NotReady \/ Forbidden
  BY <1>1, PlainReply DEF NotReady, Forbidden, Respond, Inv, LiveInv
<1>2. ASSUME NEW ids \in SentIDs, NEW mapping \in SentMappings, UpdateConfig(ids, mapping)
      PROVE  Inv'
  <2>1. Valid(live')
    BY <1>2, Patched DEF UpdateConfig, Inv, LiveInv
  <2> QED
    BY <1>2, <2>1, PlainReply DEF UpdateConfig, Respond
<1>3. ASSUME reply'.kind \in {"summary", "page", "asset"}, pc' = "replied", ReplyInv',
             UNCHANGED <<handler, live, upstream, email, rules, client, rows, saved, seen>>
      PROVE  Inv'
  <2>1. LiveInv' /\ TypeInv'
    BY <1>3 DEF Inv, LiveInv, TypeInv
  <2>2. RequestInv'
    BY <1>3 DEF Inv, RequestInv, NothingDropped, OwnClientOnly
  <2> QED
    BY <1>3, <2>1, <2>2 DEF Inv
<1>4. CASE ConfigSummary
  <2>1. ReplyInv'
    BY <1>4 DEF ConfigSummary, Respond, ReplyInv, Inv, LiveInv
  <2> QED
    BY <1>3, <1>4, <2>1 DEF ConfigSummary, Respond
<1>5. ASSUME NEW path \in Paths, Page(path)
      PROVE  Inv'
  <2>1. ReplyInv'
    BY <1>5 DEF Page, Respond, ReplyInv
  <2> QED
    BY <1>3, <1>5, <2>1 DEF Page, Respond
<1>6. CASE Asset
  <2>1. AssetURL(reply.path, reply.up) = Mount \o <<"assets", "bundle">>
    BY <1>6, AssetsResolve DEF Asset, Inv, ReplyInv
  <2>2. ReplyInv'
    BY <1>6, <2>1 DEF Asset, Respond, ReplyInv
  <2> QED
    BY <1>3, <1>6, <2>2 DEF Asset, Respond
<1> QED
  BY <1>1, <1>2, <1>4, <1>5, <1>6

\* With the reply, all that was known for it goes.
LEMMA Receives == ASSUME Inv, Receive PROVE Inv'
<1> USE DEF Receive
<1>1. LiveInv' /\ TypeInv'
  BY DEF Inv, LiveInv, TypeInv
<1>2. RequestInv'
  <2>1. NoRules.mapping \in Mappings
    BY DEF NoRules, Mappings
  <2> QED
    BY <2>1 DEF RequestInv, NothingDropped, OwnClientOnly
<1>3. ReplyInv'
  BY DEF ReplyInv, NoReply
<1> QED
  BY <1>1, <1>2, <1>3 DEF Inv

\* The rules of a simulation are the live ones, with the request's fields.
LEMMA Simulates ==
  ASSUME Inv, NEW address \in Emails \cup {NoEmail}, NEW id \in Clients \cup {NoClient},
         NEW ids \in SentIDs, NEW mapping \in SentMappings,
         Simulate(address, id, ids, mapping)
  PROVE  Inv'
<1> USE DEF Simulate
<1>1. LiveInv' /\ Valid(live)
  BY DEF Inv, LiveInv
<1>2. CASE address # NoEmail
  <2>1. TypeInv'
    BY <1>2 DEF Inv, TypeInv
  <2>2. RequestInv'
    BY <1>1, <1>2, Fields, Patched DEF RequestInv, NothingDropped, OwnClientOnly
  <2>3. ReplyInv'
    BY <1>2 DEF Inv, ReplyInv
  <2> QED
    BY <1>1, <2>1, <2>2, <2>3 DEF Inv
<1>3. CASE address = NoEmail
  <2>1. id \in Clients
    BY <1>3
  <2>2. TypeInv'
    BY <1>3, <2>1 DEF Inv, TypeInv
  <2>3. RequestInv'
    BY <1>1, <1>3, <2>1, Fields, Patched DEF RequestInv, NothingDropped, OwnClientOnly
  <2>4. ReplyInv'
    BY <1>3 DEF Inv, ReplyInv
  <2> QED
    BY <1>1, <2>2, <2>3, <2>4 DEF Inv
<1> QED
  BY <1>2, <1>3

\* The client that is found has the address that was asked for.
LEMMA FindsClient ==
  ASSUME Inv, NEW answer \in ClientAnswers, SimulateEmail(answer)
  PROVE  Inv'
<1> USE DEF SimulateEmail
<1>1. CASE \E reason : Fail(reason) /\ UNCHANGED <<client, seen>>
  BY <1>1, PlainReply DEF Fail, Respond, Inv, LiveInv
<1>2. CASE /\ FindClient(answer, email) \cap Clients # {}
           /\ client' \in FindClient(answer, email)
           /\ seen' = {upstream[client']}
           /\ pc' = "products" /\ UNCHANGED reply
  <2>1. client' \in Clients /\ EmailOf[client'] = email
    BY <1>2, OwnClient, NobodyAssumption
  <2>2. LiveInv'
    BY DEF Inv, LiveInv
  <2>3. TypeInv'
    BY <1>2, <2>1 DEF Inv, TypeInv
  <2>4. RequestInv'
    BY <1>2, <2>1 DEF Inv, RequestInv, NothingDropped, OwnClientOnly
  <2>5. ReplyInv'
    BY <1>2 DEF Inv, ReplyInv
  <2> QED
    BY <2>2, <2>3, <2>4, <2>5 DEF Inv
<1> QED
  BY <1>1, <1>2

\* The list that is read is one that WHMCS held.
LEMMA ReadsProducts ==
  ASSUME Inv, pc = "products", NEW answer \in ProductAnswers(upstream[client]),
         SimulateProducts(answer)
  PROVE  Inv'
<1> USE DEF SimulateProducts
<1>1. CASE ClientProducts(answer) = {}
  BY <1>1, PlainReply DEF Fail, Respond, Inv, LiveInv
<1>2. CASE ClientProducts(answer) # {}
  <2>1. upstream[client] \in ProductLists /\ upstream[client] \in seen
    BY DEF Inv, TypeInv, RequestInv
  <2>2. rows' = upstream[client]
    BY <1>2, <2>1, ReadsBack
  <2>3. LiveInv' /\ TypeInv'
    BY <1>2 DEF Inv, LiveInv, TypeInv
  <2>4. RequestInv'
    BY <1>2, <2>1, <2>2 DEF Inv, RequestInv, NothingDropped, OwnClientOnly
  <2>5. ReplyInv'
    BY <1>2 DEF Inv, ReplyInv
  <2> QED
    BY <2>3, <2>4, <2>5 DEF Inv
<1> QED
  BY <1>1, <1>2

\* The verdict is a preview of the list that was read.
LEMMA Decides ==
  ASSUME Inv, NEW ok, SimulateVerdict(ok)
  PROVE  Inv'
<1> USE DEF SimulateVerdict, Respond
<1>1. LiveInv' /\ TypeInv'
  BY DEF Inv, LiveInv, TypeInv
<1>2. RequestInv'
  BY DEF Inv, RequestInv, NothingDropped, OwnClientOnly
<1>3. ReplyInv'
  <2>1. rows \in seen
    BY DEF Inv, RequestInv, NothingDropped
  <2> QED
    BY <2>1, PreviewKind DEF ReplyInv
<1> QED
  BY <1>1, <1>2, <1>3 DEF Inv

\* Every step of the administrator, the host or WHMCS keeps the invariant.
LEMMA Steps == Inv /\ [Next]_vars => Inv'
<1> SUFFICES ASSUME Inv, [Next]_vars PROVE Inv'
  OBVIOUS
<1>1. CASE \E c \in Clients, list \in ProductLists : WhmcsChange(c, list)
  BY <1>1, Changes
<1>2. CASE \E allowed \in HostAllowed, mapping \in HostMappings : Configure(allowed, mapping)
  BY <1>2, Configures
<1>3. CASE \/ NotReady \/ Forbidden \/ ConfigSummary \/ Asset
           \/ \E ids \in SentIDs, mapping \in SentMappings : UpdateConfig(ids, mapping)
           \/ \E path \in Paths : Page(path)
  BY <1>3, Answers
<1>4. CASE Receive
  BY <1>4, Receives
<1>5. CASE SimulateRefused \/ SimulateCallFails
  BY <1>5, PlainReply DEF SimulateRefused, SimulateCallFails, Fail, Respond, Inv, LiveInv
<1>6. CASE \E address \in Emails \cup {NoEmail}, id \in Clients \cup {NoClient},
              ids \in SentIDs, mapping \in SentMappings : Simulate(address, id, ids, mapping)
  BY <1>6, Simulates
<1>7. CASE \E answer \in ClientAnswers : SimulateEmail(answer)
  BY <1>7, FindsClient
<1>8. CASE pc = "products" /\ \E answer \in ProductAnswers(upstream[client]) :
                                  SimulateProducts(answer)
  BY <1>8, ReadsProducts
<1>9. CASE \E ok \in BOOLEAN : SimulateVerdict(ok)
  BY <1>9, Decides
<1>10. CASE UNCHANGED vars
  <2> USE <1>10 DEF vars, request
  <2>1. LiveInv' /\ TypeInv'
    BY DEF Inv, LiveInv, TypeInv
  <2>2. RequestInv'
    BY DEF Inv, RequestInv, NothingDropped, OwnClientOnly
  <2>3. ReplyInv'
    BY DEF Inv, ReplyInv
  <2> QED
    BY <2>1, <2>2, <2>3 DEF Inv
<1> QED
  BY <1>1, <1>2, <1>3, <1>4, <1>5, <1>6, <1>7, <1>8, <1>9, <1>10 DEF Next

-----------------------------------------------------------------------------
(* What an administrator may rely on                                        *)

\* The invariant holds of every state.
LEMMA Invariant == Spec => []Inv
  BY Starts, Steps, PTL DEF Spec

\* Every variable has its type, and whatever the host, a PATCH or a page sends,
\* the live configuration's ids stay canonical and its roles known
\* (ValidateConfig, internal/runtime/runtime.go).
THEOREM TypeCorrect == Spec => []TypeOK
<1>1. Inv => TypeOK
  <2> SUFFICES ASSUME Inv PROVE TypeOK
    OBVIOUS
  <2>1. Valid(live)
    BY DEF Inv, LiveInv
  <2>2. \A t \in live.allowed : t = Itoa(t.n)
    BY <2>1, SentAgain DEF Valid
  <2>3. ASSUME NEW i \in DOMAIN live.mapping
        PROVE  live.mapping[i] \in [product : IDs, role : ValidRoles]
    BY <2>1, <2>3, Members DEF Valid
  <2>4. \A i \in DOMAIN live.mapping :
           /\ live.mapping[i].product = Itoa(live.mapping[i].product.n)
           /\ live.mapping[i].role \in ValidRoles
    BY <2>3, CanonicalAgain
  <2> QED
    BY <2>2, <2>4 DEF Inv, TypeInv, TypeOK
<1> QED
  BY <1>1, Invariant, PTL

\* Saving the page as it came changes nobody's login, whatever was configured
\* or sent before, unless ids are allowed and none is a product's: the positive
\* numbers of config-summary, sent back in a PATCH, decide as the configuration
\* they came from (HandleConfigSummary and HandleUpdateConfig,
\* internal/admin/server.go).
THEOREM SavingIsHarmless == Spec => []SavedBackUnchanged
<1>1. Inv => SavedBackUnchanged
  <2> SUFFICES ASSUME Inv, reply.kind = "summary",
                      reply.ids = {} \/ \E n \in reply.ids : n > 0
               PROVE  \E c \in SavedBack : \A list \in Readable :
                         LoginVerdict(c, list) = LoginVerdict(reply.of, list)
    BY DEF SavedBackUnchanged
  <2> DEFINE o == reply.of
             d == [allowed |-> {t \in o.allowed : t.n > 0}, mapping |-> o.mapping]
  <2>1. Valid(o) /\ reply.ids = SummaryIDs(o) /\ reply.mapping = o.mapping
    BY DEF Inv, ReplyInv
  <2>2. SavedBack = {d}
    BY <2>1, SentBack DEF SavedBack
  <2>3. \A n : n \in reply.ids <=> \E t \in o.allowed : n = t.n
    BY <2>1, SentAgain DEF SummaryIDs, Valid
  <2>4. o.allowed = {} \/ \E t \in o.allowed : t.n > 0
    BY <2>3
  <2>5. \A list \in Readable : LoginVerdict(d, list) = LoginVerdict(o, list)
    BY <2>1, <2>4, SameLogins
  <2> QED
    BY <2>2, <2>5
<1> QED
  BY <1>1, Invariant, PTL

\* What simulate-login shows is what a login would be told once the request's
\* settings are saved, on a list WHMCS held meanwhile (HandleSimulateLogin
\* against buildResponse).
THEOREM PreviewIsHonest == Spec => []PreviewIsLogin
<1>1. Inv => PreviewIsLogin
  <2> SUFFICES ASSUME Inv, reply.kind = "verdict" PROVE PreviewIsLogin
    BY DEF PreviewIsLogin
  <2>1. rows \in seen /\ reply = Preview(rules, rows, reply.details)
    BY DEF Inv, ReplyInv
  <2>2. \A c \in saved : c.allowed = rules.allowed
    BY DEF Inv, RequestInv
  <2>3. ASSUME NEW c \in saved
        PROVE  LET login == LoginVerdict(c, rows)
               IN  /\ reply.allowed = login.allowed
                   /\ login.allowed /\ c.mapping = rules.mapping =>
                         \/ reply.role = login.role
                         \/ reply.role = "user" /\ login.role = "absent"
    BY <2>1, <2>2, PreviewDecides
  <2> QED
    BY <2>1, <2>3 DEF PreviewIsLogin
<1> QED
  BY <1>1, Invariant, PTL

\* The table of simulate-login agrees with the verdict above it: somebody is
\* let in by an allowed row, and an administrator by a hit.
THEOREM TableIsHonest == Spec => []TableExplainsVerdict
<1>1. Inv => TableExplainsVerdict
  <2> SUFFICES ASSUME Inv, reply.kind = "verdict" PROVE TableExplainsVerdict
    BY DEF TableExplainsVerdict
  <2>1. reply = Preview(rules, rows, reply.details) /\ rules.mapping \in Mappings
    BY DEF Inv, ReplyInv, RequestInv
  <2> QED
    BY <2>1, TableAgrees DEF TableExplainsVerdict
<1> QED
  BY <1>1, Invariant, PTL

\* However WHMCS writes a list of products, getClientsProducts reads all of it,
\* in order, or none.
THEOREM NothingIsDropped == Spec => []NothingDropped
  BY Invariant, PTL DEF Inv, RequestInv

\* Whomever WHMCS finds for an address, getClientByEmail goes on with nobody
\* else's id.
THEOREM OnlyTheOwnClient == Spec => []OwnClientOnly
  BY Invariant, PTL DEF Inv, RequestInv

\* From every page, computeBaseHref leads to the assets, wherever the host has
\* mounted the plugin.
THEOREM AssetsAreFound == Spec => []AssetsFound
<1>1. Inv => AssetsFound
  BY DEF Inv, ReplyInv, AssetsFound
<1> QED
  BY <1>1, Invariant, PTL
=============================================================================
