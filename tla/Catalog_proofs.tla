--------------------------- MODULE Catalog_proofs ---------------------------
(***************************************************************************)
(* What Catalog guarantees for every catalog an operator may write, every  *)
(* set of scopes, any names and patterns and whatever a pattern matches.   *)
(***************************************************************************)
EXTENDS Catalog, TLAPS

(* What the client was told so far, if anything, was computed from the      *)
(* bundles and scopes of the initial state, which no step changes.          *)
Told ==
  /\ bundles \in [Scopes -> Bundle \cup {None}]
  /\ scopes \subseteq Scopes
  /\ caps \in {None, CuratedInitCapabilities}
  /\ listed = [k \in Kinds |-> listed[k]]
  /\ \A k \in Kinds : listed[k] \in {None, Raw, FilterListResult(k)}
  /\ \/ use = None
     \/ \E c \in Kinds \cap Categories, n \in Names \cup {None} :
          use = [category |-> c, ident |-> n,
                 outcome |-> IF GateOpens(c, n) THEN "forwarded" ELSE "refused"]

LEMMA InitTold == Init => Told
  BY DEF Init, Told

(* The checks read the bundles and scopes and nothing else.                 *)
LEMMA ChecksStay ==
  ASSUME UNCHANGED <<bundles, scopes>>
  PROVE  /\ CuratedInitCapabilities' = CuratedInitCapabilities
         /\ \A k \in Kinds : FilterListResult(k)' = FilterListResult(k)
         /\ \A c, n : GateOpens(c, n)' = GateOpens(c, n)
<1>1. \A c : Resolve(c)' = Resolve(c)
  BY DEF Resolve
<1>2. Permissive' = Permissive
  BY DEF Permissive
<1>3. \A c, n : Allows(c, n)' = Allows(c, n)
  BY <1>1, <1>2 DEF Allows, AnyPatternMatches
<1>4. \A c : HasAny(c)' = HasAny(c)
  BY <1>1, <1>2 DEF HasAny
<1> QED BY <1>3, <1>4 DEF CuratedInitCapabilities, FilterListResult, GateOpens

LEMMA NextTold == Told /\ [Next]_vars => Told'
<1> SUFFICES ASSUME Told, [Next]_vars PROVE Told'
  OBVIOUS
<1>1. UNCHANGED <<bundles, scopes>>
  BY DEF Next, Initialize, ForwardAndFilterList, ForwardWithNameGate, vars
<1>2. CASE Initialize
  BY <1>1, <1>2, ChecksStay DEF Initialize, Told
<1>3. ASSUME NEW k \in Kinds, ForwardAndFilterList(k) PROVE Told'
  BY <1>1, <1>3, ChecksStay DEF ForwardAndFilterList, Told
<1>4. ASSUME NEW c \in Kinds \cap Categories, NEW n \in Names \cup {None},
             ForwardWithNameGate(c, n)
      PROVE  Told'
  BY <1>1, <1>4, ChecksStay DEF ForwardWithNameGate, Told
<1>5. CASE UNCHANGED vars
  BY <1>1, <1>5, ChecksStay DEF vars, Told
<1> QED BY <1>2, <1>3, <1>4, <1>5 DEF Next

LEMMA AlwaysTold == Spec => []Told
  BY InitTold, NextTold, PTL DEF Spec

(* Every variable holds values of its type; what initialize announces is    *)
(* among what the backing MCP advertised.                                   *)
THEOREM CatalogTypes == Spec => []TypeOK
<1>1. Told => TypeOK
  BY DEF Told, TypeOK, CuratedInitCapabilities, FilterListResult
<1> QED BY <1>1, AlwaysTold, PTL
-----------------------------------------------------------------------------
(* The fast path for literals, the slow path for patterns and the union     *)
(* over scopes together decide what the bundles, read one by one, grant.    *)
LEMMA AllowsIsGranted ==
  ASSUME Told, NEW c \in {CategoryOf(k) : k \in Kinds}, NEW n \in Names
  PROVE  Allows(c, n) <=> Granted(c, n)
<1>1. \A s \in Scopes : bundles[s] # None => bundles[s][c] \subseteq Patterns
  BY DEF Told, Bundle
<1>2. \A p : p \in Resolve(c) <=> \E s \in scopes : bundles[s] # None /\ p \in bundles[s][c]
  BY DEF Resolve
<1>3. AnyPatternMatches(Resolve(c), n)
        <=> \E p \in Resolve(c) : p = n \/ p = Star \/ <<p, n>> \in PathMatch
  BY CatalogAssumption, <1>1, <1>2 DEF AnyPatternMatches, GlobPatternMatches, Globs
<1>4. (\E p \in Resolve(c) : p = n \/ p = Star \/ <<p, n>> \in PathMatch)
        <=> \E s \in scopes : /\ bundles[s] # None
                              /\ \/ {n, Star} \cap bundles[s][c] # {}
                                 \/ \E p \in bundles[s][c] : <<p, n>> \in PathMatch
  BY <1>2
<1> QED BY <1>3, <1>4 DEF Allows, Granted, Permissive

(* A name reaches the backing MCP exactly when the catalog grants it.       *)
THEOREM GateFollowsGrant == Spec => []UseFollowsGrant
<1>1. Told => UseFollowsGrant
  <2> SUFFICES ASSUME Told, use # None, use.ident # None
               PROVE  use.outcome = "forwarded" <=> Granted(use.category, use.ident)
    BY DEF UseFollowsGrant
  <2>1. PICK c \in Kinds \cap Categories, n \in Names \cup {None} :
          use = [category |-> c, ident |-> n,
                 outcome |-> IF GateOpens(c, n) THEN "forwarded" ELSE "refused"]
    BY DEF Told
  <2>2. n \in Names /\ c \in {CategoryOf(k) : k \in Kinds}
    BY <2>1 DEF CategoryOf, Categories
  <2> QED BY <2>1, <2>2, AllowsIsGranted DEF GateOpens
<1> QED BY <1>1, AlwaysTold, PTL

(* A tool or prompt is listed exactly when using it by its name passes.     *)
THEOREM ListedIsUsable == Spec => []ListAgreesWithUse
<1>1. Told => ListAgreesWithUse
  <2> SUFFICES ASSUME Told, NEW k \in Kinds \cap {"tools", "prompts"},
                      listed[k] \notin {None, Raw}, use # None, use.category = k,
                      NEW i \in Offers[k], i.name = use.ident, i.name # None
               PROVE  i \in listed[k] <=> use.outcome = "forwarded"
    BY DEF ListAgreesWithUse
  <2>1. PICK c \in Kinds \cap Categories, n \in Names \cup {None} :
          use = [category |-> c, ident |-> n,
                 outcome |-> IF GateOpens(c, n) THEN "forwarded" ELSE "refused"]
    BY DEF Told
  <2>2. listed[k] = FilterListResult(k) /\ c = k /\ n = i.name
    BY <2>1 DEF Told
  <2>3. CategoryOf(k) = k /\ ListIdent(i) = n
    BY <2>2 DEF CategoryOf, ListIdent
  <2> QED BY <2>1, <2>2, <2>3 DEF FilterListResult, GateOpens
<1> QED BY <1>1, AlwaysTold, PTL

(* Nothing is listed of a category that initialize kept from the identity.  *)
THEOREM ListedIsAnnounced == Spec => []AnnouncedIfListed
<1>1. Told => AnnouncedIfListed
  <2> SUFFICES ASSUME Told, caps # None, NEW k \in Kinds,
                      listed[k] \notin {None, Raw}, listed[k] # {}
               PROVE  CategoryOf(k) \in caps
    BY DEF AnnouncedIfListed
  <2>1. listed[k] = FilterListResult(k) /\ caps = CuratedInitCapabilities
    BY DEF Told
  <2>2. PICK i \in Offers[k] : Allows(CategoryOf(k), ListIdent(i))
    BY <2>1 DEF FilterListResult
  <2>3. HasAny(CategoryOf(k))
    BY <2>2 DEF Allows, HasAny, AnyPatternMatches
  <2>4. CategoryOf(k) \in Advertised
    BY <2>2 DEF Advertised
  <2> QED BY <2>1, <2>3, <2>4 DEF CuratedInitCapabilities
<1> QED BY <1>1, AlwaysTold, PTL
=============================================================================
