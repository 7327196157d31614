------------------------------ MODULE Catalog ------------------------------
(***************************************************************************)
(* src/internal/server/catalog.go and the forwarders of mcp_handler.go     *)
(* that consult it: what one identity sees in the initialize response, in  *)
(* the lists, and when it uses a tool, a resource or a prompt by name.     *)
(*                                                                         *)
(* The operator's catalog and the identity's scopes are chosen once; the   *)
(* client then asks in any order.  A runner is configured and answers.     *)
(* Names and patterns are values: which names a pattern with wildcards     *)
(* matches (Go's path.Match) is the constant PathMatch.  A name X_Why is a *)
(* mutant of X, used by no specification.                                  *)
(***************************************************************************)
EXTENDS FiniteSets

CONSTANTS
  Scopes,
  Names,       \* identifiers that are not empty
  Patterns,    \* what bundles may list: names, globs and Star
  Star,        \* the pattern "*"
  PathMatch,   \* pairs <<glob, name>> that path.Match accepts
  Kinds,       \* the lists clients ask for
  Offers,      \* per kind, the items the backing MCP has: [name, uri]
  None, Raw    \* nothing yet; a list passed on as the backing MCP sent it

Categories == {"tools", "resources", "prompts"}

(* The patterns with a wildcard, Star excepted.                             *)
Globs == Patterns \ (Names \cup {Star})

ASSUME CatalogAssumption ==
  /\ None \notin Names /\ Raw # None
  /\ Star \notin Names
  /\ PathMatch \subseteq Globs \X Names
  /\ Kinds \subseteq Categories \cup {"resourceTemplates"}
  /\ \A k \in Kinds : \A i \in Offers[k] : {i.name, i.uri} \subseteq Names \cup {None}

VARIABLES
  bundles,    \* Catalog.bundles: Scopes -> a bundle or None; no bundle: no catalog
  scopes,     \* Identity.Scopes
  caps,       \* the capabilities announced, or None before initialize
  listed,     \* Kinds -> the items last listed, Raw, or None
  use         \* the last use by name: what was asked and what became of it

vars == <<bundles, scopes, caps, listed, use>>

(* Templates are filtered with the allowlist of resources.                  *)
CategoryOf(k) == IF k = "resourceTemplates" THEN "resources" ELSE k

Bundle == [{CategoryOf(k) : k \in Kinds} -> SUBSET Patterns]

Init ==
  /\ bundles \in [Scopes -> Bundle \cup {None}]
  /\ scopes \in SUBSET Scopes
  /\ caps = None
  /\ listed = [k \in Kinds |-> None]
  /\ use = None

-----------------------------------------------------------------------------
(* NewCatalog returns nil for an empty map, and a nil catalog permits all.  *)
Permissive == \A s \in Scopes : bundles[s] = None

Resolve_Common(c) ==
  {p \in Patterns : \A s \in scopes : bundles[s] # None => p \in bundles[s][c]}

(* The union of what the identity's scopes confer; unknown scopes confer    *)
(* nothing.                                                                 *)
Resolve(c) == UNION {bundles[s][c] : s \in {t \in scopes : bundles[t] # None}}

GlobPatternMatches(p, n) ==
  \/ p = Star
  \/ p \notin Globs /\ p = n
  \/ <<p, n>> \in PathMatch

AnyPatternMatches(ps, n) ==
  \/ n \in ps
  \/ \E p \in ps \ {n} : GlobPatternMatches(p, n)

(* AllowsTool, AllowsResource, AllowsPrompt.                                *)
Allows(c, n) == Permissive \/ AnyPatternMatches(Resolve(c), n)

HasAny_Literal(c) == Permissive \/ Resolve(c) \cap Names # {}

(* HasAnyTool, HasAnyResource, HasAnyPrompt.                                *)
HasAny(c) == Permissive \/ Resolve(c) # {}

(* The backing MCP advertises the categories it has items of.               *)
Advertised == {CategoryOf(k) : k \in {j \in Kinds : Offers[j] # {}}}

CuratedInitCapabilities_Unbacked ==
  {c \in Categories : Permissive \/ (c \in Advertised /\ HasAny(c))}

CuratedInitCapabilities == {c \in Advertised : HasAny(c)}

-----------------------------------------------------------------------------
Initialize ==
  /\ caps' = CuratedInitCapabilities
  /\ UNCHANGED <<bundles, scopes, listed, use>>

(* An item is known by its name or, without one, by its uri.                *)
ListIdent(i) == IF i.name # None THEN i.name ELSE i.uri

FilterListResult(k) == {i \in Offers[k] : Allows(CategoryOf(k), ListIdent(i))}

(* A result of an unexpected shape is passed on as it came.                 *)
ForwardAndFilterList(k) ==
  /\ \E result \in {FilterListResult(k), Raw} :
       listed' = [listed EXCEPT ![k] = result]
  /\ UNCHANGED <<bundles, scopes, caps, use>>

GateOpens_Listed(c, n) == n = None \/ listed[c] = None \/ Allows(c, n)

(* params may lack the identifier: only one that is there is gated.         *)
GateOpens(c, n) == n = None \/ Allows(c, n)

ForwardWithNameGate(c, n) ==
  /\ use' = [category |-> c, ident |-> n,
             outcome |-> IF GateOpens(c, n) THEN "forwarded" ELSE "refused"]
  /\ UNCHANGED <<bundles, scopes, caps, listed>>

Next ==
  \/ Initialize
  \/ \E k \in Kinds : ForwardAndFilterList(k)
  \/ \E c \in Kinds \cap Categories, n \in Names \cup {None} : ForwardWithNameGate(c, n)

Spec == Init /\ [][Next]_vars

-----------------------------------------------------------------------------
(* Every variable holds the values its code counterpart can hold.           *)
TypeOK ==
  /\ bundles \in [Scopes -> Bundle \cup {None}]
  /\ scopes \subseteq Scopes
  /\ caps = None \/ caps \subseteq Advertised
  /\ \A k \in Kinds : listed[k] \in {None, Raw} \/ listed[k] \subseteq Offers[k]
  /\ use = None \/ use \in [category : Categories, ident : Names \cup {None},
                            outcome : {"forwarded", "refused"}]

(* What an operator reads into a catalog: with none, everything is granted; *)
(* otherwise a name is granted when some bundle of some scope of the        *)
(* identity has it, "*", or a pattern that matches it.                      *)
Granted(c, n) ==
  \/ \A s \in Scopes : bundles[s] = None
  \/ \E s \in scopes : /\ bundles[s] # None
                       /\ \/ {n, Star} \cap bundles[s][c] # {}
                          \/ \E p \in bundles[s][c] : <<p, n>> \in PathMatch

(* forwardWithNameGate with Resolve: a name reaches the backing MCP exactly *)
(* when the catalog as a whole grants it, never for the order of calls.     *)
UseFollowsGrant ==
  use # None /\ use.ident # None =>
    (use.outcome = "forwarded" <=> Granted(use.category, use.ident))

(* forwardAndFilterList against forwardWithNameGate: a tool or a prompt is  *)
(* listed exactly when a call to it by its name goes through.               *)
ListAgreesWithUse ==
  \A k \in Kinds \cap {"tools", "prompts"} :
    listed[k] \notin {None, Raw} /\ use # None /\ use.category = k =>
      \A i \in Offers[k] :
        i.name = use.ident /\ i.name # None =>
          (i \in listed[k] <=> use.outcome = "forwarded")

(* curatedInitCapabilities against forwardAndFilterList: nothing is listed  *)
(* of a category that initialize kept from this identity.                   *)
AnnouncedIfListed ==
  caps # None =>
    \A k \in Kinds :
      listed[k] \notin {None, Raw} /\ listed[k] # {} => CategoryOf(k) \in caps
=============================================================================
