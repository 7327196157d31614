----------------------------- MODULE MCCatalog ------------------------------
(***************************************************************************)
(* Small instances of Catalog: the glob g matches n2 and no other name.    *)
(***************************************************************************)
EXTENDS Catalog

CONSTANTS n1, n2, g

GlobsMatchSecond == Globs \X (Names \ {n1})

OneEach == [k \in Kinds |-> {[name |-> n, uri |-> None] : n \in Names}]

(* A resource or template named n1 whose uri, or uri template, is n2.       *)
NamedAndLocated == [k \in Kinds |-> {[name |-> n1, uri |-> n2]}]
=============================================================================
