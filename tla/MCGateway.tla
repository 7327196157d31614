----------------------------- MODULE MCGateway -----------------------------
(***************************************************************************)
(* A small instance of Gateway: Alice, whose token also stands in a key for *)
(* another server and in a later entry of the list, and a key with an empty *)
(* Subject; requests that are stopped at one place or at none.              *)
(***************************************************************************)
EXTENDS Gateway

CONSTANTS
  here, there,                      \* audiences
  evil, old,                        \* an origin and a version
  alice,
  tokA, tokA2, tokN, tokX,
  use, admin, read, drop, s1, s2

Key4(h, a, s, g) == [hash |-> h, audience |-> a, subject |-> s, scopes |-> g]
MCAPIKeys ==
  <<Key4(tokA, there, NoSubject, {admin}), Key4(tokA, here, alice, {use}),
    Key4(tokA, here, NoSubject, {admin}), Key4(tokA2, here, alice, {admin}),
    Key4(tokN, here, NoSubject, {use}), Key4(tokX, there, NoSubject, {use})>>
MCGrants == [g \in {use, admin} |-> IF g = use THEN {read} ELSE {drop}]

Call(t, x, n, i) ==
  [origin |-> Absent, version |-> Absent, token |-> t, method |-> "call",
   session |-> x, name |-> n, id |-> i]
Begin(t) == [Call(t, None, Absent, 1) EXCEPT !.method = "initialize"]

MCRequests ==
  {Begin(tokA), Call(tokA, s1, read, 1), Call(tokA, s1, drop, 1), Call(tokA2, s1, drop, 2),
   Call(tokN, s2, read, 1), Call(tokN, s1, read, 1),
   Call(tokX, s2, read, 1), Call(Absent, s1, read, 1),
   [Call(tokA, s1, drop, 1) EXCEPT !.method = "notify"],
   [Call(tokN, s2, drop, 2) EXCEPT !.method = "other"],
   [Call(tokA, s1, read, 1) EXCEPT !.origin = evil],
   [Call(tokA, s1, read, 1) EXCEPT !.version = old],
   [Call(tokN, s2, Absent, 1) EXCEPT !.method = "cancel"],
   [Call(tokN, s2, Absent, 1) EXCEPT !.method = "delete"],
   [Call(tokA, s1, Absent, 1) EXCEPT !.method = "ping"]}

MCMinted == {[x \in Sessions |-> IF x = s2 THEN NoSubject ELSE a] : a \in {alice, None}}
=============================================================================
