----------------------------- MODULE SpecImport -----------------------------
(***************************************************************************)
(* What the scan takes from an OpenAPI document: Load of                   *)
(* internal/adapters/openapi.  A document is [security, paths], a path     *)
(* [name, params, ops], an operation [security, params, body]; names are   *)
(* numbers in their lexical order.  A parameter keeps its place, its name  *)
(* and one word for the rest of its declaration.                           *)
(***************************************************************************)
EXTENDS Sequences, FiniteSetsExt, Ordering

\* httpMethods, in their order, and destructiveMethods.
HttpMethods == << "GET", "POST", "PUT", "PATCH", "DELETE", "HEAD", "OPTIONS", "TRACE", "CONNECT" >>
DestructiveMethods == {"DELETE", "PUT", "PATCH"}

NoScheme == 0

\* A security list is a sequence of alternatives, each a set of schemes that must
\* all be given.  An operation has << >> for no list of its own, or << its list >>.
SecurityLists == Seq(SUBSET (Nat \ {NoScheme}))

\* A list of parameters, none of which is a property of a body.
IsParameters(ps) ==
  ps \in Seq({ps[i] : i \in DOMAIN ps}) /\ \A i \in DOMAIN ps : ps[i].in # "body"

IsOperation(op) ==
  /\ op.security \in Seq(SecurityLists) /\ IsParameters(op.params)
  /\ op.body \subseteq Nat /\ IsFiniteSet(op.body)

\* A document that Validate has let by; no two of its paths have one name.
IsDocument(doc) ==
  /\ doc.security \in SecurityLists
  /\ IsFiniteSet(doc.paths)
  /\ \A p \in doc.paths :
       /\ p.name \in Nat /\ IsParameters(p.params)
       /\ \A m \in DOMAIN p.ops : IsOperation(p.ops[m])
  /\ \A p, q \in doc.paths : p.name = q.name => p = q

\* Faulty variant: an operation's empty list passes for none.
RequirementsOrDefault(doc, op) ==
  IF op.security = << >> \/ op.security[1] = << >> THEN doc.security ELSE op.security[1]

Requirements(doc, op) == IF op.security = << >> THEN doc.security ELSE op.security[1]

\* resolveSecurity: public when the list is empty or has an empty alternative,
\* and otherwise the smallest scheme of the first alternative.
ResolveSecurity(doc, op) ==
  LET reqs == Requirements(doc, op) IN
  IF reqs = << >> \/ \E i \in DOMAIN reqs : reqs[i] = {}
  THEN [requiresAuth |-> FALSE, scheme |-> NoScheme]
  ELSE [requiresAuth |-> TRUE, scheme |-> Min(reqs[1])]

Key(p) == <<p.in, p.name>>

\* extractParameters: the operation's, then those of the path it does not have.
ExtractParameters(pathLevel, opLevel) ==
  LET all   == opLevel \o pathLevel
      first == {i \in DOMAIN all : \A j \in 1..(i - 1) : Key(all[j]) # Key(all[i])}
  IN  AtPlaces(all, first)

\* extractBodyParameters: a body is a set of names of properties.
ExtractBody(body) ==
  [n \in 1..Cardinality(body) |-> [in |-> "body", name |-> InOrder(body)[n], as |-> "property"]]

ToEndpoint(doc, path, method) ==
  LET op == path.ops[method] auth == ResolveSecurity(doc, op) IN
  [method       |-> method,
   path         |-> path.name,
   parameters   |-> ExtractParameters(path.params, op.params) \o ExtractBody(op.body),
   requiresAuth |-> auth.requiresAuth,
   scheme       |-> auth.scheme,
   destructive  |-> method \in DestructiveMethods]

\* Load: paths in the order of their names, methods in that of httpMethods.
Load(doc) ==
  LET names  == InOrder({p.name : p \in doc.paths})
      sorted == [n \in DOMAIN names |-> CHOOSE p \in doc.paths : p.name = names[n]]
      slots  == [m \in 1..(Len(sorted) * Len(HttpMethods)) |->
                   [path   |-> sorted[((m - 1) \div Len(HttpMethods)) + 1],
                    method |-> HttpMethods[((m - 1) % Len(HttpMethods)) + 1]]]
      taken  == AtPlaces(slots, {m \in DOMAIN slots : slots[m].method \in DOMAIN slots[m].path.ops})
  IN  [n \in DOMAIN taken |-> ToEndpoint(doc, taken[n].path, taken[n].method)]
-----------------------------------------------------------------------------
(***************************************************************************)
(* The same, as the OpenAPI specification has it.                          *)
(***************************************************************************)
\* An operation's own list replaces the document's, an empty one included.
Alternatives(doc, op) ==
  IF op.security = << >> THEN Elements(doc.security) ELSE Elements(op.security[1])

\* A caller that holds these credentials may call the operation.
MayCall(doc, op, held) ==
  Alternatives(doc, op) = {} \/ \E a \in Alternatives(doc, op) : a \subseteq held

\* The declaration that is in force for a key.
InForce(path, op, key) ==
  LET own == {i \in DOMAIN op.params : Key(op.params[i]) = key} IN
  IF own # {} THEN op.params[Min(own)]
  ELSE path.params[Min({i \in DOMAIN path.params : Key(path.params[i]) = key})]

Keys(path, op) ==
  {Key(op.params[i]) : i \in DOMAIN op.params} \cup {Key(path.params[i]) : i \in DOMAIN path.params}
    \cup {<<"body", name>> : name \in op.body}

\* An endpoint says of an operation what the document does.
Follows(doc, path, e) ==
  LET op == path.ops[e.method] IN
  /\ e.requiresAuth <=> ~MayCall(doc, op, {})
  /\ e.requiresAuth => \E a \in Alternatives(doc, op) : e.scheme \in a
  /\ Len(e.parameters) = Cardinality(Keys(path, op))
  /\ {Key(p) : p \in Elements(e.parameters)} = Keys(path, op)
  /\ \A p \in Elements(e.parameters) : p.in # "body" => p = InForce(path, op, Key(p))

\* The order of endpoints: by path, and on a path by the place of the method.
Earlier(e, f) ==
  \/ e.path < f.path
  \/ /\ e.path = f.path
     /\ \E a, b \in DOMAIN HttpMethods : a < b /\ HttpMethods[a] = e.method /\ HttpMethods[b] = f.method
=============================================================================
