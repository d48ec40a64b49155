----------------------------- MODULE SwampQuery -----------------------------
(***************************************************************************)
(* One query on its way through swamp-broker and swampd.  Who asks is      *)
(* settled before (Sessions); what the index holds is SwampIndex.  Here:   *)
(* the body of a coder's request becomes a wire, the wire a query under    *)
(* the grants of the record as it then is, and two retrievals one answer.  *)
(* Paths are sequences of components.                                      *)
(***************************************************************************)
EXTENDS Naturals, Sequences, FiniteSets, Functions

CONSTANTS
    Objects,      \* what the index has: [path, domain, text, vec]
    Ceiling,      \* per domain: the verbs its sealed ceiling grants
    Records,      \* what the record of the session may say: [header, grants]
    Bodies,       \* bodies of requests: [intent, scope, limit, q, control]
    NoScope,
    Unset,        \* no limit line, or one that is no number (Junk)
    Junk,
    DefaultLimit, MaxLimit,
    MaxRewrites   \* bound: changes of the record

ASSUME QueryAssumption ==
    /\ MaxLimit \in Nat \ {0} /\ DefaultLimit \in 1..MaxLimit /\ MaxRewrites \in Nat
    /\ IsFiniteSet(Objects) /\ \A o \in Objects : o.domain \in DOMAIN Ceiling
    /\ \A o, p \in Objects : o.path = p.path => o = p
    /\ \A b \in Bodies : b.limit \in Nat \cup {Unset, Junk}

VARIABLES
    record,    \* /run/shrek/authority/<session>
    rewrites,
    body,
    wire,      \* the query as swampd reads it
    seen,      \* the record swampd resolved
    reach,     \* its grants, narrowed by the scope
    lexical,   \* what the full-text query returned
    answer,    \* hits, best first
    phase

queryVars == <<record, rewrites, body, wire, seen, reach, lexical, answer, phase>>

NoWire == [intent |-> "search", scope |-> NoScope, limit |-> DefaultLimit, q |-> ""]
Becomes(out) == phase' = out

---------------------------------------------------------------------------
(* Pure parts *)

\* path_beneath_or_equal
Within(inner, outer) == \A i \in DOMAIN outer : i \in DOMAIN inner /\ inner[i] = outer[i]

Clamp(n) == IF n < 1 THEN 1 ELSE IF n > MaxLimit THEN MaxLimit ELSE n

\* parse_query_body
WellFormed(b) == /\ ~b.control /\ b.q # "" /\ b.limit # Junk
                 /\ b.intent \in {"unset", "search", "discover"}
Parsed(b) == [intent |-> IF b.intent = "unset" THEN "search" ELSE b.intent,
              scope  |-> b.scope, q |-> b.q,
              limit  |-> IF b.limit = Unset THEN DefaultLimit ELSE Clamp(b.limit)]

\* load_grants: a record that is not whole grants nothing
Grants(r) == IF r.header = "v1" THEN r.grants ELSE {}

\* Mutant: a scope above a grant passes
Narrowed_Above(gs, scope) ==
    IF scope = NoScope THEN gs
    ELSE IF \E g \in gs : Within(g.path, scope.path) THEN {scope} ELSE {}

\* narrow_scope: by components, though the index then compares texts
Narrowed(gs, scope) ==
    IF scope = NoScope THEN gs
    ELSE IF \E g \in gs : Within(scope.path, g.path) THEN {scope} ELSE {}

\* domains_granting
Granting(intent) ==
    {d \in DOMAIN Ceiling : IF intent = "discover" THEN "discover" \in Ceiling[d]
                            ELSE {"search", "read"} \subseteq Ceiling[d]}

\* scope_predicate and domain_predicate; a root that ends in a slash is nobody's prefix
Candidates(roots, intent) ==
    {o \in Objects : /\ \E r \in roots : ~r.slash /\ Within(o.path, r.path)
                     /\ o.domain \in Granting(intent)}

Matches(o, w) == IF w.intent = "discover" THEN w.q \in Range(o.path) ELSE w.q \in o.text

\* ORDER BY some rank LIMIT n
Ranked(s, n) ==
    LET k == IF Cardinality(s) < n THEN Cardinality(s) ELSE n
    IN {r \in [1..k -> s] : \A i, j \in 1..k : r[i] = r[j] => i = j}

\* merge_semantic_led, of one hit: a path already there, or one too many, is left out
Keep(hits, o, n) == IF Len(hits) >= n \/ o \in Range(hits) THEN hits ELSE Append(hits, o)

Merged(led, rest, n) ==
    LET all == led \o rest
        out[k \in 0..Len(all)] == IF k = 0 THEN <<>> ELSE Keep(out[k-1], all[k], n)
    IN  out[Len(all)]

---------------------------------------------------------------------------

\* gatekeeperd writes the record when a session starts and removes it when it ends
Rewrite ==
    /\ rewrites < MaxRewrites /\ rewrites' = rewrites + 1
    /\ \E r \in Records \ {record} : record' = r
    /\ UNCHANGED <<body, wire, seen, reach, lexical, answer, phase>>

\* The broker: 400, or the wire with the session of the transport
ParseBody ==
    /\ phase = "body"
    /\ IF WellFormed(body) THEN wire' = Parsed(body) /\ Becomes("wire")
       ELSE UNCHANGED wire /\ Becomes("refused")
    /\ UNCHANGED <<record, rewrites, body, seen, reach, lexical, answer>>

\* relay_to_swampd: a swampd that does not answer has found nothing
Unreachable ==
    /\ phase = "wire" /\ Becomes("answered")
    /\ UNCHANGED <<record, rewrites, body, wire, seen, reach, lexical, answer>>

\* Server::handle: the grants are those of the record at this moment
Resolve ==
    /\ phase = "wire" /\ Becomes("resolved")
    /\ seen' = record /\ reach' = Narrowed(Grants(record), wire.scope)
    /\ UNCHANGED <<record, rewrites, body, wire, lexical, answer>>

\* Index::query; a query that is no full-text expression fails, and finds nothing
Lookup ==
    /\ phase = "resolved" /\ Becomes("looked")
    /\ lexical' \in Ranked({o \in Candidates(reach, wire.intent) : Matches(o, wire)}, wire.limit)
    /\ UNCHANGED <<record, rewrites, body, wire, seen, reach, answer>>

\* No provider, one that fails, or not a search: the lexical floor
ServeFloor ==
    /\ phase = "looked" /\ Becomes("answered")
    /\ answer' = lexical
    /\ UNCHANGED <<record, rewrites, body, wire, seen, reach, lexical>>

\* semantic_query ranks every vector in reach, whatever its score
ServeSemantic ==
    /\ phase = "looked" /\ wire.intent = "search" /\ Becomes("answered")
    /\ \E led \in Ranked({o \in Candidates(reach, wire.intent) : o.vec}, wire.limit) :
          answer' = Merged(led, lexical, wire.limit)
    /\ UNCHANGED <<record, rewrites, body, wire, seen, reach, lexical>>

QueryInit ==
    /\ record \in Records /\ body \in Bodies /\ rewrites = 0
    /\ wire = NoWire /\ seen = record /\ reach = {} /\ lexical = <<>> /\ answer = <<>> /\ phase = "body"

QueryNext ==
    \/ Rewrite \/ ParseBody \/ Unreachable \/ Resolve \/ Lookup \/ ServeFloor \/ ServeSemantic

QuerySpec == QueryInit /\ [][QueryNext]_queryVars

---------------------------------------------------------------------------

QueryTypeOK ==
    /\ {record, seen} \subseteq Records /\ body \in Bodies /\ rewrites \in 0..MaxRewrites
    /\ wire.limit \in 1..MaxLimit /\ wire.intent \in {"search", "discover"}
    /\ Range(lexical) \subseteq Objects /\ Range(answer) \subseteq Objects
    /\ phase \in {"body", "wire", "resolved", "looked", "answered", "refused"}

\* narrow_scope, query, semantic_query and merge_semantic_led: an answer has no object
\* outside the grants of the record or outside the scope that was asked for, none
\* twice and no more than the limit, with and without a provider of vectors; and
\* while it has room left it holds every match in reach.
AnswerInReach ==
    phase = "answered" =>
        /\ \A o \in Range(answer) :
              /\ \E g \in Grants(seen) : Within(o.path, g.path)
              /\ body.scope # NoScope => Within(o.path, body.scope.path)
        /\ Len(answer) <= wire.limit /\ Cardinality(Range(answer)) = Len(answer)
        /\ Len(answer) < wire.limit => Range(lexical) \subseteq Range(answer)
=============================================================================
