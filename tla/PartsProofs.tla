----------------------------- MODULE PartsProofs -----------------------------
(***************************************************************************)
(* Theorems about components that MCParts runs side by side: a query of    *)
(* the swamp, for every index, ceiling, record and request; the exec       *)
(* island, for every manifest, machine, request and set of files, whatever *)
(* is renamed meanwhile; the request desk of egressd, for every set of     *)
(* providers, addresses, manifests and images, with any number of          *)
(* requests, of deaths of the daemon and of losses of power; and what a    *)
(* coder is told by the model brokers, which was made from what it sent,   *)
(* for any number of runs and steps, and requests that outlive the coder   *)
(* that sent them.                                                         *)
(***************************************************************************)
EXTENDS SwampQuery, Island, SequenceTheorems, FiniteSetTheorems, EgressDesk, Brokers, TLAPS

---------------------------------------------------------------------------
(* Recursion over a sequence *)

\* The least number principle for a set of numbers: what the inductions below use.
LEMMA LeastOf ==
    ASSUME NEW T, T \subseteq Nat, T # {}
    PROVE  \E m \in T : \A k \in T : m <= k
<1>1. \E m \in T : \A k \in T : <<k, m>> \notin OpToRel(<, Nat)
  BY NatLessThanWellFounded, WFMin
<1>2. \A k, m \in Nat : k < m => <<k, m>> \in OpToRel(<, Nat)
  BY DEF OpToRel
<1>3. PICK m \in T : \A k \in T : <<k, m>> \notin OpToRel(<, Nat)
  BY <1>1, Zenon
<1>4. \A k \in T : ~(k < m)
  BY <1>2, <1>3, Zenon
<1> QED BY <1>4

\* So a set of numbers up to n that has 0, and the next of each that it has, has all.
LEMMA Upward ==
    ASSUME NEW n \in Nat, NEW G, 0 \in G,
           \A k \in 1..n : k - 1 \in G => k \in G
    PROVE  \A k \in 0..n : k \in G
<1> SUFFICES ASSUME (0..n) \ G # {} PROVE FALSE OBVIOUS
<1> DEFINE T == (0..n) \ G
<1>0. T \subseteq Nat /\ T # {}
  OBVIOUS
<1>1. PICK m \in T : \A k \in T : m <= k
  <2> HIDE DEF T
  <2> QED BY <1>0, LeastOf
<1>2. m \in 1..n /\ m - 1 \in 0..n /\ ~(m <= m - 1)
  BY <1>1
<1> QED BY <1>1, <1>2

\* f carries base along 1..n by F.
Carries(f, n, A, base, F) ==
    /\ f \in [0..n -> A] /\ f[0] = base
    /\ \A k \in 1..n : f[k] = F[<<f[k-1], k>>]

\* A value for every length, each made from the one before, exists.
LEMMA FoldExists ==
    ASSUME NEW n \in Nat, NEW A, NEW base \in A, NEW F \in [A \X (1..n) -> A]
    PROVE  \E f : Carries(f, n, A, base, F)
<1> DEFINE Begun(k, f) == /\ f \in [0..k -> A] /\ f[0] = base
                          /\ \A i \in 1..k : f[i] = F[<<f[i-1], i>>]
           G == {k \in 0..n : \E f : Begun(k, f)}
<1>1. 0 \in G
  <2> DEFINE f == [i \in 0..0 |-> base]
  <2>1. f \in [0..0 -> A] /\ f[0] = base /\ 1..0 = {}
    OBVIOUS
  <2> HIDE DEF f
  <2>2. Begun(0, f)
    BY <2>1
  <2> QED BY <2>2
<1>2. ASSUME NEW k \in 1..n, k - 1 \in G PROVE k \in G
  <2>1. PICK f : Begun(k - 1, f)
    BY <1>2
  <2> DEFINE g == [i \in 0..k |-> IF i < k THEN f[i] ELSE F[<<f[k-1], k>>]]
  <2>2. f[k-1] \in A /\ F[<<f[k-1], k>>] \in A
    BY <2>1
  <2>3. g \in [0..k -> A]
    BY <2>1, <2>2
  <2>4. \A i \in 0..(k-1) : g[i] = f[i]
    OBVIOUS
  <2>5. g[k] = F[<<f[k-1], k>>]
    OBVIOUS
  <2> HIDE DEF g
  <2>6. \A i \in 1..k : g[i] = F[<<g[i-1], i>>]
    <3> SUFFICES ASSUME NEW i \in 1..k PROVE g[i] = F[<<g[i-1], i>>] OBVIOUS
    <3>1. CASE i = k
      BY <2>4, <2>5, <3>1
    <3>2. CASE i < k
      <4>1. i \in 1..(k-1) /\ i - 1 \in 0..(k-1) /\ i \in 0..(k-1)
        BY <3>2
      <4>2. f[i] = F[<<f[i-1], i>>]
        BY <2>1, <4>1
      <4> QED BY <2>4, <4>1, <4>2
    <3> QED BY <3>1, <3>2
  <2>7. Begun(k, g)
    BY <2>1, <2>3, <2>4, <2>6
  <2> QED BY <2>7
<1> HIDE DEF G
<1>3. n \in G
  BY <1>1, <1>2, Upward
<1> QED BY <1>3 DEF G, Carries

\* The elements of a sequence.
LEMMA SeqRange ==
    ASSUME NEW S, NEW s \in Seq(S)
    PROVE  Range(s) = {s[i] : i \in 1..Len(s)}
BY DEF Range

---------------------------------------------------------------------------
(* What a query of the swamp answers: SwampQuery *)

\* A sequence without repetitions.
Distinct(s) == \A i, j \in 1..Len(s) : s[i] = s[j] => i = j

\* One hit kept or left out: the answer stays within its limit, without repetitions,
\* and while it has room the hit is in it.
LEMMA KeepOne ==
    ASSUME NEW S, NEW a \in Seq(S), NEW o \in S, NEW n \in Nat, Len(a) <= n, Distinct(a)
    PROVE  LET k == Keep(a, o, n)
           IN  /\ k \in Seq(S) /\ Len(k) <= n /\ Distinct(k) /\ Len(a) <= Len(k)
               /\ Range(a) \subseteq Range(k) /\ Range(k) \subseteq Range(a) \cup {o}
               /\ Len(k) < n => o \in Range(k)
<1> DEFINE k == Keep(a, o, n)
<1>0. Range(a) = {a[i] : i \in 1..Len(a)}
  BY DEF Range
<1>1. CASE Len(a) >= n \/ o \in Range(a)
  <2>1. k = a
    BY <1>1 DEF Keep
  <2> QED BY <1>1, <2>1
<1>2. CASE ~(Len(a) >= n \/ o \in Range(a))
  <2>1. k = Append(a, o)
    BY <1>2 DEF Keep
  <2>2. /\ k \in Seq(S) /\ Len(k) = Len(a) + 1 /\ k[Len(a) + 1] = o
        /\ \A i \in 1..Len(a) : k[i] = a[i]
    BY <2>1
  <2>3. Range(k) = {k[i] : i \in 1..Len(k)}
    BY <2>2 DEF Range
  <2>4. Distinct(k)
    BY <1>0, <1>2, <2>2 DEF Distinct
  <2>5. Range(k) = Range(a) \cup {o}
    <3>1. \A i \in 1..Len(k) : i \in 1..Len(a) \/ i = Len(a) + 1
      BY <2>2
    <3>2. 1..Len(a) \subseteq 1..Len(k) /\ Len(a) + 1 \in 1..Len(k)
      BY <2>2
    <3> HIDE DEF k
    <3> QED BY <1>0, <2>2, <2>3, <3>1, <3>2
  <2> QED BY <1>2, <2>2, <2>4, <2>5
<1> QED BY <1>1, <1>2

\* What merge_semantic_led returns: hits of its two inputs, each once, up to the
\* limit, and all of them while there is room.
LEMMA MergedIs ==
    ASSUME NEW S, NEW led \in Seq(S), NEW rest \in Seq(S), NEW n \in Nat
    PROVE  LET r == Merged(led, rest, n)
           IN  /\ r \in Seq(S) /\ Len(r) <= n /\ Distinct(r)
               /\ Range(r) \subseteq Range(led) \cup Range(rest)
               /\ Len(r) < n => Range(rest) \subseteq Range(r)
<1> DEFINE all == led \o rest
           out[k \in 0..Len(all)] == IF k = 0 THEN <<>> ELSE Keep(out[k-1], all[k], n)
           N == Len(all)
           A == {a \in Seq(S) : Len(a) <= n /\ Distinct(a)}
           F == [p \in A \X (1..N) |-> Keep(p[1], all[p[2]], n)]
           Holds(a, k) == /\ a \in A /\ Range(a) \subseteq {all[i] : i \in 1..k}
                          /\ Len(a) < n => {all[i] : i \in 1..k} \subseteq Range(a)
<1>1. all \in Seq(S) /\ N \in Nat /\ \A i \in 1..N : all[i] \in S
  OBVIOUS
<1>2. <<>> \in A
  BY DEF Distinct
<1>3. \A a \in A, k \in 1..N : Keep(a, all[k], n) \in A
  BY <1>1, KeepOne
<1>4. F \in [A \X (1..N) -> A]
  BY <1>3
<1>5. \A a \in A, k \in 1..N : F[<<a, k>>] = Keep(a, all[k], n)
  OBVIOUS
<1> HIDE DEF A, F, N, all
<1>6. PICK f \in [0..N -> A] : f[0] = <<>> /\ \A k \in 1..N : f[k] = F[<<f[k-1], k>>]
  <2>1. N \in Nat
    BY <1>1
  <2> DEFINE base == <<>>
  <2>2. base \in A
    BY <1>2
  <2> HIDE DEF base
  <2>3. PICK f : Carries(f, N, A, base, F)
    BY <1>4, <2>1, <2>2, FoldExists
  <2> QED BY <2>3 DEF Carries, base
<1>7. f = [k \in 0..N |-> IF k = 0 THEN <<>> ELSE Keep(f[k-1], all[k], n)]
  <2>1. \A k \in 1..N : f[k-1] \in A
    BY <1>1, <1>6
  <2>2. \A k \in 1..N : f[k] = Keep(f[k-1], all[k], n)
    BY <1>5, <1>6, <2>1
  <2> QED BY <1>1, <1>6, <2>2
<1>8. out = [k \in 0..N |-> IF k = 0 THEN <<>> ELSE Keep(out[k-1], all[k], n)]
  BY <1>7 DEF N
<1> HIDE DEF out
<1>9. out[0] = <<>> /\ \A k \in 1..N : out[k] = Keep(out[k-1], all[k], n)
  BY <1>1, <1>8
<1> DEFINE G == {k \in 0..N : Holds(out[k], k)}
<1>10. 0 \in G
  BY <1>1, <1>2, <1>9 DEF Range
<1>11. ASSUME NEW k \in 1..N, k - 1 \in G PROVE k \in G
  <2>1. Holds(out[k-1], k - 1) /\ out[k] = Keep(out[k-1], all[k], n) /\ all[k] \in S
    BY <1>1, <1>9, <1>11
  <2>2. out[k-1] \in Seq(S) /\ Len(out[k-1]) <= n /\ Distinct(out[k-1])
    BY <2>1 DEF A
  <2>3. /\ out[k] \in Seq(S) /\ Len(out[k]) <= n /\ Distinct(out[k]) /\ Len(out[k-1]) <= Len(out[k])
        /\ Range(out[k-1]) \subseteq Range(out[k])
        /\ Range(out[k]) \subseteq Range(out[k-1]) \cup {all[k]}
        /\ Len(out[k]) < n => all[k] \in Range(out[k])
    BY <2>1, <2>2, KeepOne
  <2>4. {all[i] : i \in 1..k} = {all[i] : i \in 1..(k-1)} \cup {all[k]}
    <3>1. 1..k = (1..(k-1)) \cup {k}
      BY <1>1
    <3> QED BY <3>1
  <2>5. Len(out[k]) < n => Len(out[k-1]) < n
    BY <2>2, <2>3
  <2>6. Holds(out[k], k)
    BY <2>1, <2>3, <2>4, <2>5 DEF A
  <2> QED BY <2>6
<1> HIDE DEF G
<1>12. N \in G
  <2>1. N \in Nat /\ N \in 0..N
    BY <1>1
  <2>2. \A k \in 0..N : k \in G
    BY <2>1, <1>10, <1>11, Upward, Zenon
  <2> QED BY <2>1, <2>2
<1>13. Holds(out[N], N) /\ out[N] = Merged(led, rest, n)
  BY <1>12 DEF G, Merged, out, N, all
<1>14. {all[i] : i \in 1..N} = Range(led) \cup Range(rest)
  <2>1. Range(all) = Range(led) \cup Range(rest)
    <3>1. Range(led \o rest) = Range(led) \cup Range(rest)
      BY ONLY led \in Seq(S), rest \in Seq(S), RangeConcatenation
    <3> QED BY <3>1 DEF all
  <2>2. Range(all) = {all[i] : i \in 1..N}
    BY <1>1, SeqRange DEF N
  <2> QED BY <2>1, <2>2
<1> QED BY <1>13, <1>14 DEF A

\* Without repetitions, there are as many elements as places.
LEMMA DistinctCount ==
    ASSUME NEW S, NEW s \in Seq(S), Distinct(s)
    PROVE  Cardinality(Range(s)) = Len(s)
<1>1. Range(s) = {s[i] : i \in 1..Len(s)} /\ Len(s) \in Nat
  BY SeqRange
<1> DEFINE f == [i \in 1..Len(s) |-> s[i]]
<1>2. f \in Bijection(1..Len(s), Range(s))
  <2>1. f \in [1..Len(s) -> Range(s)]
    BY <1>1
  <2>2. \A i, j \in 1..Len(s) : f[i] = f[j] => i = j
    BY DEF Distinct
  <2>3. \A v \in Range(s) : \E i \in 1..Len(s) : f[i] = v
    BY <1>1
  <2> HIDE DEF f
  <2> QED BY <2>1, <2>2, <2>3, Zenon DEF Bijection, Injection, Surjection, IsInjective
<1>3. IsFiniteSet(1..Len(s)) /\ Cardinality(1..Len(s)) = Len(s)
  <2> DEFINE n == Len(s)
  <2>1. n \in Int /\ 1 \in Int /\ n >= 0
    BY <1>1
  <2> HIDE DEF n
  <2>2. IsFiniteSet(1..n) /\ Cardinality(1..n) = IF 1 > n THEN 0 ELSE n - 1 + 1
    BY ONLY <2>1, FS_Interval
  <2>3. Cardinality(1..n) = n
    BY ONLY <2>1, <2>2
  <2> QED BY <2>2, <2>3 DEF n
<1>4. ExistsBijection(1..Len(s), Range(s))
  BY <1>2, Zenon DEF ExistsBijection
<1> QED BY <1>3, <1>4, FS_Bijection, Zenon

\* What a query with a limit returns: elements of what it ranks, each once.
LEMMA RankedIs ==
    ASSUME NEW s, IsFiniteSet(s), NEW n \in Nat, NEW r \in Ranked(s, n)
    PROVE  r \in Seq(s) /\ Len(r) <= n /\ Distinct(r) /\ Range(r) \subseteq s
<1> DEFINE k == IF Cardinality(s) < n THEN Cardinality(s) ELSE n
<1>1. k \in Nat /\ k <= n
  BY FS_CardinalityType
<1>2. r \in [1..k -> s] /\ \A i, j \in 1..k : r[i] = r[j] => i = j
  BY DEF Ranked
<1> HIDE DEF k
<1>3. r \in Seq(s) /\ Len(r) = k
  BY <1>1, <1>2
<1>4. Range(r) \subseteq s
  BY <1>3, SeqRange
<1> QED BY <1>1, <1>2, <1>3, <1>4 DEF Distinct

\* The index hands out objects of a granted path and an allowed domain only.
LEMMA CandidatesFinite ==
    ASSUME NEW roots, NEW intent
    PROVE  IsFiniteSet(Candidates(roots, intent)) /\ Candidates(roots, intent) \subseteq Objects
<1>1. Candidates(roots, intent) \subseteq Objects
  BY DEF Candidates
<1> QED BY <1>1, FS_Subset, QueryAssumption

\* Narrowing never widens: what lies in the narrowed reach lies under a grant, and
\* under the scope when there is one.
LEMMA NarrowedIs ==
    ASSUME NEW gs, NEW scope, NEW intent, NEW o \in Candidates(Narrowed(gs, scope), intent)
    PROVE  /\ \E g \in gs : Within(o.path, g.path)
           /\ scope # NoScope => Within(o.path, scope.path)
<1>1. PICK r \in Narrowed(gs, scope) : Within(o.path, r.path)
  BY DEF Candidates
<1>2. CASE scope = NoScope
  <2>1. r \in gs
    BY <1>2 DEF Narrowed
  <2> QED BY <1>1, <1>2, <2>1
<1>3. CASE scope # NoScope
  <2>1. r = scope /\ \E g \in gs : Within(scope.path, g.path)
    BY <1>3 DEF Narrowed
  <2>2. PICK g \in gs : Within(scope.path, g.path)
    BY <2>1
  <2>3. Within(o.path, g.path)
    BY <1>1, <2>1, <2>2 DEF Within
  <2> QED BY <1>1, <2>1, <2>3
<1> QED BY <1>2, <1>3

---------------------------------------------------------------------------

InReach(w) == Candidates(reach, w.intent)

\* What each phase has settled: the wire is the body's, the reach the grants of the
\* record that was seen, narrowed by the scope of that wire, and nothing is found
\* before it was looked for.
QInv ==
    /\ QueryTypeOK
    /\ phase \in {"wire", "resolved", "looked", "answered"} => WellFormed(body) /\ wire = Parsed(body)
    /\ phase \in {"resolved", "looked"} => reach = Narrowed(Grants(seen), wire.scope)
    /\ phase \notin {"looked", "answered"} => lexical = <<>>
    /\ phase = "looked" =>
          lexical \in Ranked({o \in InReach(wire) : Matches(o, wire)}, wire.limit)
    /\ phase # "answered" => answer = <<>>
    /\ AnswerInReach

\* parse_query_body: a wire's limit is within 1..MaxLimit, whatever was asked for.
LEMMA ParsedIs ==
    ASSUME NEW b \in Bodies, WellFormed(b)
    PROVE  Parsed(b).limit \in 1..MaxLimit /\ Parsed(b).intent \in {"search", "discover"}
<1>1. Parsed(b).intent \in {"search", "discover"}
  BY DEF WellFormed, Parsed
<1>2. CASE b.limit = Unset
  BY <1>1, <1>2, QueryAssumption DEF Parsed
<1>3. CASE b.limit # Unset
  <2>1. b.limit \in Nat
    BY <1>3, QueryAssumption DEF WellFormed
  <2>2. Clamp(b.limit) \in 1..MaxLimit
    BY <2>1, QueryAssumption DEF Clamp
  <2>3. Parsed(b).limit = Clamp(b.limit)
    BY <1>3 DEF Parsed
  <2> QED BY <1>1, <2>2, <2>3
<1> QED BY <1>2, <1>3

LEMMA EmptyIs == Range(<<>>) = {} /\ Len(<<>>) = 0 /\ Cardinality({}) = 0
BY FS_EmptySet DEF Range

\* An answer made of hits in reach, each once and within the limit, is in reach.
LEMMA Answered ==
    ASSUME QInv, phase = "looked",
           NEW a \in Seq(InReach(wire)), Len(a) <= wire.limit, Distinct(a),
           Len(a) < wire.limit => Range(lexical) \subseteq Range(a),
           answer' = a, UNCHANGED <<seen, body, wire, lexical>>
    PROVE  AnswerInReach' /\ Range(answer') \subseteq Objects
<1>1. reach = Narrowed(Grants(seen), wire.scope) /\ wire = Parsed(body)
  BY DEF QInv
<1>2. wire.scope = body.scope
  BY <1>1 DEF Parsed
<1>3. Range(a) \subseteq InReach(wire)
  BY SeqRange
<1>4. \A o \in Range(a) : /\ \E g \in Grants(seen) : Within(o.path, g.path)
                          /\ body.scope # NoScope => Within(o.path, body.scope.path)
  BY <1>1, <1>2, <1>3, NarrowedIs DEF InReach
<1>5. Cardinality(Range(a)) = Len(a)
  BY DistinctCount
<1>6. Range(a) \subseteq Objects
  BY <1>3, CandidatesFinite DEF InReach
<1> QED BY <1>4, <1>5, <1>6 DEF AnswerInReach

LEMMA QInit == QueryInit => QInv
<1> SUFFICES ASSUME QueryInit PROVE QInv OBVIOUS
<1>1. wire.limit \in 1..MaxLimit /\ wire.intent \in {"search", "discover"}
  BY QueryAssumption DEF QueryInit, NoWire
<1>2. Range(lexical) \subseteq Objects /\ Range(answer) \subseteq Objects
  BY EmptyIs DEF QueryInit
<1>3. QueryTypeOK
  BY <1>1, <1>2, QueryAssumption DEF QueryInit, QueryTypeOK
<1> QED BY <1>3 DEF QueryInit, QInv, AnswerInReach

LEMMA QNext == QInv /\ [QueryNext]_queryVars => QInv'
<1> SUFFICES ASSUME QInv, [QueryNext]_queryVars PROVE QInv' OBVIOUS
<1>0. /\ QueryTypeOK /\ wire.limit \in Nat
  BY QueryAssumption DEF QInv, QueryTypeOK
<1> USE DEF Becomes
<1>1. CASE Rewrite
  <2>1. QueryTypeOK'
    BY <1>0, <1>1, QueryAssumption DEF Rewrite, QueryTypeOK
  <2> QED BY <1>1, <2>1 DEF Rewrite, QInv, AnswerInReach, InReach
<1>2. CASE ParseBody
  <2>1. QueryTypeOK'
    BY <1>0, <1>2, ParsedIs DEF ParseBody, QueryTypeOK
  <2> QED BY <1>2, <2>1 DEF ParseBody, QInv, AnswerInReach, InReach
<1>3. CASE Unreachable
  <2>1. QueryTypeOK'
    BY <1>0, <1>3 DEF Unreachable, QueryTypeOK
  <2>2. lexical' = <<>> /\ answer' = <<>>
    BY <1>3 DEF Unreachable, QInv
  <2>3. AnswerInReach'
    BY <1>0, <1>3, <2>2, EmptyIs DEF Unreachable, AnswerInReach
  <2> QED BY <1>3, <2>1, <2>3 DEF Unreachable, QInv
<1>4. CASE Resolve
  <2>1. QueryTypeOK'
    BY <1>0, <1>4 DEF Resolve, QueryTypeOK
  <2> QED BY <1>4, <2>1 DEF Resolve, QInv, AnswerInReach
<1>5. CASE Lookup
  <2> DEFINE m == {o \in InReach(wire) : Matches(o, wire)}
  <2>1. IsFiniteSet(m) /\ m \subseteq Objects
    BY CandidatesFinite, FS_Subset DEF InReach
  <2>2. lexical' \in Ranked(m, wire.limit)
    BY <1>5 DEF Lookup, InReach
  <2> HIDE DEF m
  <2>3. Range(lexical') \subseteq Objects
    BY <1>0, <2>1, <2>2, RankedIs
  <2>4. QueryTypeOK'
    BY <1>0, <1>5, <2>3 DEF Lookup, QueryTypeOK
  <2> QED BY <1>5, <2>2, <2>4 DEF Lookup, QInv, AnswerInReach, InReach, m
<1>6. ASSUME phase = "looked"
      PROVE  /\ lexical \in Seq(InReach(wire)) /\ Len(lexical) <= wire.limit /\ Distinct(lexical)
  <2> DEFINE m == {o \in InReach(wire) : Matches(o, wire)}
  <2>1. IsFiniteSet(m) /\ m \subseteq InReach(wire)
    BY CandidatesFinite, FS_Subset DEF InReach
  <2>2. lexical \in Ranked(m, wire.limit)
    BY <1>6 DEF QInv
  <2> HIDE DEF m
  <2>3. lexical \in Seq(m) /\ Len(lexical) <= wire.limit /\ Distinct(lexical)
    BY <1>0, <2>1, <2>2, RankedIs
  <2> QED BY <2>1, <2>3
<1>7. CASE ServeFloor
  <2>1. phase = "looked" /\ answer' = lexical /\ UNCHANGED <<seen, body, wire, lexical>>
    BY <1>7 DEF ServeFloor
  <2>2. AnswerInReach' /\ Range(answer') \subseteq Objects
    BY <1>6, <2>1, Answered
  <2>3. QueryTypeOK'
    BY <1>0, <1>7, <2>2 DEF ServeFloor, QueryTypeOK
  <2> QED BY <1>7, <2>2, <2>3 DEF ServeFloor, QInv
<1>8. CASE ServeSemantic
  <2> DEFINE m == {o \in InReach(wire) : o.vec}
  <2>1. IsFiniteSet(m) /\ m \subseteq InReach(wire)
    BY CandidatesFinite, FS_Subset DEF InReach
  <2>2. PICK led \in Ranked(m, wire.limit) : answer' = Merged(led, lexical, wire.limit)
    BY <1>8 DEF ServeSemantic, InReach
  <2>3. phase = "looked" /\ UNCHANGED <<seen, body, wire, lexical>>
    BY <1>8 DEF ServeSemantic
  <2> HIDE DEF m
  <2>4. led \in Seq(InReach(wire))
    BY <1>0, <2>1, RankedIs
  <2> DEFINE a == Merged(led, lexical, wire.limit)
  <2>5. /\ a \in Seq(InReach(wire)) /\ Len(a) <= wire.limit /\ Distinct(a)
        /\ Len(a) < wire.limit => Range(lexical) \subseteq Range(a)
    BY <1>0, <1>6, <2>3, <2>4, MergedIs
  <2>6. answer' = a
    BY <2>2
  <2> HIDE DEF a
  <2>7. AnswerInReach' /\ Range(answer') \subseteq Objects
    BY <2>3, <2>5, <2>6, Answered
  <2>8. QueryTypeOK'
    BY <1>0, <1>8, <2>7 DEF ServeSemantic, QueryTypeOK
  <2> QED BY <1>8, <2>7, <2>8 DEF ServeSemantic, QInv
<1>9. CASE UNCHANGED queryVars
  BY <1>9 DEF queryVars, QInv, QueryTypeOK, AnswerInReach, InReach
<1> QED BY <1>1, <1>2, <1>3, <1>4, <1>5, <1>7, <1>8, <1>9 DEF QueryNext

\* narrow_scope, query, semantic_query and merge_semantic_led: whatever the record,
\* the body, the ceiling and the index, an answer holds only what the grants and the
\* scope reach, nothing twice, at most the limit, and every match while it has room.
THEOREM QueryAnswersInReach == QuerySpec => [](QueryTypeOK /\ AnswerInReach)
<1>1. QInv => QueryTypeOK /\ AnswerInReach
  BY DEF QInv
<1> QED BY <1>1, QInit, QNext, PTL DEF QuerySpec

---------------------------------------------------------------------------
(* The sealed manifest: Island.  What its blocks say *)

Blocks == [digest : STRING, closed : BOOLEAN, closure : BOOLEAN, interp : Seq(Lines), libs : Seq(Lines)]
Readings == [pins : Seq(Blocks), cur : Blocks, open : BOOLEAN, ok : BOOLEAN]

Opens(l) == l.kind \in {"pin", "entry"}

\* The member m stands, as one of that kind, in the block that line i opens.
Listed(lines, m, kind, i, k) ==
    \E j \in (i+1)..k : lines[j] = m /\ m.kind = kind /\ \A l \in (i+1)..j : ~Opens(lines[l])

\* Line i, among the first k, opens the block b.
OpenedBy(lines, b, i, k) ==
    /\ i \in 1..k /\ Opens(lines[i]) /\ b.digest = lines[i].digest /\ b.closed = lines[i].closed
    /\ \A x \in 1..Len(b.interp) : Listed(lines, b.interp[x], "interp", i, k)
    /\ \A x \in 1..Len(b.libs) : Listed(lines, b.libs[x], "lib", i, k)

\* What the first k lines were read as: every block has its line, and every line that
\* opens a block has the block, which is at line o if it is still open.
ReadSo(lines, acc, k, src, o) ==
    /\ src \in Seq(Nat) /\ o \in Nat /\ Len(src) = Len(acc.pins)
    /\ \A x \in 1..Len(src) : OpenedBy(lines, acc.pins[x], src[x], k)
    /\ acc.open => OpenedBy(lines, acc.cur, o, k) /\ \A l \in (o+1)..k : ~Opens(lines[l])
    /\ \A i \in 1..k : Opens(lines[i]) =>
          (\E x \in 1..Len(src) : src[x] = i) \/ (acc.open /\ i = o)

LEMMA BlockTyped ==
    ASSUME NEW l \in Lines, NEW c \in BOOLEAN
    PROVE  Block(l, c) \in Blocks
BY DEF Block, Blocks, Lines

LEMMA FlushTyped ==
    ASSUME NEW acc \in Readings
    PROVE  Flush(acc) \in Readings /\ ~(Flush(acc).ok /\ Flush(acc).open)
           /\ (Flush(acc).ok => acc.ok)
<1>1. CASE ~acc.open
  BY <1>1 DEF Flush
<1>2. CASE acc.open /\ Complete(acc.cur)
  <2>1. Flush(acc) = [acc EXCEPT !.pins = Append(@, acc.cur), !.open = FALSE]
    BY <1>2 DEF Flush
  <2>2. Append(acc.pins, acc.cur) \in Seq(Blocks)
    BY DEF Readings
  <2> QED BY <2>1, <2>2 DEF Readings
<1>3. CASE acc.open /\ ~Complete(acc.cur)
  BY <1>3 DEF Flush, Poison, Readings
<1> QED BY <1>1, <1>2, <1>3

LEMMA ReadTyped ==
    ASSUME NEW acc \in Readings, NEW l \in Lines
    PROVE  ReadLine(acc, l) \in Readings
<1>1. Flush(acc) \in Readings
  BY FlushTyped
<1>2. CASE l.kind = "pin"
  <2>1. ReadLine(acc, l) = [Flush(acc) EXCEPT !.pins = Append(@, Block(l, FALSE))]
    BY <1>2 DEF ReadLine
  <2>2. Append(Flush(acc).pins, Block(l, FALSE)) \in Seq(Blocks)
    <3>1. Block(l, FALSE) \in Blocks
      BY BlockTyped
    <3>2. Flush(acc).pins \in Seq(Blocks)
      BY <1>1 DEF Readings
    <3> QED BY <3>1, <3>2, AppendProperties, Zenon
  <2> QED BY <1>1, <2>1, <2>2 DEF Readings
<1>3. CASE l.kind = "entry"
  BY <1>1, <1>3, BlockTyped DEF ReadLine, Readings
<1>4. CASE l.kind = "interp" /\ acc.open
  <2>1. [acc.cur EXCEPT !.interp = Append(@, l)] \in Blocks
    <3>1. acc.cur \in Blocks /\ Append(acc.cur.interp, l) \in Seq(Lines)
      BY DEF Readings, Blocks
    <3> QED BY <3>1 DEF Blocks
  <2>2. ReadLine(acc, l) = [acc EXCEPT !.cur.interp = Append(@, l)]
    BY <1>4 DEF ReadLine
  <2> QED BY <2>1, <2>2 DEF Readings
<1>5. CASE l.kind = "lib" /\ acc.open
  <2>1. [acc.cur EXCEPT !.libs = Append(@, l)] \in Blocks
    <3>1. acc.cur \in Blocks /\ Append(acc.cur.libs, l) \in Seq(Lines)
      BY DEF Readings, Blocks
    <3> QED BY <3>1 DEF Blocks
  <2>2. ReadLine(acc, l) = [acc EXCEPT !.cur.libs = Append(@, l)]
    BY <1>5 DEF ReadLine
  <2> QED BY <2>1, <2>2 DEF Readings
<1>6. CASE ~Opens(l) /\ ~(l.kind = "interp" /\ acc.open) /\ ~(l.kind = "lib" /\ acc.open)
  <2>1. ReadLine(acc, l) = Poison(acc)
    BY <1>6 DEF ReadLine, Opens
  <2> QED BY <2>1 DEF Readings, Poison
<1> QED BY <1>2, <1>3, <1>4, <1>5, <1>6 DEF Opens

\* A manifest that is malformed at one line stays so.
LEMMA ReadOk ==
    ASSUME NEW acc \in Readings, NEW l \in Lines, ReadLine(acc, l).ok
    PROVE  acc.ok
<1>1. CASE l.kind = "pin"
  <2>1. ReadLine(acc, l) = [Flush(acc) EXCEPT !.pins = Append(@, Block(l, FALSE))]
    BY <1>1 DEF ReadLine
  <2> QED BY <2>1, FlushTyped DEF Readings
<1>2. CASE l.kind = "entry"
  <2>1. ReadLine(acc, l) = [Flush(acc) EXCEPT !.cur = Block(l, TRUE), !.open = TRUE]
    BY <1>2 DEF ReadLine
  <2> QED BY <2>1, FlushTyped DEF Readings
<1>3. CASE ~Opens(l)
  BY <1>3 DEF ReadLine, Opens, Poison, Readings
<1> QED BY <1>1, <1>2, <1>3 DEF Opens

LEMMA BlockOpens ==
    ASSUME NEW lines, NEW k \in Nat \ {0}, Opens(lines[k]), NEW c \in BOOLEAN
    PROVE  OpenedBy(lines, Block(lines[k], c), k, k)
<1> DEFINE b == Block(lines[k], c)
<1>1. /\ b.digest = lines[k].digest /\ b.closed = lines[k].closed
      /\ Len(b.interp) = 0 /\ Len(b.libs) = 0
  BY DEF Block
<1> HIDE DEF b
<1>2. OpenedBy(lines, b, k, k)
  BY <1>1 DEF OpenedBy
<1> QED BY <1>2 DEF b

\* A longer prefix takes nothing away from a block.
LEMMA OpenedLonger ==
    ASSUME NEW lines, NEW b, NEW i \in Nat, NEW k \in Nat \ {0}, OpenedBy(lines, b, i, k - 1)
    PROVE  OpenedBy(lines, b, i, k)
BY DEF OpenedBy, Listed

LEMMA FlushReads ==
    ASSUME NEW lines, NEW acc \in Readings, NEW k \in Nat, NEW src, NEW o,
           ReadSo(lines, acc, k, src, o), Flush(acc).ok
    PROVE  \E s : ReadSo(lines, Flush(acc), k, s, o)
<1>1. CASE ~acc.open
  BY <1>1 DEF Flush
<1>2. CASE acc.open
  <2> DEFINE s == Append(src, o)
             f == [acc EXCEPT !.pins = Append(@, acc.cur), !.open = FALSE]
  <2>1. Flush(acc) = f
    BY <1>2 DEF Flush, Poison, Readings
  <2>2. /\ acc.pins \in Seq(Blocks) /\ Len(f.pins) = Len(acc.pins) + 1
        /\ f.pins[Len(acc.pins) + 1] = acc.cur /\ \A x \in 1..Len(acc.pins) : f.pins[x] = acc.pins[x]
        /\ ~f.open
    BY DEF Readings
  <2>3. /\ s \in Seq(Nat) /\ Len(s) = Len(src) + 1 /\ s[Len(src) + 1] = o
        /\ \A x \in 1..Len(src) : s[x] = src[x]
    BY DEF ReadSo
  <2> HIDE DEF s, f
  <2>4. \A x \in 1..Len(s) : OpenedBy(lines, f.pins[x], s[x], k)
    <3> TAKE x \in 1..Len(s)
    <3>1. CASE x = Len(src) + 1
      BY <1>2, <2>2, <2>3, <3>1 DEF ReadSo
    <3>2. CASE x \in 1..Len(src)
      BY <2>2, <2>3, <3>2 DEF ReadSo
    <3> QED BY <2>3, <3>1, <3>2 DEF ReadSo
  <2>5. \A i \in 1..k : Opens(lines[i]) => \E x \in 1..Len(s) : s[x] = i
    <3> SUFFICES ASSUME NEW i \in 1..k, Opens(lines[i]) PROVE \E x \in 1..Len(s) : s[x] = i
      OBVIOUS
    <3>1. Len(src) + 1 \in 1..Len(s) /\ 1..Len(src) \subseteq 1..Len(s)
      BY <2>3 DEF ReadSo
    <3> QED BY <2>3, <3>1 DEF ReadSo
  <2>6. ReadSo(lines, f, k, s, o)
    BY <2>2, <2>3, <2>4, <2>5 DEF ReadSo
  <2> QED BY <2>1, <2>6
<1> QED BY <1>1, <1>2

\* PinManifest::parse, one line: it opens a block, or is a member of the open one.
LEMMA LineReads ==
    ASSUME NEW lines \in Seq(Lines), NEW k \in 1..Len(lines), NEW acc \in Readings, NEW src, NEW o,
           ReadSo(lines, acc, k - 1, src, o), ReadLine(acc, lines[k]).ok
    PROVE  \E s, p : ReadSo(lines, ReadLine(acc, lines[k]), k, s, p)
<1> DEFINE l == lines[k]
           f == Flush(acc)
<1>0. l \in Lines /\ k \in Nat \ {0} /\ k - 1 \in Nat
  OBVIOUS
<1>1. CASE l.kind = "pin"
  <2> DEFINE b == Block(l, FALSE)
  <2>1. ReadLine(acc, l) = [f EXCEPT !.pins = Append(@, b)]
    BY <1>1 DEF ReadLine
  <2>2. f \in Readings /\ f.ok
    BY <2>1, FlushTyped DEF Readings
  <2>3. ~f.open
    BY <2>2, FlushTyped
  <2>4. PICK s : ReadSo(lines, f, k - 1, s, o)
    BY <1>0, <2>2, FlushReads
  <2>5. b \in Blocks /\ OpenedBy(lines, b, k, k)
    BY <1>0, <1>1, BlockTyped, BlockOpens DEF Opens
  <2> DEFINE t == Append(s, k)
             g == [f EXCEPT !.pins = Append(@, b)]
  <2> HIDE DEF f, b
  <2>6. /\ Len(g.pins) = Len(f.pins) + 1
        /\ g.pins[Len(f.pins) + 1] = b /\ \A x \in 1..Len(f.pins) : g.pins[x] = f.pins[x]
        /\ ~g.open
    <3>1. f.pins \in Seq(Blocks) /\ g.pins = Append(f.pins, b) /\ g.open = f.open
      BY <2>2 DEF Readings
    <3> HIDE DEF g
    <3> QED BY <2>3, <2>5, <3>1
  <2>7. /\ t \in Seq(Nat) /\ Len(t) = Len(s) + 1 /\ t[Len(s) + 1] = k
        /\ \A x \in 1..Len(s) : t[x] = s[x]
        /\ Len(s) + 1 \in 1..Len(t) /\ 1..Len(s) \subseteq 1..Len(t) /\ Len(s) = Len(f.pins)
        /\ o \in Nat /\ Len(s) \in Nat
    <3>1. s \in Seq(Nat) /\ Len(s) = Len(f.pins) /\ o \in Nat /\ k \in Nat
      BY <2>4 DEF ReadSo
    <3>2. t \in Seq(Nat) /\ Len(t) = Len(s) + 1 /\ t[Len(s) + 1] = k /\ \A x \in 1..Len(s) : t[x] = s[x]
      BY <3>1, AppendProperties
    <3> HIDE DEF t
    <3> QED BY <3>1, <3>2
  <2> HIDE DEF t, g
  <2>8. \A x \in 1..Len(t) : OpenedBy(lines, g.pins[x], t[x], k)
    <3> TAKE x \in 1..Len(t)
    <3>1. CASE x = Len(s) + 1
      BY <2>5, <2>6, <2>7, <3>1
    <3>2. CASE x \in 1..Len(s)
      <4>1. OpenedBy(lines, f.pins[x], s[x], k - 1) /\ s[x] \in Nat
        BY <2>4, <3>2 DEF ReadSo
      <4> QED BY <1>0, <2>6, <2>7, <3>2, <4>1, OpenedLonger
    <3> QED BY <2>7, <3>1, <3>2
  <2>9. \A i \in 1..k : Opens(lines[i]) => \E x \in 1..Len(t) : t[x] = i
    <3> SUFFICES ASSUME NEW i \in 1..k, Opens(lines[i]) PROVE \E x \in 1..Len(t) : t[x] = i
      OBVIOUS
    <3>1. CASE i = k
      BY <2>7, <3>1
    <3>2. CASE i # k
      <4>1. i \in 1..(k - 1)
        BY <3>2
      <4> QED BY <2>3, <2>4, <2>7, <4>1 DEF ReadSo
    <3> QED BY <3>1, <3>2
  <2>10. ReadSo(lines, g, k, t, o)
    BY <2>6, <2>7, <2>8, <2>9 DEF ReadSo
  <2> QED BY <2>1, <2>10 DEF g
<1>2. CASE l.kind = "entry"
  <2> DEFINE b == Block(l, TRUE)
             g == [f EXCEPT !.cur = b, !.open = TRUE]
  <2>1. ReadLine(acc, l) = g
    BY <1>2 DEF ReadLine
  <2>2. f \in Readings /\ f.ok
    BY <2>1, FlushTyped DEF Readings
  <2>3. ~f.open
    BY <2>2, FlushTyped
  <2>4. PICK s : ReadSo(lines, f, k - 1, s, o)
    BY <1>0, <2>2, FlushReads
  <2>5. b \in Blocks /\ OpenedBy(lines, b, k, k)
    BY <1>0, <1>2, BlockTyped, BlockOpens DEF Opens
  <2>6. g.pins = f.pins /\ g.cur = b /\ g.open
    BY <2>2 DEF Readings
  <2> HIDE DEF g, f, b
  <2>7. \A x \in 1..Len(s) : OpenedBy(lines, g.pins[x], s[x], k)
    <3> TAKE x \in 1..Len(s)
    <3>1. OpenedBy(lines, f.pins[x], s[x], k - 1) /\ s[x] \in Nat
      BY <2>4 DEF ReadSo
    <3> QED BY <1>0, <2>6, <3>1, OpenedLonger
  <2>8. \A i \in 1..k : Opens(lines[i]) => (\E x \in 1..Len(s) : s[x] = i) \/ i = k
    <3> SUFFICES ASSUME NEW i \in 1..k, Opens(lines[i]), i # k PROVE \E x \in 1..Len(s) : s[x] = i
      OBVIOUS
    <3>1. i \in 1..(k - 1)
      OBVIOUS
    <3> QED BY <2>3, <2>4, <3>1 DEF ReadSo
  <2>9. ReadSo(lines, g, k, s, k)
    BY <1>0, <2>4, <2>5, <2>6, <2>7, <2>8 DEF ReadSo
  <2> QED BY <2>1, <2>9
<1>3. CASE l.kind \in {"interp", "lib"} /\ acc.open
  <2> DEFINE g == ReadLine(acc, l)
  <2>1. /\ g.pins = acc.pins /\ g.open
        /\ g.cur.digest = acc.cur.digest /\ g.cur.closed = acc.cur.closed
        /\ \/ l.kind = "interp" /\ g.cur.interp = Append(acc.cur.interp, l) /\ g.cur.libs = acc.cur.libs
           \/ l.kind = "lib" /\ g.cur.libs = Append(acc.cur.libs, l) /\ g.cur.interp = acc.cur.interp
    BY <1>3 DEF ReadLine, Readings, Blocks
  <2>2. acc.cur.interp \in Seq(Lines) /\ acc.cur.libs \in Seq(Lines)
    BY DEF Readings, Blocks
  <2>3. OpenedBy(lines, acc.cur, o, k) /\ ~Opens(l) /\ o \in Nat /\ o < k
    <3>1. OpenedBy(lines, acc.cur, o, k - 1) /\ o \in Nat
      BY <1>3 DEF ReadSo
    <3>2. o \in 1..(k - 1)
      BY <3>1 DEF OpenedBy
    <3>3. ~Opens(l)
      BY <1>3 DEF Opens
    <3> QED BY <1>0, <3>1, <3>2, <3>3, OpenedLonger
  <2>4. \A i \in (o+1)..k : ~Opens(lines[i])
    <3>1. \A i \in (o+1)..(k - 1) : ~Opens(lines[i])
      BY <1>3 DEF ReadSo
    <3> SUFFICES ASSUME NEW i \in (o+1)..k PROVE i = k \/ i \in (o+1)..(k - 1)
      BY <2>3, <3>1
    <3> QED BY <2>3
  <2>5. Listed(lines, l, l.kind, o, k)
    BY <1>0, <2>3, <2>4 DEF Listed
  <2> HIDE DEF g
  <2>6. OpenedBy(lines, g.cur, o, k)
    <3>1. \A x \in 1..Len(g.cur.interp) : Listed(lines, g.cur.interp[x], "interp", o, k)
      <4>1. CASE l.kind = "interp"
        <5>1. g.cur.interp = Append(acc.cur.interp, l)
          BY <2>1, <4>1
        <5> QED BY <2>2, <2>3, <2>5, <4>1, <5>1 DEF OpenedBy
      <4>2. CASE l.kind = "lib"
        BY <2>1, <2>3, <4>2 DEF OpenedBy
      <4> QED BY <1>3, <4>1, <4>2
    <3>2. \A x \in 1..Len(g.cur.libs) : Listed(lines, g.cur.libs[x], "lib", o, k)
      <4>1. CASE l.kind = "lib"
        <5>1. g.cur.libs = Append(acc.cur.libs, l)
          BY <2>1, <4>1
        <5> QED BY <2>2, <2>3, <2>5, <4>1, <5>1 DEF OpenedBy
      <4>2. CASE l.kind = "interp"
        BY <2>1, <2>3, <4>2 DEF OpenedBy
      <4> QED BY <1>3, <4>1, <4>2
    <3> QED BY <2>1, <2>3, <3>1, <3>2 DEF OpenedBy
  <2>7. \A x \in 1..Len(src) : OpenedBy(lines, g.pins[x], src[x], k)
    <3> TAKE x \in 1..Len(src)
    <3>1. OpenedBy(lines, acc.pins[x], src[x], k - 1) /\ src[x] \in Nat
      BY DEF ReadSo
    <3> QED BY <1>0, <2>1, <3>1, OpenedLonger
  <2>8. \A i \in 1..k : Opens(lines[i]) => (\E x \in 1..Len(src) : src[x] = i) \/ i = o
    <3> SUFFICES ASSUME NEW i \in 1..k, Opens(lines[i])
                 PROVE  (\E x \in 1..Len(src) : src[x] = i) \/ i = o
      OBVIOUS
    <3>1. i \in 1..(k - 1)
      BY <2>3
    <3> QED BY <3>1 DEF ReadSo
  <2>9. ReadSo(lines, g, k, src, o)
    BY <2>1, <2>4, <2>6, <2>7, <2>8 DEF ReadSo
  <2> QED BY <2>9 DEF g
<1>4. CASE ~Opens(l) /\ ~(l.kind \in {"interp", "lib"} /\ acc.open)
  <2>1. ReadLine(acc, l) = Poison(acc)
    BY <1>4 DEF ReadLine, Opens
  <2>2. ~ReadLine(acc, l).ok
    BY <2>1 DEF Poison, Readings
  <2> QED BY <2>2
<1> QED BY <1>1, <1>2, <1>3, <1>4 DEF Opens

\* PinManifest::parse and lookup: a pin of a manifest has a line that opens it, no other
\* line opens one of that digest, and no other pin has it.
LEMMA PinsAre ==
    ASSUME NEW m \in Manifests, NEW p \in Pins(m)
    PROVE  /\ p \in Blocks
           /\ \E i : /\ OpenedBy(m.lines, p, i, Len(m.lines))
                     /\ \A j \in 1..Len(m.lines) :
                           Opens(m.lines[j]) /\ m.lines[j].digest = p.digest => j = i
           /\ \A q \in Pins(m) : q.digest = p.digest => q = p
<1> DEFINE lines == m.lines
           N == Len(lines)
           acc[k \in 0..N] == IF k = 0 THEN Empty ELSE ReadLine(acc[k-1], lines[k])
           F == [a \in Readings \X (1..N) |-> ReadLine(a[1], lines[a[2]])]
           got == Flush(acc[N])
<1>1. lines \in Seq(Lines) /\ N \in Nat /\ \A k \in 1..N : lines[k] \in Lines
  BY IslandAssumption
<1>2. Empty \in Readings
  <2>1. NoBlock \in Blocks
    BY IslandAssumption DEF NoBlock, Blocks
  <2> QED BY <2>1 DEF Empty, Readings
<1>3. \A a \in Readings, k \in 1..N : ReadLine(a, lines[k]) \in Readings
  BY <1>1, ReadTyped
<1>4. F \in [Readings \X (1..N) -> Readings]
  BY <1>3
<1>5. \A a \in Readings, k \in 1..N : F[<<a, k>>] = ReadLine(a, lines[k])
  OBVIOUS
<1> HIDE DEF F, N, lines
<1>6. PICK f : Carries(f, N, Readings, Empty, F)
  BY <1>1, <1>2, <1>4, FoldExists
<1>7. /\ f \in [0..N -> Readings]
      /\ f = [k \in 0..N |-> IF k = 0 THEN Empty ELSE ReadLine(f[k-1], lines[k])]
  <2>1. f \in [0..N -> Readings] /\ f[0] = Empty /\ \A k \in 1..N : f[k] = F[<<f[k-1], k>>]
    BY <1>6 DEF Carries
  <2>2. \A k \in 1..N : f[k-1] \in Readings
    BY <1>1, <2>1
  <2>3. \A k \in 1..N : f[k] = ReadLine(f[k-1], lines[k])
    BY <1>5, <2>1, <2>2
  <2> QED BY <1>1, <2>1, <2>3
<1>8. acc = [k \in 0..N |-> IF k = 0 THEN Empty ELSE ReadLine(acc[k-1], lines[k])]
  BY <1>7
<1> HIDE DEF acc
<1>9. acc[0] = Empty /\ \A k \in 1..N : acc[k] = ReadLine(acc[k-1], lines[k])
  BY <1>1, <1>8
<1> DEFINE G == {k \in 0..N : /\ acc[k] \in Readings
                              /\ acc[k].ok => \E s, o : ReadSo(lines, acc[k], k, s, o)}
<1>10. 0 \in G
  <2>1. ReadSo(lines, Empty, 0, <<>>, 0) 
    BY DEF ReadSo, Empty
  <2> QED BY <1>1, <1>2, <1>9, <2>1
<1>11. ASSUME NEW k \in 1..N, k - 1 \in G PROVE k \in G
  <2>1. /\ acc[k-1] \in Readings /\ acc[k] = ReadLine(acc[k-1], lines[k])
        /\ acc[k-1].ok => \E s, o : ReadSo(lines, acc[k-1], k - 1, s, o)
    BY <1>9, <1>11
  <2>2. acc[k] \in Readings /\ k \in 0..N
    BY <1>1, <1>3, <2>1
  <2>3. ASSUME acc[k].ok PROVE \E s, o : ReadSo(lines, acc[k], k, s, o)
    <3>1. acc[k-1].ok
      BY <1>1, <2>1, <2>3, ReadOk
    <3>2. PICK s, o : ReadSo(lines, acc[k-1], k - 1, s, o)
      BY <2>1, <3>1
    <3>3. k \in 1..Len(lines)
      BY DEF N
    <3> QED BY <1>1, <2>1, <2>3, <3>2, <3>3, LineReads
  <2> QED BY <2>2, <2>3
<1> HIDE DEF G
<1>12. N \in G
  <2>1. N \in Nat /\ N \in 0..N
    BY <1>1
  <2>2. \A k \in 0..N : k \in G
    BY <2>1, <1>10, <1>11, Upward, Zenon
  <2> QED BY <2>1, <2>2
<1>13. acc[N] \in Readings /\ (acc[N].ok => \E s, o : ReadSo(lines, acc[N], N, s, o))
  BY <1>12 DEF G
<1>14. /\ Pins(m) = {got.pins[x] : x \in DOMAIN got.pins} /\ got.ok
       /\ \A x, y \in DOMAIN got.pins : got.pins[x].digest = got.pins[y].digest => x = y
  <2>1. Pins(m) # {}
    OBVIOUS
  <2> QED BY <2>1 DEF Pins, acc, N, lines
<1>15. got \in Readings /\ ~got.open /\ acc[N].ok
  BY <1>13, <1>14, FlushTyped
<1>16. PICK s, o : ReadSo(lines, got, N, s, o)
  <2>1. PICK t, o : ReadSo(lines, acc[N], N, t, o)
    BY <1>13, <1>15
  <2>2. \E s : ReadSo(lines, got, N, s, o)
    BY <1>1, <1>13, <1>14, <2>1, FlushReads
  <2> QED BY <2>2
<1> HIDE DEF got
<1>17. /\ got.pins \in Seq(Blocks) /\ DOMAIN got.pins = 1..Len(s)
       /\ \A x \in 1..Len(s) : OpenedBy(lines, got.pins[x], s[x], N)
       /\ \A i \in 1..N : Opens(lines[i]) => \E x \in 1..Len(s) : s[x] = i
  BY <1>15, <1>16 DEF ReadSo, Readings
<1>18. PICK x \in 1..Len(s) : p = got.pins[x]
  BY <1>14, <1>17
<1>19. p \in Blocks /\ OpenedBy(lines, p, s[x], N)
  BY <1>17, <1>18
<1>20. ASSUME NEW j \in 1..N, Opens(lines[j]), lines[j].digest = p.digest PROVE j = s[x]
  <2>1. PICK y \in 1..Len(s) : s[y] = j
    BY <1>17, <1>20
  <2>2. got.pins[y].digest = lines[j].digest
    BY <1>17, <2>1 DEF OpenedBy
  <2>3. x = y
    BY <1>14, <1>17, <1>18, <1>20, <2>2
  <2> QED BY <2>1, <2>3
<1>21. \A q \in Pins(m) : q.digest = p.digest => q = p
  BY <1>14, <1>17, <1>18
<1> QED BY <1>19, <1>20, <1>21 DEF N, lines

---------------------------------------------------------------------------
(* What the construction has settled at each step *)

Building == {"seal", "usr", "root", "entry", "members", "flags"}

\* The band says what was measured; nothing is mounted for any but a pinned file.
BandOK ==
    /\ step \in {"cli", "derive"} => band = "hostile"
    /\ band = "first" => Enrolled(ask) /\ ~ask.harness
    /\ band = "pinned" => /\ fd \in Artifacts /\ pin \in Pins(manifest)
                          /\ pin.digest = DigestOf[fd] /\ pin.closed
    /\ band # "pinned" => island = [n \in Places |-> NoFile] /\ fd = NoFile

\* What is sealed, which wall is chosen and how much is bound, by step.
OrderOK ==
    /\ step \in {"cli", "derive", "decide"} => wall = "none"
    /\ step \in {"derive", "decide"} => ask.tier \in DOMAIN TierOrder
    /\ step \in Building => band = "pinned"
    /\ step \in Building \cup {"walls", "exec", "runs"} => wall = "T0"
    /\ step = "usr" => "grants" \in noexec
    /\ step = "root" => "grants" \in noexec /\ (pin.closure => "usr" \in noexec)
    /\ step \in {"entry", "members"} => {"grants", "root"} \subseteq noexec /\ (pin.closure => "usr" \in noexec)
    /\ step \notin {"members", "flags", "walls", "exec", "runs", "done"} => bound = 0
    /\ ran # NoFile => step = "runs"

\* A member of that list has the digest that one of the list has under its name.
Mapped(list, x) ==
    \E y \in 1..Len(list) : /\ list[y].name = list[x].name
                            /\ list[y].digest = DigestOf[island[list[x].name]]

\* What the entrypoint of an island asks of its loader is mapped as listed.
Assembled ==
    /\ island[EntryName] = fd /\ {"grants", "root"} \subseteq noexec
    /\ InterpOf[fd] # NoName =>
          /\ "usr" \in noexec
          /\ \E x \in 1..Len(pin.interp) : /\ pin.interp[x].name = InterpOf[fd]
                                           /\ pin.interp[x].digest = DigestOf[island[InterpOf[fd]]]
          /\ \A n \in NeededOf[fd] : \E x \in 1..Len(pin.libs) :
                /\ pin.libs[x].name = n /\ pin.libs[x].digest = DigestOf[island[n]]

BuiltOK ==
    /\ step = "members" =>
          /\ island[EntryName] = fd
          /\ \A x \in 1..Len(pin.interp) : x <= bound => Mapped(pin.interp, x)
          /\ \A x \in 1..Len(pin.libs) : Len(pin.interp) + x <= bound => Mapped(pin.libs, x)
    /\ step = "flags" \/ (step \in {"walls", "exec", "runs"} /\ band = "pinned") => Assembled

IslandInv ==
    /\ IslandTypeOK /\ manifest \in Manifests
    /\ BandOK /\ OrderOK /\ BuiltOK /\ MeasuredRuns /\ WallFits

Numbered(l) == CapsOf(l) \in 1..4

LEMMA CapsAre == \A l : Numbered(l)
BY DEF Numbered, CapsOf, CapsOrder

\* The members of a block have places of their own.
LEMMA MembersApart ==
    ASSUME NEW m \in Manifests, NEW p \in Pins(m)
    PROVE  /\ p.interp \in Seq(Lines) /\ p.libs \in Seq(Lines)
           /\ \A x \in 1..Len(p.interp) : p.interp[x].name \in Places /\ p.interp[x].name # EntryName
           /\ \A x \in 1..Len(p.libs) : p.libs[x].name \in Places /\ p.libs[x].name # EntryName
           /\ \A x \in 1..Len(p.interp), y \in 1..Len(p.libs) : p.interp[x].name # p.libs[y].name
<1> DEFINE lines == m.lines
<1>1. PICK i : OpenedBy(lines, p, i, Len(lines)) /\ p \in Blocks
  BY PinsAre
<1>2. DOMAIN lines = 1..Len(lines) /\ i \in 1..Len(lines)
  BY <1>1, IslandAssumption DEF OpenedBy
<1>3. \A x \in 1..Len(p.interp) : \E j \in DOMAIN lines : lines[j] = p.interp[x] /\ lines[j].kind = "interp"
  <2> TAKE x \in 1..Len(p.interp)
  <2>1. Listed(lines, p.interp[x], "interp", i, Len(lines))
    BY <1>1 DEF OpenedBy
  <2> QED BY <1>2, <2>1 DEF Listed
<1>4. \A x \in 1..Len(p.libs) : \E j \in DOMAIN lines : lines[j] = p.libs[x] /\ lines[j].kind = "lib"
  <2> TAKE x \in 1..Len(p.libs)
  <2>1. Listed(lines, p.libs[x], "lib", i, Len(lines))
    BY <1>1 DEF OpenedBy
  <2> QED BY <1>2, <2>1 DEF Listed
<1>5. \A j \in DOMAIN lines : lines[j].name \in Places
  BY DEF Places, FileNamesOf
<1>6. \A i1, j \in DOMAIN lines :
          /\ lines[i1].kind \in {"interp", "lib"} => lines[i1].name # EntryName
          /\ lines[i1].kind = "interp" /\ lines[j].kind = "lib" => lines[i1].name # lines[j].name
  BY IslandAssumption
<1>7. p.interp \in Seq(Lines) /\ p.libs \in Seq(Lines)
  BY <1>1 DEF Blocks
<1> HIDE DEF lines
<1>8. \A x \in 1..Len(p.interp) : p.interp[x].name \in Places /\ p.interp[x].name # EntryName
  BY <1>3, <1>5, <1>6
<1>9. \A x \in 1..Len(p.libs) : p.libs[x].name \in Places /\ p.libs[x].name # EntryName
  BY <1>4, <1>5, <1>6
<1>10. ASSUME NEW x \in 1..Len(p.interp), NEW y \in 1..Len(p.libs) PROVE p.interp[x].name # p.libs[y].name
  <2>1. PICK j \in DOMAIN lines : lines[j] = p.interp[x] /\ lines[j].kind = "interp"
    BY <1>3
  <2>2. PICK k \in DOMAIN lines : lines[k] = p.libs[y] /\ lines[k].kind = "lib"
    BY <1>4
  <2> QED BY <1>6, <2>1, <2>2
<1> QED BY <1>7, <1>8, <1>9, <1>10

\* The loader is bound first, then the libraries.
LEMMA NextMember ==
    ASSUME pin.interp \in Seq(Lines), pin.libs \in Seq(Lines), bound \in Nat, bound < Len(Members)
    PROVE  \/ bound + 1 \in 1..Len(pin.interp) /\ Members[bound + 1] = pin.interp[bound + 1]
           \/ /\ bound + 1 - Len(pin.interp) \in 1..Len(pin.libs)
              /\ Members[bound + 1] = pin.libs[bound + 1 - Len(pin.interp)]
<1> DEFINE a == pin.interp
           b == pin.libs
           c == a \o b
<1>1. Members = c
  BY DEF Members, MembersOf
<1> HIDE DEF a, b, c
<1>2. a \in Seq(Lines) /\ b \in Seq(Lines) /\ c = a \o b
  BY DEF a, b, c
<1>3. /\ Len(c) = Len(a) + Len(b) /\ Len(a) \in Nat /\ Len(b) \in Nat
      /\ \A i \in 1..Len(c) : c[i] = IF i <= Len(a) THEN a[i] ELSE b[i - Len(a)]
  BY <1>2, ConcatProperties
<1>4. bound + 1 \in 1..Len(c)
  BY <1>1, <1>3
<1>5. CASE bound + 1 <= Len(a)
  <2>1. c[bound + 1] = a[bound + 1] /\ bound + 1 \in 1..Len(a)
    BY <1>3, <1>4, <1>5
  <2> QED BY <1>1, <2>1 DEF a
<1>6. CASE ~(bound + 1 <= Len(a))
  <2>1. c[bound + 1] = b[bound + 1 - Len(a)] /\ bound + 1 - Len(a) \in 1..Len(b)
    BY <1>3, <1>4, <1>6
  <2> QED BY <1>1, <2>1 DEF a, b
<1> QED BY <1>5, <1>6

LEMMA IslandInitial == IslandInit => IslandInv
<1> SUFFICES ASSUME IslandInit PROVE IslandInv OBVIOUS
<1>1. IslandTypeOK
  BY IslandAssumption DEF IslandInit, IslandTypeOK, Floor, TierOrder
<1>2. BandOK /\ OrderOK /\ BuiltOK
  BY DEF IslandInit, BandOK, OrderOK, BuiltOK, Building
<1>3. MeasuredRuns /\ WallFits
  BY DEF IslandInit, MeasuredRuns, WallFits
<1> QED BY <1>1, <1>2, <1>3 DEF IslandInit, IslandInv

LEMMA RefusalCode ==
    ASSUME NEW r, NEW b, Refusals(r, b) # {}
    PROVE  (CHOOSE c \in Refusals(r, b) : \A d \in Refusals(r, b) : c <= d) \in Nat
<1> DEFINE S == Refusals(r, b)
<1>1. S \subseteq Nat /\ S # {}
  BY DEF Refusals
<1> HIDE DEF S
<1>2. \E c \in S : \A d \in S : c <= d
  BY <1>1, LeastOf
<1>3. (CHOOSE c \in S : \A d \in S : c <= d) \in Nat
  BY <1>1, <1>2
<1> QED BY <1>3 DEF S

LEMMA IslandTypes ==
    ASSUME IslandInv, IslandNext PROVE IslandTypeOK'
<1> USE DEF IslandInv, IslandTypeOK, fixedVars, Leaves, Aborts, Cleared, TierOrder
<1>1. ASSUME NEW n \in Places, NEW f \in Artifacts, Swap(n, f) PROVE IslandTypeOK'
  BY <1>1, IslandAssumption DEF Swap
<1>2. CASE Cli
  BY <1>2 DEF Cli
<1>3. CASE Derive
  <2>1. band' \in {"first", "pinned", "untrust", "hostile"}
    BY <1>3 DEF Derive, DeriveBand, SessionBand
  <2>2. EntryName \in Places
    BY DEF Places
  <2>3. names[EntryName] \in Artifacts
    BY <2>2
  <2> QED BY <1>3, <2>1, <2>3 DEF Derive, Floor
<1>4. CASE Refuse
  BY <1>4, RefusalCode DEF Refuse
<1>5. CASE PinnedHomeless
  BY <1>5 DEF PinnedHomeless
<1>6. CASE HandOn
  BY <1>6 DEF HandOn
<1>7. CASE Enter
  BY <1>7 DEF Enter
<1>8. CASE SealGrants \/ SealUsr \/ SealRoot
  <2>1. ASSUME NEW from, NEW tree \in {"grants", "usr", "root"}, NEW next \in {"usr", "root", "entry"},
               SealStep(from, tree, next)
        PROVE  IslandTypeOK'
    <3>1. noexec' \in {noexec, noexec \cup {tree}} /\ step' \in {next, "done"} /\ rc' \in {rc, 125}
          /\ UNCHANGED <<names, swaps, band, fd, wall, ran, island, bound>>
      BY <2>1 DEF SealStep
    <3> QED BY <3>1
  <2> QED BY <1>8, <2>1 DEF SealGrants, SealUsr, SealRoot
<1>9. CASE BindEntry
  BY <1>9 DEF BindEntry, Places
<1>10. CASE BindMember
  <2>1. CASE Aborts
    BY <1>10, <2>1 DEF BindMember
  <2>2. CASE ~Aborts
    <3> DEFINE m == Members[bound + 1]
    <3>1. pin \in Pins(manifest) /\ step = "members" /\ bound < Len(Members)
      BY <1>10 DEF BindMember, OrderOK, BandOK, Building
    <3>2. m.name \in Places
      <4>1. pin.interp \in Seq(Lines) /\ pin.libs \in Seq(Lines)
        BY <3>1, MembersApart
      <4>2. \/ bound + 1 \in 1..Len(pin.interp) /\ m = pin.interp[bound + 1]
            \/ /\ bound + 1 - Len(pin.interp) \in 1..Len(pin.libs)
               /\ m = pin.libs[bound + 1 - Len(pin.interp)]
        BY <3>1, <4>1, NextMember
      <4> QED BY <3>1, <4>2, MembersApart
    <3>3. names[m.name] \in Artifacts
      BY <3>2
    <3>4. /\ island' = [island EXCEPT ![m.name] = names[m.name]] /\ bound' = bound + 1
          /\ UNCHANGED <<fixedVars, names, swaps, step, band, fd, pin, noexec, wall, ran, rc>>
      BY <1>10, <2>2 DEF BindMember
    <3> HIDE DEF m
    <3>5. island' \in [Places -> Artifacts \cup {NoFile}] /\ bound' \in Nat
      BY <3>2, <3>3, <3>4
    <3> QED BY <3>4, <3>5
  <2> QED BY <2>1, <2>2
<1>11. CASE Authenticate
  BY <1>11 DEF Authenticate
<1>12. CASE VerifyFlags
  BY <1>12 DEF VerifyFlags
<1>13. CASE Walls
  BY <1>13 DEF Walls
<1>14. CASE Exec
  BY <1>14 DEF Exec, Places
<1> QED BY <1>1, <1>2, <1>3, <1>4, <1>5, <1>6, <1>7, <1>8, <1>9, <1>10, <1>11, <1>12, <1>13, <1>14
        DEF IslandNext

LEMMA IslandBand ==
    ASSUME IslandInv, IslandNext PROVE BandOK'
<1> USE DEF IslandInv, BandOK, fixedVars, Leaves, Aborts, Cleared
<1>1. ASSUME NEW n \in Places, NEW f \in Artifacts, Swap(n, f) PROVE BandOK'
  BY <1>1 DEF Swap, Enrolled
<1>2. CASE Cli
  BY <1>2 DEF Cli, Enrolled
<1>3. CASE Derive
  <2> DEFINE file == names[EntryName]
             hit  == IF ask.entry = "home" /\ ~ask.harness THEN PinsOf(file) ELSE {}
  <2>1. /\ step = "derive" /\ step' = "decide" /\ band' = DeriveBand(ask, hit)
        /\ IF band' = "pinned" THEN fd' = file /\ pin' = CHOOSE p \in hit : TRUE
           ELSE UNCHANGED <<fd, pin>>
        /\ UNCHANGED <<world, manifest, ask, island>>
    BY <1>3 DEF Derive
  <2>2. file \in Artifacts
    BY DEF IslandTypeOK, Places
  <2>3. island = [n \in Places |-> NoFile] /\ fd = NoFile
    BY <2>1
  <2>4. band' = "first" => Enrolled(ask)' /\ ~ask'.harness
    BY <2>1 DEF DeriveBand, SessionBand, Enrolled
  <2>5. ASSUME band' = "pinned"
        PROVE  pin' \in Pins(manifest) /\ pin'.digest = DigestOf[file] /\ pin'.closed
    <3>1. \E q \in hit : q.closed
      BY <2>1, <2>5 DEF DeriveBand, SessionBand
    <3>2. PICK q \in PinsOf(file) : q.closed
      BY <3>1
    <3>3. hit = PinsOf(file) /\ pin' = CHOOSE p \in hit : TRUE
      BY <2>1, <2>5, <3>1
    <3> HIDE DEF hit, file
    <3>4. pin' \in PinsOf(file)
      BY <3>2, <3>3
    <3>5. /\ q \in Pins(manifest) /\ q.digest = DigestOf[file]
          /\ pin' \in Pins(manifest) /\ pin'.digest = DigestOf[file]
      BY <3>2, <3>4 DEF PinsOf
    <3>6. pin' = q
      BY <3>5, PinsAre
    <3> QED BY <3>2, <3>5, <3>6
  <2> HIDE DEF hit, file
  <2> QED BY <2>1, <2>2, <2>3, <2>4, <2>5
<1>4. CASE Refuse
  BY <1>4 DEF Refuse, Enrolled
<1>5. CASE PinnedHomeless
  BY <1>5 DEF PinnedHomeless, Enrolled
<1>6. CASE HandOn
  BY <1>6 DEF HandOn, Enrolled
<1>7. CASE Enter
  BY <1>7 DEF Enter, Enrolled
<1>8. CASE SealGrants \/ SealUsr \/ SealRoot
  BY <1>8 DEF SealGrants, SealUsr, SealRoot, SealStep, Enrolled
<1>9. CASE BindEntry
  BY <1>9 DEF BindEntry, Enrolled, OrderOK, Building
<1>10. CASE BindMember
  BY <1>10 DEF BindMember, Enrolled, OrderOK, Building
<1>11. CASE Authenticate
  BY <1>11 DEF Authenticate, Enrolled
<1>12. CASE VerifyFlags
  BY <1>12 DEF VerifyFlags, Enrolled
<1>13. CASE Walls
  BY <1>13 DEF Walls, Enrolled
<1>14. CASE Exec
  BY <1>14 DEF Exec, Enrolled
<1> QED BY <1>1, <1>2, <1>3, <1>4, <1>5, <1>6, <1>7, <1>8, <1>9, <1>10, <1>11, <1>12, <1>13, <1>14
        DEF IslandNext

LEMMA IslandOrder ==
    ASSUME IslandInv, IslandNext PROVE OrderOK'
<1> USE DEF IslandInv, OrderOK, fixedVars, Leaves, Aborts, Cleared, Building
<1>1. ASSUME NEW n \in Places, NEW f \in Artifacts, Swap(n, f) PROVE OrderOK'
  BY <1>1 DEF Swap
<1>2. CASE Cli
  BY <1>2 DEF Cli, TierOrder
<1>3. CASE Derive
  BY <1>3 DEF Derive
<1>4. CASE Refuse
  BY <1>4 DEF Refuse
<1>5. CASE PinnedHomeless
  BY <1>5 DEF PinnedHomeless
<1>6. CASE HandOn
  BY <1>6 DEF HandOn
<1>7. CASE Enter
  BY <1>7 DEF Enter
<1>8. CASE SealGrants
  BY <1>8 DEF SealGrants, SealStep
<1>9. CASE SealUsr
  BY <1>9 DEF SealUsr, SealStep
<1>10. CASE SealRoot
  BY <1>10 DEF SealRoot, SealStep
<1>11. CASE BindEntry
  BY <1>11 DEF BindEntry
<1>12. CASE BindMember
  BY <1>12 DEF BindMember
<1>13. CASE Authenticate
  BY <1>13 DEF Authenticate
<1>14. CASE VerifyFlags
  BY <1>14 DEF VerifyFlags
<1>15. CASE Walls
  BY <1>15 DEF Walls
<1>16. CASE Exec
  BY <1>16 DEF Exec
<1> QED BY <1>1, <1>2, <1>3, <1>4, <1>5, <1>6, <1>7, <1>8, <1>9, <1>10, <1>11, <1>12, <1>13, <1>14,
           <1>15, <1>16
        DEF IslandNext

\* recheck: a wall is chosen only for what nothing refuses.
LEMMA IslandWall ==
    ASSUME IslandInv, IslandNext PROVE WallFits'
<1> USE DEF IslandInv, fixedVars
<1>1. ASSUME UNCHANGED <<world, manifest, ask, fd, wall>> PROVE WallFits'
  BY <1>1 DEF WallFits, Enrolled, LinesOf
<1>2. ASSUME wall' = "none" \/ ask'.tier = "unset" PROVE WallFits'
  BY <1>2 DEF WallFits
<1>3. ASSUME Cleared(ask.tier), wall' \in {"T0", "T1", "T2"},
             wall' = "T1" => band # "pinned" /\ ask.tier \in {"T0", "T1"},
             wall' = "T0" => ask.tier = "T0",
             UNCHANGED <<world, manifest, ask, fd>>
      PROVE  WallFits'
  <2> DEFINE c == CapsOf(ask.caps)
             p == Profile(ask)
             t == TierOrder[ask.tier]
  <2>1. Refusals(ask, band) = {} /\ ask.tier \in DOMAIN TierOrder /\ band \in DOMAIN Floor
    BY <1>3 DEF Cleared, OrderOK, IslandTypeOK
  <2>2. c \in 1..4 /\ p \in 1..4
    BY CapsAre DEF Numbered, Profile
  <2>3. /\ ~(t < EffectiveTier(band, c)) /\ ~(c > p) /\ c # CapsOrder.broad
        /\ c = CapsOrder.net => ask.egress # {} /\ ask.egress \subseteq SealedProfiles
    <3>1. \A x \in 10..13 : x \notin Refusals(ask, band)
      BY <2>1
    <3>2. 10 \in 10..13 /\ 11 \in 10..13 /\ 12 \in 10..13 /\ 13 \in 10..13
      OBVIOUS
    <3> QED BY <3>1, <3>2 DEF Refusals
  <2>4. c <= p /\ c < CapsOrder.broad
    BY <2>2, <2>3 DEF CapsOrder
  <2>5. wall' # "T2" => EffectiveTier(band, c) < 2
    <3>1. wall' # "T2" => t \in {0, 1}
      BY <1>3 DEF TierOrder
    <3>2. EffectiveTier(band, c) \in 0..3
      BY <2>1, <2>2 DEF EffectiveTier, Floor, Matrix
    <3> QED BY <2>3, <3>1, <3>2
  <2>6. wall' # "T2" => band \in {"first", "pinned"}
    BY <2>1, <2>2, <2>5 DEF EffectiveTier, Floor, Matrix
  <2>7. band = "first" => Enrolled(ask) /\ ~ask.harness
    BY DEF BandOK
  <2>8. band = "pinned" => fd # NoFile /\ \E i \in LinesOf(DigestOf[fd]) : manifest.lines[i].closed
    <3> SUFFICES ASSUME band = "pinned"
                 PROVE  fd # NoFile /\ \E i \in LinesOf(DigestOf[fd]) : manifest.lines[i].closed
      OBVIOUS
    <3>1. fd \in Artifacts /\ pin \in Pins(manifest) /\ pin.digest = DigestOf[fd] /\ pin.closed
      BY DEF BandOK
    <3>2. PICK i : OpenedBy(manifest.lines, pin, i, Len(manifest.lines))
      BY <3>1, PinsAre
    <3>3. DOMAIN manifest.lines = 1..Len(manifest.lines)
      BY IslandAssumption
    <3> QED BY <3>1, <3>2, <3>3, IslandAssumption DEF OpenedBy, LinesOf, Opens
  <2>9. \/ wall' = "T2"
        \/ Enrolled(ask) /\ ~ask.harness
        \/ wall' = "T0" /\ fd # NoFile /\ \E i \in LinesOf(DigestOf[fd]) : manifest.lines[i].closed
    BY <1>3, <2>6, <2>7, <2>8
  <2> QED BY <1>3, <2>3, <2>4, <2>9 DEF WallFits, Enrolled, LinesOf
<1>4. CASE Cli
  BY <1>2, <1>4 DEF Cli, OrderOK, TierOrder, Leaves
<1>5. CASE Derive
  BY <1>2, <1>5 DEF Derive, OrderOK
<1>6. CASE HandOn
  BY <1>3, <1>6 DEF HandOn, Cleared
<1>7. CASE Enter
  BY <1>1, <1>3, <1>7 DEF Enter, Cleared, Leaves
<1>8. CASE SealGrants \/ SealUsr \/ SealRoot
  BY <1>1, <1>8 DEF SealGrants, SealUsr, SealRoot, SealStep
<1> QED BY <1>1, <1>4, <1>5, <1>6, <1>7, <1>8
        DEF IslandNext, Swap, Refuse, PinnedHomeless, BindEntry, BindMember, Authenticate,
            VerifyFlags, Walls, Exec

LEMMA IslandBuilt ==
    ASSUME IslandInv, IslandNext PROVE BuiltOK'
<1> USE DEF IslandInv, fixedVars, Leaves, Aborts, Cleared
<1>1. ASSUME UNCHANGED <<fd, pin, noexec, island, bound>>,
             step' = step \/ step' \notin {"members", "flags", "walls", "exec", "runs"},
             band' = band
      PROVE  BuiltOK'
  BY <1>1 DEF BuiltOK, Assembled, Mapped
<1>2. ASSUME UNCHANGED <<fd, pin, noexec, island, bound, band>>,
             step' \in {"walls", "exec", "runs"}, band = "pinned" => Assembled
      PROVE  BuiltOK'
  BY <1>2 DEF BuiltOK, Assembled
<1>3. ASSUME NEW n \in Places, NEW f \in Artifacts, Swap(n, f) PROVE BuiltOK'
  BY <1>1, <1>3 DEF Swap
<1>4. CASE Derive
  BY <1>4 DEF Derive, BuiltOK
<1>5. CASE Enter
  BY <1>1, <1>2, <1>5 DEF Enter
<1>6. CASE SealGrants \/ SealUsr \/ SealRoot
  BY <1>6 DEF SealGrants, SealUsr, SealRoot, SealStep, BuiltOK
<1>7. CASE BindEntry
  <2>1. CASE step' = "members"
    <3>1. island' = [island EXCEPT ![EntryName] = fd] /\ UNCHANGED <<fd, pin, bound>> /\ bound = 0
      BY <1>7, <2>1 DEF BindEntry, OrderOK
    <3>2. EntryName \in Places /\ island \in [Places -> Artifacts \cup {NoFile}]
      BY DEF Places, IslandTypeOK
    <3>3. island'[EntryName] = fd'
      BY <3>1, <3>2
    <3>4. pin.interp \in Seq(Lines)
      <4>1. pin \in Pins(manifest)
        BY <1>7 DEF BindEntry, OrderOK, BandOK, Building
      <4> QED BY <4>1, MembersApart
    <3>5. \A x \in 1..Len(pin.interp) : ~(x <= 0)
      OBVIOUS
    <3>6. \A x \in 1..Len(pin.libs) : ~(Len(pin.interp) + x <= 0)
      BY <3>4
    <3> QED BY <2>1, <3>1, <3>3, <3>5, <3>6 DEF BuiltOK
  <2>2. CASE step' # "members"
    BY <1>7, <2>2 DEF BindEntry, BuiltOK
  <2> QED BY <2>1, <2>2
<1>8. CASE BindMember
  <2>1. CASE Aborts
    BY <1>8, <2>1 DEF BuiltOK
  <2>2. CASE ~Aborts
    <3> DEFINE m == Members[bound + 1]
               a == pin.interp
               b == pin.libs
    <3>1. /\ step = "members" /\ step' = "members" /\ bound < Len(Members) /\ bound' = bound + 1
          /\ DigestOf[names[m.name]] = m.digest
          /\ island' = [island EXCEPT ![m.name] = names[m.name]] /\ UNCHANGED <<fd, pin>>
      BY <1>8, <2>2 DEF BindMember
    <3>2. pin \in Pins(manifest) /\ bound \in Nat /\ island \in [Places -> Artifacts \cup {NoFile}]
      BY <3>1 DEF OrderOK, BandOK, Building, IslandTypeOK
    <3>3. /\ a \in Seq(Lines) /\ b \in Seq(Lines)
          /\ \A x \in 1..Len(a) : a[x].name \in Places /\ a[x].name # EntryName
          /\ \A x \in 1..Len(b) : b[x].name \in Places /\ b[x].name # EntryName
          /\ \A x \in 1..Len(a), y \in 1..Len(b) : a[x].name # b[y].name
      BY <3>2, MembersApart
    <3>4. \/ bound + 1 \in 1..Len(a) /\ m = a[bound + 1]
          \/ bound + 1 - Len(a) \in 1..Len(b) /\ m = b[bound + 1 - Len(a)]
      BY <3>1, <3>2, <3>3, NextMember
    <3>5. /\ island[EntryName] = fd
          /\ \A x \in 1..Len(a) : x <= bound => Mapped(a, x)
          /\ \A x \in 1..Len(b) : Len(a) + x <= bound => Mapped(b, x)
      BY <3>1 DEF BuiltOK
    <3>6. /\ m.name \in Places /\ m.name # EntryName
          /\ island'[m.name] = names[m.name]
          /\ \A n \in Places : n # m.name => island'[n] = island[n]
      BY <3>1, <3>2, <3>3, <3>4
    <3>7. a' = a /\ b' = b /\ Len(a) \in Nat /\ Len(b) \in Nat
      BY <3>1, <3>3
    <3> HIDE DEF m, a, b
    <3>8. island'[EntryName] = fd'
      BY <3>1, <3>5, <3>6 DEF Places
    <3>9. ASSUME NEW x \in 1..Len(a), x <= bound + 1
          PROVE  \E y \in 1..Len(a) : /\ a[y].name = a[x].name
                                      /\ a[y].digest = DigestOf[island'[a[x].name]]
      <4>1. CASE bound + 1 \in 1..Len(a) /\ m = a[bound + 1]
        <5>1. CASE a[x].name = m.name
          BY <3>1, <3>6, <4>1, <5>1
        <5>2. CASE a[x].name # m.name
          <6>1. x <= bound
            BY <3>2, <3>9, <4>1, <5>2
          <6>2. Mapped(a, x) /\ island'[a[x].name] = island[a[x].name]
            BY <3>3, <3>5, <3>6, <5>2, <6>1
          <6> QED BY <6>2 DEF Mapped
        <5> QED BY <5>1, <5>2
      <4>2. CASE bound + 1 - Len(a) \in 1..Len(b) /\ m = b[bound + 1 - Len(a)]
        <5>1. x <= bound /\ a[x].name # m.name
          BY <3>2, <3>3, <3>7, <3>9, <4>2
        <5>2. Mapped(a, x) /\ island'[a[x].name] = island[a[x].name]
          BY <3>3, <3>5, <3>6, <5>1
        <5> QED BY <5>2 DEF Mapped
      <4> QED BY <3>4, <4>1, <4>2
    <3>10. ASSUME NEW x \in 1..Len(b), Len(a) + x <= bound + 1
           PROVE  \E y \in 1..Len(b) : /\ b[y].name = b[x].name
                                       /\ b[y].digest = DigestOf[island'[b[x].name]]
      <4>1. bound + 1 - Len(a) \in 1..Len(b) /\ m = b[bound + 1 - Len(a)]
        BY <3>2, <3>4, <3>7, <3>10
      <4>2. CASE b[x].name = m.name
        BY <3>1, <3>6, <4>1, <4>2
      <4>3. CASE b[x].name # m.name
        <5>1. Len(a) + x <= bound
          <6>1. x # bound + 1 - Len(a)
            BY <4>1, <4>3
          <6> QED BY <3>2, <3>7, <3>10, <6>1
        <5>2. Mapped(b, x) /\ island'[b[x].name] = island[b[x].name]
          BY <3>3, <3>5, <3>6, <4>3, <5>1
        <5> QED BY <5>2 DEF Mapped
      <4> QED BY <4>2, <4>3
    <3>11. BuiltOK'
      BY <3>1, <3>8, <3>9, <3>10 DEF BuiltOK, Mapped, a, b
    <3> QED BY <3>11
  <2> QED BY <2>1, <2>2
<1>9. CASE Authenticate
  <2>1. CASE step' = "flags"
    <3>1. /\ step = "members" /\ bound = Len(Members) /\ UNCHANGED <<fd, pin, noexec, island, band>>
          /\ IF pin.closure THEN InClosure(island[EntryName]) ELSE LoaderFree(island[EntryName])
      BY <1>9, <2>1 DEF Authenticate
    <3>2. pin \in Pins(manifest)
      BY <3>1 DEF OrderOK, BandOK, Building
    <3>3. pin.interp \in Seq(Lines) /\ pin.libs \in Seq(Lines)
      BY <3>2, MembersApart
    <3>4. bound = Len(pin.interp) + Len(pin.libs)
      BY <3>1, <3>3 DEF Members, MembersOf
    <3>5. \A x \in 1..Len(pin.interp) : Mapped(pin.interp, x)
      <4> TAKE x \in 1..Len(pin.interp)
      <4>1. Len(pin.interp) \in Nat /\ Len(pin.libs) \in Nat
        BY <3>3
      <4>2. \A u, v \in Nat : \A y \in 1..u : y <= u + v
        OBVIOUS
      <4>3. x <= Len(pin.interp) + Len(pin.libs)
        BY <4>1, <4>2, Zenon
      <4> QED BY <3>1, <3>4, <4>3 DEF BuiltOK
    <3>6. \A x \in 1..Len(pin.libs) : Mapped(pin.libs, x)
      BY <3>1, <3>3, <3>4 DEF BuiltOK
    <3>7. island[EntryName] = fd /\ {"grants", "root"} \subseteq noexec
          /\ (pin.closure => "usr" \in noexec)
      BY <3>1 DEF BuiltOK, OrderOK
    <3>8. Assembled
      <4>1. CASE ~pin.closure
        BY <3>1, <3>7, <4>1 DEF LoaderFree, Assembled
      <4>2. CASE pin.closure
        <5>1. InClosure(fd)
          BY <3>1, <3>7, <4>2
        <5>2. \E x \in 1..Len(pin.interp) : pin.interp[x].name = InterpOf[fd]
          BY <3>3, <5>1, SeqRange DEF InClosure
        <5>3. \A n \in NeededOf[fd] : \E x \in 1..Len(pin.libs) : pin.libs[x].name = n
          BY <3>3, <5>1, SeqRange DEF InClosure
        <5>4. \E x \in 1..Len(pin.interp) : /\ pin.interp[x].name = InterpOf[fd]
                                            /\ pin.interp[x].digest = DigestOf[island[InterpOf[fd]]]
          BY <3>5, <5>2 DEF Mapped
        <5>5. \A n \in NeededOf[fd] : \E x \in 1..Len(pin.libs) :
                  /\ pin.libs[x].name = n /\ pin.libs[x].digest = DigestOf[island[n]]
          <6> TAKE n \in NeededOf[fd]
          <6>1. PICK x \in 1..Len(pin.libs) : pin.libs[x].name = n
            BY <5>3
          <6>2. Mapped(pin.libs, x)
            BY <3>6
          <6> QED BY <6>1, <6>2 DEF Mapped
        <5> QED BY <3>7, <4>2, <5>4, <5>5 DEF Assembled
      <4> QED BY <4>1, <4>2
    <3>9. Assembled'
      BY <3>1, <3>8 DEF Assembled
    <3> QED BY <2>1, <3>9 DEF BuiltOK
  <2>2. CASE step' # "flags"
    BY <1>9, <2>2 DEF Authenticate, BuiltOK
  <2> QED BY <2>1, <2>2
<1>10. CASE VerifyFlags
  <2>1. step = "flags" => Assembled
    BY DEF BuiltOK
  <2> QED BY <1>1, <1>2, <1>10, <2>1 DEF VerifyFlags
<1>11. CASE Walls
  <2>1. step = "walls" /\ band = "pinned" => Assembled
    BY DEF BuiltOK
  <2> QED BY <1>1, <1>2, <1>11, <2>1 DEF Walls
<1>12. CASE Exec
  <2>1. step = "exec" /\ band = "pinned" => Assembled
    BY DEF BuiltOK
  <2> QED BY <1>1, <1>2, <1>12, <2>1 DEF Exec
<1> QED BY <1>1, <1>3, <1>4, <1>5, <1>6, <1>7, <1>8, <1>9, <1>10, <1>11, <1>12
        DEF IslandNext, Cli, Refuse, PinnedHomeless, HandOn

\* sandbox_init_and_exec: what an assembled island runs is measured, and all that its
\* loader maps is listed in the one block that speaks of its digest.
LEMMA IslandRuns ==
    ASSUME IslandInv, IslandNext PROVE MeasuredRuns'
<1> USE DEF IslandInv, fixedVars
<1>1. ASSUME ran = NoFile, ran' = ran PROVE MeasuredRuns'
  BY <1>1 DEF MeasuredRuns
<1>2. CASE Exec /\ ran' # NoFile
  <2>1. /\ step = "exec" /\ ran' = island[EntryName]
        /\ UNCHANGED <<world, manifest, ask, band, fd, pin, noexec, island, wall>>
    BY <1>2 DEF Exec, OrderOK
  <2>2. wall = "T0"
    BY <2>1 DEF OrderOK
  <2>3. band = "pinned"
    BY <1>2, <2>1 DEF BandOK, Places
  <2>4. Assembled
    BY <2>1, <2>3 DEF BuiltOK
  <2>5. fd \in Artifacts /\ pin \in Pins(manifest) /\ pin.digest = DigestOf[fd] /\ pin.closed
    BY <2>3 DEF BandOK
  <2> DEFINE lines == manifest.lines
             N == Len(lines)
  <2>6. lines \in Seq(Lines) /\ DOMAIN lines = 1..N /\ N \in Nat
    BY IslandAssumption
  <2>7. PICK i : /\ OpenedBy(lines, pin, i, N)
                 /\ \A j \in 1..N : Opens(lines[j]) /\ lines[j].digest = pin.digest => j = i
    BY <2>5, PinsAre
  <2>8. LinesOf(DigestOf[fd]) = {i} /\ lines[i].closed
    BY <2>5, <2>6, <2>7 DEF LinesOf, OpenedBy, Opens
  <2>9. ASSUME NEW k, NEW m, Listed(lines, m, k, i, N)
        PROVE  Lists(i, k, m.name, m.digest)
    <3>1. PICK j \in (i+1)..N : lines[j] = m /\ m.kind = k /\ \A l \in (i+1)..j : ~Opens(lines[l])
      BY <2>9 DEF Listed
    <3>2. i \in 1..N
      BY <2>7 DEF OpenedBy
    <3>3. j \in DOMAIN lines /\ j > i
      BY <2>6, <3>1, <3>2
    <3> QED BY <3>1, <3>3 DEF Lists, Opens
  <2>10. ASSUME InterpOf[fd] # NoName
         PROVE  /\ Lists(i, "interp", InterpOf[fd], DigestOf[island[InterpOf[fd]]])
                /\ \A n \in NeededOf[fd] : Lists(i, "lib", n, DigestOf[island[n]])
    <3>1. PICK x \in 1..Len(pin.interp) : /\ pin.interp[x].name = InterpOf[fd]
                                          /\ pin.interp[x].digest = DigestOf[island[InterpOf[fd]]]
      BY <2>4, <2>10 DEF Assembled
    <3>2. Listed(lines, pin.interp[x], "interp", i, N)
      BY <2>7 DEF OpenedBy
    <3>3. ASSUME NEW n \in NeededOf[fd] PROVE Lists(i, "lib", n, DigestOf[island[n]])
      <4>1. PICK y \in 1..Len(pin.libs) : pin.libs[y].name = n /\ pin.libs[y].digest = DigestOf[island[n]]
        BY <2>4, <2>10 DEF Assembled
      <4>2. Listed(lines, pin.libs[y], "lib", i, N)
        BY <2>7 DEF OpenedBy
      <4> QED BY <2>9, <4>1, <4>2
    <3> QED BY <2>9, <3>1, <3>2, <3>3
  <2>11. ran' = fd /\ {"grants", "root"} \subseteq noexec
         /\ (InterpOf[fd] # NoName => "usr" \in noexec)
    BY <2>1, <2>4 DEF Assembled
  <2> HIDE DEF lines, N
  <2>12. LinesOf(DigestOf[fd])' = LinesOf(DigestOf[fd]) /\ lines' = lines
    BY <2>1 DEF LinesOf, lines
  <2>13. \A k, n, d : Lists(i, k, n, d)' = Lists(i, k, n, d)
    BY <2>1 DEF Lists
  <2> QED BY <2>1, <2>2, <2>3, <2>8, <2>10, <2>11, <2>12, <2>13 DEF MeasuredRuns, lines
<1>3. CASE Exec /\ ran' = NoFile
  BY <1>3 DEF MeasuredRuns
<1>4. ASSUME NEW n \in Places, NEW f \in Artifacts, Swap(n, f) PROVE MeasuredRuns'
  BY <1>1, <1>4 DEF Swap, OrderOK
<1>5. ran # NoFile => step = "runs"
  BY DEF OrderOK
<1> QED BY <1>1, <1>2, <1>3, <1>4, <1>5
        DEF IslandNext, Cli, Derive, Refuse, PinnedHomeless, HandOn, Enter, SealGrants, SealUsr, SealRoot,
            SealStep, BindEntry, BindMember, Authenticate, VerifyFlags, Walls, Cleared

\* sandbox::cli, provenance_plane, mount_plane and proc_plane: for every manifest,
\* machine, request and set of files, and any number of renames over the names, what
\* runs behind the weakest wall is what was measured, its loader and libraries are
\* those that one block of the manifest lists, and the wall fits the band.
THEOREM IslandIsSound == IslandSpec => [](IslandTypeOK /\ IslandHolds)
<1>1. IslandInv /\ [IslandNext]_islandVars => IslandInv'
  <2> SUFFICES ASSUME IslandInv, [IslandNext]_islandVars PROVE IslandInv'
    OBVIOUS
  <2>1. CASE IslandNext
    <3>1. manifest' = manifest
      BY <2>1 DEF IslandNext, Swap, Cli, Derive, Refuse, PinnedHomeless, HandOn, Enter, SealGrants, SealUsr,
                  SealRoot, SealStep, BindEntry, BindMember, Authenticate, VerifyFlags, Walls, Exec, fixedVars
    <3>2. manifest' \in Manifests
      BY <3>1 DEF IslandInv
    <3> QED BY <2>1, <3>2, IslandTypes, IslandBand, IslandOrder, IslandBuilt, IslandRuns, IslandWall
            DEF IslandInv
  <2>2. CASE UNCHANGED islandVars
    <3> USE <2>2 DEF islandVars, fixedVars, IslandInv
    <3>1. IslandTypeOK' /\ manifest' \in Manifests /\ BandOK' /\ OrderOK'
      BY DEF IslandTypeOK, BandOK, OrderOK, Building, Enrolled
    <3>2. BuiltOK'
      BY DEF BuiltOK, Assembled, Mapped
    <3>3. MeasuredRuns'
      BY DEF MeasuredRuns, LinesOf, Lists
    <3>4. WallFits'
      BY DEF WallFits, Enrolled, LinesOf
    <3> QED BY <3>1, <3>2, <3>3, <3>4
  <2> QED BY <2>1, <2>2
<1>2. IslandInv => IslandTypeOK /\ IslandHolds
  BY DEF IslandInv, IslandHolds
<1> QED BY <1>1, <1>2, IslandInitial, PTL DEF IslandSpec

---------------------------------------------------------------------------
(* The request desk: EgressDesk.  The shape of its state *)

Verbs == {"none", "status", "bless", "unbless", "junk", "want", "bind", "unbind"} \cup Privileged
Args  == {<<>>} \cup CapNames \cup (Tokens \X (Addrs \cup {NoAddr}))
Asks  == {r \in [who : {"none", "dev", "root"}, verb : Verbs, arg : Args,
                 live : BOOLEAN, ok : BOOLEAN] :
            /\ r.verb = "bind" => r.arg \in Tokens \X Addrs
            /\ r.verb = "unbind" => r.arg \in Tokens \X {NoAddr}}

Bindings == [Tokens -> Addrs \cup {NoAddr}]
Holding  == {"write", "absorb", "baseline", "compose"}
Handlers == {"bless", "unbless", "want", "install", "unstage", "remove"}

RequestsOK == queue \in Seq(Asks) /\ serving \in Asks

StoresOK ==
    /\ bindings \in Bindings /\ legacy \in Bindings
    /\ told \in [Tokens -> Addrs \cup {"unbound", "unknown"}]
    /\ owner \in [CapNames -> Texts \cup {NoText}] /\ staged \in [CapNames -> Texts \cup {NoText}]

\* Who is at work on the hosts file holds its lock; a verb of the hosts file is in
\* service only where such a verb can be
PlacesOK ==
    /\ place = [p \in Composers |-> place[p]] /\ hostsLock \in Composers \cup {Free}
    /\ \A p \in Composers : hostsLock = p <=> place[p] \in Holding
    /\ place["daemon"] \notin Holding \cup {"lock", "answer"} => serving.verb \notin HostVerbs
    /\ place["daemon"] = "write" => serving.verb \in HostVerbs
    /\ place["daemon"] \in Handlers => serving.verb # "none"

---------------------------------------------------------------------------
(* What the properties rest on *)

\* A manifest is staged, and lives, only as it was confirmed
Meant(n, t)   == t # NoText => t \in confirmed /\ t.name = n
ConfirmedOnly == \A n \in CapNames : Meant(n, owner[n]) /\ Meant(n, staged[n])

Contained == place["daemon"] \notin {"off", "scan"} => Colliding \subseteq quarantined

\* A request is served by a daemon that has migrated the old file
Migrated ==
    /\ "migrate" \notin faults
    /\ serving.verb # "none" \/ place["daemon"] \in {"compose", "idle", "answer"}
    => legacy = Unbound

\* What was answered, or is about to be, is what the store has
Written ==
    "migrate" \notin faults =>
        /\ \A t \in Tokens :
              /\ told[t] = "unbound" => bindings[t] = NoAddr /\ legacy[t] = NoAddr
              /\ told[t] \in Addrs => bindings[t] = told[t]
        /\ serving.verb \in HostVerbs /\ serving.ok
           /\ place["daemon"] \in {"absorb", "baseline", "compose", "answer"}
           => bindings[serving.arg[1]] = serving.arg[2]

PinsShown == place["daemon"] \notin {"off", "scan", "pins"} => pinned = weather

\* The daemon has composed since it started, and since it last changed anything
Composed ==
    /\ place["daemon"] \notin {"off", "scan", "pins", "absorb", "baseline", "compose"}
    /\ place["daemon"] = "lock" => serving.verb \in HostVerbs

Shown ==
    Composed /\ "project" \notin faults /\ hostsLock # "oneshot" =>
        /\ hosts.there /\ hosts.bound = bindings
        /\ hosts.weather = (weather /\ "weather" \in image.names)

DeskInv ==
    /\ RequestsOK /\ StoresOK /\ PlacesOK
    /\ ConfirmedOnly /\ Contained
    /\ Migrated /\ Written /\ PinsShown /\ Shown

---------------------------------------------------------------------------
(* Steps *)

\* A fresh boot satisfies the invariant, whatever the old hosts file binds.
LEMMA InitHolds == DeskInit => DeskInv
<1> SUFFICES ASSUME DeskInit PROVE DeskInv OBVIOUS
<1> USE DeskAssumption DEF DeskInit, NoAsk, Ask, Composers, Free, Holding, HostVerbs, Unbound
<1>1. RequestsOK BY DEF RequestsOK, Asks, Verbs, Args
<1>2. StoresOK BY DEF StoresOK, Bindings
<1>3. PlacesOK BY DEF PlacesOK, Handlers
<1>4. ConfirmedOnly /\ Contained BY DEF ConfirmedOnly, Meant, Contained
<1>5. Migrated /\ Written BY DEF Migrated, Written
<1>6. PinsShown /\ Shown BY DEF PinsShown, Shown, Composed
<1> QED BY <1>1, <1>2, <1>3, <1>4, <1>5, <1>6 DEF DeskInv

\* A verb with the argument it takes is a request (Request::parse).
LEMMA AskIsRequest ==
    ASSUME NEW who \in {"none", "dev", "root"}, NEW verb \in Verbs, NEW arg \in Args,
           verb = "bind" => arg \in Tokens \X Addrs,
           verb = "unbind" => arg \in Tokens \X {NoAddr}
    PROVE  Ask(who, verb, arg) \in Asks
<1>1. PICK live \in BOOLEAN : live = (who = "root") OBVIOUS
<1>2. Ask(who, verb, arg) = [who |-> who, verb |-> verb, arg |-> arg, live |-> live, ok |-> TRUE]
  BY <1>1 DEF Ask
<1> QED BY <1>2 DEF Asks

\* What a dev session or the relay may send is a request (parse_request).
LEMMA AsksWellFormed ==
    /\ DevAsks \subseteq Asks /\ NoAsk \in Asks
    /\ \A n \in CapNames, v \in Privileged : Ask("root", v, n) \in Asks
<1>1. {"status", "bless", "unbless", "junk", "want", "bind", "unbind", "remove", "install", "none"}
        \subseteq Verbs
  BY DEF Verbs, Privileged
<1>2. <<>> \in Args /\ CapNames \subseteq Args /\ Tokens \X (Addrs \cup {NoAddr}) \subseteq Args
  BY DEF Args
<1>3. NoAsk \in Asks BY <1>1, <1>2, AskIsRequest DEF NoAsk
<1>4. \A n \in CapNames, v \in Privileged : Ask("root", v, n) \in Asks
  BY <1>1, <1>2, AskIsRequest DEF Privileged
<1>5. \A v \in {"status", "bless", "unbless", "junk"} : Ask("dev", v, <<>>) \in Asks
  BY <1>1, <1>2, AskIsRequest
<1>6. \A n \in CapNames, v \in {"want", "remove"} : Ask("dev", v, n) \in Asks
  BY <1>1, <1>2, AskIsRequest
<1>7. \A t \in Tokens : Ask("dev", "unbind", <<t, NoAddr>>) \in Asks
  BY <1>1, <1>2, AskIsRequest
<1>8. \A t \in Tokens, a \in Addrs : Ask("dev", "bind", <<t, a>>) \in Asks
  BY <1>1, <1>2, AskIsRequest
<1>9. ASSUME NEW r \in DevAsks PROVE r \in Asks
  <2>1. \/ \E v \in {"status", "bless", "unbless", "junk"} : r = Ask("dev", v, <<>>)
        \/ \E n \in CapNames, v \in {"want", "remove"} : r = Ask("dev", v, n)
        \/ \E t \in Tokens : r = Ask("dev", "unbind", <<t, NoAddr>>)
        \/ \E t \in Tokens, a \in Addrs : r = Ask("dev", "bind", <<t, a>>)
    BY DEF DevAsks
  <2> QED BY <1>5, <1>6, <1>7, <1>8, <2>1
<1> QED BY <1>3, <1>4, <1>9

\* The queue holds requests, and one of them is served (handle, serve).
LEMMA RequestsKept ==
    ASSUME RequestsOK, DeskNext \/ UNCHANGED deskVars PROVE RequestsOK'
<1> USE DEF RequestsOK, machine, homeVars, capVars, runVars, lockVars, socketVars, history
<1>1. ASSUME NEW r \in DevAsks, DevSends(r) PROVE RequestsOK'
  BY <1>1, AsksWellFormed, AppendProperties DEF DevSends, Enqueue
<1>2. ASSUME NEW t \in Texts, ConfirmInstall(t) PROVE RequestsOK'
  <2>1. Ask("root", "install", t.name) \in Asks BY AsksWellFormed DEF CapNames, Privileged
  <2> QED BY <1>2, <2>1, AppendProperties DEF ConfirmInstall, Relay
<1>3. ASSUME NEW n \in CapNames, ConfirmRemove(n) PROVE RequestsOK'
  <2>1. Ask("root", "remove", n) \in Asks BY AsksWellFormed DEF Privileged
  <2> QED BY <1>3, <2>1, AppendProperties DEF ConfirmRemove, Relay
<1>4. CASE ClientGivesUp
  <2>1. \A r \in Asks : [r EXCEPT !.live = FALSE] \in Asks BY DEF Asks
  <2>2. ASSUME NEW i \in DOMAIN queue, queue' = [queue EXCEPT ![i].live = FALSE]
        PROVE  queue' \in Seq(Asks)
    <3>1. i \in 1..Len(queue) /\ queue[i] \in Asks OBVIOUS
    <3>2. queue' = [queue EXCEPT ![i] = [queue[i] EXCEPT !.live = FALSE]] BY <2>2
    <3>3. [queue[i] EXCEPT !.live = FALSE] \in Asks BY <2>1, <3>1
    <3> QED BY <3>1, <3>2, <3>3, ExceptSeq
  <2> QED BY <1>4, <2>1, <2>2 DEF ClientGivesUp
<1>5. CASE Serve
  <2>1. Head(queue) \in Asks /\ Tail(queue) \in Seq(Asks)
    BY <1>5, HeadTailProperties DEF Serve
  <2>2. \E granted \in BOOLEAN : serving' = [Head(queue) EXCEPT !.ok = granted]
    <3>1. PICK granted \in BOOLEAN :
            granted = (/\ Head(queue).verb # "junk" /\ Authorized(Head(queue))
                       /\ Mutating(Head(queue)) => Counts(Head(queue)))
      OBVIOUS
    <3> QED BY <1>5, <3>1 DEF Serve
  <2>3. serving' \in Asks BY <2>1, <2>2 DEF Asks
  <2> QED BY <1>5, <2>1, <2>3 DEF Serve
<1>6. ASSUME NEW ok \in BOOLEAN, NEW to, Ends(ok, to), UNCHANGED queue PROVE RequestsOK'
  BY <1>6 DEF Ends, Asks
<1>7. CASE Bless \/ WriteBinding \/ InstallStaged \/ Uninstall
  BY <1>6, <1>7 DEF Bless, WriteBinding, InstallStaged, Uninstall
<1>8. CASE Want
  <2>1. PICK there \in BOOLEAN : there = InCatalog(serving.arg) BY DEF InCatalog, Shadowed
  <2> QED BY <1>6, <1>8, <2>1 DEF Want
<1>9. CASE Answer BY <1>9, AsksWellFormed DEF Answer
<1>10. CASE DaemonDies \/ PowerCut
  <2>1. queue' = <<>> /\ serving' = NoAsk BY <1>10 DEF DaemonDies, PowerCut
  <2> QED BY <2>1, AsksWellFormed
<1>11. CASE UNCHANGED <<queue, serving>> BY <1>11
<1>12. ASSUME NEW p \in Composers, TakeLock(p) \/ Absorb(p) \/ Rebase(p) \/ Compose(p)
       PROVE  RequestsOK'
  BY <1>11, <1>12 DEF TakeLock, Absorb, Rebase, Compose
<1>13. CASE Lapse \/ ComposeCli \/ DaemonStarts \/ Scan \/ ProjectPins \/ Unstage
  BY <1>11, <1>13 DEF Lapse, ComposeCli, DaemonStarts, Scan, ProjectPins, Unstage
<1> QED
  BY <1>1, <1>2, <1>3, <1>4, <1>5, <1>7, <1>8, <1>9, <1>10, <1>11, <1>12, <1>13
  DEF DeskNext, deskVars

\* The stores and the manifests keep their shape (write_binding, stage_manifest).
LEMMA StoresKept ==
    ASSUME RequestsOK, StoresOK, PlacesOK, DeskNext \/ UNCHANGED deskVars PROVE StoresOK'
<1> USE DEF StoresOK, machine, homeVars, capVars, runVars, lockVars, socketVars, history
<1>1. ASSUME NEW t \in Texts, ConfirmInstall(t) PROVE StoresOK' BY <1>1 DEF ConfirmInstall
<1>2. ASSUME NEW p \in Composers, Absorb(p) PROVE StoresOK'
  <2>1. Absorbed \in Bindings BY DEF Absorbed, Bindings
  <2> QED BY <1>2, <2>1 DEF Absorb
<1>3. ASSUME NEW p \in Composers, Rebase(p) PROVE StoresOK'
  <2>1. Unbound \in Bindings BY DEF Unbound, Bindings
  <2> QED BY <1>3, <2>1 DEF Rebase
<1>4. CASE WriteBinding
  <2>1. serving.arg[1] \in Tokens /\ serving.arg[2] \in Addrs \cup {NoAddr}
    BY <1>4 DEF WriteBinding, PlacesOK, RequestsOK, HostVerbs, Asks
  <2> QED BY <1>4, <2>1 DEF WriteBinding, Bound, Bindings
<1>5. CASE InstallStaged BY <1>5 DEF InstallStaged, Owned
<1>6. CASE Unstage BY <1>6 DEF Unstage
<1>7. CASE Uninstall BY <1>7 DEF Uninstall, Owned
<1>8. CASE Answer
  <2>1. serving.verb \in HostVerbs => serving.arg[1] \in Tokens
    BY DEF RequestsOK, HostVerbs, Asks
  <2>2. serving.verb = "bind" => serving.arg[2] \in Addrs BY DEF RequestsOK, Asks
  <2> QED BY <1>8, <2>1, <2>2 DEF Answer
<1>9. CASE PowerCut BY <1>9 DEF PowerCut
<1>10. CASE UNCHANGED <<homeVars, told, owner, staged>> BY <1>10
<1>11. ASSUME NEW p \in Composers, TakeLock(p) \/ Compose(p) PROVE StoresOK'
  BY <1>10, <1>11 DEF TakeLock, Compose
<1>12. ASSUME NEW r \in DevAsks, DevSends(r) PROVE StoresOK' BY <1>10, <1>12 DEF DevSends
<1>13. ASSUME NEW n \in CapNames, ConfirmRemove(n) PROVE StoresOK'
  BY <1>10, <1>13 DEF ConfirmRemove
<1>14. CASE ClientGivesUp \/ Lapse \/ ComposeCli \/ DaemonStarts \/ Scan \/ ProjectPins
  BY <1>10, <1>14 DEF ClientGivesUp, Lapse, ComposeCli, DaemonStarts, Scan, ProjectPins
<1>15. CASE Serve \/ Bless \/ Want \/ DaemonDies
  BY <1>10, <1>15 DEF Serve, Bless, Want, DaemonDies
<1> QED
  BY <1>1, <1>2, <1>3, <1>4, <1>5, <1>6, <1>7, <1>8, <1>9, <1>10, <1>11, <1>12, <1>13, <1>14, <1>15
  DEF DeskNext, deskVars

\* A composer that goes from one place to another while the other stays takes the
\* lock along with the work, and only the daemon's own steps change its verb.
LEMMA PlacesKept ==
    ASSUME RequestsOK, PlacesOK, DeskNext \/ UNCHANGED deskVars PROVE PlacesOK'
<1> USE DEF machine, homeVars, capVars, runVars, lockVars, socketVars, history
<1>1. ASSUME NEW p \in Composers, TakeLock(p) PROVE PlacesOK'
  BY <1>1 DEF TakeLock, Goes, PlacesOK, Composers, Free, Holding, Handlers
<1>2. ASSUME NEW p \in Composers, Absorb(p) \/ Rebase(p) PROVE PlacesOK'
  BY <1>2 DEF Absorb, Rebase, Goes, PlacesOK, Composers, Free, Holding, Handlers
<1>3. ASSUME NEW p \in Composers, Compose(p) PROVE PlacesOK'
  <2>1. NoAsk.verb \notin HostVerbs BY DEF NoAsk, Ask, HostVerbs
  <2> QED BY <1>3, <2>1 DEF Compose, After, Goes, PlacesOK, Composers, Free, Holding, Handlers
<1>4. CASE Serve
  <2>1. \A to \in Verbs \cup {"lock", "answer"} : to \notin Holding
    BY DEF Verbs, Privileged, Holding
  <2>2. Head(queue) \in Asks /\ Head(queue).verb \in Verbs
    BY <1>4, HeadTailProperties DEF Serve, RequestsOK, Asks
  <2>3. /\ serving'.verb = Head(queue).verb /\ UNCHANGED hostsLock
        /\ \/ Goes("daemon", "answer")
           \/ Goes("daemon", FirstStep(Head(queue)))
    BY <1>4, <2>2 DEF Serve, Asks
  <2>4. FirstStep(Head(queue)) \in Verbs \cup {"lock"}
        /\ (Head(queue).verb \in HostVerbs => FirstStep(Head(queue)) = "lock")
    BY <2>2 DEF FirstStep
  <2>5. hostsLock # "daemon" /\ place["daemon"] = "idle"
    BY <1>4 DEF Serve, PlacesOK, Holding, Composers
  <2> DEFINE to == place'["daemon"]
  <2>6. /\ place' = [p \in Composers |-> place'[p]] /\ UNCHANGED place["oneshot"]
        /\ to = "answer" \/ to = FirstStep(Head(queue))
    BY <2>3 DEF Goes, PlacesOK, Composers
  <2>7. to \in Verbs \cup {"lock", "answer"} BY <2>4, <2>6
  <2>8. \A p \in Composers : hostsLock' = p <=> place'[p] \in Holding
    BY <2>1, <2>3, <2>5, <2>6, <2>7 DEF PlacesOK, Composers
  <2>9. serving'.verb \in HostVerbs => to \in {"lock", "answer"} BY <2>3, <2>4, <2>6
  <2>10. to \in Handlers => serving'.verb # "none"
    <3>1. SUFFICES ASSUME to \in Handlers PROVE Head(queue).verb # "none" BY <2>3
    <3> QED BY <2>6, <3>1 DEF Handlers, FirstStep
  <2>11. to # "write" BY <2>1, <2>7 DEF Holding
  <2> QED BY <2>3, <2>6, <2>8, <2>9, <2>10, <2>11 DEF PlacesOK
<1>5. CASE WriteBinding
  BY <1>5 DEF WriteBinding, Ends, RequestsOK, Asks, Goes, PlacesOK, Composers, Free, Holding, Handlers
<1>6. ASSUME NEW ok, NEW to, Ends(ok, to), UNCHANGED hostsLock, to \in {"pins", "unstage", "answer"},
             place["daemon"] \in Handlers
      PROVE  PlacesOK'
  <2>1. serving'.verb = serving.verb BY <1>6 DEF Ends, RequestsOK, Asks
  <2>2. serving.verb \notin HostVerbs \cup {"none"} /\ hostsLock # "daemon"
    BY <1>6 DEF PlacesOK, Handlers, Holding, HostVerbs, Composers
  <2>3. place'["daemon"] = to /\ UNCHANGED place["oneshot"]
        /\ place' = [p \in Composers |-> place'[p]]
    BY <1>6 DEF Ends, Goes, PlacesOK, Composers
  <2>4. to \notin Holding BY <1>6 DEF Holding
  <2>5. \A p \in Composers : hostsLock' = p <=> place'[p] \in Holding
    BY <1>6, <2>2, <2>3, <2>4 DEF PlacesOK, Composers
  <2>6. to # "write" BY <1>6
  <2> QED BY <1>6, <2>1, <2>2, <2>3, <2>5, <2>6 DEF PlacesOK
<1>7. CASE Bless \/ Want \/ InstallStaged \/ Uninstall
  BY <1>6, <1>7 DEF Bless, Want, InstallStaged, Uninstall, Handlers
<1>8. CASE Answer
  BY <1>8 DEF Answer, NoAsk, Ask, HostVerbs, Goes, PlacesOK, Composers, Holding, Handlers
<1>9. CASE DaemonStarts \/ Scan \/ ProjectPins \/ Unstage \/ ComposeCli
  BY <1>9
  DEF DaemonStarts, Scan, ProjectPins, Unstage, ComposeCli, Goes, PlacesOK, Composers, Holding, Handlers
<1>10. CASE DaemonDies
  BY <1>10 DEF DaemonDies, NoAsk, Ask, HostVerbs, Goes, PlacesOK, Composers, Free, Holding, Handlers
<1>11. CASE PowerCut
  BY <1>11 DEF PowerCut, NoAsk, Ask, HostVerbs, PlacesOK, Composers, Free, Holding, Handlers
<1>12. CASE ClientGivesUp
  <2>1. serving'.verb = serving.verb /\ UNCHANGED lockVars
    BY <1>12 DEF ClientGivesUp, RequestsOK, Asks
  <2> QED BY <2>1 DEF PlacesOK
<1>13. CASE UNCHANGED <<lockVars, serving>> BY <1>13 DEF PlacesOK
<1>14. ASSUME NEW r \in DevAsks, DevSends(r) PROVE PlacesOK' BY <1>13, <1>14 DEF DevSends
<1>15. ASSUME NEW t \in Texts, ConfirmInstall(t) PROVE PlacesOK'
  BY <1>13, <1>15 DEF ConfirmInstall
<1>16. ASSUME NEW n \in CapNames, ConfirmRemove(n) PROVE PlacesOK'
  BY <1>13, <1>16 DEF ConfirmRemove
<1>17. CASE Lapse BY <1>13, <1>17 DEF Lapse
<1> QED
  BY <1>1, <1>2, <1>3, <1>4, <1>5, <1>7, <1>8, <1>9, <1>10, <1>11, <1>12, <1>13, <1>14, <1>15,
     <1>16, <1>17
  DEF DeskNext, deskVars

---------------------------------------------------------------------------
(* Manifests *)

\* Only a ceremony stages, only what is staged is installed (stage_manifest,
\* confirmed_manifest_install).
LEMMA ConfirmedKept ==
    ASSUME StoresOK, ConfirmedOnly, DeskNext \/ UNCHANGED deskVars PROVE ConfirmedOnly'
<1> USE DeskAssumption
<1> USE DEF ConfirmedOnly, Meant, StoresOK, machine, homeVars, capVars, runVars, lockVars, socketVars, history
<1>1. ASSUME NEW t \in Texts, ConfirmInstall(t) PROVE ConfirmedOnly'
  <2>1. UNCHANGED owner /\ confirmed' = confirmed \cup {t}
        /\ staged' = [staged EXCEPT ![t.name] = t]
    BY <1>1 DEF ConfirmInstall
  <2>2. \A n \in CapNames : staged'[n] = IF n = t.name THEN t ELSE staged[n] BY <2>1
  <2>3. ASSUME NEW n \in CapNames, owner'[n] # NoText
        PROVE  owner'[n] \in confirmed' /\ owner'[n].name = n
    BY <2>1, <2>3
  <2>4. ASSUME NEW n \in CapNames, staged'[n] # NoText
        PROVE  staged'[n] \in confirmed' /\ staged'[n].name = n
    BY <2>1, <2>2, <2>4
  <2> QED BY <2>3, <2>4
<1>2. CASE InstallStaged
  <2> DEFINE m == serving.arg
  <2>1. /\ UNCHANGED confirmed
        /\ owner' = owner \/ owner' = [owner EXCEPT ![m] = staged[m]]
        /\ staged' = staged \/ staged' = [staged EXCEPT ![m] = NoText]
    BY <1>2 DEF InstallStaged, Owned
  <2>2. \A n \in CapNames : /\ owner'[n] \in {owner[n], staged[n]}
                            /\ staged'[n] \in {NoText, staged[n]}
    BY <2>1
  <2> QED BY <2>1, <2>2
<1>3. CASE Unstage BY <1>3 DEF Unstage
<1>4. CASE Uninstall BY <1>4 DEF Uninstall, Owned
<1>5. CASE PowerCut BY <1>5 DEF PowerCut
<1>6. CASE UNCHANGED capVars BY <1>6
<1>7. CASE UNCHANGED <<owner, staged, confirmed>> BY <1>7
<1>8. ASSUME NEW p \in Composers, TakeLock(p) \/ Absorb(p) \/ Rebase(p) \/ Compose(p)
      PROVE  ConfirmedOnly'
  BY <1>6, <1>8 DEF TakeLock, Absorb, Rebase, Compose
<1>9. ASSUME NEW r \in DevAsks, DevSends(r) PROVE ConfirmedOnly' BY <1>6, <1>9 DEF DevSends
<1>10. ASSUME NEW n \in CapNames, ConfirmRemove(n) PROVE ConfirmedOnly'
  BY <1>6, <1>10 DEF ConfirmRemove
<1>11. CASE ClientGivesUp \/ Lapse \/ ComposeCli \/ DaemonStarts \/ ProjectPins \/ Serve
  BY <1>6, <1>11 DEF ClientGivesUp, Lapse, ComposeCli, DaemonStarts, ProjectPins, Serve
<1>12. CASE Bless \/ WriteBinding \/ Want \/ Answer \/ DaemonDies
  BY <1>6, <1>12 DEF Bless, WriteBinding, Want, Answer, DaemonDies
<1>13. CASE Scan BY <1>7, <1>13 DEF Scan
<1> QED
  BY <1>1, <1>2, <1>3, <1>4, <1>5, <1>6, <1>8, <1>9, <1>10, <1>11, <1>12, <1>13
  DEF DeskNext, deskVars

\* A daemon that is up has scanned this image, and lets nothing in that collides
\* (quarantine_scan, confirmed_manifest_install).
LEMMA ContainedKept ==
    ASSUME StoresOK, PlacesOK, Contained, DeskNext \/ UNCHANGED deskVars PROVE Contained'
<1> USE DEF machine, homeVars, capVars, runVars, lockVars, socketVars, history
<1> DEFINE Up == place["daemon"] \notin {"off", "scan"}
<1>1. ASSUME UNCHANGED <<image, owner, quarantined>>, Up' => Up PROVE Contained'
  BY <1>1 DEF Contained, Colliding, Shadowed, ReservedHost
<1>2. ASSUME NEW p \in Composers, NEW to, Goes(p, to), p = "daemon" => Up,
             UNCHANGED <<image, owner, quarantined>>
      PROVE  Contained'
  BY <1>1, <1>2 DEF Goes, PlacesOK, Composers
<1>3. ASSUME NEW p \in Composers, TakeLock(p) \/ Absorb(p) \/ Rebase(p) \/ Compose(p)
      PROVE  Contained'
  BY <1>2, <1>3 DEF TakeLock, Absorb, Rebase, Compose
<1>4. CASE ProjectPins \/ Serve \/ WriteBinding \/ Want \/ Unstage \/ Answer
  BY <1>2, <1>4 DEF ProjectPins, Serve, WriteBinding, Want, Unstage, Answer, Ends, Composers
<1>5. CASE Bless
  <2>1. Up /\ (Goes("daemon", "pins") \/ Goes("daemon", "answer"))
        /\ UNCHANGED <<image, owner, quarantined>>
    BY <1>5 DEF Bless, Ends
  <2> QED BY <1>2, <2>1 DEF Composers
<1>6. CASE InstallStaged
  <2> DEFINE n == serving.arg
  <2>1. UNCHANGED <<image, quarantined>> /\ Up BY <1>6 DEF InstallStaged
  <2>2. \/ UNCHANGED owner
        \/ owner' = [owner EXCEPT ![n] = staged[n]] /\ Installable(staged[n])
    BY <1>6 DEF InstallStaged, Owned
  <2>3. CASE UNCHANGED owner BY <1>1, <2>1, <2>3
  <2>4. CASE owner' = [owner EXCEPT ![n] = staged[n]] /\ Installable(staged[n])
    BY <2>1, <2>4 DEF Installable, Contained, Colliding, Shadowed, ReservedHost, StoresOK
  <2> QED BY <2>2, <2>3, <2>4
<1>7. CASE Uninstall
  <2> DEFINE n == serving.arg
  <2>1. UNCHANGED image /\ Up BY <1>7 DEF Uninstall
  <2>2. \/ UNCHANGED <<owner, quarantined>>
        \/ owner' = [owner EXCEPT ![n] = NoText] /\ quarantined' = quarantined \ {n}
    BY <1>7 DEF Uninstall, Owned
  <2>3. CASE UNCHANGED <<owner, quarantined>> BY <1>1, <2>1, <2>3
  <2>4. CASE owner' = [owner EXCEPT ![n] = NoText] /\ quarantined' = quarantined \ {n}
    BY <2>1, <2>4 DEF Contained, Colliding, Shadowed, ReservedHost, StoresOK
  <2> QED BY <2>2, <2>3, <2>4
<1>8. CASE Scan
  BY <1>8 DEF Scan, Contained, Colliding, Shadowed, ReservedHost
<1>9. CASE DaemonStarts \/ DaemonDies \/ PowerCut
  BY <1>9 DEF DaemonStarts, DaemonDies, PowerCut, Goes, Contained, PlacesOK, Composers
<1>10. CASE ComposeCli BY <1>2, <1>10 DEF ComposeCli, Composers
<1>11. CASE UNCHANGED <<image, owner, quarantined, place>> BY <1>1, <1>11
<1>12. ASSUME NEW r \in DevAsks, DevSends(r) PROVE Contained' BY <1>11, <1>12 DEF DevSends
<1>13. ASSUME NEW t \in Texts, ConfirmInstall(t) PROVE Contained'
  BY <1>11, <1>13 DEF ConfirmInstall
<1>14. ASSUME NEW n \in CapNames, ConfirmRemove(n) PROVE Contained'
  BY <1>11, <1>14 DEF ConfirmRemove
<1>15. CASE ClientGivesUp \/ Lapse BY <1>11, <1>15 DEF ClientGivesUp, Lapse
<1> QED
  BY <1>3, <1>4, <1>5, <1>6, <1>7, <1>8, <1>9, <1>10, <1>11, <1>12, <1>13, <1>14, <1>15
  DEF DeskNext, deskVars

---------------------------------------------------------------------------
(* Bindings *)

\* Only a daemon that has been through the migration takes a request, and the old
\* file never comes back (migrate_legacy, serve).
LEMMA MigratedKept ==
    ASSUME RequestsOK, PlacesOK, Migrated, DeskNext \/ UNCHANGED deskVars PROVE Migrated'
<1> USE DEF machine, homeVars, capVars, runVars, lockVars, socketVars, history
<1> DEFINE Late == serving.verb # "none" \/ place["daemon"] \in {"compose", "idle", "answer"}
<1>1. ASSUME UNCHANGED <<faults, legacy>>, "migrate" \notin faults => (Late' => Late)
      PROVE  Migrated'
  BY <1>1 DEF Migrated
<1>2. ASSUME NEW p \in Composers, NEW to, Goes(p, to), to \notin {"compose", "idle", "answer"},
             UNCHANGED <<faults, legacy, serving>>
      PROVE  Migrated'
  BY <1>1, <1>2 DEF Goes, PlacesOK, Composers
<1>3. ASSUME NEW p \in Composers, TakeLock(p) PROVE Migrated' BY <1>2, <1>3 DEF TakeLock
<1>4. ASSUME NEW p \in Composers, Absorb(p) PROVE Migrated'
  <2>1. CASE Goes(p, "baseline") BY <1>2, <1>4, <2>1 DEF Absorb
  <2>2. CASE "migrate" \in faults BY <1>4, <2>2 DEF Absorb, Migrated
  <2> QED BY <1>4, <2>1, <2>2 DEF Absorb
<1>5. ASSUME NEW p \in Composers, Rebase(p) PROVE Migrated' BY <1>5 DEF Rebase, Migrated
<1>6. ASSUME NEW p \in Composers, Compose(p) PROVE Migrated'
  <2>1. p = "daemon" => Late BY <1>6 DEF Compose
  <2>2. p # "daemon" => UNCHANGED <<serving, place["daemon"]>>
    BY <1>6 DEF Compose, Goes, PlacesOK, Composers
  <2> QED BY <1>1, <1>6, <2>1, <2>2 DEF Compose
<1>7. CASE Serve BY <1>1, <1>7 DEF Serve
<1>8. ASSUME NEW ok, NEW to, Ends(ok, to), serving.verb # "none", UNCHANGED <<faults, legacy>>
      PROVE  Migrated'
  BY <1>1, <1>8
<1>9. CASE WriteBinding \/ Bless \/ Want \/ InstallStaged \/ Uninstall
  BY <1>8, <1>9
  DEF WriteBinding, Bless, Want, InstallStaged, Uninstall, PlacesOK, HostVerbs, Handlers
<1>10. CASE Answer BY <1>1, <1>10 DEF Answer
<1>11. CASE DaemonDies \/ PowerCut
  <2>1. ~Late' BY <1>11 DEF DaemonDies, PowerCut, NoAsk, Ask, Goes, PlacesOK, Composers
  <2> QED BY <1>1, <1>11, <2>1 DEF DaemonDies, PowerCut
<1>12. CASE DaemonStarts \/ Scan \/ ProjectPins \/ Unstage
  BY <1>2, <1>12 DEF DaemonStarts, Scan, ProjectPins, Unstage, Composers
<1>13. CASE ComposeCli BY <1>2, <1>13 DEF ComposeCli, Composers
<1>14. CASE ClientGivesUp
  <2>1. serving'.verb = serving.verb /\ UNCHANGED <<faults, legacy, place>>
    BY <1>14 DEF ClientGivesUp, RequestsOK, Asks
  <2> QED BY <1>1, <2>1
<1>15. CASE UNCHANGED <<faults, legacy, place, serving>> BY <1>1, <1>15
<1>16. ASSUME NEW r \in DevAsks, DevSends(r) PROVE Migrated' BY <1>15, <1>16 DEF DevSends
<1>17. ASSUME NEW t \in Texts, ConfirmInstall(t) PROVE Migrated'
  BY <1>15, <1>17 DEF ConfirmInstall
<1>18. ASSUME NEW n \in CapNames, ConfirmRemove(n) PROVE Migrated'
  BY <1>15, <1>18 DEF ConfirmRemove
<1>19. CASE Lapse BY <1>15, <1>19 DEF Lapse
<1> QED
  BY <1>3, <1>4, <1>5, <1>6, <1>7, <1>9, <1>10, <1>11, <1>12, <1>13, <1>14, <1>15, <1>16, <1>17,
     <1>18, <1>19
  DEF DeskNext, deskVars

\* The store has what was answered, whatever the migration and the other composer
\* do meanwhile (do_bind, do_unbind, migrate_legacy).
LEMMA WrittenKept ==
    ASSUME RequestsOK, StoresOK, PlacesOK, Migrated, Written, DeskNext \/ UNCHANGED deskVars
    PROVE  Written'
<1> USE DeskAssumption
<1> USE DEF machine, homeVars, capVars, runVars, lockVars, socketVars, history
<1> DEFINE Due == /\ serving.verb \in HostVerbs /\ serving.ok
                  /\ place["daemon"] \in {"absorb", "baseline", "compose", "answer"}
<1>1. ASSUME UNCHANGED <<faults, homeVars, told>>, Due' => Due /\ serving'.arg = serving.arg
      PROVE  Written'
  BY <1>1 DEF Written
<1>2. ASSUME NEW p \in Composers, NEW to, Goes(p, to), UNCHANGED <<faults, homeVars, told, serving>>,
             \/ p # "daemon"
             \/ to \notin {"absorb", "baseline", "compose", "answer"}
             \/ place["daemon"] \in {"absorb", "baseline", "compose"}
             \/ serving.verb \notin HostVerbs
      PROVE  Written'
  BY <1>1, <1>2 DEF Goes, PlacesOK, Composers
<1>3. ASSUME NEW p \in Composers, TakeLock(p) PROVE Written' BY <1>2, <1>3 DEF TakeLock
<1>4. ASSUME NEW p \in Composers, Absorb(p) PROVE Written'
  <2>1. CASE "migrate" \in faults BY <1>4, <2>1 DEF Absorb, Written
  <2>2. CASE "migrate" \notin faults
    <3>1. bindings' = Absorbed /\ Goes(p, "baseline")
          /\ UNCHANGED <<faults, legacy, told, serving>>
      BY <1>4, <2>2 DEF Absorb
    <3>2. \A t \in Tokens : /\ bindings[t] # NoAddr => bindings'[t] = bindings[t]
                            /\ bindings[t] = NoAddr => bindings'[t] = legacy[t]
      BY <3>1 DEF Absorbed
    <3>3. serving.verb \in HostVerbs => bindings' = bindings
      <4>1. SUFFICES ASSUME serving.verb \in HostVerbs PROVE bindings' = bindings OBVIOUS
      <4>2. legacy = Unbound BY <2>2, <4>1 DEF Migrated, HostVerbs
      <4> QED BY <3>1, <3>2, <4>2 DEF Absorbed, Unbound, StoresOK, Bindings
    <3>4. place["daemon"] = place'["daemon"] \/ place["daemon"] = "absorb"
      BY <1>4, <3>1 DEF Absorb, Goes, PlacesOK, Composers
    <3> QED BY <3>1, <3>2, <3>3, <3>4 DEF Written, StoresOK
  <2> QED BY <2>1, <2>2
<1>5. ASSUME NEW p \in Composers, Rebase(p) PROVE Written'
  <2>1. \A t \in Tokens : legacy'[t] = NoAddr \/ legacy'[t] = legacy[t]
    BY <1>5 DEF Rebase, Unbound
  <2>2. Due' => Due BY <1>5 DEF Rebase, Goes, PlacesOK, Composers
  <2> QED BY <1>5, <2>1, <2>2 DEF Rebase, Written
<1>6. ASSUME NEW p \in Composers, Compose(p) PROVE Written' BY <1>2, <1>6 DEF Compose
<1>7. CASE Serve
  <2>1. Head(queue) \in Asks BY <1>7, HeadTailProperties DEF Serve, RequestsOK
  <2> DEFINE r == Head(queue)
             granted == /\ r.verb # "junk" /\ Authorized(r)
                        /\ Mutating(r) => Counts(r)
  <2>2. serving' = [r EXCEPT !.ok = granted]
        /\ Goes("daemon", IF granted /\ r.verb # "status" THEN FirstStep(r) ELSE "answer")
        /\ UNCHANGED <<faults, homeVars, told>>
    BY <1>7 DEF Serve
  <2> HIDE DEF granted
  <2>3. serving'.verb = r.verb /\ serving'.ok = granted BY <2>1, <2>2 DEF Asks
  <2>4. ~Due'
    <3>1. SUFFICES ASSUME r.verb \in HostVerbs, granted
          PROVE  place'["daemon"] = "lock"
      BY <2>3
    <3>2. Goes("daemon", "lock") BY <2>2, <3>1 DEF FirstStep, HostVerbs
    <3> QED BY <3>2 DEF Goes, PlacesOK, Composers
  <2> QED BY <1>1, <2>2, <2>4
<1>8. CASE WriteBinding
  <2> DEFINE t == serving.arg[1]
  <2>1. t \in Tokens /\ serving.verb \in HostVerbs
    BY <1>8 DEF WriteBinding, PlacesOK, RequestsOK, HostVerbs, Asks
  <2>2. CASE Ends(TRUE, "absorb")
    <3>1. /\ bindings' = [bindings EXCEPT ![t] = serving.arg[2]]
          /\ told' = [told EXCEPT ![t] = "unknown"] /\ UNCHANGED <<faults, legacy>>
      BY <1>8, <2>2 DEF WriteBinding, Bound, Ends, Goes, PlacesOK, RequestsOK, Asks, Composers
    <3>2. serving'.arg = serving.arg BY <2>2 DEF Ends, RequestsOK, Asks
    <3> QED BY <2>1, <3>1, <3>2 DEF Written, StoresOK, Bindings
  <2>3. CASE Ends(FALSE, "answer") /\ UNCHANGED <<bindings, told>>
    <3>1. ~serving'.ok BY <2>3 DEF Ends, RequestsOK, Asks
    <3> QED BY <1>1, <1>8, <2>3, <3>1 DEF WriteBinding
  <2>4. Ends(TRUE, "absorb") \/ (Ends(FALSE, "answer") /\ UNCHANGED <<bindings, told>>)
    BY <1>8, Zenon DEF WriteBinding
  <2> QED BY <2>2, <2>3, <2>4, Zenon
<1>9. ASSUME NEW ok, NEW to, Ends(ok, to), UNCHANGED <<faults, homeVars, told>>,
             serving.verb \notin HostVerbs
      PROVE  Written'
  <2>1. serving'.verb = serving.verb BY <1>9 DEF Ends, RequestsOK, Asks
  <2> QED BY <1>1, <1>9, <2>1
<1>10. CASE Bless \/ Want \/ InstallStaged \/ Uninstall
  BY <1>9, <1>10 DEF Bless, Want, InstallStaged, Uninstall, PlacesOK, Holding
<1>11. CASE Answer
  <2> DEFINE t == serving.arg[1]
  <2>1. UNCHANGED <<faults, homeVars>> /\ place["daemon"] = "answer" /\ serving' = NoAsk
    BY <1>11 DEF Answer
  <2>2. ~Due' BY <2>1 DEF NoAsk, Ask, HostVerbs
  <2>3. CASE ~(serving.ok /\ serving.verb \in HostVerbs)
    BY <1>1, <1>11, <2>1, <2>2, <2>3 DEF Answer
  <2>4. CASE serving.ok /\ serving.verb \in HostVerbs
    <3>1. told' = [told EXCEPT ![t] = IF serving.verb = "bind" THEN serving.arg[2] ELSE "unbound"]
      BY <1>11, <2>4 DEF Answer
    <3>2. /\ t \in Tokens
          /\ serving.verb = "bind" => serving.arg[2] \in Addrs
          /\ serving.verb # "bind" => serving.arg[2] = NoAddr
      BY <2>4 DEF RequestsOK, HostVerbs, Asks
    <3>3. "migrate" \notin faults => bindings[t] = serving.arg[2] /\ legacy[t] = NoAddr
      BY <2>1, <2>4, <3>2 DEF Written, Migrated, HostVerbs, Unbound
    <3>4. told'[t] = (IF serving.verb = "bind" THEN serving.arg[2] ELSE "unbound")
          /\ \A u \in Tokens : u # t => told'[u] = told[u]
      BY <3>1, <3>2 DEF StoresOK
    <3> QED BY <2>1, <2>2, <3>2, <3>3, <3>4 DEF Written
  <2> QED BY <2>3, <2>4
<1>12. CASE DaemonDies \/ PowerCut
  <2>1. ~Due' BY <1>12 DEF DaemonDies, PowerCut, NoAsk, Ask, HostVerbs
  <2> QED BY <1>1, <1>12, <2>1 DEF DaemonDies, PowerCut
<1>13. CASE DaemonStarts \/ Scan \/ ProjectPins \/ Unstage
  BY <1>2, <1>13 DEF DaemonStarts, Scan, ProjectPins, Unstage, Composers
<1>14. CASE ComposeCli BY <1>2, <1>14 DEF ComposeCli, Composers
<1>15. CASE ClientGivesUp
  <2>1. serving'.verb = serving.verb /\ serving'.ok = serving.ok /\ serving'.arg = serving.arg
        /\ UNCHANGED <<faults, homeVars, told, place>>
    BY <1>15 DEF ClientGivesUp, RequestsOK, Asks
  <2> QED BY <1>1, <2>1
<1>16. CASE UNCHANGED <<faults, homeVars, told, place, serving>> BY <1>1, <1>16
<1>17. ASSUME NEW r \in DevAsks, DevSends(r) PROVE Written' BY <1>16, <1>17 DEF DevSends
<1>18. ASSUME NEW t \in Texts, ConfirmInstall(t) PROVE Written'
  BY <1>16, <1>18 DEF ConfirmInstall
<1>19. ASSUME NEW n \in CapNames, ConfirmRemove(n) PROVE Written'
  BY <1>16, <1>19 DEF ConfirmRemove
<1>20. CASE Lapse BY <1>16, <1>20 DEF Lapse
<1> QED
  BY <1>3, <1>4, <1>5, <1>6, <1>7, <1>8, <1>10, <1>11, <1>12, <1>13, <1>14, <1>15, <1>16, <1>17,
     <1>18, <1>19, <1>20
  DEF DeskNext, deskVars

---------------------------------------------------------------------------
(* The hosts file *)

\* The pin map shows the store's pins to every request (project_pinned).
LEMMA PinsKept ==
    ASSUME PlacesOK, PinsShown, DeskNext \/ UNCHANGED deskVars PROVE PinsShown'
<1> USE DEF machine, homeVars, capVars, runVars, lockVars, socketVars, history
<1> DEFINE Up == place["daemon"] \notin {"off", "scan", "pins"}
<1>1. ASSUME UNCHANGED <<pinned, weather>>, Up' => Up PROVE PinsShown'
  BY <1>1 DEF PinsShown
<1>2. ASSUME NEW p \in Composers, NEW to, Goes(p, to), p = "daemon" => Up,
             UNCHANGED <<pinned, weather>>
      PROVE  PinsShown'
  BY <1>1, <1>2 DEF Goes, PlacesOK, Composers
<1>3. ASSUME NEW p \in Composers, TakeLock(p) \/ Absorb(p) \/ Rebase(p) \/ Compose(p)
      PROVE  PinsShown'
  BY <1>2, <1>3 DEF TakeLock, Absorb, Rebase, Compose
<1>4. CASE Serve \/ WriteBinding \/ Want \/ InstallStaged \/ Unstage \/ Answer
  BY <1>2, <1>4 DEF Serve, WriteBinding, Want, InstallStaged, Unstage, Answer, Ends, Composers
<1>5. ASSUME Goes("daemon", "pins") PROVE PinsShown'
  BY <1>5 DEF Goes, PinsShown, PlacesOK, Composers
<1>6. CASE Bless BY <1>5, <1>6 DEF Bless, Ends
<1>7. CASE Uninstall BY <1>2, <1>5, <1>7 DEF Uninstall, Ends, Composers
<1>8. CASE ProjectPins BY <1>8 DEF ProjectPins, PinsShown
<1>9. CASE DaemonStarts \/ Scan \/ DaemonDies \/ PowerCut
  BY <1>9 DEF DaemonStarts, Scan, DaemonDies, PowerCut, Goes, PinsShown, PlacesOK, Composers
<1>10. CASE ComposeCli BY <1>2, <1>10 DEF ComposeCli, Composers
<1>11. CASE UNCHANGED <<pinned, weather, place>> BY <1>1, <1>11
<1>12. ASSUME NEW r \in DevAsks, DevSends(r) PROVE PinsShown' BY <1>11, <1>12 DEF DevSends
<1>13. ASSUME NEW t \in Texts, ConfirmInstall(t) PROVE PinsShown'
  BY <1>11, <1>13 DEF ConfirmInstall
<1>14. ASSUME NEW n \in CapNames, ConfirmRemove(n) PROVE PinsShown'
  BY <1>11, <1>14 DEF ConfirmRemove
<1>15. CASE ClientGivesUp \/ Lapse BY <1>11, <1>15 DEF ClientGivesUp, Lapse
<1> QED
  BY <1>3, <1>4, <1>6, <1>7, <1>8, <1>9, <1>10, <1>11, <1>12, <1>13, <1>14, <1>15
  DEF DeskNext, deskVars

\* What a composition writes is what is there when a request is served next
\* (compose_hosts, reproject, do_bind).
LEMMA ShownKept ==
    ASSUME RequestsOK, StoresOK, PlacesOK, PinsShown, Shown, DeskNext \/ UNCHANGED deskVars
    PROVE  Shown'
<1> USE DEF machine, homeVars, capVars, runVars, lockVars, socketVars, history
<1>1. ASSUME UNCHANGED <<machine, bindings, weather, hosts, hostsLock>>, Composed' => Composed
      PROVE  Shown'
  BY <1>1 DEF Shown
<1>2. ASSUME NEW p \in Composers, NEW to, Goes(p, to), to # "lock", p = "daemon" => Composed,
             UNCHANGED <<machine, bindings, weather, hosts, hostsLock, serving>>
      PROVE  Shown'
  BY <1>1, <1>2 DEF Goes, PlacesOK, Composers, Composed
<1>3. ASSUME NEW p \in Composers, TakeLock(p) PROVE Shown'
  <2>1. UNCHANGED <<machine, bindings, weather, hosts, serving>>
        /\ hostsLock = Free /\ hostsLock' = p
    BY <1>3 DEF TakeLock
  <2>2. CASE p = "oneshot" BY <2>1, <2>2 DEF Shown
  <2>3. CASE p = "daemon" /\ serving.verb \in HostVerbs
    BY <1>3, <2>1, <2>3 DEF TakeLock, Goes, PlacesOK, Composers, Composed, Shown, Free
  <2>4. CASE p = "daemon" /\ serving.verb \notin HostVerbs
    BY <1>3, <2>1, <2>4 DEF TakeLock, Goes, PlacesOK, Composers, Composed, Shown
  <2> QED BY <2>2, <2>3, <2>4 DEF Composers
<1>4. ASSUME NEW p \in Composers, Absorb(p) \/ Rebase(p) PROVE Shown'
  <2>1. hostsLock = p /\ UNCHANGED hostsLock
    BY <1>4 DEF Absorb, Rebase, PlacesOK, Holding
  <2>2. CASE p = "oneshot" BY <2>1, <2>2 DEF Shown
  <2>3. CASE p = "daemon"
    <3>1. place'["daemon"] \in {"baseline", "compose"}
      BY <1>4, <2>3 DEF Absorb, Rebase, Goes, PlacesOK, Composers
    <3> QED BY <3>1 DEF Shown, Composed
  <2> QED BY <2>2, <2>3 DEF Composers
<1>5. ASSUME NEW p \in Composers, Compose(p) PROVE Shown'
  <2>1. SUFFICES ASSUME Composed', "project" \notin faults
        PROVE  /\ hosts'.there /\ hosts'.bound = bindings'
               /\ hosts'.weather = (weather /\ "weather" \in image.names)
    BY <1>5 DEF Compose, Shown
  <2>2. hosts' = [there |-> TRUE, bound |-> bindings,
                  weather |-> pinned /\ "weather" \in image.names]
        /\ UNCHANGED bindings
    BY <1>5, <2>1 DEF Compose
  <2>3. place["daemon"] \notin {"off", "scan", "pins"}
    BY <1>5, <2>1 DEF Compose, Goes, PlacesOK, Composers, Composed
  <2>4. pinned = weather BY <2>3 DEF PinsShown
  <2>5. hosts'.weather = (pinned /\ "weather" \in image.names) BY <2>2
  <2>6. hosts'.weather = (weather /\ "weather" \in image.names) BY <2>4, <2>5, Zenon
  <2> QED BY <2>2, <2>6
<1>6. ASSUME NEW to, Goes("daemon", to),
             to \in {"pins", "lock", "off", "scan", "absorb"}, to = "lock" => serving'.verb \notin HostVerbs
      PROVE  Shown'
  BY <1>6 DEF Goes, PlacesOK, Composers, Composed, Shown
<1>7. CASE Serve \/ Want \/ InstallStaged \/ Answer
  <2>1. place["daemon"] \in {"idle", "answer"} \cup Handlers
    BY <1>7 DEF Serve, Want, InstallStaged, Answer, Handlers
  <2>2. Composed BY <2>1 DEF Composed, Handlers
  <2>3. UNCHANGED <<machine, bindings, weather, hosts, hostsLock>>
    BY <1>7 DEF Serve, Want, InstallStaged, Answer
  <2> QED BY <1>1, <2>2, <2>3
<1>8. CASE WriteBinding
  <2>1. Ends(TRUE, "absorb")
        \/ (Ends(FALSE, "answer") /\ hostsLock' = Free /\ UNCHANGED <<bindings, told>>)
    BY <1>8, Zenon DEF WriteBinding
  <2>2. CASE Ends(TRUE, "absorb")
    <3>1. Goes("daemon", "absorb") BY <2>2 DEF Ends
    <3> QED BY <1>6, <3>1
  <2>3. CASE Ends(FALSE, "answer") /\ hostsLock' = Free /\ UNCHANGED <<bindings, told>>
    <3>1. Composed /\ hostsLock = "daemon"
      BY <1>8 DEF WriteBinding, Composed, PlacesOK, Holding, Composers
    <3> QED BY <1>8, <2>3, <3>1 DEF WriteBinding, Shown
  <2> QED BY <2>1, <2>2, <2>3, Zenon
<1>9. CASE Bless \/ Uninstall
  <2>1. \/ Goes("daemon", "pins")
        \/ /\ Goes("daemon", "answer") /\ Composed
           /\ UNCHANGED <<machine, bindings, weather, hosts, hostsLock>>
    BY <1>9 DEF Bless, Uninstall, Ends, Composed
  <2> QED BY <1>1, <1>6, <2>1
<1>10. CASE ProjectPins
  <2>1. serving.verb \notin HostVerbs BY <1>10 DEF ProjectPins, PlacesOK, Holding
  <2> QED BY <1>6, <1>10, <2>1 DEF ProjectPins
<1>11. CASE DaemonStarts \/ Scan \/ DaemonDies BY <1>6, <1>11 DEF DaemonStarts, Scan, DaemonDies
<1>12. CASE PowerCut BY <1>12 DEF PowerCut, Composers, Shown, Composed
<1>13. CASE Unstage
  <2>1. Goes("daemon", "pins") BY <1>13 DEF Unstage
  <2> QED BY <1>6, <2>1
<1>14. CASE ComposeCli
  <2>1. UNCHANGED place["daemon"] BY <1>14 DEF ComposeCli, Goes, PlacesOK, Composers
  <2> QED BY <1>1, <1>14, <2>1 DEF ComposeCli, Composed
<1>15. CASE ClientGivesUp
  <2>1. serving'.verb = serving.verb
        /\ UNCHANGED <<machine, bindings, weather, hosts, hostsLock, place>>
    BY <1>15 DEF ClientGivesUp, RequestsOK, Asks
  <2> QED BY <1>1, <2>1 DEF Composed
<1>16. CASE UNCHANGED <<machine, bindings, weather, hosts, hostsLock, place, serving>>
  BY <1>1, <1>16 DEF Composed
<1>17. ASSUME NEW r \in DevAsks, DevSends(r) PROVE Shown' BY <1>16, <1>17 DEF DevSends
<1>18. ASSUME NEW t \in Texts, ConfirmInstall(t) PROVE Shown'
  BY <1>16, <1>18 DEF ConfirmInstall
<1>19. ASSUME NEW n \in CapNames, ConfirmRemove(n) PROVE Shown'
  BY <1>16, <1>19 DEF ConfirmRemove
<1>20. CASE Lapse BY <1>16, <1>20 DEF Lapse
<1> QED
  BY <1>3, <1>4, <1>5, <1>7, <1>8, <1>9, <1>10, <1>11, <1>12, <1>13, <1>14, <1>15, <1>16, <1>17,
     <1>18, <1>19, <1>20
  DEF DeskNext, deskVars

\* The steps of the desk keep the invariant.
LEMMA InvKept == ASSUME DeskInv, [DeskNext]_deskVars PROVE DeskInv'
<1> USE DEF DeskInv
<1>1. (RequestsOK /\ StoresOK /\ PlacesOK)' BY RequestsKept, StoresKept, PlacesKept
<1>2. (ConfirmedOnly /\ Contained)' BY ConfirmedKept, ContainedKept
<1>3. (Migrated /\ Written)' BY MigratedKept, WrittenKept
<1>4. (PinsShown /\ Shown)' BY PinsKept, ShownKept
<1> QED BY <1>1, <1>2, <1>3, <1>4

---------------------------------------------------------------------------

\* Whatever is staged, installed and removed, over whichever images: a live owner
\* manifest is one a console confirmed, and one that collides with this image
\* is quarantined before a request is served (confirmed_manifest_install,
\* quarantine_scan).
THEOREM ManifestsContained == DeskSpec => []OwnerContained
<1>1. DeskInv => OwnerContained
  BY DEF DeskInv, ConfirmedOnly, Meant, Contained, OwnerContained
<1> QED BY <1>1, InitHolds, InvKept, PTL DEF DeskSpec

\* Whatever deaths, reboots and second composer: between requests the hosts file is
\* the store's, and the store has what was answered (compose_hosts, do_bind,
\* do_unbind, migrate_legacy).
THEOREM HostsAreTheStores == DeskSpec => []HostsCurrent
<1>1. DeskInv => HostsCurrent
  <2> SUFFICES ASSUME DeskInv PROVE HostsCurrent OBVIOUS
  <2>1. Settled /\ "project" \notin faults => Composed /\ hostsLock # "oneshot"
    BY DEF Settled, Composed, Free
  <2>2. Settled /\ "project" \notin faults =>
           /\ hosts.there /\ hosts.bound = bindings
           /\ hosts.weather = (weather /\ "weather" \in image.names)
    BY <2>1, Zenon DEF DeskInv, Shown
  <2>3. "migrate" \notin faults =>
          \A t \in Tokens : /\ told[t] = "unbound" => bindings[t] = NoAddr
                            /\ told[t] \in Addrs => bindings[t] = told[t]
    BY DEF DeskInv, Written
  <2> QED BY <2>2, <2>3, Zenon DEF HostsCurrent
<1> QED BY <1>1, InitHolds, InvKept, PTL DEF DeskSpec

---------------------------------------------------------------------------
(* The sessions of the model brokers: the inductive invariant *)

\* Boxes the theorem is about
Plain == ~box.together /\ box.faults = {}

Stages  == {"none", "queue", "cli", "forget", "rmdir", "reply"}
Prefixes  == [of : Nat, upto : Nat]
Turns   == [at : Stages, n : Nat, slot : Nat, mode : {"none", "create", "resume", "flatten"},
            bad : BOOLEAN, got : Prefixes, ok : BOOLEAN]
Natives == [m : Nat, id : BOOLEAN, by : Nat, kept : BOOLEAN, holds : Prefixes]
Coders  == [at : {"none", "ask", "wait", "act", "gone"}, n : Nat, step : Nat, rc : Nat, got : Prefixes]

Shape ==
    /\ provider \in {"claude", "codex"}
    /\ coder \in [Runs -> Coders] /\ req \in [Runs -> Turns] /\ map \in [CoderHandles -> Nat]
    /\ \E k \in Nat : slot \in [1..k -> Natives]

\* Native sessions that have had a turn
Used(s) == slot[s].m # 0

\* The slot resumes to exactly what r sent before
Mine(s, r, n) ==
    /\ Used(s) /\ slot[s].m = n /\ slot[s].holds = Upto(r, n)
    /\ provider = "codex" => slot[s].id

Busy(r)    == req[r].at # "none"
Running(r) == coder[r].at \in {"ask", "wait", "act"}
Held(r)    == req[r].at = "cli"

\* Runs come one after the other
InTurn == \A r, q \in Runs : q < r /\ coder[r].at # "none" => coder[q].at = "gone"

\* A slot belongs to one handle, and a request is at a slot of its handle
SlotsOK ==
    /\ \A h \in CoderHandles : map[h] # NoSlot => map[h] \in Slots
    /\ \A h, g \in CoderHandles : map[h] = map[g] /\ map[h] # NoSlot => h = g
    /\ \A r \in Runs : Busy(r) =>
          /\ req[r].slot \in Slots /\ req[r].n > 0
          /\ \A h \in CoderHandles : map[h] = req[r].slot => h = HandleOf(r)
          /\ coder[r].at \in {"wait", "gone"}
    /\ \A s \in Slots : slot[s].m # 1

\* The CLI of a slot runs for whoever has its lock
LockOK ==
    /\ \A r \in Runs : Held(r) => slot[req[r].slot].by = r
    /\ \A s \in Slots : slot[s].by # Nobody =>
          slot[s].by \in Runs /\ Held(slot[s].by) /\ req[slot[s].by].slot = s

\* A slot whose directory went is in no map, and its id may be unknown
Detached(s) == \A h \in CoderHandles : map[h] # s
DirsOK ==
    /\ \A r \in Runs : req[r].at = "rmdir" => Detached(req[r].slot)
    /\ provider = "codex" =>
          /\ \A r \in Runs : Held(r) /\ req[r].slot \notin dirs => Detached(req[r].slot)
          /\ \A s \in Slots : Used(s) /\ ~slot[s].id => Detached(s)

\* A coder that waits has its request in the broker; its handle is at that slot or
\* was forgotten
WaitOK ==
    \A r \in Runs : Waits(r) =>
        /\ Busy(r) /\ req[r].n = coder[r].n
        /\ map[HandleOf(r)] \in {NoSlot, req[r].slot}

\* A request in the queue that has something before it is alone at a new slot, or
\* at one that has just that
QueueOK ==
    \A r \in Runs : req[r].at = "queue" /\ req[r].n > 1 =>
        \/ Mine(req[r].slot, r, req[r].n - 1)
        \/ /\ ~Used(req[r].slot) /\ slot[req[r].slot].by = Nobody
           /\ coder[r].at = "wait"
           /\ \A q \in Runs : Busy(q) /\ req[q].slot = req[r].slot => q = r

CliOK ==
    \A r \in Runs : Held(r) =>
        /\ req[r].mode \in {"create", "resume", "flatten"}
        /\ req[r].bad <=> req[r].mode = "flatten"
        /\ req[r].mode = "create" =>
              ~Used(req[r].slot) \/ (provider = "codex" /\ ~slot[req[r].slot].id)
        /\ req[r].mode = "resume" => Mine(req[r].slot, r, req[r].n - 1)

\* What was made of a request is what it said; its session can go on, or is forgotten
DoneOK ==
    \A r \in Runs :
        /\ req[r].at \in {"forget", "rmdir", "reply"} /\ req[r].ok => req[r].got = Upto(r, req[r].n)
        /\ req[r].at \in {"queue", "cli"} => ~req[r].ok
        /\ Waits(r) /\ req[r].at \in {"rmdir", "reply"} /\ map[HandleOf(r)] # NoSlot /\ req[r].ok =>
              Mine(map[HandleOf(r)], r, req[r].n + 1)

\* What a running coder comes back to is its own, or is made for it
BackOK ==
    \A r \in Runs :
        /\ coder[r].at \in {"ask", "act"} => ~Busy(r) /\ coder[r].n > 0
        /\ coder[r].at = "act" => coder[r].got = Upto(r, coder[r].n - 1)
        /\ coder[r].at = "act" /\ map[HandleOf(r)] # NoSlot =>
              Mine(map[HandleOf(r)], r, coder[r].n)
        /\ coder[r].at = "ask" /\ coder[r].n > 1 /\ map[HandleOf(r)] # NoSlot =>
              Mine(map[HandleOf(r)], r, coder[r].n - 1)
        /\ coder[r].at = "none" => ~Busy(r)

Inner ==
    /\ Shape /\ InTurn /\ SlotsOK /\ LockOK /\ DirsOK
    /\ WaitOK /\ QueueOK /\ CliOK /\ DoneOK /\ BackOK

BrokersInv == Plain => Inner

---------------------------------------------------------------------------

\* A restarted, or just started, broker knows nothing, and no coder has asked.
LEMMA ToldInit == BrokersInit => BrokersInv
<1> SUFFICES ASSUME BrokersInit, Plain PROVE Inner BY DEF BrokersInv
<1> USE BrokersAssumption DEF BrokersInit, Idle, Nothing, NoSlot, Nobody, Runs, CoderHandles
<1>1. Shape
  <2>1. slot \in [1..0 -> Natives]
    <3>1. <<>> \in Seq(Natives) /\ Len(<<>>) = 0 OBVIOUS
    <3>2. <<>> \in [1..Len(<<>>) -> Natives] BY <3>1, LenProperties
    <3> QED BY <3>1, <3>2
  <2>2. req \in [Runs -> Turns] BY DEF Turns, Stages, Prefixes
  <2>3. coder \in [Runs -> Coders] BY DEF Coders, Prefixes
  <2>4. provider \in {"claude", "codex"} OBVIOUS
  <2> QED BY <2>1, <2>2, <2>3, <2>4 DEF Shape
<1>2. Slots = {} BY DEF Slots
<1>3. InTurn /\ SlotsOK /\ LockOK BY <1>2 DEF InTurn, SlotsOK, LockOK, Busy, Held
<1>4. DirsOK /\ WaitOK /\ QueueOK BY <1>2 DEF DirsOK, WaitOK, QueueOK, Held, Waits
<1>5. CliOK /\ DoneOK /\ BackOK BY DEF CliOK, DoneOK, BackOK, Held, Waits, Busy
<1> QED BY <1>1, <1>3, <1>4, <1>5 DEF Inner

\* The slots are numbered from 1, so the next number is new (Registry::acquire).
LEMMA NextSlot ==
    ASSUME Shape
    PROVE  /\ Cardinality(Slots) \in Nat /\ Cardinality(Slots) + 1 \notin Slots
           /\ \A v \in Natives :
                 LET k == Cardinality(Slots) + 1
                     f == [i \in Slots \cup {k} |-> IF i = k THEN v ELSE slot[i]]
                 IN /\ f \in [1..k -> Natives] /\ DOMAIN f = Slots \cup {k}
                    /\ f[k] = v /\ \A i \in Slots : f[i] = slot[i]
<1> PICK k \in Nat : slot \in [1..k -> Natives] BY DEF Shape
<1>1. Slots = 1..k BY DEF Slots
<1>2. Cardinality(Slots) = k BY <1>1, FS_Interval
<1>3. k + 1 \notin Slots /\ Slots \cup {k + 1} = 1..(k + 1) BY <1>1
<1>4. ASSUME NEW v \in Natives, NEW f,
             f = [i \in Slots \cup {k + 1} |-> IF i = k + 1 THEN v ELSE slot[i]]
      PROVE  /\ f \in [1..(k + 1) -> Natives] /\ DOMAIN f = Slots \cup {k + 1}
             /\ f[k + 1] = v /\ \A i \in Slots : f[i] = slot[i]
  <2>1. \A i \in 1..(k + 1) : i # k + 1 => i \in 1..k OBVIOUS
  <2> QED BY <1>1, <1>3, <1>4, <2>1
<1> QED BY <1>2, <1>3, <1>4

\* One coder runs at a time.
LEMMA OneRuns ==
    ASSUME InTurn, NEW r \in Runs, NEW q \in Runs, Running(r), Running(q) PROVE r = q
<1>1. r \in Nat /\ q \in Nat BY BrokersAssumption DEF Runs
<1>2. ~(r < q) /\ ~(q < r) BY DEF InTurn, Running
<1> QED BY <1>1, <1>2

\* A coder that starts finds the others gone (main of coder).
LEMMA StartKeeps == ASSUME Plain, Inner, NEW r \in Runs, Start(r) PROVE Inner'
<1> USE DEF Inner
<1>1. /\ coder[r].at = "none" /\ \A q \in Runs : q < r => coder[q].at = "gone"
      /\ coder' = [coder EXCEPT ![r].at = "ask", ![r].n = 1, ![r].step = 1]
      /\ UNCHANGED <<provider, box, req, map, slot, dirs>>
  BY DEF Start, Plain
<1>2. /\ \A q \in Runs : q # r => coder'[q] = coder[q]
      /\ coder'[r].at = "ask" /\ coder'[r].n = 1 /\ coder' \in [Runs -> Coders]
  <2> DEFINE c == [coder[r] EXCEPT !.at = "ask", !.n = 1, !.step = 1]
  <2>1. coder[r] \in Coders /\ coder \in [Runs -> Coders] BY DEF Shape
  <2>2. c \in Coders /\ c.at = "ask" /\ c.n = 1 BY <2>1 DEF Coders
  <2>3. coder' = [coder EXCEPT ![r] = c] BY <1>1, <2>1
  <2> HIDE DEF c
  <2> QED BY <2>1, <2>2, <2>3
<1>3. Shape' BY <1>1, <1>2 DEF Shape
<1>4. InTurn'
  <2> SUFFICES ASSUME NEW p \in Runs, NEW q \in Runs, q < p, coder'[p].at # "none"
               PROVE  coder'[q].at = "gone"
    BY DEF InTurn
  <2>1. p \in Nat /\ q \in Nat /\ r \in Nat BY BrokersAssumption DEF Runs
  <2>2. CASE p = r BY <1>1, <1>2, <2>1, <2>2
  <2>3. CASE p # r
    <3>1. coder[q].at = "gone" BY <1>2, <2>3 DEF InTurn
    <3> QED BY <1>1, <1>2, <3>1
  <2> QED BY <2>2, <2>3
<1>5. ~Busy(r) BY <1>1 DEF BackOK
<1>6. (SlotsOK /\ LockOK /\ DirsOK)'
  BY <1>1, <1>2, <1>5 DEF SlotsOK, LockOK, DirsOK, Busy, Held, Slots, HandleOf, Detached, Used
<1>7. WaitOK' BY <1>1, <1>2, <1>5 DEF WaitOK, Waits, Busy, HandleOf
<1>8. (QueueOK /\ CliOK)'
  <2>1. QueueOK' BY <1>1, <1>2, <1>5 DEF QueueOK, Busy, Mine, Used
  <2>2. CliOK' BY <1>1 DEF CliOK, Held, Mine, Used
  <2> QED BY <2>1, <2>2
<1>9. DoneOK'
  <2>1. \A q \in Runs : Waits(q)' => Waits(q) BY <1>2 DEF Waits
  <2> QED BY <1>1, <2>1 DEF DoneOK, HandleOf, Mine, Used
<1>10. BackOK'
  <2>1. \A q \in Runs : Busy(q)' = Busy(q) /\ HandleOf(q)' = HandleOf(q)
    BY <1>1 DEF Busy, HandleOf
  <2>2. \A i, n, q : Mine(i, q, n)' = Mine(i, q, n) BY <1>1 DEF Mine, Used
  <2>3. ~Busy(r) BY <1>5
  <2> QED BY <1>1, <1>2, <2>1, <2>2, <2>3 DEF BackOK
<1> QED BY <1>3, <1>4, <1>6, <1>7, <1>8, <1>9, <1>10

\* A coder that stops asking leaves its request behind, but none that is alone in a
\* queue (read timeout, exits of run_loop).
LEMMA LeaveKeeps ==
    ASSUME Plain, Inner, NEW r \in Runs, NEW code \in Nat, Exit(r, code),
           UNCHANGED <<provider, box, req, map, slot, dirs>>,
           coder[r].at \in {"ask", "act"} \/ (Waits(r) /\ Slow(r))
    PROVE  Inner'
<1> USE DEF Inner
<1>1. /\ \A q \in Runs : q # r => coder'[q] = coder[q]
      /\ coder'[r].at = "gone" /\ coder' \in [Runs -> Coders]
  BY DEF Exit, Shape, Coders
<1>2. (Shape /\ InTurn)' BY <1>1 DEF Shape, InTurn, Waits
<1>3. (SlotsOK /\ LockOK /\ DirsOK)'
  BY <1>1 DEF SlotsOK, LockOK, DirsOK, Busy, Held, Slots, HandleOf, Detached, Used
<1>4. (WaitOK /\ CliOK)' BY <1>1 DEF WaitOK, CliOK, Waits, Busy, Held, HandleOf, Mine, Used
<1>5. QueueOK'
  <2>1. req[r].at = "queue" => slot[req[r].slot].by # Nobody
    BY DEF Slow, BackOK, Busy
  <2> QED BY <1>1, <2>1 DEF QueueOK, Waits, Busy, Mine, Used
<1>6. DoneOK'
  <2>1. \A q \in Runs : Waits(q)' => Waits(q) BY <1>1 DEF Waits
  <2> QED BY <2>1 DEF DoneOK, HandleOf, Mine, Used
<1>7. BackOK'
  <2>1. \A q \in Runs : Busy(q)' = Busy(q) /\ HandleOf(q)' = HandleOf(q) BY DEF Busy, HandleOf
  <2>2. \A q \in Runs : coder'[q] = coder[q] \/ coder'[q].at = "gone" BY <1>1
  <2>3. \A i, n, q : Mine(i, q, n)' = Mine(i, q, n) BY DEF Mine, Used
  <2> QED BY <2>1, <2>2, <2>3 DEF BackOK
<1> QED BY <1>2, <1>3, <1>4, <1>5, <1>6, <1>7

\* A turn of the coder ends it or appends its reply and the result of its tool
\* (run_loop).
LEMMA ActKeeps == ASSUME Plain, Inner, NEW r \in Runs, Act(r) \/ Panics(r) PROVE Inner'
<1> USE DEF Inner
<1>1. coder[r].at = "act" /\ UNCHANGED <<provider, box, req, map, slot, dirs>>
  BY DEF Act, Panics
<1>2. ASSUME NEW code \in Nat, Exit(r, code) PROVE Inner'
  BY <1>1, <1>2, LeaveKeeps
<1>3. ASSUME coder' = [coder EXCEPT ![r] = [coder[r] EXCEPT !.at = "ask", !.n = @ + 1, !.step = @ + 1]]
      PROVE  Inner'
  <2>1. /\ \A q \in Runs : q # r => coder'[q] = coder[q]
        /\ coder'[r].at = "ask" /\ coder'[r].n = coder[r].n + 1 /\ coder' \in [Runs -> Coders]
    <3> DEFINE c == [coder[r] EXCEPT !.at = "ask", !.n = @ + 1, !.step = @ + 1]
    <3>1. coder[r] \in Coders /\ coder \in [Runs -> Coders] BY DEF Shape
    <3>2. c \in Coders /\ c.at = "ask" /\ c.n = coder[r].n + 1
      <4>1. coder[r].n + 1 \in Nat /\ coder[r].step + 1 \in Nat BY <3>1 DEF Coders
      <4> QED BY <3>1, <4>1 DEF Coders
    <3>3. coder' = [coder EXCEPT ![r] = c] BY <1>3
    <3> HIDE DEF c
    <3> QED BY <3>1, <3>2, <3>3
  <2>2. coder[r].n \in Nat BY DEF Shape, Coders
  <2>3. ~Busy(r) /\ coder[r].n > 0 BY <1>1 DEF BackOK
  <2>4. (Shape /\ InTurn)' BY <1>1, <2>1 DEF Shape, InTurn
  <2>5. (SlotsOK /\ LockOK /\ DirsOK)'
    BY <1>1, <2>1, <2>3 DEF SlotsOK, LockOK, DirsOK, Busy, Held, Slots, HandleOf, Detached, Used
  <2>6. WaitOK' BY <1>1, <2>1 DEF WaitOK, Waits, Busy, HandleOf
  <2>7. QueueOK' BY <1>1, <2>1, <2>3 DEF QueueOK, Busy, Mine, Used
  <2>8. CliOK' BY <1>1 DEF CliOK, Held, Mine, Used
  <2>9. DoneOK'
    <3>1. \A q \in Runs : Waits(q)' => Waits(q) BY <2>1 DEF Waits
    <3> QED BY <1>1, <3>1 DEF DoneOK, HandleOf, Mine, Used
  <2>10. BackOK'
    <3>1. \A q \in Runs : Busy(q)' = Busy(q) /\ HandleOf(q)' = HandleOf(q)
      BY <1>1 DEF Busy, HandleOf
    <3>2. \A i, n, q : Mine(i, q, n)' = Mine(i, q, n) BY <1>1 DEF Mine, Used
    <3>3. coder'[r].n > 0 /\ coder'[r].n - 1 = coder[r].n BY <2>1, <2>2
    <3> QED BY <1>1, <2>1, <2>3, <3>1, <3>2, <3>3 DEF BackOK
  <2> QED BY <2>4, <2>5, <2>6, <2>7, <2>8, <2>9, <2>10
<1> QED BY <1>2, <1>3 DEF Act, Panics

\* A request is at the slot of its handle, made for it when the handle has none
\* (Registry::acquire).
LEMMA SendKeeps == ASSUME Plain, Inner, NEW r \in Runs, Send(r) PROVE Inner'
<1> USE DEF Inner
<1> DEFINE h == HandleOf(r)
           s == IF map[h] = NoSlot THEN Cardinality(Slots) + 1 ELSE map[h]
           q0 == [Idle EXCEPT !.at = "queue", !.n = coder[r].n, !.slot = s]
<1>1. /\ coder[r].at = "ask" /\ coder' = [coder EXCEPT ![r].at = "wait"]
      /\ req' = [req EXCEPT ![r] = q0] /\ map' = [map EXCEPT ![h] = s]
      /\ slot' = IF s \in Slots THEN slot ELSE [i \in Slots \cup {s} |-> IF i = s THEN Fresh ELSE slot[i]]
      /\ UNCHANGED <<provider, box, dirs>>
  BY DEF Send
<1>2. h \in CoderHandles BY BrokersAssumption DEF HandleOf, CoderHandles, Runs
<1>3. /\ Cardinality(Slots) \in Nat /\ Cardinality(Slots) + 1 \notin Slots
      /\ s \in Nat /\ s # NoSlot /\ (map[h] # NoSlot => s \in Slots) /\ (map[h] = NoSlot => s \notin Slots)
  BY <1>2, NextSlot DEF Shape, SlotsOK, NoSlot
<1>4. /\ \A q \in Runs : q # r => coder'[q] = coder[q]
      /\ coder'[r].at = "wait" /\ coder'[r].n = coder[r].n /\ coder' \in [Runs -> Coders]
  BY <1>1 DEF Shape, Coders
<1>5. /\ \A q \in Runs : q # r => req'[q] = req[q]
      /\ req'[r] = q0 /\ q0 \in Turns /\ req' \in [Runs -> Turns]
      /\ q0.at = "queue" /\ q0.n = coder[r].n /\ q0.slot = s /\ ~q0.ok
  <2>1. coder[r].n \in Nat BY DEF Shape, Coders
  <2>2. /\ q0 \in Turns
        /\ q0.at = "queue" /\ q0.n = coder[r].n /\ q0.slot = s /\ ~q0.ok
    BY <2>1, <1>3 DEF Turns, Stages, Prefixes, Idle, Nothing, NoSlot
  <2> HIDE DEF q0
  <2> QED BY <1>1, <2>2 DEF Shape
<1>6. /\ map'[h] = s /\ \A g \in CoderHandles : g # h => map'[g] = map[g]
      /\ map' \in [CoderHandles -> Nat]
  BY <1>1, <1>2, <1>3 DEF Shape
<1>7. Fresh \in Natives /\ Fresh.m = 0 /\ Fresh.by = Nobody /\ ~Fresh.id
  BY DEF Fresh, Natives, Prefixes, Nothing, Nobody
<1>8. /\ Slots' = Slots \cup {s} /\ \A i \in Slots : slot'[i] = slot[i]
      /\ (s \notin Slots => slot'[s] = Fresh)
      /\ \E k \in Nat : slot' \in [1..k -> Natives]
  <2>1. CASE s \in Slots
    <3>1. slot' = slot BY <1>1, <2>1
    <3> HIDE DEF s
    <3> QED BY <2>1, <3>1 DEF Shape, Slots
  <2>2. CASE s \notin Slots
    <3>1. s = Cardinality(Slots) + 1 BY <1>3, <2>2
    <3> HIDE DEF s
    <3>2. slot' = [i \in Slots \cup {s} |-> IF i = s THEN Fresh ELSE slot[i]] BY <1>1, <2>2
    <3>3. /\ slot' \in [1..s -> Natives] /\ DOMAIN slot' = Slots \cup {s}
          /\ slot'[s] = Fresh /\ \A i \in Slots : slot'[i] = slot[i]
      BY <1>7, <3>1, <3>2, NextSlot
    <3> QED BY <1>3, <3>3 DEF Slots
  <2> QED BY <2>1, <2>2
<1>9. ~Busy(r) /\ coder[r].n > 0 BY <1>1 DEF BackOK
<1>10. /\ \A g \in CoderHandles : g # h => map[g] # s
       /\ \A q \in Runs : Busy(q) /\ s \notin Slots => req[q].slot # s
  BY <1>2, <1>3 DEF SlotsOK, NoSlot
<1> HIDE DEF h, s, q0
<1>11. Shape' BY <1>1, <1>4, <1>5, <1>6, <1>8 DEF Shape
<1>12. InTurn' BY <1>1, <1>4 DEF InTurn
<1>13. SlotsOK'
  <2>1. \A g \in CoderHandles : map'[g] # NoSlot => map'[g] \in Slots' BY <1>6, <1>8 DEF SlotsOK
  <2>2. \A f, g \in CoderHandles : map'[f] = map'[g] /\ map'[f] # NoSlot => f = g
    BY <1>6, <1>10 DEF SlotsOK
  <2>3. \A i \in Slots' : slot'[i].m # 1 BY <1>7, <1>8 DEF SlotsOK
  <2>4. ASSUME NEW q \in Runs, Busy(q)'
        PROVE  /\ req'[q].slot \in Slots' /\ req'[q].n > 0
               /\ \A g \in CoderHandles : map'[g] = req'[q].slot => g = HandleOf(q)'
               /\ coder'[q].at \in {"wait", "gone"}
    <3>1. CASE q = r BY <1>1, <1>4, <1>5, <1>6, <1>8, <1>9, <1>10, <3>1 DEF HandleOf, h
    <3>2. CASE q # r
      <4>1. Busy(q) /\ req'[q] = req[q] /\ coder'[q] = coder[q] /\ HandleOf(q)' = HandleOf(q)
        BY <1>1, <1>4, <1>5, <2>4, <3>2 DEF Busy, HandleOf
      <4>2. /\ req[q].slot \in Slots /\ req[q].n > 0 /\ coder[q].at \in {"wait", "gone"}
            /\ \A g \in CoderHandles : map[g] = req[q].slot => g = HandleOf(q)
        BY <4>1 DEF SlotsOK
      <4>3. s = req[q].slot => map[h] = s BY <1>3, <4>1, <4>2 DEF s
      <4> QED BY <1>6, <1>8, <4>1, <4>2, <4>3
    <3> QED BY <3>1, <3>2
  <2> QED BY <2>1, <2>2, <2>3, <2>4 DEF SlotsOK
<1>14. \A i \in Slots, q \in Runs, n \in Nat : Mine(i, q, n) => Mine(i, q, n)'
  BY <1>1, <1>8 DEF Mine, Used
<1>15. \A q \in Runs : q # r => /\ Busy(q)' = Busy(q) /\ Held(q)' = Held(q)
                                /\ Waits(q)' = Waits(q) /\ HandleOf(q)' = HandleOf(q)
  BY <1>1, <1>4, <1>5 DEF Busy, Held, Waits, HandleOf
<1>16. Busy(r)' /\ ~Held(r)' /\ Waits(r)' /\ HandleOf(r)' = h
  BY <1>1, <1>4, <1>5 DEF Busy, Held, Waits, HandleOf, h
<1>17. \A q \in Runs : q # r => ~Running(q)
  BY <1>1, OneRuns DEF Running
<1>18. LockOK'
  <2>1. \A q \in Runs : Held(q)' => q # r /\ req'[q] = req[q] /\ Held(q) /\ req[q].slot \in Slots
    BY <1>5, <1>15, <1>16 DEF SlotsOK, Held, Busy
  <2>2. \A q \in Runs : Held(q)' => slot'[req'[q].slot].by = q BY <1>8, <2>1 DEF LockOK
  <2>3. ASSUME NEW i \in Slots', slot'[i].by # Nobody
        PROVE  slot'[i].by \in Runs /\ Held(slot[i].by)' /\ req'[slot'[i].by].slot = i
    <3>1. i \in Slots /\ slot'[i] = slot[i] BY <1>7, <1>8, <2>3
    <3>2. slot[i].by \in Runs /\ Held(slot[i].by) /\ req[slot[i].by].slot = i
      BY <2>3, <3>1 DEF LockOK
    <3>3. slot[i].by # r BY <1>9, <3>2 DEF Held, Busy
    <3> QED BY <1>5, <1>15, <3>1, <3>2, <3>3 DEF Held
  <2> QED BY <2>2, <2>3 DEF LockOK
<1>19. DirsOK'
  <2>1. \A i \in Slots : Detached(i) /\ i # s => Detached(i)'
    BY <1>1, <1>6, <1>2 DEF Detached
  <2>2. \A i \in Slots : Detached(i) => i # s
    BY <1>2, <1>3 DEF Detached, s
  <2>3. \A q \in Runs : req'[q].at = "rmdir" => Detached(req[q].slot)'
    BY <1>5, <2>1, <2>2 DEF DirsOK, SlotsOK, Busy
  <2>4. \A q \in Runs : provider = "codex" /\ Held(q)' /\ req'[q].slot \notin dirs => Detached(req[q].slot)'
    BY <1>5, <1>15, <1>16, <2>1, <2>2 DEF DirsOK, SlotsOK, Busy, Held
  <2>5. \A i \in Slots' : provider = "codex" /\ Used(i)' /\ ~slot'[i].id => Detached(i)'
    BY <1>7, <1>8, <2>1, <2>2 DEF DirsOK, Used
  <2> QED BY <1>1, <2>3, <2>4, <2>5 DEF DirsOK
<1>20. WaitOK'
  <2>1. \A q \in Runs : Waits(q)' => q = r BY <1>15, <1>17 DEF Running, Waits
  <2> QED BY <1>4, <1>5, <1>6, <1>16, <2>1 DEF WaitOK
<1>21. QueueOK'
  <2> SUFFICES ASSUME NEW q \in Runs, req'[q].at = "queue", req'[q].n > 1
               PROVE  \/ Mine(req[q].slot, q, req[q].n - 1)'
                      \/ /\ ~Used(req[q].slot)' /\ slot'[req'[q].slot].by = Nobody
                         /\ coder'[q].at = "wait"
                         /\ \A p \in Runs : Busy(p)' /\ req'[p].slot = req'[q].slot => p = q
    BY DEF QueueOK
  <2>1. CASE q # r
    <3>1. req'[q] = req[q] /\ ~Running(q) /\ req[q].slot \in Slots /\ req[q].n - 1 \in Nat
      BY <1>5, <1>17, <2>1 DEF SlotsOK, Busy, Shape, Turns
    <3>2. Mine(req[q].slot, q, req[q].n - 1) BY <3>1 DEF QueueOK, Running
    <3>3. Mine(req[q].slot, q, req[q].n - 1)' BY <1>14, <3>1, <3>2
    <3> QED BY <3>1, <3>3 DEF Mine, Used
  <2>2. CASE q = r
    <3>1. req'[r].slot = s /\ req'[r].n = coder[r].n /\ coder[r].n \in Nat
      BY <1>5 DEF Shape, Coders
    <3>2. CASE s \in Slots
      <4>1. map[h] = s BY <1>3, <3>2 DEF s
      <4>2. Mine(s, r, coder[r].n - 1) BY <1>1, <1>3, <2>2, <3>1, <4>1 DEF BackOK, h
      <4> QED BY <1>1, <1>5, <1>8, <2>2, <3>1, <3>2, <4>2 DEF Mine, Used
    <3>3. CASE s \notin Slots
      <4>1. slot'[s].m = 0 /\ slot'[s].by = Nobody BY <1>7, <1>8, <3>3
      <4>2. \A p \in Runs : Busy(p)' /\ req'[p].slot = s => p = r
        BY <1>5, <1>10, <1>15, <3>3
      <4> QED BY <1>4, <2>2, <3>1, <4>1, <4>2 DEF Used
    <3> QED BY <3>2, <3>3
  <2> QED BY <2>1, <2>2
<1>22. CliOK'
  <2> SUFFICES ASSUME NEW q \in Runs, Held(q)'
               PROVE  /\ req'[q].mode \in {"create", "resume", "flatten"}
                      /\ req'[q].bad <=> req'[q].mode = "flatten"
                      /\ req'[q].mode = "create" =>
                            ~Used(req[q].slot)' \/ (provider = "codex" /\ ~slot'[req'[q].slot].id)
                      /\ req'[q].mode = "resume" => Mine(req[q].slot, q, req[q].n - 1)'
    BY <1>1 DEF CliOK
  <2>1. q # r /\ req'[q] = req[q] /\ Held(q) /\ req[q].slot \in Slots /\ req[q].n - 1 \in Nat
    BY <1>5, <1>15, <1>16 DEF SlotsOK, Busy, Held, Shape, Turns
  <2>2. /\ req[q].mode \in {"create", "resume", "flatten"}
        /\ req[q].bad <=> req[q].mode = "flatten"
        /\ req[q].mode = "create" =>
              ~Used(req[q].slot) \/ (provider = "codex" /\ ~slot[req[q].slot].id)
        /\ req[q].mode = "resume" => Mine(req[q].slot, q, req[q].n - 1)
    BY <2>1 DEF CliOK
  <2>3. slot'[req[q].slot] = slot[req[q].slot] BY <1>8, <2>1
  <2> QED BY <1>1, <2>1, <2>2, <2>3 DEF Mine, Used
<1>23. DoneOK'
  <2>1. \A q \in Runs : Waits(q)' => q = r BY <1>15, <1>17 DEF Running, Waits
  <2> QED BY <1>5, <2>1 DEF DoneOK
<1>24. BackOK'
  <2>1. \A q \in Runs : coder'[q].at \notin {"ask", "act"} BY <1>4, <1>17 DEF Running
  <2>2. \A q \in Runs : coder'[q].at = "none" => ~Busy(q)' BY <1>4, <1>15 DEF BackOK
  <2> QED BY <2>1, <2>2 DEF BackOK
<1> QED
  BY <1>11, <1>12, <1>13, <1>18, <1>19, <1>20, <1>21, <1>22, <1>23, <1>24

\* The lock of a slot gives its CLI to one request; what it is asked follows from
\* what the slot has had (run_session_turn).
LEMMA LockKeeps == ASSUME Plain, Inner, NEW r \in Runs, Lock(r) PROVE Inner'
<1> USE DEF Inner
<1> DEFINE s == req[r].slot
           mode == Mode(slot[s], req[r].n)
           q0 == [req[r] EXCEPT !.at = "cli", !.mode = mode, !.bad = mode = "flatten"]
<1>1. /\ req[r].at = "queue" /\ slot[s].by = Nobody
      /\ slot' = [slot EXCEPT ![s].by = r]
      /\ dirs' = IF provider = "codex" THEN dirs \cup {s} ELSE dirs
      /\ UNCHANGED <<provider, box, coder, map>>
  BY DEF Lock
<1>2. req' = [req EXCEPT ![r] = q0] BY DEF Lock, Shape
<1>3. req[r] \in Turns /\ s \in Slots /\ req[r].n \in Nat /\ req[r].n > 0 /\ ~req[r].ok
      /\ coder[r].at \in {"wait", "gone"}
  BY <1>1 DEF Shape, Turns, SlotsOK, Busy, DoneOK
<1>4. mode \in {"create", "resume", "flatten"}
  BY DEF Mode
<1>5. /\ q0 \in Turns /\ q0.at = "cli" /\ q0.n = req[r].n /\ q0.slot = s /\ ~q0.ok
      /\ q0.mode = mode /\ q0.bad = (mode = "flatten")
  <2> HIDE DEF mode
  <2>1. (mode = "flatten") \in BOOLEAN OBVIOUS
  <2> QED BY <1>3, <1>4, <2>1 DEF Turns, Stages
<1>6. slot[s] \in Natives /\ slot[s].m \in Nat
      /\ \A i \in Slots : slot[i].m \in Nat
  BY <1>3 DEF Shape, Slots, Natives
<1>7. /\ mode = "create" => ~Used(s) \/ (provider = "codex" /\ ~slot[s].id)
      /\ mode = "resume" => Mine(s, r, req[r].n - 1)
  <2>1. ASSUME mode = "resume" PROVE Mine(s, r, req[r].n - 1)
    <3>1. slot[s].m # 0 /\ req[r].n > slot[s].m BY <2>1 DEF Mode
    <3>2. req[r].n > 1 BY <1>3, <1>6, <3>1
    <3> QED BY <1>1, <3>1, <3>2 DEF QueueOK, Used
  <2>2. ASSUME mode = "create" PROVE ~Used(s) \/ (provider = "codex" /\ ~slot[s].id)
    BY <2>2 DEF Mode, Used
  <2> QED BY <2>1, <2>2
<1> HIDE DEF mode, q0
<1>8. /\ \A q \in Runs : q # r => req'[q] = req[q]
      /\ req'[r] = q0 /\ req' \in [Runs -> Turns]
  BY <1>2, <1>5 DEF Shape
<1>9. /\ \E k \in Nat : slot' \in [1..k -> Natives]
      /\ Slots' = Slots /\ slot'[s].by = r /\ \A i \in Slots : i # s => slot'[i] = slot[i]
      /\ \A i \in Slots : slot'[i].m = slot[i].m /\ slot'[i].id = slot[i].id /\ slot'[i].holds = slot[i].holds
  <2>1. PICK k \in Nat : slot \in [1..k -> Natives] BY DEF Shape
  <2>2. r \in Nat BY BrokersAssumption DEF Runs
  <2>3. [slot[s] EXCEPT !.by = r] \in Natives BY <1>6, <2>2 DEF Natives
  <2>4. slot' = [slot EXCEPT ![s] = [slot[s] EXCEPT !.by = r]] BY <1>1
  <2>5. slot' \in [1..k -> Natives] BY <2>1, <2>3, <2>4
  <2> QED BY <1>1, <1>3, <2>1, <2>5 DEF Slots, Natives
<1>10. \A q \in Runs : Held(q) => req[q].slot # s
  <2>1. r # Nobody /\ \A q \in Runs : q # Nobody BY BrokersAssumption DEF Runs, Nobody
  <2> QED BY <1>1, <2>1 DEF LockOK
<1> HIDE DEF s
<1>11. Shape' BY <1>1, <1>8, <1>9 DEF Shape
<1>12. InTurn' BY <1>1 DEF InTurn
<1>13. SlotsOK'
  <2>1. \A q \in Runs : req'[q].slot = req[q].slot /\ req'[q].n = req[q].n /\ (Busy(q)' => Busy(q))
    BY <1>1, <1>5, <1>8 DEF s, Busy
  <2> QED BY <1>1, <1>9, <2>1 DEF SlotsOK, HandleOf
<1>14. LockOK'
  <2>1. \A q \in Runs : q # r => (Held(q)' = Held(q)) BY <1>8 DEF Held
  <2>2. Held(r)' /\ req'[r].slot = s BY <1>5, <1>8 DEF Held
  <2>3. ASSUME NEW q \in Runs, Held(q)' PROVE slot'[req'[q].slot].by = q
    <3>1. CASE q = r BY <1>9, <2>2, <3>1
    <3>2. CASE q # r
      <4>1. Held(q) /\ req'[q] = req[q] /\ req[q].slot \in Slots
        BY <1>8, <2>1, <2>3, <3>2 DEF SlotsOK, Busy, Held
      <4> QED BY <1>9, <1>10, <4>1 DEF LockOK
    <3> QED BY <3>1, <3>2
  <2>4. ASSUME NEW i \in Slots, slot'[i].by # Nobody
        PROVE  slot'[i].by \in Runs /\ Held(slot[i].by)' /\ req'[slot'[i].by].slot = i
    <3>1. CASE i = s BY <1>9, <2>2, <3>1 DEF Held
    <3>2. CASE i # s
      <4>1. slot'[i] = slot[i] BY <1>9, <3>2
      <4>2. slot[i].by \in Runs /\ Held(slot[i].by) /\ req[slot[i].by].slot = i
        BY <2>4, <4>1 DEF LockOK
      <4>3. slot[i].by # r BY <1>1, <4>2 DEF Held
      <4> QED BY <1>8, <4>1, <4>2, <4>3 DEF Held
    <3> QED BY <3>1, <3>2
  <2> QED BY <1>9, <2>3, <2>4 DEF LockOK
<1>15. DirsOK'
  <2>1. \A q \in Runs : req'[q].at = "rmdir" => q # r BY <1>5, <1>8
  <2>2. provider = "codex" => s \in dirs' /\ dirs \subseteq dirs' BY <1>1
  <2>3. \A q \in Runs : q # r => (Held(q)' = Held(q)) BY <1>8 DEF Held
  <2>4. \A i : Detached(i) => Detached(i)' BY <1>1 DEF Detached
  <2>5. \A q \in Runs : req'[q].at = "rmdir" => Detached(req[q].slot)'
    BY <1>8, <2>1, <2>4 DEF DirsOK
  <2>6. \A q \in Runs : provider = "codex" /\ Held(q)' /\ req'[q].slot \notin dirs' => Detached(req[q].slot)'
    BY <1>5, <1>8, <2>2, <2>3, <2>4 DEF DirsOK
  <2>7. \A i \in Slots : provider = "codex" /\ Used(i)' /\ ~slot'[i].id => Detached(i)'
    BY <1>9, <2>4 DEF DirsOK, Used
  <2> QED BY <1>1, <1>9, <2>5, <2>6, <2>7 DEF DirsOK
<1>16. WaitOK'
  <2>1. \A q \in Runs : req'[q].slot = req[q].slot /\ req'[q].n = req[q].n /\ (Busy(q) => Busy(q)')
    BY <1>1, <1>5, <1>8 DEF s, Busy
  <2> QED BY <1>1, <2>1 DEF WaitOK, Waits, HandleOf
<1>17. \A i \in Slots, q \in Runs, n \in Nat : Mine(i, q, n) => Mine(i, q, n)'
  BY <1>1, <1>9 DEF Mine, Used
<1>18. QueueOK'
  <2> SUFFICES ASSUME NEW q \in Runs, req'[q].at = "queue", req'[q].n > 1
               PROVE  \/ Mine(req[q].slot, q, req[q].n - 1)'
                      \/ /\ ~Used(req[q].slot)' /\ slot'[req'[q].slot].by = Nobody
                         /\ coder'[q].at = "wait"
                         /\ \A p \in Runs : Busy(p)' /\ req'[p].slot = req'[q].slot => p = q
    BY DEF QueueOK
  <2>1. q # r /\ req'[q] = req[q] BY <1>5, <1>8
  <2>2. req[q].slot \in Slots /\ req[q].n - 1 \in Nat BY <2>1 DEF SlotsOK, Busy, Shape, Turns
  <2>3. CASE Mine(req[q].slot, q, req[q].n - 1)
    <3>1. slot'[req[q].slot].m = slot[req[q].slot].m /\ slot'[req[q].slot].holds = slot[req[q].slot].holds
          /\ slot'[req[q].slot].id = slot[req[q].slot].id
      BY <1>9, <2>2
    <3> QED BY <1>1, <2>1, <2>3, <3>1 DEF Mine, Used
  <2>4. CASE /\ ~Used(req[q].slot) /\ slot[req[q].slot].by = Nobody /\ coder[q].at = "wait"
             /\ \A p \in Runs : Busy(p) /\ req[p].slot = req[q].slot => p = q
    <3>1. req[q].slot # s BY <1>1, <2>1, <2>4 DEF Busy, s
    <3>2. \A p \in Runs : Busy(p)' => Busy(p) /\ req'[p].slot = req[p].slot
      BY <1>1, <1>5, <1>8 DEF Busy, s
    <3> QED BY <1>1, <1>9, <2>1, <2>2, <2>4, <3>1, <3>2 DEF Used
  <2> QED BY <2>1, <2>3, <2>4 DEF QueueOK
<1>19. CliOK'
  <2> SUFFICES ASSUME NEW q \in Runs, Held(q)'
               PROVE  /\ req'[q].mode \in {"create", "resume", "flatten"}
                      /\ req'[q].bad <=> req'[q].mode = "flatten"
                      /\ req'[q].mode = "create" =>
                            ~Used(req[q].slot)' \/ (provider = "codex" /\ ~slot'[req'[q].slot].id)
                      /\ req'[q].mode = "resume" => Mine(req[q].slot, q, req[q].n - 1)'
    BY <1>1 DEF CliOK
  <2>1. CASE q = r
    <3>1. /\ req'[r].mode = mode /\ req'[r].slot = s /\ req'[r].n = req[r].n
          /\ req'[r].bad = (mode = "flatten")
      BY <1>5, <1>8
    <3>2. req'[r].bad <=> mode = "flatten" BY <3>1
    <3>3. mode = "create" => ~Used(req[r].slot)' \/ (provider = "codex" /\ ~slot'[s].id)
      BY <1>1, <1>3, <1>7, <1>9, <3>1 DEF Used
    <3>4. mode = "resume" => Mine(req[r].slot, r, req[r].n - 1)'
      BY <1>1, <1>3, <1>7, <1>9, <3>1 DEF Mine, Used
    <3> QED BY <1>4, <2>1, <3>1, <3>2, <3>3, <3>4
  <2>2. CASE q # r
    <3>1. req'[q] = req[q] /\ Held(q) BY <1>8, <2>2 DEF Held
    <3>2. req[q].slot \in Slots BY <3>1 DEF SlotsOK, Busy, Held
    <3> QED BY <1>1, <1>9, <3>1, <3>2 DEF CliOK, Mine, Used
  <2> QED BY <2>1, <2>2
<1>20. DoneOK'
  <2> SUFFICES ASSUME NEW q \in Runs
               PROVE  /\ req'[q].at \in {"forget", "rmdir", "reply"} /\ req'[q].ok
                            => req'[q].got = Upto(q, req'[q].n)
                      /\ req'[q].at \in {"queue", "cli"} => ~req'[q].ok
                      /\ Waits(q)' /\ req'[q].at \in {"rmdir", "reply"} /\ map'[HandleOf(q)'] # NoSlot
                            /\ req'[q].ok => Mine(map[HandleOf(q)], q, req[q].n + 1)'
    BY DEF DoneOK
  <2>1. CASE q = r BY <1>5, <1>8, <2>1
  <2>2. CASE q # r
    <3>1. req'[q] = req[q] /\ Waits(q)' = Waits(q) /\ HandleOf(q)' = HandleOf(q)
      BY <1>1, <1>8, <2>2 DEF Waits, HandleOf
    <3>2. HandleOf(q) \in CoderHandles BY BrokersAssumption DEF HandleOf, CoderHandles, Runs
    <3>3. map[HandleOf(q)] # NoSlot => map[HandleOf(q)] \in Slots BY <3>2 DEF SlotsOK
    <3> QED BY <1>1, <1>9, <3>1, <3>3 DEF DoneOK, Mine, Used
  <2> QED BY <2>1, <2>2
<1>21. BackOK'
  <2>1. \A q \in Runs : Busy(q)' = Busy(q) BY <1>1, <1>5, <1>8 DEF Busy
  <2>2. \A q \in Runs : HandleOf(q) \in CoderHandles
    BY BrokersAssumption DEF HandleOf, CoderHandles, Runs
  <2>3. \A q \in Runs : map[HandleOf(q)] # NoSlot => map[HandleOf(q)] \in Slots BY <2>2 DEF SlotsOK
  <2>4. ASSUME NEW q \in Runs
        PROVE  /\ coder[q].at = "act" /\ map[HandleOf(q)] # NoSlot =>
                     Mine(map[HandleOf(q)], q, coder[q].n)'
               /\ coder[q].at = "ask" /\ coder[q].n > 1 /\ map[HandleOf(q)] # NoSlot =>
                     Mine(map[HandleOf(q)], q, coder[q].n - 1)'
    <3>1. map[HandleOf(q)]' = map[HandleOf(q)] /\ coder[q].n' = coder[q].n BY <1>1 DEF HandleOf
    <3>2. map[HandleOf(q)] # NoSlot =>
            LET i == map[HandleOf(q)]
            IN  slot'[i].m = slot[i].m /\ slot'[i].holds = slot[i].holds /\ slot'[i].id = slot[i].id
      BY <1>9, <2>3
    <3> QED BY <1>1, <3>1, <3>2 DEF BackOK, Mine, Used
  <2>5. \A q \in Runs : HandleOf(q)' = HandleOf(q) BY <1>1 DEF HandleOf
  <2> QED BY <1>1, <2>1, <2>4, <2>5 DEF BackOK
<1> QED
  BY <1>11, <1>12, <1>13, <1>14, <1>15, <1>16, <1>18, <1>19, <1>20, <1>21

\* What is asked for inside the sessions of others is not disturbed by a turn that
\* ends, or goes on, under the lock of its slot.
LEMMA TurnKeeps ==
    ASSUME Plain, Inner, NEW r \in Runs, Held(r), UNCHANGED <<provider, box, coder, map, dirs>>,
           NEW s, s = req[r].slot, NEW q0 \in Turns, req' = [req EXCEPT ![r] = q0],
           NEW v \in Natives, slot' = [slot EXCEPT ![s] = v],
           q0.slot = s, q0.n = req[r].n, v.m # 1,
           \/ q0.at \in {"forget", "reply"} /\ v.by = Nobody
           \/ q0.at = "cli" /\ v.by = r /\ q0.mode = "flatten" /\ q0.bad,
           \/ v.m = slot[s].m /\ v.id = slot[s].id /\ v.holds = slot[s].holds
           \/ \A q \in Runs, n \in Nat : q # r => ~Mine(s, q, n),
           provider = "codex" /\ v.m # 0 /\ ~v.id => Detached(s),
           IF q0.at = "cli" THEN ~q0.ok ELSE q0.ok => q0.got = Upto(r, q0.n),
           Waits(r) /\ q0.at = "reply" /\ map[HandleOf(r)] # NoSlot /\ q0.ok =>
              /\ v.m = q0.n + 1 /\ v.holds = Upto(r, q0.n + 1)
              /\ provider = "codex" => v.id
    PROVE  Inner'
<1> USE DEF Inner
<1>1. /\ s \in Slots /\ req[r].n \in Nat /\ req[r].n > 0 /\ coder[r].at \in {"wait", "gone"}
      /\ \A g \in CoderHandles : map[g] = s => g = HandleOf(r)
  BY DEF Shape, Turns, SlotsOK, Busy, Held
<1>2. /\ \A q \in Runs : q # r => req'[q] = req[q]
      /\ req'[r] = q0 /\ req' \in [Runs -> Turns]
  BY DEF Shape
<1>3. /\ \E k \in Nat : slot' \in [1..k -> Natives]
      /\ Slots' = Slots /\ slot'[s] = v /\ \A i \in Slots : i # s => slot'[i] = slot[i]
  BY <1>1 DEF Shape, Slots
<1>4. /\ \A q \in Runs : HandleOf(q)' = HandleOf(q) /\ HandleOf(q) \in CoderHandles
      /\ \A q \in Runs : Busy(q)' = Busy(q) /\ Waits(q)' = Waits(q)
  BY <1>2, BrokersAssumption DEF HandleOf, CoderHandles, Runs, Busy, Waits, Held
<1>5. \A q \in Runs : map[HandleOf(q)] # NoSlot => map[HandleOf(q)] \in Slots
  BY <1>4 DEF SlotsOK
<1>6. \A q \in Runs : Held(q) /\ req[q].slot = s => q = r
  BY DEF LockOK
<1>7. slot[s].by = r /\ r # Nobody BY BrokersAssumption DEF LockOK, Runs, Nobody
<1>8. \A q \in Runs : q # r => Held(q)' = Held(q) BY <1>2 DEF Held
<1>9. \A i : Detached(i) => Detached(i)' BY DEF Detached
<1>10. \A i \in Slots, q \in Runs, n \in Nat : q # r /\ Mine(i, q, n) => Mine(i, q, n)'
  BY <1>3 DEF Mine, Used
<1>11. Shape' BY <1>2, <1>3 DEF Shape
<1>12. InTurn' BY DEF InTurn
<1>13. SlotsOK' BY <1>1, <1>2, <1>3, <1>4 DEF SlotsOK
<1>14. LockOK'
  <2>1. ASSUME NEW q \in Runs, Held(q)' PROVE slot'[req'[q].slot].by = q
    <3>1. CASE q = r BY <1>2, <1>3, <2>1, <3>1 DEF Held
    <3>2. CASE q # r
      <4>1. Held(q) /\ req'[q] = req[q] BY <1>2, <1>8, <2>1, <3>2
      <4>2. req[q].slot \in Slots /\ req[q].slot # s
        BY <1>6, <3>2, <4>1 DEF SlotsOK, Busy, Held
      <4> QED BY <1>3, <4>1, <4>2 DEF LockOK
    <3> QED BY <3>1, <3>2
  <2>2. ASSUME NEW i \in Slots, slot'[i].by # Nobody
        PROVE  slot'[i].by \in Runs /\ Held(slot[i].by)' /\ req'[slot'[i].by].slot = i
    <3>1. CASE i = s BY <1>2, <1>3, <2>2, <3>1 DEF Held
    <3>2. CASE i # s
      <4>1. slot'[i] = slot[i] BY <1>3, <3>2
      <4>2. slot[i].by \in Runs /\ Held(slot[i].by) /\ req[slot[i].by].slot = i
        BY <2>2, <4>1 DEF LockOK
      <4>3. slot[i].by # r BY <3>2, <4>2
      <4> QED BY <1>2, <4>1, <4>2, <4>3 DEF Held
    <3> QED BY <3>1, <3>2
  <2> QED BY <1>3, <2>1, <2>2 DEF LockOK
<1>15. DirsOK'
  <2>1. \A q \in Runs : req'[q].at = "rmdir" => Detached(req[q].slot)'
    BY <1>2, <1>9 DEF DirsOK
  <2>2. \A q \in Runs : provider = "codex" /\ Held(q)' /\ req'[q].slot \notin dirs => Detached(req[q].slot)'
    BY <1>2, <1>8, <1>9 DEF DirsOK
  <2>3. \A i \in Slots : provider = "codex" /\ Used(i)' /\ ~slot'[i].id => Detached(i)'
    BY <1>3, <1>9 DEF DirsOK, Used
  <2> QED BY <1>3, <2>1, <2>2, <2>3 DEF DirsOK
<1>16. WaitOK' BY <1>2, <1>4 DEF WaitOK
<1>17. QueueOK'
  <2> SUFFICES ASSUME NEW q \in Runs, req'[q].at = "queue", req'[q].n > 1
               PROVE  \/ Mine(req[q].slot, q, req[q].n - 1)'
                      \/ /\ ~Used(req[q].slot)' /\ slot'[req'[q].slot].by = Nobody
                         /\ coder'[q].at = "wait"
                         /\ \A p \in Runs : Busy(p)' /\ req'[p].slot = req'[q].slot => p = q
    BY DEF QueueOK
  <2>1. q # r /\ req'[q] = req[q] BY <1>2
  <2>2. req[q].slot \in Slots /\ req[q].n - 1 \in Nat BY <2>1 DEF SlotsOK, Busy, Shape, Turns
  <2>3. CASE Mine(req[q].slot, q, req[q].n - 1)
    <3>1. /\ slot'[req[q].slot].m = slot[req[q].slot].m
          /\ slot'[req[q].slot].id = slot[req[q].slot].id
          /\ slot'[req[q].slot].holds = slot[req[q].slot].holds
      <4>1. CASE req[q].slot # s BY <1>3, <2>2, <4>1
      <4>2. CASE req[q].slot = s
        <5>1. v.m = slot[s].m /\ v.id = slot[s].id /\ v.holds = slot[s].holds
          BY <2>1, <2>2, <2>3, <4>2
        <5> QED BY <1>3, <4>2, <5>1
      <4> QED BY <4>1, <4>2
    <3> QED BY <2>1, <2>3, <3>1 DEF Mine, Used
  <2>4. CASE /\ ~Used(req[q].slot) /\ slot[req[q].slot].by = Nobody /\ coder[q].at = "wait"
             /\ \A p \in Runs : Busy(p) /\ req[p].slot = req[q].slot => p = q
    <3>1. req[q].slot # s BY <2>1, <2>4 DEF Busy, Held
    <3>2. \A p \in Runs : req'[p].slot = req[p].slot BY <1>2
    <3> QED BY <1>3, <1>4, <2>1, <2>2, <2>4, <3>1, <3>2 DEF Used
  <2> QED BY <2>1, <2>3, <2>4 DEF QueueOK
<1>18. CliOK'
  <2> SUFFICES ASSUME NEW q \in Runs, Held(q)'
               PROVE  /\ req'[q].mode \in {"create", "resume", "flatten"}
                      /\ req'[q].bad <=> req'[q].mode = "flatten"
                      /\ req'[q].mode = "create" =>
                            ~Used(req[q].slot)' \/ (provider = "codex" /\ ~slot'[req'[q].slot].id)
                      /\ req'[q].mode = "resume" => Mine(req[q].slot, q, req[q].n - 1)'
    BY DEF CliOK
  <2>1. CASE q = r
    <3>1. q0.mode = "flatten" /\ q0.bad BY <1>2, <2>1 DEF Held
    <3> QED BY <1>2, <2>1, <3>1
  <2>2. CASE q # r
    <3>1. req'[q] = req[q] /\ Held(q) BY <1>2, <1>8, <2>2
    <3>2. req[q].slot \in Slots /\ req[q].slot # s
      BY <1>6, <2>2, <3>1 DEF SlotsOK, Busy, Held
    <3>3. slot'[req[q].slot] = slot[req[q].slot] BY <1>3, <3>2
    <3>4. req[q].mode = "resume" => Mine(req[q].slot, q, req[q].n - 1)'
      BY <3>1, <3>3 DEF CliOK, Mine, Used
    <3> QED BY <3>1, <3>3, <3>4 DEF CliOK, Used
  <2> QED BY <2>1, <2>2
<1>19. DoneOK'
  <2> SUFFICES ASSUME NEW q \in Runs
               PROVE  /\ req'[q].at \in {"forget", "rmdir", "reply"} /\ req'[q].ok
                            => req'[q].got = Upto(q, req'[q].n)
                      /\ req'[q].at \in {"queue", "cli"} => ~req'[q].ok
                      /\ Waits(q)' /\ req'[q].at \in {"rmdir", "reply"} /\ map'[HandleOf(q)'] # NoSlot
                            /\ req'[q].ok => Mine(map[HandleOf(q)], q, req[q].n + 1)'
    BY DEF DoneOK
  <2>1. CASE q = r
    <3>1. ASSUME Waits(r)', q0.at = "reply", map'[HandleOf(r)'] # NoSlot, q0.ok
          PROVE  Mine(map[HandleOf(r)], r, req[r].n + 1)'
      <4>1. Waits(r) /\ map[HandleOf(r)] # NoSlot BY <1>4, <3>1
      <4>2. map[HandleOf(r)] = s BY <4>1 DEF WaitOK
      <4>3. v.m = req[r].n + 1 /\ v.holds = Upto(r, req[r].n + 1) /\ (provider = "codex" => v.id)
        BY <3>1, <4>1
      <4> QED BY <1>1, <1>2, <1>3, <1>4, <4>2, <4>3 DEF Mine, Used
    <3>2. q0.at \in {"forget", "reply"} /\ q0.ok => q0.got = Upto(r, q0.n) OBVIOUS
    <3>3. q0.at \in {"cli", "forget", "reply"} /\ (q0.at = "cli" => ~q0.ok) OBVIOUS
    <3> QED BY <1>2, <2>1, <3>1, <3>2, <3>3
  <2>2. CASE q # r
    <3>1. req'[q] = req[q] BY <1>2, <2>2
    <3>2. req[q].n + 1 \in Nat BY DEF Shape, Turns
    <3> QED BY <1>3, <1>4, <1>5, <2>2, <3>1, <3>2 DEF DoneOK, Mine, Used
  <2> QED BY <2>1, <2>2
<1>20. BackOK'
  <2> SUFFICES ASSUME NEW q \in Runs
               PROVE  /\ coder[q].at \in {"ask", "act"} => ~Busy(q)' /\ coder[q].n > 0
                      /\ coder[q].at = "act" => coder[q].got = Upto(q, coder[q].n - 1)
                      /\ coder[q].at = "act" /\ map[HandleOf(q)] # NoSlot =>
                            Mine(map[HandleOf(q)], q, coder[q].n)'
                      /\ coder[q].at = "ask" /\ coder[q].n > 1 /\ map[HandleOf(q)] # NoSlot =>
                            Mine(map[HandleOf(q)], q, coder[q].n - 1)'
                      /\ coder[q].at = "none" => ~Busy(q)'
    BY <1>4 DEF BackOK
  <2>1. coder[q].n \in Nat BY DEF Shape, Coders
  <2>2. coder[q].at \in {"ask", "act"} => q # r BY <1>1
  <2> QED BY <1>3, <1>4, <1>5, <2>1, <2>2 DEF BackOK, Mine, Used
<1> QED
  BY <1>11, <1>12, <1>13, <1>14, <1>15, <1>16, <1>17, <1>18, <1>19, <1>20

\* What a turn that fits reads is the transcript it was sent (run_session_turn).
LEMMA ReadsAll ==
    ASSUME Plain, Inner, NEW r \in Runs, Held(r)
    PROVE  /\ Reads(r) = Upto(r, req[r].n) /\ Reads(r) # Nothing
           /\ req[r].mode # "alone" /\ req[r].slot \in Slots /\ slot[req[r].slot] \in Natives
           /\ req[r] \in Turns /\ req[r].n \in Nat /\ req[r].n > 0 /\ slot[req[r].slot].by = r
<1> USE DEF Inner
<1>1. /\ req[r].slot \in Slots /\ req[r] \in Turns /\ req[r].n \in Nat /\ req[r].n > 0
      /\ slot[req[r].slot].by = r
  BY DEF SlotsOK, Busy, Held, Shape, Turns, LockOK
<1>2. slot[req[r].slot] \in Natives BY <1>1 DEF Shape, Slots
<1>3. /\ req[r].mode # "alone"
      /\ req[r].mode = "resume" => slot[req[r].slot].holds = Upto(r, slot[req[r].slot].m)
  BY <1>1 DEF CliOK, Mine
<1>4. Upto(r, req[r].n) # Nothing BY BrokersAssumption, <1>1 DEF Upto, Nothing, Runs
<1> QED BY <1>1, <1>2, <1>3, <1>4 DEF Reads

\* Whoever else once had the slot has it no more.
LEMMA NotOthers ==
    ASSUME Plain, Inner, NEW r \in Runs, Held(r), req[r].mode \in {"create", "resume"},
           NEW q \in Runs, NEW n \in Nat, q # r
    PROVE  ~Mine(req[r].slot, q, n)
<1> USE DEF Inner
<1>1. CASE req[r].mode = "create" BY <1>1 DEF CliOK, Mine
<1>2. CASE req[r].mode = "resume"
  <2>1. slot[req[r].slot].holds = Upto(r, req[r].n - 1) BY <1>2 DEF CliOK, Mine
  <2> QED BY <2>1 DEF Mine, Upto
<1> QED BY <1>1, <1>2

\* A good turn leaves a session that goes on after the reply, or one that no handle
\* finds; a flattened one leaves it as it was (run_session_turn).
LEMMA CliOkKeeps == ASSUME Plain, Inner, NEW r \in Runs, CliOk(r) PROVE Inner'
<1> USE DEF Inner
<1> DEFINE s == req[r].slot
           mid == [req[r] EXCEPT !.ok = TRUE, !.got = Reads(r)]
           q0 == [mid EXCEPT !.at = IF mid.bad THEN "forget" ELSE "reply"]
<1>1. Held(r) /\ UNCHANGED <<provider, box, coder, map, dirs>> BY DEF CliOk, Held
<1>2. /\ Reads(r) = Upto(r, req[r].n) /\ Reads(r) # Nothing
      /\ req[r].mode # "alone" /\ s \in Slots /\ slot[s] \in Natives
      /\ req[r] \in Turns /\ req[r].n \in Nat /\ req[r].n > 0 /\ slot[s].by = r
  BY <1>1, ReadsAll
<1>3. /\ \A i, n \in Nat : Upto(i, n) \in Prefixes
      /\ r \in Nat /\ Upto(r, req[r].n) \in Prefixes
  BY <1>2, BrokersAssumption DEF Upto, Prefixes, Runs
<1>4. /\ q0 \in Turns /\ q0.slot = s /\ q0.n = req[r].n /\ q0.ok /\ q0.got = Upto(r, req[r].n)
      /\ q0.at \in {"forget", "reply"} /\ (q0.at = "reply" => ~req[r].bad)
  <2>1. /\ mid \in Turns /\ mid.slot = s /\ mid.n = req[r].n /\ mid.ok
        /\ mid.got = Upto(r, req[r].n) /\ mid.bad = req[r].bad
    BY <1>2, <1>3 DEF Turns
  <2> HIDE DEF mid
  <2> QED BY <2>1 DEF Turns, Stages
<1>5. req' = [req EXCEPT ![r] = q0]
  <2>1. Unlock(r, mid) BY DEF CliOk
  <2> HIDE DEF mid
  <2> QED BY <2>1 DEF Unlock
<1> HIDE DEF q0, mid
<1>6. CASE req[r].mode = "flatten"
  <2> DEFINE v == [slot[s] EXCEPT !.by = Nobody]
  <2>1. slot' = [slot EXCEPT ![s].by = Nobody] BY <1>2, <1>6 DEF CliOk
  <2>2. slot' = [slot EXCEPT ![s] = v] BY <2>1
  <2>3. /\ v \in Natives /\ v.by = Nobody /\ v.m = slot[s].m /\ v.id = slot[s].id
        /\ v.holds = slot[s].holds /\ v.m # 1
    BY <1>2 DEF Natives, Nobody, SlotsOK
  <2>4. q0.at = "forget" BY <1>1, <1>4, <1>6 DEF CliOK
  <2>5. provider = "codex" /\ v.m # 0 /\ ~v.id => Detached(s)
    BY <1>2, <2>3 DEF DirsOK, Used
  <2> HIDE DEF v, s
  <2>6. /\ q0 \in Turns /\ q0.slot = s /\ q0.n = req[r].n /\ s = req[r].slot
        /\ q0.at \in {"forget", "reply"} /\ v.by = Nobody
        /\ IF q0.at = "cli" THEN ~q0.ok ELSE q0.ok => q0.got = Upto(r, q0.n)
    BY <1>4, <2>3, <2>4 DEF s
  <2>7. ~(Waits(r) /\ q0.at = "reply" /\ map[HandleOf(r)] # NoSlot /\ q0.ok) BY <2>4
  <2> QED BY <1>1, <1>5, <2>2, <2>3, <2>5, <2>6, <2>7, TurnKeeps
<1>7. CASE req[r].mode # "flatten"
  <2>1. req[r].mode \in {"create", "resume"} /\ ~req[r].bad BY <1>1, <1>2, <1>7 DEF CliOK
  <2>2. PICK v \in Told(r, Reads(r)) : slot' = [slot EXCEPT ![s] = v]
    BY <1>2, <1>7 DEF CliOk
  <2> DEFINE there == provider = "claude" \/ s \in dirs
  <2>3. /\ v.m = req[r].n + 1 /\ v.by = Nobody /\ v.holds = Upto(r, req[r].n + 1)
        /\ v.kept \in BOOLEAN /\ v.id \in BOOLEAN
        /\ req[r].mode = "resume" => v.id = slot[s].id
        /\ req[r].mode # "resume" /\ provider = "codex" /\ ~v.id => s \notin dirs
        /\ v = [m |-> v.m, id |-> v.id, by |-> v.by, kept |-> v.kept, holds |-> v.holds]
    <3>1. PICK id \in IF req[r].mode = "resume" THEN {slot[s].id}
                      ELSE {b \in BOOLEAN : (b <=> there) \/ ("rollout" \in box.faults /\ ~b)} :
             v = [m |-> req[r].n + 1, id |-> id, by |-> Nobody, kept |-> there,
                  holds |-> Upto(r, req[r].n + 1)]
      BY <1>2 DEF Told
    <3>2. slot[s].id \in BOOLEAN BY <1>2 DEF Natives
    <3>3. /\ id \in BOOLEAN
          /\ req[r].mode = "resume" => id = slot[s].id
          /\ req[r].mode # "resume" /\ ~id => ~there
      <4>1. CASE req[r].mode = "resume" BY <3>1, <3>2, <4>1
      <4>2. CASE req[r].mode # "resume" BY <3>1, <4>2 DEF Plain
      <4> QED BY <4>1, <4>2
    <3>4. there \in BOOLEAN OBVIOUS
    <3>5. ~there => s \notin dirs OBVIOUS
    <3> HIDE DEF there
    <3> QED BY <3>1, <3>3, <3>4, <3>5
  <2>4. req[r].n + 1 \in Nat /\ req[r].n + 1 # 1 /\ req[r].n + 1 # 0 BY <1>2
  <2>5. v \in Natives BY <1>3, <2>3, <2>4 DEF Natives, Nobody
  <2>6. \A q \in Runs, n \in Nat : q # r => ~Mine(s, q, n) BY <1>1, <2>1, NotOthers
  <2>7. provider = "codex" /\ ~v.id => Detached(s)
    <3>1. req[r].mode = "resume" => (provider = "codex" => slot[s].id) BY <1>1 DEF CliOK, Mine
    <3> QED BY <1>1, <2>3, <3>1 DEF DirsOK
  <2>8. Waits(r) /\ map[HandleOf(r)] # NoSlot => ~Detached(s)
    <3>1. HandleOf(r) \in CoderHandles BY BrokersAssumption DEF HandleOf, CoderHandles, Runs
    <3> QED BY <3>1 DEF WaitOK, Detached
  <2>9. /\ provider = "codex" /\ v.m # 0 /\ ~v.id => Detached(s)
        /\ Waits(r) /\ q0.at = "reply" /\ map[HandleOf(r)] # NoSlot /\ q0.ok =>
              /\ v.m = q0.n + 1 /\ v.holds = Upto(r, q0.n + 1)
              /\ provider = "codex" => v.id
    BY <1>4, <2>3, <2>7, <2>8
  <2>10. /\ v.m # 1 /\ v.by = Nobody /\ q0.at \in {"forget", "reply"} /\ q0.got = Upto(r, q0.n)
    BY <1>4, <2>3, <2>4
  <2> HIDE DEF s
  <2> QED BY <1>1, <1>4, <1>5, <2>2, <2>5, <2>6, <2>9, <2>10, TurnKeeps DEF s
<1> QED BY <1>6, <1>7

\* After a resume that failed, the session is nobody's but its runner's
\* (run_session_turn).
LEMMA ResumeFailsKeeps == ASSUME Plain, Inner, NEW r \in Runs, ResumeFails(r) PROVE Inner'
<1> USE DEF Inner
<1> DEFINE s == req[r].slot
           q0 == [req[r] EXCEPT !.mode = "flatten", !.bad = TRUE]
<1>1. Held(r) /\ req[r].mode = "resume" /\ UNCHANGED <<provider, box, coder, map, dirs>>
  BY DEF ResumeFails, Held
<1>2. /\ s \in Slots /\ slot[s] \in Natives /\ req[r] \in Turns /\ slot[s].by = r /\ ~req[r].ok
  BY <1>1, ReadsAll DEF DoneOK, Held
<1>3. /\ q0 \in Turns /\ q0.slot = s /\ q0.n = req[r].n /\ ~q0.ok /\ q0.at = "cli"
      /\ q0.mode = "flatten" /\ q0.bad
  BY <1>1, <1>2 DEF Turns, Held
<1>4. req' = [req EXCEPT ![r] = q0] BY <1>2 DEF ResumeFails, Shape
<1>5. PICK held \in {slot[s].holds, Nothing} : slot' = [slot EXCEPT ![s].holds = held]
  BY DEF ResumeFails
<1> DEFINE v == [slot[s] EXCEPT !.holds = held]
<1>6. slot' = [slot EXCEPT ![s] = v] BY <1>5
<1>7. v \in Natives /\ v.by = r /\ v.m = slot[s].m /\ v.id = slot[s].id /\ v.m # 1
  BY <1>2 DEF Natives, Nothing, Prefixes, SlotsOK
<1>8. \A q \in Runs, n \in Nat : q # r => ~Mine(s, q, n) BY <1>1, NotOthers
<1>9. provider = "codex" /\ v.m # 0 /\ ~v.id => Detached(s) BY <1>2, <1>7 DEF DirsOK, Used
<1> HIDE DEF v, s, q0
<1> QED BY <1>1, <1>3, <1>4, <1>6, <1>7, <1>8, <1>9, TurnKeeps DEF s

\* A turn that fails leaves the session to be forgotten (run_session_turn).
LEMMA CliFailsKeeps == ASSUME Plain, Inner, NEW r \in Runs, CliFails(r) PROVE Inner'
<1> USE DEF Inner
<1> DEFINE s == req[r].slot
           mid == [req[r] EXCEPT !.bad = req[r].mode # "alone"]
           q0 == [mid EXCEPT !.at = IF mid.bad THEN "forget" ELSE "reply"]
<1>1. Held(r) /\ UNCHANGED <<provider, box, coder, map, dirs>> BY DEF CliFails, Held
<1>2. /\ req[r].mode # "alone" /\ s \in Slots /\ slot[s] \in Natives /\ req[r] \in Turns
      /\ slot[s].by = r /\ ~req[r].ok
  BY <1>1, ReadsAll DEF DoneOK, Held
<1>3. q0 \in Turns /\ q0.slot = s /\ q0.n = req[r].n /\ ~q0.ok /\ q0.at = "forget"
  <2>1. (req[r].mode # "alone") = TRUE BY <1>2
  <2>2. /\ mid \in Turns /\ mid.slot = s /\ mid.n = req[r].n /\ ~mid.ok /\ mid.bad
    BY <1>2, <2>1 DEF Turns
  <2> HIDE DEF mid
  <2> QED BY <2>2 DEF Turns, Stages
<1>4. req' = [req EXCEPT ![r] = q0]
  <2>1. Unlock(r, mid) BY DEF CliFails
  <2> HIDE DEF mid
  <2> QED BY <2>1 DEF Unlock
<1> DEFINE v == [slot[s] EXCEPT !.by = Nobody]
<1>5. slot' = [slot EXCEPT ![s] = v] BY <1>2 DEF CliFails
<1>6. /\ v \in Natives /\ v.by = Nobody /\ v.m = slot[s].m /\ v.id = slot[s].id
      /\ v.holds = slot[s].holds /\ v.m # 1
  BY <1>2 DEF Natives, Nobody, SlotsOK
<1>7. provider = "codex" /\ v.m # 0 /\ ~v.id => Detached(s) BY <1>2, <1>6 DEF DirsOK, Used
<1> HIDE DEF v, s, q0, mid
<1> QED BY <1>1, <1>3, <1>4, <1>5, <1>6, <1>7, TurnKeeps DEF s

\* A session that went wrong is in no handle afterwards (Registry::forget).
LEMMA ForgetKeeps == ASSUME Plain, Inner, NEW r \in Runs, Forget(r) PROVE Inner'
<1> USE DEF Inner
<1>1. /\ req[r].at = "forget" /\ map' = [map EXCEPT ![HandleOf(r)] = NoSlot]
      /\ UNCHANGED <<provider, box, coder, slot, dirs>>
  BY DEF Forget
<1>2. PICK at \in {"rmdir", "reply"} : req' = [req EXCEPT ![r].at = at] BY DEF Forget
<1>3. /\ \A q \in Runs : q # r => req'[q] = req[q]
      /\ req'[r].at = at /\ req'[r].slot = req[r].slot /\ req'[r].n = req[r].n
      /\ req'[r].ok = req[r].ok /\ req'[r].got = req[r].got
      /\ req' \in [Runs -> Turns]
  <2> DEFINE q0 == [req[r] EXCEPT !.at = at]
  <2>1. req[r] \in Turns /\ req \in [Runs -> Turns] BY DEF Shape
  <2>2. /\ q0 \in Turns /\ q0.at = at /\ q0.slot = req[r].slot /\ q0.n = req[r].n
        /\ q0.ok = req[r].ok /\ q0.got = req[r].got
    BY <2>1 DEF Turns, Stages
  <2>3. req' = [req EXCEPT ![r] = q0] BY <1>2
  <2> HIDE DEF q0
  <2> QED BY <2>1, <2>2, <2>3
<1>4. /\ \A q \in Runs : HandleOf(q)' = HandleOf(q) /\ HandleOf(q) \in CoderHandles
      /\ \A q \in Runs : Busy(q)' = Busy(q) /\ Waits(q)' = Waits(q) /\ Held(q)' = Held(q)
  BY <1>1, <1>3, BrokersAssumption DEF HandleOf, CoderHandles, Runs, Busy, Waits, Held
<1>5. \A g \in CoderHandles : map'[g] = IF g = HandleOf(r) THEN NoSlot ELSE map[g]
  BY <1>1 DEF Shape
<1>6. Shape' BY <1>1, <1>3, <1>4 DEF Shape, NoSlot
<1>7. InTurn' BY <1>1 DEF InTurn
<1>8. Slots' = Slots /\ \A i \in Slots : i # NoSlot BY <1>1 DEF Slots, Shape, NoSlot
<1>9. SlotsOK'
  <2>1. \A q \in Runs : req'[q].slot = req[q].slot /\ req'[q].n = req[q].n BY <1>3
  <2> QED BY <1>1, <1>4, <1>5, <1>8, <2>1 DEF SlotsOK
<1>10. LockOK' BY <1>1, <1>3, <1>4, <1>8 DEF LockOK, Held
<1>11. DirsOK'
  <2>1. \A i \in Slots : Detached(i) => Detached(i)' BY <1>5, <1>8 DEF Detached
  <2>2. \A q \in Runs : Busy(q) => req[q].slot \in Slots BY DEF SlotsOK
  <2>3. \A g \in CoderHandles : map'[g] # req[r].slot
    BY <1>1, <1>5, <1>8, <2>2 DEF SlotsOK, Busy
  <2>4. \A q \in Runs : req'[q].at = "rmdir" => Detached(req[q].slot)'
    <3>1. ASSUME NEW q \in Runs, q # r, req[q].at = "rmdir" PROVE Detached(req[q].slot)'
      <4>1. Detached(req[q].slot) /\ req[q].slot \in Slots BY <2>2, <3>1 DEF DirsOK, Busy
      <4> QED BY <1>3, <1>5, <1>8, <3>1, <4>1 DEF Detached
    <3>2. Detached(req[r].slot)' BY <1>3, <2>3 DEF Detached
    <3> QED BY <1>3, <3>1, <3>2
  <2>5. ASSUME NEW q \in Runs, provider = "codex", Held(q), req[q].slot \notin dirs
        PROVE  Detached(req[q].slot)'
    <3>1. Detached(req[q].slot) /\ req[q].slot \in Slots BY <2>2, <2>5 DEF DirsOK, Busy, Held
    <3>2. q # r BY <1>1, <2>5 DEF Held
    <3> QED BY <1>3, <1>5, <1>8, <3>1, <3>2 DEF Detached
  <2>6. \A i \in Slots : provider = "codex" /\ Used(i)' /\ ~slot'[i].id => Detached(i)'
    BY <1>1, <2>1 DEF DirsOK, Used
  <2>7. \A q \in Runs : Held(q)' => req'[q] = req[q] BY <1>1, <1>3, <1>4 DEF Held
  <2>8. \A q \in Runs : provider = "codex" /\ Held(q)' /\ req'[q].slot \notin dirs => Detached(req[q].slot)'
    BY <1>4, <2>5, <2>7
  <2> QED BY <1>1, <1>8, <2>4, <2>6, <2>8 DEF DirsOK
<1>12. WaitOK' BY <1>1, <1>3, <1>4, <1>5 DEF WaitOK
<1>13. QueueOK'
  <2>1. \A q \in Runs : req'[q].at = "queue" => req'[q] = req[q] BY <1>2, <1>3
  <2>2. \A q \in Runs : req'[q].slot = req[q].slot BY <1>3
  <2> QED BY <1>1, <1>4, <2>1, <2>2 DEF QueueOK, Mine, Used
<1>14. CliOK'
  <2>1. \A q \in Runs : Held(q)' => Held(q) /\ req'[q] = req[q] BY <1>1, <1>3, <1>4 DEF Held
  <2> QED BY <1>1, <2>1 DEF CliOK, Mine, Used
<1>15. DoneOK'
  <2>1. \A q \in Runs : req'[q].ok = req[q].ok /\ req'[q].got = req[q].got /\ req'[q].n = req[q].n
    BY <1>3
  <2>2. \A q \in Runs : map'[HandleOf(q)] # NoSlot => map'[HandleOf(q)] = map[HandleOf(q)] /\ q # r
    BY <1>4, <1>5
  <2> QED BY <1>1, <1>2, <1>3, <1>4, <2>1, <2>2 DEF DoneOK, Mine, Used
<1>16. BackOK'
  <2>1. \A q \in Runs : map'[HandleOf(q)] # NoSlot => map'[HandleOf(q)] = map[HandleOf(q)]
    BY <1>4, <1>5
  <2> QED BY <1>1, <1>4, <2>1 DEF BackOK, Mine, Used
<1> QED
  BY <1>6, <1>7, <1>9, <1>10, <1>11, <1>12, <1>13, <1>14, <1>15, <1>16

\* The directory that goes is that of a session nobody will find (run_session_turn
\* of codex-broker).
LEMMA RmDirKeeps == ASSUME Plain, Inner, NEW r \in Runs, RmDir(r) PROVE Inner'
<1> USE DEF Inner
<1> DEFINE s == req[r].slot
<1>1. /\ req[r].at = "rmdir" /\ dirs' = dirs \ {s} /\ slot' = [slot EXCEPT ![s].kept = FALSE]
      /\ req' = [req EXCEPT ![r].at = "reply"] /\ UNCHANGED <<provider, box, coder, map>>
  BY DEF RmDir
<1>2. /\ \A q \in Runs : q # r => req'[q] = req[q]
      /\ req'[r].at = "reply" /\ req'[r].slot = s /\ req'[r].n = req[r].n
      /\ req'[r].ok = req[r].ok /\ req'[r].got = req[r].got
      /\ req' \in [Runs -> Turns]
  <2> DEFINE t == [req[r] EXCEPT !.at = "reply"]
  <2>1. req[r] \in Turns /\ req \in [Runs -> Turns] BY DEF Shape
  <2>2. /\ t \in Turns /\ t.at = "reply" /\ t.slot = s /\ t.n = req[r].n
        /\ t.ok = req[r].ok /\ t.got = req[r].got
    BY <2>1 DEF Turns, Stages
  <2>3. req' = [req EXCEPT ![r] = t] BY <1>1, <2>1
  <2> HIDE DEF t, s
  <2> QED BY <2>1, <2>2, <2>3
<1>3. /\ \A q \in Runs : HandleOf(q)' = HandleOf(q) /\ HandleOf(q) \in CoderHandles
      /\ \A q \in Runs : Busy(q)' = Busy(q) /\ Waits(q)' = Waits(q) /\ Held(q)' = Held(q)
  BY <1>1, <1>2, BrokersAssumption DEF HandleOf, CoderHandles, Runs, Busy, Waits, Held
<1>4. s \in Slots /\ Detached(s) BY <1>1 DEF SlotsOK, Busy, DirsOK
<1>5. /\ \E k \in Nat : slot' \in [1..k -> Natives]
      /\ Slots' = Slots
      /\ \A i \in Slots : /\ slot'[i].m = slot[i].m /\ slot'[i].id = slot[i].id
                          /\ slot'[i].by = slot[i].by /\ slot'[i].holds = slot[i].holds
  <2>1. PICK k \in Nat : slot \in [1..k -> Natives] BY DEF Shape
  <2>2. [slot[s] EXCEPT !.kept = FALSE] \in Natives BY <1>4, <2>1 DEF Natives, Slots
  <2>3. slot' = [slot EXCEPT ![s] = [slot[s] EXCEPT !.kept = FALSE]] BY <1>1
  <2>4. slot' \in [1..k -> Natives] BY <2>1, <2>2, <2>3
  <2> QED BY <1>4, <2>1, <2>3, <2>4 DEF Slots, Natives
<1>6. \A q \in Runs : req'[q].slot = req[q].slot /\ req'[q].n = req[q].n BY <1>2
<1>7. \A q \in Runs : Busy(q) => req[q].slot \in Slots BY DEF SlotsOK
<1>8. \A q \in Runs : map[HandleOf(q)] # NoSlot => map[HandleOf(q)] \in Slots
  BY <1>3 DEF SlotsOK
<1> HIDE DEF s
<1>9. Shape' BY <1>1, <1>2, <1>5 DEF Shape
<1>10. InTurn' BY <1>1 DEF InTurn
<1>11. SlotsOK' BY <1>1, <1>3, <1>5, <1>6 DEF SlotsOK
<1>12. LockOK'
  <2>1. \A q \in Runs : Held(q)' => slot'[req'[q].slot].by = q
    BY <1>3, <1>5, <1>6, <1>7 DEF LockOK, Busy, Held
  <2>2. ASSUME NEW i \in Slots, slot'[i].by # Nobody
        PROVE  slot'[i].by \in Runs /\ Held(slot[i].by)' /\ req'[slot'[i].by].slot = i
    <3>1. /\ slot'[i].by = slot[i].by /\ slot[i].by \in Runs /\ Held(slot[i].by)
          /\ req[slot[i].by].slot = i
      BY <1>5, <2>2 DEF LockOK
    <3>2. slot[i].by # r BY <1>1, <3>1 DEF Held
    <3> QED BY <1>2, <3>1, <3>2 DEF Held
  <2> QED BY <1>5, <2>1, <2>2 DEF LockOK
<1>13. DirsOK'
  <2>1. \A i : Detached(i) => Detached(i)' BY <1>1 DEF Detached
  <2>2. \A q \in Runs : req'[q].at = "rmdir" => req'[q] = req[q] BY <1>2
  <2>3. \A q \in Runs : provider = "codex" /\ Held(q)' /\ req'[q].slot \notin dirs'
             => Detached(req[q].slot)'
    BY <1>1, <1>3, <1>4, <1>6, <2>1 DEF DirsOK
  <2>4. \A q \in Runs : req'[q].at = "rmdir" => Detached(req[q].slot)'
    BY <1>6, <2>1, <2>2 DEF DirsOK
  <2>5. \A i \in Slots : provider = "codex" /\ Used(i)' /\ ~slot'[i].id => Detached(i)'
    BY <1>5, <2>1 DEF DirsOK, Used
  <2> QED BY <1>1, <1>5, <2>3, <2>4, <2>5 DEF DirsOK
<1>14. WaitOK' BY <1>1, <1>3, <1>6 DEF WaitOK
<1>15. QueueOK'
  <2>1. \A q \in Runs : req'[q].at = "queue" => req'[q] = req[q] /\ req[q].slot \in Slots
    BY <1>2, <1>7 DEF Busy
  <2> QED BY <1>1, <1>3, <1>5, <1>6, <2>1 DEF QueueOK, Mine, Used
<1>16. CliOK'
  <2>1. \A q \in Runs : Held(q)' => Held(q) /\ req'[q] = req[q] /\ req[q].slot \in Slots
    BY <1>1, <1>2, <1>3, <1>7 DEF Held, Busy
  <2> QED BY <1>1, <1>5, <2>1 DEF CliOK, Mine, Used
<1>17. DoneOK'
  <2>1. \A q \in Runs : req'[q].ok = req[q].ok /\ req'[q].got = req[q].got BY <1>2
  <2>2. \A q \in Runs : q # r => req'[q].at = req[q].at BY <1>2
  <2> QED BY <1>1, <1>2, <1>3, <1>5, <1>6, <1>8, <2>1, <2>2 DEF DoneOK, Mine, Used
<1>18. BackOK' BY <1>1, <1>3, <1>5, <1>8 DEF BackOK, Mine, Used
<1> QED
  BY <1>9, <1>10, <1>11, <1>12, <1>13, <1>14, <1>15, <1>16, <1>17, <1>18

\* A coder that takes its reply has read what it sent, and the session it comes back
\* to is as long as its transcript (http_post_json, run_loop).
LEMMA ReplyKeeps == ASSUME Plain, Inner, NEW r \in Runs, Reply(r) PROVE Inner'
<1> USE DEF Inner
<1>1. /\ req[r].at = "reply" /\ req' = [req EXCEPT ![r] = Idle]
      /\ UNCHANGED <<provider, box, map, slot, dirs>>
  BY DEF Reply
<1>2. /\ \A q \in Runs : q # r => req'[q] = req[q]
      /\ req'[r] = Idle /\ req' \in [Runs -> Turns]
  BY <1>1 DEF Shape, Turns, Stages, Idle, NoSlot, Nothing, Prefixes
<1>3. coder[r].at \in {"wait", "gone"} /\ req[r].n \in Nat /\ req[r].n > 0
  BY <1>1 DEF SlotsOK, Busy, Shape, Turns
<1>4. ~Busy(r)' /\ ~Held(r)' /\ req'[r].at = "none"
  BY <1>2 DEF Idle, Busy, Held
<1>5. /\ \A q \in Runs : q # r => coder'[q] = coder[q]
      /\ coder' \in [Runs -> Coders]
      /\ \/ coder'[r].at = "gone"
         \/ /\ Waits(r) /\ coder'[r].at = "act" /\ req[r].ok
            /\ coder'[r].n = req[r].n + 1 /\ coder'[r].got = req[r].got
  <2>1. coder[r] \in Coders /\ req[r].got \in Prefixes BY DEF Shape, Turns
  <2>2. CASE ~Waits(r)
    <3>1. coder' = coder BY <1>1, <2>2 DEF Reply
    <3> QED BY <1>3, <2>2, <3>1 DEF Shape, Waits
  <2>3. CASE Waits(r) /\ req[r].ok
    <3> DEFINE c == [coder[r] EXCEPT !.at = "act", !.n = @ + 1, !.got = req[r].got]
    <3>1. coder[r].n = req[r].n /\ coder[r].n + 1 \in Nat BY <1>3, <2>3 DEF WaitOK
    <3>2. c \in Coders /\ c.at = "act" /\ c.n = req[r].n + 1 /\ c.got = req[r].got
      BY <2>1, <3>1 DEF Coders
    <3>3. coder' = [coder EXCEPT ![r] = c] BY <2>3 DEF Reply
    <3> HIDE DEF c
    <3> QED BY <2>3, <3>2, <3>3 DEF Shape
  <2>4. CASE Waits(r) /\ ~req[r].ok
    <3>1. Exit(r, 4) BY <2>4 DEF Reply
    <3> QED BY <3>1 DEF Exit, Shape, Coders
  <2> QED BY <2>2, <2>3, <2>4
<1>6. /\ \A q \in Runs : HandleOf(q)' = HandleOf(q) /\ HandleOf(q) \in CoderHandles
      /\ \A q \in Runs : Busy(q)' => Busy(q) /\ q # r /\ req'[q] = req[q]
      /\ \A q \in Runs : Held(q)' => Held(q) /\ q # r /\ req'[q] = req[q]
      /\ \A q \in Runs : Waits(q)' => Waits(q) /\ q # r /\ req'[q] = req[q]
  BY <1>1, <1>2, <1>4, <1>5, BrokersAssumption DEF HandleOf, CoderHandles, Runs, Busy, Waits, Held
<1>7. Slots' = Slots BY <1>1 DEF Slots
<1>8. Shape' BY <1>1, <1>2, <1>5 DEF Shape
<1>9. InTurn' BY <1>1, <1>3, <1>5 DEF InTurn, Waits
<1>10. SlotsOK' BY <1>1, <1>5, <1>6, <1>7 DEF SlotsOK
<1>11. LockOK'
  <2>1. \A q \in Runs : Held(q)' => slot'[req'[q].slot].by = q BY <1>1, <1>6 DEF LockOK
  <2>2. ASSUME NEW i \in Slots, slot'[i].by # Nobody
        PROVE  slot'[i].by \in Runs /\ Held(slot[i].by)' /\ req'[slot'[i].by].slot = i
    <3>1. /\ slot'[i].by = slot[i].by /\ slot[i].by \in Runs /\ Held(slot[i].by)
          /\ req[slot[i].by].slot = i
      BY <1>1, <2>2 DEF LockOK
    <3>2. slot[i].by # r BY <1>1, <3>1 DEF Held
    <3> QED BY <1>2, <3>1, <3>2 DEF Held
  <2> QED BY <1>7, <2>1, <2>2 DEF LockOK
<1>12. DirsOK'
  <2>1. \A i : Detached(i) => Detached(i)' BY <1>1 DEF Detached
  <2>2. \A q \in Runs : req'[q].at = "rmdir" => req'[q] = req[q] BY <1>2, <1>4
  <2>3. \A q \in Runs : provider = "codex" /\ Held(q)' /\ req'[q].slot \notin dirs
             => Detached(req[q].slot)'
    BY <1>1, <1>6 DEF DirsOK, Detached
  <2>4. \A q \in Runs : req'[q].at = "rmdir" => Detached(req[q].slot)'
    BY <1>1, <2>2 DEF DirsOK, Detached
  <2>5. \A i \in Slots : provider = "codex" /\ Used(i)' /\ ~slot'[i].id => Detached(i)'
    BY <1>1, <2>1 DEF DirsOK, Used
  <2> QED BY <1>1, <1>7, <2>3, <2>4, <2>5 DEF DirsOK
<1>13. WaitOK'
  <2>1. \A q \in Runs : Waits(q)' => Busy(q)' BY <1>6 DEF WaitOK, Busy
  <2>2. \A q \in Runs : q # r => coder'[q] = coder[q] BY <1>5
  <2> QED BY <1>1, <1>6, <2>1, <2>2 DEF WaitOK
<1>14. QueueOK'
  <2>1. \A q \in Runs : req'[q].at = "queue" => q # r /\ req'[q] = req[q] /\ coder'[q] = coder[q]
    BY <1>2, <1>4, <1>5
  <2> QED BY <1>1, <1>6, <2>1 DEF QueueOK, Mine, Used
<1>15. CliOK' BY <1>1, <1>6 DEF CliOK, Mine, Used
<1>16. DoneOK'
  <2>1. \A q \in Runs : req'[q].at # "none" => q # r /\ req'[q] = req[q] BY <1>2, <1>4
  <2> QED BY <1>1, <1>6, <2>1 DEF DoneOK, Mine, Used
<1>17. BackOK'
  <2> SUFFICES ASSUME NEW q \in Runs
               PROVE  /\ coder'[q].at \in {"ask", "act"} => ~Busy(q)' /\ coder'[q].n > 0
                      /\ coder'[q].at = "act" => coder'[q].got = Upto(q, coder'[q].n - 1)
                      /\ coder'[q].at = "act" /\ map[HandleOf(q)] # NoSlot =>
                            Mine(map[HandleOf(q)], q, coder[q].n)'
                      /\ coder'[q].at = "ask" /\ coder'[q].n > 1 /\ map[HandleOf(q)] # NoSlot =>
                            Mine(map[HandleOf(q)], q, coder[q].n - 1)'
                      /\ coder'[q].at = "none" => ~Busy(q)'
    BY <1>1, <1>6 DEF BackOK
  <2>1. CASE q # r
    <3>1. coder'[q] = coder[q] BY <1>5, <2>1
    <3> QED BY <1>1, <1>6, <3>1 DEF BackOK, Mine, Used
  <2>2. CASE q = r /\ coder'[r].at = "gone" BY <2>2
  <2>3. CASE q = r /\ coder'[r].at # "gone"
    <3>1. /\ Waits(r) /\ req[r].ok /\ coder'[r].at = "act"
          /\ coder'[r].n = req[r].n + 1 /\ coder'[r].got = req[r].got
      BY <1>5, <2>3
    <3>2. req[r].got = Upto(r, coder'[r].n - 1) BY <1>1, <1>3, <3>1 DEF DoneOK
    <3>3. map[HandleOf(r)] # NoSlot => Mine(map[HandleOf(r)], r, req[r].n + 1)
      BY <1>1, <3>1 DEF DoneOK
    <3>4. map[HandleOf(r)] # NoSlot => Mine(map[HandleOf(r)], r, coder[r].n)'
      BY <1>1, <1>6, <3>1, <3>3 DEF Mine, Used
    <3> QED BY <1>3, <1>4, <2>3, <3>1, <3>2, <3>4
  <2> QED BY <2>1, <2>2, <2>3
<1> QED
  BY <1>8, <1>9, <1>10, <1>11, <1>12, <1>13, <1>14, <1>15, <1>16, <1>17

\* After a restart no request and no handle is left, and no coder that waited
\* (a new broker process).
LEMMA RestartKeeps == ASSUME Plain, Inner, Restart PROVE Inner'
<1> USE DEF Inner
<1>1. /\ map' = [h \in CoderHandles |-> NoSlot] /\ req' = [r \in Runs |-> Idle]
      /\ slot' = [s \in Slots |-> [slot[s] EXCEPT !.by = Nobody]]
      /\ coder' = [r \in Runs |-> IF Waits(r) THEN [coder[r] EXCEPT !.at = "gone", !.rc = 4] ELSE coder[r]]
      /\ UNCHANGED <<provider, box, dirs>>
  BY DEF Restart
<1>2. /\ req' \in [Runs -> Turns] /\ \A q \in Runs : req'[q].at = "none"
  BY <1>1 DEF Turns, Stages, Idle, NoSlot, Nothing, Prefixes
<1>3. /\ map' \in [CoderHandles -> Nat] /\ \A g \in CoderHandles : map'[g] = NoSlot
  BY <1>1 DEF NoSlot
<1>4. /\ \E k \in Nat : slot' \in [1..k -> Natives]
      /\ Slots' = Slots /\ \A i \in Slots : slot'[i].by = Nobody /\ slot'[i].m = slot[i].m
  <2>1. PICK k \in Nat : slot \in [1..k -> Natives] BY DEF Shape
  <2>2. \A i \in 1..k : [slot[i] EXCEPT !.by = Nobody] \in Natives BY <2>1 DEF Natives, Nobody
  <2>3. slot' \in [1..k -> Natives] BY <1>1, <2>1, <2>2 DEF Slots
  <2> QED BY <1>1, <2>1, <2>3 DEF Slots, Natives
<1>5. /\ coder' \in [Runs -> Coders]
      /\ \A q \in Runs : coder'[q].at # "wait" /\ (coder'[q].at # "gone" => coder'[q] = coder[q])
      /\ \A q \in Runs : coder[q].at = "gone" => coder'[q].at = "gone"
      /\ \A q \in Runs : coder[q].at = "none" => coder'[q].at = "none"
      /\ \A q \in Runs : coder'[q].at = "none" => coder[q].at = "none"
  <2>1. \A q \in Runs : coder[q] \in Coders BY DEF Shape
  <2>2. ASSUME NEW c \in Coders
        PROVE  [c EXCEPT !.at = "gone", !.rc = 4] \in Coders
               /\ [c EXCEPT !.at = "gone", !.rc = 4].at = "gone"
    BY DEF Coders
  <2>3. \A q \in Runs : coder'[q] \in Coders /\ (IF Waits(q) THEN coder'[q].at = "gone" ELSE coder'[q] = coder[q])
    BY <1>1, <2>1, <2>2
  <2> QED BY <1>1, <2>3 DEF Waits
<1>6. \A q \in Runs : HandleOf(q) \in CoderHandles /\ HandleOf(q)' = HandleOf(q)
  <2>1. box' = box BY <1>1
  <2> QED BY <2>1, BrokersAssumption DEF HandleOf, CoderHandles, Runs
<1>7. Shape' BY <1>1, <1>2, <1>3, <1>4, <1>5 DEF Shape
<1>8. InTurn' BY <1>5 DEF InTurn
<1>9. SlotsOK' BY <1>2, <1>3, <1>4 DEF SlotsOK, Busy
<1>10. LockOK' BY <1>2, <1>4 DEF LockOK, Held
<1>11. DirsOK'
  <2>1. \A i \in Slots : i # NoSlot BY DEF Shape, Slots, NoSlot
  <2>2. \A i \in Slots : Detached(i)' BY <1>3, <2>1 DEF Detached
  <2> QED BY <1>2, <1>4, <2>2 DEF DirsOK, Held
<1>12. WaitOK' BY <1>5 DEF WaitOK, Waits
<1>13. (QueueOK /\ CliOK)' BY <1>2 DEF QueueOK, CliOK, Held
<1>14. DoneOK' BY <1>2 DEF DoneOK
<1>15. BackOK'
  <2>1. \A q \in Runs : ~Busy(q)' BY <1>2 DEF Busy
  <2>2. \A q \in Runs : map'[HandleOf(q)'] = NoSlot BY <1>3, <1>6
  <2>3. \A q \in Runs : coder'[q].at \in {"ask", "act"} => coder'[q] = coder[q] BY <1>5
  <2> QED BY <2>1, <2>2, <2>3 DEF BackOK
<1> QED
  BY <1>7, <1>8, <1>9, <1>10, <1>11, <1>12, <1>13, <1>14, <1>15

\* Codex keeps its directory in these boxes.
LEMMA NeverNoDir == ASSUME Plain, NEW r \in Runs PROVE ~NoDir(r)
BY DEF NoDir, Plain

\* The invariant is inductive.
LEMMA ToldKept == BrokersInv /\ [BrokersNext]_brokerVars => BrokersInv'
<1> SUFFICES ASSUME BrokersInv, [BrokersNext]_brokerVars, Plain' PROVE Inner'
  BY DEF BrokersInv
<1>1. box' = box
  BY DEF BrokersNext, brokerVars, Start, Send, GiveUp, Act, Panics, Lock, NoDir, CliOk,
         ResumeFails, CliFails, Forget, RmDir, Reply, Restart
<1>2. Plain /\ Inner BY <1>1 DEF Plain, BrokersInv
<1>3. CASE UNCHANGED brokerVars
  <2>1. (Shape /\ InTurn /\ LockOK)' BY <1>2, <1>3 DEF brokerVars, Inner, Shape, InTurn, LockOK, Held, Slots
  <2>2. (SlotsOK /\ DirsOK /\ WaitOK)'
    BY <1>2, <1>3 DEF brokerVars, Inner, SlotsOK, DirsOK, WaitOK, Slots, HandleOf, Used, Busy, Held,
                      Waits, Detached
  <2>3. (QueueOK /\ CliOK)' BY <1>2, <1>3 DEF brokerVars, Inner, QueueOK, CliOK, Used, Mine, Busy, Held
  <2>4. (DoneOK /\ BackOK)'
    BY <1>2, <1>3 DEF brokerVars, Inner, DoneOK, BackOK, HandleOf, Used, Mine, Busy, Waits
  <2> QED BY <2>1, <2>2, <2>3, <2>4 DEF Inner
<1>4. CASE Restart BY <1>2, <1>4, RestartKeeps
<1>5. ASSUME NEW r \in Runs, Start(r) PROVE Inner' BY <1>2, <1>5, StartKeeps
<1>6. ASSUME NEW r \in Runs, Send(r) PROVE Inner' BY <1>2, <1>6, SendKeeps
<1>7. ASSUME NEW r \in Runs, GiveUp(r) PROVE Inner'
  <2>1. coder[r].at \in {"ask", "act"} \/ (Waits(r) /\ Slow(r)) BY <1>7 DEF GiveUp
  <2>2. Exit(r, 4) /\ UNCHANGED <<provider, box, req, map, slot, dirs>> BY <1>7 DEF GiveUp
  <2> QED BY <1>2, <2>1, <2>2, LeaveKeeps
<1>8. ASSUME NEW r \in Runs, Act(r) \/ Panics(r) PROVE Inner' BY <1>2, <1>8, ActKeeps
<1>9. ASSUME NEW r \in Runs, Lock(r) PROVE Inner' BY <1>2, <1>9, LockKeeps
<1>10. ASSUME NEW r \in Runs, NoDir(r) PROVE Inner' BY <1>2, <1>10, NeverNoDir
<1>11. ASSUME NEW r \in Runs, CliOk(r) PROVE Inner' BY <1>2, <1>11, CliOkKeeps
<1>12. ASSUME NEW r \in Runs, ResumeFails(r) PROVE Inner' BY <1>2, <1>12, ResumeFailsKeeps
<1>13. ASSUME NEW r \in Runs, CliFails(r) PROVE Inner' BY <1>2, <1>13, CliFailsKeeps
<1>14. ASSUME NEW r \in Runs, Forget(r) PROVE Inner' BY <1>2, <1>14, ForgetKeeps
<1>15. ASSUME NEW r \in Runs, RmDir(r) PROVE Inner' BY <1>2, <1>15, RmDirKeeps
<1>16. ASSUME NEW r \in Runs, Reply(r) PROVE Inner' BY <1>2, <1>16, ReplyKeeps
<1> QED
  BY <1>3, <1>4, <1>5, <1>6, <1>7, <1>8, <1>9, <1>10, <1>11, <1>12, <1>13, <1>14, <1>15, <1>16
  DEF BrokersNext

\* run_session_turn: in a box whose coders run one after the other, and whose codex
\* keeps its directory, every reply a coder takes was made from exactly the
\* transcript it sent; for any number of runs and steps, whatever fails, restarts,
\* or goes on after its coder has given up.
THEOREM ToldAll == BrokersSpec => []TurnTold
<1>1. BrokersInv => TurnTold
  BY DEF BrokersInv, Inner, BackOK, TurnTold, Plain
<1> QED BY ToldInit, ToldKept, <1>1, PTL DEF BrokersSpec

---------------------------------------------------------------------------
(* Types, in every box *)

AnyTurns == [at : Stages, n : Nat, slot : Nat,
             mode : {"none", "create", "resume", "flatten", "alone"},
             bad : BOOLEAN, got : Prefixes, ok : BOOLEAN]

\* Also where coders run at once and codex loses its directory: what has the lock
\* is a run, and maps, requests and directories are of slots that were made
Boxed ==
    /\ provider \in Providers /\ box \in Boxes
    /\ coder \in [Runs -> Coders] /\ req \in [Runs -> AnyTurns]
    /\ map \in [CoderHandles -> Slots \cup {NoSlot}]
    /\ \E k \in Nat : slot \in [1..k -> Natives]
    /\ dirs \subseteq Slots
    /\ \A s \in Slots : slot[s].by \in Runs \cup {Nobody}
    /\ \A r \in Runs : req[r].at # "none" => req[r].slot \in Slots

\* What a change of one slot leaves (run_session_turn).
LEMMA SlotBoxed ==
    ASSUME Boxed, NEW s \in Slots, NEW v \in Natives, v.by \in Runs \cup {Nobody},
           slot' = [slot EXCEPT ![s] = v]
    PROVE  /\ Slots' = Slots /\ \E k \in Nat : slot' \in [1..k -> Natives]
           /\ \A i \in Slots : slot'[i].by \in Runs \cup {Nobody}
<1> PICK k \in Nat : slot \in [1..k -> Natives] BY DEF Boxed
<1>1. Slots = 1..k /\ Slots' = 1..k BY DEF Slots
<1>2. slot' \in [1..k -> Natives] /\ slot'[s] = v /\ \A i \in Slots : i # s => slot'[i] = slot[i]
  BY <1>1
<1> QED BY <1>1, <1>2 DEF Boxed

\* A request that goes on keeps its slot.
LEMMA TurnBoxed ==
    ASSUME Boxed, NEW r \in Runs, NEW q \in AnyTurns, req' = [req EXCEPT ![r] = q],
           q.at # "none" => q.slot \in Slots', Slots \subseteq Slots'
    PROVE  /\ req' \in [Runs -> AnyTurns]
           /\ \A i \in Runs : req'[i].at # "none" => req'[i].slot \in Slots'
  BY DEF Boxed

\* The coder's own steps touch only the coder (run_loop).
LEMMA CoderBoxed ==
    ASSUME Boxed, NEW r \in Runs, NEW c \in Coders, coder' = [coder EXCEPT ![r] = c],
           UNCHANGED <<provider, box, req, map, slot, dirs>>
    PROVE  Boxed'
  BY DEF Boxed, Slots

\* A coder that is gone has its exit code.
LEMMA ExitBoxed == ASSUME Boxed, NEW r \in Runs, NEW code \in Nat, Exit(r, code)
                   PROVE  \E c \in Coders : coder' = [coder EXCEPT ![r] = c]
<1> DEFINE c == [coder[r] EXCEPT !.at = "gone", !.rc = code]
<1>1. coder[r] \in Coders /\ coder \in [Runs -> Coders] BY DEF Boxed
<1>2. c \in Coders BY <1>1 DEF Coders
<1>3. coder' = [coder EXCEPT ![r] = c] BY <1>1 DEF Exit
<1> QED BY <1>2, <1>3

\* Steps of the coder: it starts, gives up, ends, or asks again.
LEMMA OwnBoxed ==
    ASSUME Boxed, NEW r \in Runs, Start(r) \/ GiveUp(r) \/ Act(r) \/ Panics(r)
    PROVE  Boxed'
<1>1. coder[r] \in Coders /\ coder \in [Runs -> Coders] BY DEF Boxed
<1>2. UNCHANGED <<provider, box, req, map, slot, dirs>> BY DEF Start, GiveUp, Act, Panics
<1>3. CASE Start(r)
  <2> DEFINE c == [coder[r] EXCEPT !.at = "ask", !.n = 1, !.step = 1]
  <2>1. c \in Coders BY <1>1 DEF Coders
  <2>2. coder' = [coder EXCEPT ![r] = c] BY <1>1, <1>3 DEF Start
  <2> QED BY <1>2, <2>1, <2>2, CoderBoxed
<1>4. ASSUME NEW code \in Nat, Exit(r, code) PROVE Boxed'
  <2>1. PICK c \in Coders : coder' = [coder EXCEPT ![r] = c] BY <1>4, ExitBoxed
  <2> QED BY <1>2, <2>1, CoderBoxed
<1>5. ASSUME coder' = [coder EXCEPT ![r] = [coder[r] EXCEPT !.at = "ask", !.n = @ + 1, !.step = @ + 1]]
      PROVE  Boxed'
  <2> DEFINE c == [coder[r] EXCEPT !.at = "ask", !.n = @ + 1, !.step = @ + 1]
  <2>1. c \in Coders
    <3>1. coder[r].n + 1 \in Nat /\ coder[r].step + 1 \in Nat BY <1>1 DEF Coders
    <3> QED BY <1>1, <3>1 DEF Coders
  <2> HIDE DEF c
  <2> QED BY <1>2, <1>5, <2>1, CoderBoxed DEF c
<1> QED BY <1>3, <1>4, <1>5 DEF GiveUp, Act, Panics

\* A handle without a slot gets the next one (Registry::acquire).
LEMMA SendBoxed == ASSUME Boxed, NEW r \in Runs, Send(r) PROVE Boxed'
<1> DEFINE h == HandleOf(r)
           s == IF map[h] = NoSlot THEN Cardinality(Slots) + 1 ELSE map[h]
           q == [Idle EXCEPT !.at = "queue", !.n = coder[r].n, !.slot = s]
           c == [coder[r] EXCEPT !.at = "wait"]
<1>1. /\ coder' = [coder EXCEPT ![r].at = "wait"]
      /\ req' = [req EXCEPT ![r] = q] /\ map' = [map EXCEPT ![h] = s]
      /\ slot' = IF s \in Slots THEN slot ELSE [i \in Slots \cup {s} |-> IF i = s THEN Fresh ELSE slot[i]]
      /\ UNCHANGED <<provider, box, dirs>>
  BY DEF Send
<1>2. PICK k \in Nat : slot \in [1..k -> Natives] BY DEF Boxed
<1>3. Slots = 1..k /\ Cardinality(Slots) = k BY <1>2, FS_Interval DEF Slots
<1>4. h \in CoderHandles BY BrokersAssumption DEF HandleOf, CoderHandles, Runs
<1>5. map[h] \in Slots \cup {NoSlot} BY <1>4 DEF Boxed
<1>6. s \in 1..k \/ s = k + 1 BY <1>3, <1>5
<1>7. s \in Nat BY <1>6
<1>8. Fresh \in Natives /\ Fresh.by = Nobody BY DEF Fresh, Natives, Prefixes, Nothing, Nobody
<1>9. /\ \E j \in Nat : slot' \in [1..j -> Natives]
      /\ Slots' = Slots \cup {s} /\ \A i \in Slots' : slot'[i].by \in Runs \cup {Nobody}
  <2>1. CASE s \in Slots
    <3>1. slot' = slot BY <1>1, <2>1
    <3> QED BY <1>2, <2>1, <3>1 DEF Boxed, Slots
  <2>2. CASE s \notin Slots
    <3>1. s = k + 1 BY <1>3, <1>6, <2>2
    <3> HIDE DEF s
    <3>2. slot' = [i \in 1..k \cup {k + 1} |-> IF i = k + 1 THEN Fresh ELSE slot[i]]
      BY <1>1, <1>3, <2>2, <3>1
    <3>3. 1..k \cup {k + 1} = 1..(k + 1) OBVIOUS
    <3>4. \A i \in 1..(k + 1) : i # k + 1 => i \in 1..k OBVIOUS
    <3>5. slot' \in [1..(k + 1) -> Natives] /\ DOMAIN slot' = 1..(k + 1)
      BY <1>2, <1>8, <3>2, <3>3, <3>4
    <3>6. \A i \in 1..(k + 1) : slot'[i].by \in Runs \cup {Nobody}
      <4>1. \A i \in 1..k : slot[i].by \in Runs \cup {Nobody} BY <1>3 DEF Boxed
      <4> QED BY <1>8, <3>2, <3>3, <3>4, <4>1
    <3> QED BY <1>3, <3>1, <3>3, <3>5, <3>6 DEF Slots
  <2> QED BY <2>1, <2>2
<1>10. q \in AnyTurns /\ q.slot = s
  <2>1. coder[r].n \in Nat BY DEF Boxed, Coders
  <2> QED BY <1>7, <2>1 DEF AnyTurns, Stages, Prefixes, Idle, Nothing
<1>11. coder' \in [Runs -> Coders] BY <1>1 DEF Boxed, Coders
<1> HIDE DEF q, h, s
<1>12. map' \in [CoderHandles -> Slots' \cup {NoSlot}] BY <1>1, <1>4, <1>9 DEF Boxed
<1>13. /\ req' \in [Runs -> AnyTurns]
       /\ \A i \in Runs : req'[i].at # "none" => req'[i].slot \in Slots'
  BY <1>1, <1>9, <1>10, TurnBoxed
<1> QED BY <1>1, <1>9, <1>11, <1>12, <1>13 DEF Boxed

\* A turn takes or leaves the lock of its slot, or runs without (run_session_turn).
LEMMA LockBoxed ==
    ASSUME Boxed, NEW r \in Runs, Lock(r) \/ NoDir(r) \/ ResumeFails(r) \/ CliFails(r) \/ RmDir(r)
    PROVE  Boxed'
<1> DEFINE s == req[r].slot
<1>1. req[r] \in AnyTurns /\ req[r].at # "none" /\ s \in Slots
  BY DEF Boxed, Lock, NoDir, ResumeFails, CliFails, RmDir
<1>2. slot[s] \in Natives /\ slot[s].by \in Runs \cup {Nobody} BY <1>1 DEF Boxed, Slots
<1>3. r \in Nat /\ Nobody \in Nat BY BrokersAssumption DEF Runs, Nobody
<1>4. UNCHANGED <<provider, box, coder, map>> /\ dirs' \in {dirs, dirs \cup {s}, dirs \ {s}}
  BY DEF Lock, NoDir, ResumeFails, CliFails, RmDir
<1>5. \/ UNCHANGED slot
      \/ \E v \in Natives : v.by \in Runs \cup {Nobody} /\ slot' = [slot EXCEPT ![s] = v]
  <2>1. ASSUME NEW b \in Runs \cup {Nobody}, slot' = [slot EXCEPT ![s].by = b]
        PROVE  \E v \in Natives : v.by \in Runs \cup {Nobody} /\ slot' = [slot EXCEPT ![s] = v]
    <3>1. b \in Nat BY BrokersAssumption DEF Runs, Nobody
    <3>2. [slot[s] EXCEPT !.by = b] \in Natives /\ [slot[s] EXCEPT !.by = b].by = b
      BY <1>2, <3>1 DEF Natives
    <3> QED BY <2>1, <3>2
  <2>2. CASE Lock(r) BY <2>1, <2>2 DEF Lock
  <2>3. CASE NoDir(r) BY <2>3 DEF NoDir
  <2>4. CASE ResumeFails(r)
    <3>1. PICK held \in {slot[s].holds, Nothing} : slot' = [slot EXCEPT ![s].holds = held]
      BY <2>4 DEF ResumeFails
    <3>2. held \in Prefixes BY <1>2 DEF Natives, Nothing, Prefixes
    <3>3. [slot[s] EXCEPT !.holds = held] \in Natives /\ [slot[s] EXCEPT !.holds = held].by = slot[s].by
      BY <1>2, <3>2 DEF Natives
    <3> QED BY <1>2, <3>1, <3>3
  <2>5. CASE CliFails(r) BY <2>1, <2>5 DEF CliFails
  <2>6. CASE RmDir(r)
    <3>1. slot' = [slot EXCEPT ![s].kept = FALSE] BY <2>6 DEF RmDir
    <3>2. [slot[s] EXCEPT !.kept = FALSE] \in Natives /\ [slot[s] EXCEPT !.kept = FALSE].by = slot[s].by
      BY <1>2 DEF Natives
    <3> QED BY <1>2, <3>1, <3>2
  <2> QED BY <2>2, <2>3, <2>4, <2>5, <2>6
<1>6. \E q \in AnyTurns : req' = [req EXCEPT ![r] = q] /\ q.slot = s
  <2>1. CASE Lock(r)
    <3> DEFINE mode == Mode(slot[s], req[r].n)
    <3>1. req' = [req EXCEPT ![r].at = "cli", ![r].mode = mode, ![r].bad = mode = "flatten"]
      BY <2>1 DEF Lock
    <3>2. mode \in {"create", "resume", "flatten"} BY DEF Mode
    <3> HIDE DEF mode
    <3>3. PICK b \in BOOLEAN : b = (mode = "flatten") OBVIOUS
    <3> DEFINE q == [req[r] EXCEPT !.at = "cli", !.mode = mode, !.bad = b]
    <3>4. q \in AnyTurns /\ q.slot = s BY <1>1, <3>2 DEF AnyTurns, Stages
    <3>5. req' = [req EXCEPT ![r] = q] BY <3>1, <3>3 DEF Boxed
    <3> QED BY <3>4, <3>5
  <2>2. CASE NoDir(r)
    <3> DEFINE q == [req[r] EXCEPT !.at = "cli", !.mode = "alone"]
    <3>1. q \in AnyTurns /\ q.slot = s BY <1>1 DEF AnyTurns, Stages
    <3>2. req' = [req EXCEPT ![r] = q] BY <2>2 DEF NoDir, Boxed
    <3> QED BY <3>1, <3>2
  <2>3. CASE ResumeFails(r)
    <3> DEFINE q == [req[r] EXCEPT !.mode = "flatten", !.bad = TRUE]
    <3>1. q \in AnyTurns /\ q.slot = s BY <1>1 DEF AnyTurns
    <3>2. req' = [req EXCEPT ![r] = q] BY <2>3 DEF ResumeFails, Boxed
    <3> QED BY <3>1, <3>2
  <2>4. CASE CliFails(r)
    <3>1. PICK b \in BOOLEAN : b = (req[r].mode # "alone") OBVIOUS
    <3> DEFINE q0 == [req[r] EXCEPT !.bad = b]
               to == IF b THEN "forget" ELSE "reply"
               q  == [q0 EXCEPT !.at = to]
    <3>2. q0 \in AnyTurns /\ q0.slot = s /\ q0.bad = b BY <1>1 DEF AnyTurns
    <3>3. q \in AnyTurns /\ q.slot = s BY <3>2 DEF AnyTurns, Stages
    <3>4. req' = [req EXCEPT ![r] = [q0 EXCEPT !.at = IF q0.bad THEN "forget" ELSE "reply"]]
      BY <2>4, <3>1 DEF CliFails, Unlock
    <3>5. req' = [req EXCEPT ![r] = q] BY <3>2, <3>4
    <3> QED BY <3>3, <3>5
  <2>5. CASE RmDir(r)
    <3> DEFINE q == [req[r] EXCEPT !.at = "reply"]
    <3>1. q \in AnyTurns /\ q.slot = s BY <1>1 DEF AnyTurns, Stages
    <3>2. req' = [req EXCEPT ![r] = q] BY <2>5 DEF RmDir, Boxed
    <3> QED BY <3>1, <3>2
  <2> QED BY <2>1, <2>2, <2>3, <2>4, <2>5
<1> HIDE DEF s
<1>7. /\ Slots' = Slots /\ \E k \in Nat : slot' \in [1..k -> Natives]
      /\ \A i \in Slots : slot'[i].by \in Runs \cup {Nobody}
  <2>1. CASE UNCHANGED slot BY <2>1 DEF Boxed, Slots
  <2> QED BY <1>1, <1>5, <2>1, SlotBoxed
<1>8. /\ req' \in [Runs -> AnyTurns]
      /\ \A i \in Runs : req'[i].at # "none" => req'[i].slot \in Slots'
  BY <1>1, <1>6, <1>7, TurnBoxed
<1>9. dirs' \subseteq Slots' BY <1>1, <1>4, <1>7 DEF Boxed
<1> QED BY <1>4, <1>7, <1>8, <1>9 DEF Boxed

\* What a turn leaves in the slot is a native session without a holder.
LEMMA CliOkBoxed == ASSUME Boxed, NEW r \in Runs, CliOk(r) PROVE Boxed'
<1> DEFINE s  == req[r].slot
           q0 == [req[r] EXCEPT !.ok = TRUE, !.got = Reads(r)]
           to == IF q0.bad THEN "forget" ELSE "reply"
           q  == [q0 EXCEPT !.at = to]
<1>1. req[r] \in AnyTurns /\ s \in Slots BY DEF Boxed, CliOk
<1>2. slot[s] \in Natives BY <1>1 DEF Boxed, Slots
<1>3. Reads(r) \in Prefixes
  BY <1>1, BrokersAssumption DEF Reads, Upto, Nothing, Prefixes, AnyTurns, Runs
<1>4. q0 \in AnyTurns /\ q0.slot = s BY <1>1, <1>3 DEF AnyTurns
<1>5. q \in AnyTurns /\ q.slot = s BY <1>4 DEF AnyTurns, Stages
<1>6. req' = [req EXCEPT ![r] = q] /\ UNCHANGED <<provider, box, coder, map, dirs>>
  BY DEF CliOk, Unlock
<1>7. \/ UNCHANGED slot
      \/ \E v \in Natives : v.by \in Runs \cup {Nobody} /\ slot' = [slot EXCEPT ![s] = v]
  <2>1. \/ UNCHANGED slot
        \/ slot' = [slot EXCEPT ![s].by = Nobody]
        \/ \E v \in Told(r, Reads(r)) : slot' = [slot EXCEPT ![s] = v]
    BY DEF CliOk
  <2>2. CASE slot' = [slot EXCEPT ![s].by = Nobody]
    <3>1. [slot[s] EXCEPT !.by = Nobody] \in Natives /\ [slot[s] EXCEPT !.by = Nobody].by = Nobody
      BY <1>2 DEF Natives, Nobody
    <3> QED BY <2>2, <3>1
  <2>3. ASSUME NEW v \in Told(r, Reads(r)) PROVE v \in Natives /\ v.by = Nobody
    <3> DEFINE there == provider = "claude" \/ s \in dirs
               held  == IF Reads(r) = Nothing THEN Nothing ELSE Upto(r, req[r].n + 1)
    <3>1. there \in BOOLEAN OBVIOUS
    <3>2. PICK id \in BOOLEAN :
            v = [m |-> req[r].n + 1, id |-> id, by |-> Nobody, kept |-> there, holds |-> held]
      <4>1. slot[s].id \in BOOLEAN BY <1>2 DEF Natives
      <4> QED BY <4>1, <2>3 DEF Told
    <3>3. held \in Prefixes /\ req[r].n + 1 \in Nat
      BY <1>1, BrokersAssumption DEF Upto, Nothing, Prefixes, AnyTurns, Runs
    <3> HIDE DEF there, held
    <3> QED BY <3>1, <3>2, <3>3 DEF Natives, Nobody
  <2> QED BY <2>1, <2>2, <2>3
<1> HIDE DEF s, q
<1>8. /\ Slots' = Slots /\ \E k \in Nat : slot' \in [1..k -> Natives]
      /\ \A i \in Slots : slot'[i].by \in Runs \cup {Nobody}
  <2>1. CASE UNCHANGED slot BY <2>1 DEF Boxed, Slots
  <2> QED BY <1>1, <1>7, <2>1, SlotBoxed
<1>9. /\ req' \in [Runs -> AnyTurns]
      /\ \A i \in Runs : req'[i].at # "none" => req'[i].slot \in Slots'
  BY <1>1, <1>5, <1>6, <1>8, TurnBoxed
<1> QED BY <1>6, <1>8, <1>9 DEF Boxed

\* A forgotten handle has no slot, and an answered request is none (Registry::forget).
LEMMA EndBoxed == ASSUME Boxed, NEW r \in Runs, Forget(r) \/ Reply(r) PROVE Boxed'
<1>1. req[r] \in AnyTurns /\ req[r].at # "none" /\ req[r].slot \in Slots
  BY DEF Boxed, Forget, Reply
<1>2. UNCHANGED <<provider, box, slot, dirs>> /\ Slots' = Slots BY DEF Forget, Reply, Slots
<1>3. CASE Forget(r)
  <2> DEFINE q == [req[r] EXCEPT !.at = IF provider = "codex" THEN "rmdir" ELSE "reply"]
  <2>1. q \in AnyTurns /\ q.slot = req[r].slot BY <1>1 DEF AnyTurns, Stages
  <2>2. req' = [req EXCEPT ![r] = q] BY <1>3 DEF Forget, Boxed
  <2> HIDE DEF q
  <2>3. /\ req' \in [Runs -> AnyTurns]
        /\ \A i \in Runs : req'[i].at # "none" => req'[i].slot \in Slots'
    BY <1>1, <1>2, <2>1, <2>2, TurnBoxed
  <2>4. map' \in [CoderHandles -> Slots \cup {NoSlot}] /\ UNCHANGED coder
    BY <1>3 DEF Forget, Boxed
  <2> QED BY <1>2, <2>3, <2>4 DEF Boxed
<1>4. CASE Reply(r)
  <2>1. Idle \in AnyTurns /\ Idle.at = "none"
    BY DEF Idle, AnyTurns, Stages, Prefixes, Nothing, NoSlot
  <2>2. req' = [req EXCEPT ![r] = Idle] /\ UNCHANGED map BY <1>4 DEF Reply
  <2>3. /\ req' \in [Runs -> AnyTurns]
        /\ \A i \in Runs : req'[i].at # "none" => req'[i].slot \in Slots'
    BY <1>2, <2>1, <2>2, TurnBoxed
  <2>4. coder' \in [Runs -> Coders]
    <3>1. coder[r] \in Coders /\ coder \in [Runs -> Coders] BY DEF Boxed
    <3>2. CASE UNCHANGED coder BY <3>1, <3>2
    <3>3. CASE Exit(r, 4) BY <3>1, <3>3, ExitBoxed
    <3>4. CASE coder' = [coder EXCEPT ![r].at = "act", ![r].n = @ + 1, ![r].got = req[r].got]
      <4> DEFINE c == [coder[r] EXCEPT !.at = "act", !.n = @ + 1, !.got = req[r].got]
      <4>1. coder[r].n + 1 \in Nat /\ req[r].got \in Prefixes BY <1>1, <3>1 DEF Coders, AnyTurns
      <4>2. c \in Coders BY <3>1, <4>1 DEF Coders
      <4>3. coder' = [coder EXCEPT ![r] = c] BY <3>1, <3>4
      <4> HIDE DEF c
      <4> QED BY <3>1, <4>2, <4>3
    <3> QED BY <1>4, <3>2, <3>3, <3>4 DEF Reply
  <2> QED BY <1>2, <2>2, <2>3, <2>4 DEF Boxed
<1> QED BY <1>3, <1>4

\* A broker that starts anew holds nothing for anyone.
LEMMA RestartBoxed == ASSUME Boxed, Restart PROVE Boxed'
<1>1. PICK k \in Nat : slot \in [1..k -> Natives] BY DEF Boxed
<1>2. Slots = 1..k BY <1>1 DEF Slots
<1>3. \A s \in Slots : [slot[s] EXCEPT !.by = Nobody] \in Natives
                       /\ [slot[s] EXCEPT !.by = Nobody].by = Nobody
  BY <1>1, <1>2 DEF Natives, Nobody
<1>4. slot' = [s \in Slots |-> [slot[s] EXCEPT !.by = Nobody]] BY DEF Restart
<1>5. slot' \in [1..k -> Natives] /\ Slots' = Slots /\ \A s \in Slots : slot'[s].by = Nobody
  BY <1>2, <1>3, <1>4 DEF Slots
<1>6. Idle \in AnyTurns /\ Idle.at = "none"
  BY DEF Idle, AnyTurns, Stages, Prefixes, Nothing, NoSlot
<1>7. req' \in [Runs -> AnyTurns] /\ \A r \in Runs : req'[r].at = "none" BY <1>6 DEF Restart
<1>8. coder' \in [Runs -> Coders]
  <2>1. \A r \in Runs : coder[r] \in Coders BY DEF Boxed
  <2>2. \A r \in Runs : [coder[r] EXCEPT !.at = "gone", !.rc = 4] \in Coders BY <2>1 DEF Coders
  <2> QED BY <2>1, <2>2 DEF Restart
<1>9. map' \in [CoderHandles -> Slots' \cup {NoSlot}] /\ UNCHANGED <<provider, box, dirs>>
  BY DEF Restart
<1> QED BY <1>1, <1>5, <1>7, <1>8, <1>9 DEF Boxed

\* A box before its first coder has no slot.
LEMMA BoxedInit == BrokersInit => Boxed
<1> SUFFICES ASSUME BrokersInit PROVE Boxed OBVIOUS
<1> USE BrokersAssumption DEF BrokersInit
<1>1. slot \in [1..0 -> Natives] /\ Slots = {}
  <2>1. <<>> \in Seq(Natives) /\ Len(<<>>) = 0 OBVIOUS
  <2>2. <<>> \in [1..Len(<<>>) -> Natives] BY <2>1, LenProperties
  <2> QED BY <2>1, <2>2 DEF Slots
<1>2. req \in [Runs -> AnyTurns] /\ \A r \in Runs : req[r].at = "none"
  BY DEF AnyTurns, Stages, Prefixes, Idle, Nothing, NoSlot
<1>3. coder \in [Runs -> Coders] BY DEF Coders, Prefixes, Nothing
<1> QED BY <1>1, <1>2, <1>3 DEF Boxed

\* In every box, with coders that run at once and directories that go, the registry,
\* the locks and the directories are of slots that were made and runs that hold them
\* (Registry, run_session_turn).
THEOREM BrokersTyped == BrokersSpec => []BrokersTypeOK
<1>1. Boxed /\ [BrokersNext]_brokerVars => Boxed'
  <2> SUFFICES ASSUME Boxed, [BrokersNext]_brokerVars PROVE Boxed' OBVIOUS
  <2>1. CASE UNCHANGED brokerVars BY <2>1 DEF Boxed, brokerVars, Slots
  <2> QED BY <2>1, OwnBoxed, SendBoxed, LockBoxed, CliOkBoxed, EndBoxed, RestartBoxed DEF BrokersNext
<1>2. Boxed => BrokersTypeOK
  BY DEF Boxed, BrokersTypeOK, Coders, Slots
<1> QED BY <1>1, <1>2, BoxedInit, PTL DEF BrokersSpec
=============================================================================
