----------------------------- MODULE MCBenchPlane -----------------------------
(* Small instances of BenchPlane for TLC. *)
EXTENDS BenchPlane, TLC

CONSTANTS b1, b2, d1, d2, p1, p2, k1, bin, broker, root

\* Two directories of the same name.
SameLeaf == [d \in Dirs |-> bin]

\* One process that is asked for everything.
BrokerAlone == [a \in Actors |-> VerbNames]

\* The broker beside a root `gatekeeperd bench`: what touches containers and egress,
\* which quotas, launchers and boots do not.
RootBeside == [a \in {broker, root} |->
  IF a = broker THEN VerbNames \ {"quota", "export", "unexport", "reissue"} ELSE {"run", "reset"}]

\* A shell held open by `enter` while the socket is used.
EnterBeside == [a \in Actors |-> IF a = broker THEN {"create", "network"} ELSE {"run"}]

Symmetry == Permutations(Dirs) \cup Permutations(Benches) \cup Permutations(Profiles)
=============================================================================
