-------------------------- MODULE MCBenchPlaneCore --------------------------
(* One run over two instances of BenchPlane. *)
EXTENDS MCBenchPlane

CONSTANTS b3, d3, p3

\* Two instances in one run, one of them at work: "serial" is one process as the
\* constants have it; "pair" is one Bench with a root process beside the broker
\* and every kind of failing step, on variables of its own.
VARIABLES setting, rec2, cap2, tag2, launcher2, files2, mount2, ctr2, wire2, due2, pc2, job2

pair == <<rec2, cap2, tag2, launcher2, files2, mount2, ctr2, wire2, due2, pc2, job2>>

P == INSTANCE BenchPlane WITH
  Benches <- {b3}, Dirs <- {d3}, Profiles <- {p3}, Caps <- {1}, Projects <- {1},
  LeafOf <- [d \in {d3} |-> bin], Actors <- {broker, root}, Verbs <- RootBeside,
  Failures <- {"tool", "mount", "write"},
  rec <- rec2, cap <- cap2, tag <- tag2, launcher <- launcher2, files <- files2,
  mount <- mount2, ctr <- ctr2, wire <- wire2, due <- due2, pc <- pc2, job <- job2

MCInit == Init /\ P!Init /\ setting \in {"serial", "pair"}

SerialStep == setting = "serial" /\ Next /\ UNCHANGED <<setting, pair>>
PairStep   == setting = "pair" /\ P!Next /\ UNCHANGED <<setting, vars>>

MCNext == SerialStep \/ PairStep
MCSpec == MCInit /\ [][MCNext]_<<vars, setting, pair>>

\* No run of two processes leaves a container, or egress outside a run.
PairClean == P!NoStrayContainer /\ P!EgressInRun
=============================================================================
