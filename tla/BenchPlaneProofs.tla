--------------------------- MODULE BenchPlaneProofs ---------------------------
(***************************************************************************)
(* Proofs about BenchPlane, for any Benches, directories, processes and     *)
(* failures.                                                                *)
(***************************************************************************)
EXTENDS BenchPlane, TLAPS

-----------------------------------------------------------------------------
(* The type invariant, with the verbs that reach each program point. *)

\* The verbs that may be at a program point.
VerbsAt(p) ==
  CASE p = "mount"                             -> {"grant"}
    [] p = "write"   -> {"create", "grant", "network", "quota", "export", "unexport"}
    [] p = "setcap"                            -> {"create", "quota", "reissue"}
    [] p = "tag"                               -> {"create", "reissue"}
    [] p \in {"uncap", "rmdata"}               -> {"create", "destroy"}
    [] p = "rm"                                -> {"run", "reset", "destroy"}
    [] p = "desktop"                           -> {"export"}
    [] p = "undesktop"                         -> {"export", "unexport"}
    [] p = "binds"                             -> {"run", "reissue"}
    [] p \in {"launchers", "unmount", "rundir", "unrecord"}          -> {"destroy"}
    [] p \in {"preclear", "running", "start", "inject", "work", "stopped"} -> {"run"}
    [] p = "unwire"                            -> {"run", "reset", "destroy", "reissue"}
    [] p \in {"precheck", "ceremony", "load"}  -> VerbNames

\* A process at work has a verb that reaches where it is, a Bench and arguments
\* of that verb.
AtWork(a) ==
  pc[a] # "idle" => /\ Verb(a) \in VerbsAt(pc[a]) /\ Verb(a) \in VerbNames
                    /\ Bench(a) \in Benches /\ job[a].arg \in Args(Verb(a))

PathOK == \A a \in Actors : AtWork(a)

TInv == TypeOK /\ PathOK

LEMMA ArgsType ==
  ASSUME NEW v \in VerbNames, NEW x \in Args(v)
  PROVE  /\ x.fs \subseteq Grants /\ x.net \subseteq Profiles /\ x.exports \subseteq Keys
         /\ v \in {"create", "quota"} => x.quota \in Caps
BY DEF Args

LEMMA EditedType ==
  ASSUME NEW v \in VerbNames, NEW x \in Args(v), NEW r \in Records
  PROVE  /\ Edited(v, r, x) \in Records
         /\ Edited(v, r, x).project = r.project
         /\ Edited(v, r, x).fs = r.fs \cup x.fs
<1>1. x.fs \subseteq Grants /\ x.net \subseteq Profiles /\ x.exports \subseteq Keys
  BY ArgsType
<1>2. v = "quota" => x.quota \in Caps
  BY ArgsType
<1> QED BY <1>1, <1>2 DEF Edited, Records

LEMMA NoJobType == NoJob \in Jobs
<1>1. NoArg \in Args("run") /\ "run" \in VerbNames
  BY DEF NoArg, Args, VerbNames
<1> QED BY <1>1 DEF NoJob, Jobs

LEMMA InitType == Init => TInv
<1> SUFFICES ASSUME Init PROVE TInv OBVIOUS
<1>1. TypeOK
  BY NoJobType, BenchAssumption DEF Init, TypeOK, Pcs, Loaded
<1>2. PathOK
  BY DEF Init, PathOK, AtWork
<1> QED BY <1>1, <1>2 DEF TInv

\* What a step that ends in Goto does to the program points and locals.
LEMMA GotoType ==
  ASSUME TInv, NEW a \in Actors, NEW to \in Pcs, pc[a] # "idle", Goto(a, to),
         to = "idle" \/ Verb(a) \in VerbsAt(to),
         to \in Loaded => Held(a) # None
  PROVE  /\ pc' \in [Actors -> Pcs] /\ job' \in [Actors -> Jobs]
         /\ \A c \in Actors : pc'[c] \in Loaded => job'[c].held # None
         /\ PathOK'
<1>1. pc' \in [Actors -> Pcs] /\ job' \in [Actors -> Jobs]
  BY NoJobType DEF TInv, TypeOK, Goto
<1>2. /\ pc'[a] = to /\ job'[a] = IF to = "idle" THEN NoJob ELSE job[a]
      /\ \A c \in Actors \ {a} : pc'[c] = pc[c] /\ job'[c] = job[c]
  BY DEF TInv, TypeOK, Goto
<1>3. \A c \in Actors : pc'[c] \in Loaded => job'[c].held # None
  BY <1>2 DEF TInv, TypeOK, Loaded, Held
<1>4. ASSUME NEW c \in Actors PROVE AtWork(c)'
  BY <1>2 DEF TInv, PathOK, AtWork, Verb, Bench
<1> QED BY <1>1, <1>3, <1>4 DEF PathOK

\* What holds of a process at work.
LEMMA AtWorkFacts ==
  ASSUME TInv, NEW a \in Actors, pc[a] # "idle"
  PROVE  /\ Verb(a) \in VerbNames /\ Bench(a) \in Benches /\ job[a].arg \in Args(Verb(a))
         /\ Verb(a) \in VerbsAt(pc[a])
         /\ pc[a] \in Loaded => Held(a) \in Records /\ Held(a) # None
BY DEF TInv, TypeOK, PathOK, AtWork, Jobs, Held

\* Where a verb goes once it has loaded the record.
LEMMA FirstType ==
  ASSUME NEW v \in VerbNames \ {"create"}
  PROVE  First(v) \in Loaded /\ v \in VerbsAt(First(v)) /\ First(v) # "idle"
<1>1. CASE v \in {"grant", "network", "quota", "reissue"}
  BY <1>1 DEF First, VerbsAt, Loaded
<1>2. CASE v \in {"reset", "destroy", "export", "unexport", "run"}
  BY <1>2 DEF First, VerbsAt, Loaded
<1> QED BY <1>1, <1>2 DEF VerbNames

Control == /\ pc' \in [Actors -> Pcs] /\ job' \in [Actors -> Jobs]
           /\ \A c \in Actors : pc'[c] \in Loaded => job'[c].held # None
           /\ PathOK'

\* The two loads set the local record.
LEMMA LoadType ==
  ASSUME TInv, NEW a \in Actors, Load(a) \/ LoadCreate(a) PROVE Control
<1> DEFINE b == Bench(a)
<1>1. pc[a] = "load" /\ pc[a] # "idle"
  BY DEF Load, LoadCreate
<1>2. Verb(a) \in VerbNames /\ b \in Benches /\ job[a].arg \in Args(Verb(a))
  BY <1>1, AtWorkFacts
<1>3. CASE Goto(a, "idle")
  BY <1>1, <1>3, GotoType DEF Control, Pcs, Loaded
<1>4. ASSUME NEW r \in Records, NEW to \in Loaded, to # "idle", Verb(a) \in VerbsAt(to),
             pc' = [pc EXCEPT ![a] = to], job' = [job EXCEPT ![a].held = r]
      PROVE  Control
  <2>1. /\ job'[a].held = r /\ job'[a].verb = Verb(a) /\ job'[a].bench = b
        /\ job'[a].arg = job[a].arg /\ job'[a] \in Jobs
    BY <1>4 DEF TInv, TypeOK, Jobs, Verb, Bench
  <2>2. \A c \in Actors \ {a} : pc'[c] = pc[c] /\ job'[c] = job[c]
    BY <1>4 DEF TInv, TypeOK
  <2>3. pc' \in [Actors -> Pcs] /\ job' \in [Actors -> Jobs] /\ pc'[a] = to
    BY <1>4, <2>1 DEF TInv, TypeOK, Pcs
  <2>4. \A c \in Actors : pc'[c] \in Loaded => job'[c].held # None
    BY <2>1, <2>2, BenchAssumption DEF TInv, TypeOK, Held
  <2>5. ASSUME NEW c \in Actors PROVE AtWork(c)'
    BY <1>2, <1>4, <2>1, <2>2, <2>3 DEF TInv, PathOK, AtWork, Verb, Bench
  <2> QED BY <2>3, <2>4, <2>5 DEF Control, PathOK
<1>5. CASE Load(a) /\ ~Goto(a, "idle")
  <2>1. rec[b] \in Records
    BY <1>2, <1>5 DEF Load, TInv, TypeOK
  <2>2. Edited(Verb(a), rec[b], job[a].arg) \in Records
    BY <1>2, <2>1, EditedType
  <2>3. Verb(a) \in VerbNames \ {"create"}
    BY <1>2, <1>5 DEF Load
  <2>4. /\ pc' = [pc EXCEPT ![a] = First(Verb(a))]
        /\ job' = [job EXCEPT ![a].held = Edited(Verb(a), rec[b], job[a].arg)]
    BY <1>5 DEF Load
  <2> QED BY <1>4, <2>2, <2>3, <2>4, FirstType
<1>6. CASE LoadCreate(a) /\ ~Goto(a, "idle")
  <2>1. PICK p \in Projects : job' = [job EXCEPT ![a].held =
          [project |-> p, quota |-> job[a].arg.quota, fs |-> {}, net |-> {}, exports |-> {}]]
    BY <1>6 DEF LoadCreate
  <2>2. pc' = [pc EXCEPT ![a] = "tag"] /\ Verb(a) = "create"
    BY <1>6 DEF LoadCreate
  <2>3. job[a].arg.quota \in Caps
    BY <1>2, <2>2, ArgsType
  <2>4. [project |-> p, quota |-> job[a].arg.quota, fs |-> {}, net |-> {}, exports |-> {}] \in Records
    BY <2>3 DEF Records
  <2>5. "tag" \in Loaded /\ Verb(a) \in VerbsAt("tag")
    BY <2>2 DEF Loaded, VerbsAt
  <2> QED BY <1>4, <2>1, <2>2, <2>4, <2>5
<1> QED BY <1>3, <1>5, <1>6

\* Every other step ends in Goto, to a point that its verb reaches.
LEMMA StepControl ==
  ASSUME TInv, NEW a \in Actors, Step(a) PROVE Control
<1> SUFFICES ASSUME ~Load(a), ~LoadCreate(a) PROVE Control
  BY LoadType
<1>g. ASSUME NEW to \in Pcs, pc[a] # "idle", Goto(a, to), to = "idle" \/ Verb(a) \in VerbsAt(to),
             to \in Loaded => pc[a] \in Loaded
      PROVE  Control
  BY <1>g, GotoType, AtWorkFacts DEF Control
<1> HIDE DEF Control
<1>1. CASE Precheck(a) \/ Answer(a)
  <2>1. \E to \in {"ceremony", "load", "idle"} : Goto(a, to)
    BY <1>1 DEF Precheck, Answer
  <2>2. pc[a] # "idle"
    BY <1>1 DEF Precheck, Answer
  <2>3. Verb(a) \in VerbNames
    BY <2>2, AtWorkFacts
  <2> QED BY <1>g, <2>1, <2>2, <2>3 DEF VerbsAt, Pcs, Loaded
<1>2. CASE Tag(a)
  <2>1. Verb(a) \in {"create", "reissue"} /\ pc[a] = "tag"
    BY <1>2, AtWorkFacts DEF Tag, VerbsAt
  <2>2. \E to \in {"setcap", "uncap", "binds"} : Goto(a, to) /\ Verb(a) \in VerbsAt(to)
    BY <1>2, <2>1 DEF Tag, VerbsAt
  <2> QED BY <1>g, <2>1, <2>2 DEF Pcs, Loaded
<1>3. CASE SetCap(a)
  <2>1. Verb(a) \in {"create", "quota", "reissue"} /\ pc[a] = "setcap"
    BY <1>3, AtWorkFacts DEF SetCap, VerbsAt
  <2>2. \E to \in {"tag", "write", "uncap", "idle"} : Goto(a, to) /\ (to = "idle" \/ Verb(a) \in VerbsAt(to))
    BY <1>3, <2>1 DEF SetCap, VerbsAt
  <2> QED BY <1>g, <2>1, <2>2 DEF Pcs, Loaded
<1>4. CASE Write(a) \/ Uncap(a) \/ RmData(a) \/ Unrecord(a)
  <2>1. pc[a] \in {"write", "uncap", "rmdata", "unrecord"} /\ Verb(a) \in VerbsAt(pc[a])
    BY <1>4, AtWorkFacts DEF Write, Uncap, RmData, Unrecord
  <2>2. \E to \in {"uncap", "undesktop", "rmdata", "unrecord", "idle"} :
          Goto(a, to) /\ (to = "idle" \/ Verb(a) \in VerbsAt(to))
    BY <1>4, <2>1 DEF Write, Uncap, RmData, Unrecord, VerbsAt
  <2> QED BY <1>g, <2>1, <2>2 DEF Pcs, Loaded
<1>5. CASE Mount(a)
  <2>1. pc[a] = "mount" /\ Verb(a) = "grant"
    BY <1>5, AtWorkFacts DEF Mount, VerbsAt
  <2>2. \E to \in {"write", "idle"} : Goto(a, to)
    BY <1>5 DEF Mount
  <2> QED BY <1>g, <2>1, <2>2 DEF Pcs, Loaded, VerbsAt
<1>6. CASE Binds(a)
  <2>1. pc[a] = "binds" /\ Verb(a) \in {"run", "reissue"}
    BY <1>6, AtWorkFacts DEF Binds, VerbsAt
  <2>2. AfterBinds(a) \in {"unwire", "running", "preclear"} /\ Verb(a) \in VerbsAt(AfterBinds(a))
    BY <2>1 DEF AfterBinds, VerbsAt
  <2>3. Goto(a, AfterBinds(a)) \/ Goto(a, "idle")
    BY <1>6 DEF Binds
  <2> QED BY <1>g, <2>1, <2>2, <2>3 DEF Pcs, Loaded
<1>7. CASE Unmount(a) \/ RmRunDir(a) \/ SweepLaunchers(a)
  <2>1. pc[a] \in {"unmount", "rundir", "launchers"} /\ Verb(a) = "destroy"
    BY <1>7, AtWorkFacts DEF Unmount, RmRunDir, SweepLaunchers, VerbsAt
  <2>2. \E to \in {"rundir", "uncap", "rm"} : Goto(a, to)
    BY <1>7 DEF Unmount, RmRunDir, SweepLaunchers
  <2> QED BY <1>g, <2>1, <2>2 DEF Pcs, Loaded, VerbsAt
<1>8. CASE Desktop(a) \/ Undesktop(a)
  <2>1. pc[a] \in {"desktop", "undesktop"} /\ Verb(a) \in {"export", "unexport"}
    BY <1>8, AtWorkFacts DEF Desktop, Undesktop, VerbsAt
  <2>2. \E to \in {"write", "idle"} : Goto(a, to)
    BY <1>8 DEF Desktop, Undesktop
  <2> QED BY <1>g, <2>1, <2>2 DEF Pcs, Loaded, VerbsAt
<1>9. CASE Preclear(a) \/ MarkState(a, "running", "start") \/ Start(a) \/ Inject(a)
           \/ Work(a) \/ MarkState(a, "stopped", "idle")
  <2>1. pc[a] \in {"preclear", "running", "start", "inject", "work", "stopped"} /\ Verb(a) = "run"
    BY <1>9, AtWorkFacts DEF Preclear, MarkState, Start, Inject, Work, VerbsAt
  <2>2. \E to \in {"running", "start", "inject", "work", "unwire", "stopped", "idle"} : Goto(a, to)
    BY <1>9 DEF Preclear, MarkState, Start, Inject, Work
  <2> QED BY <1>g, <2>1, <2>2 DEF Pcs, Loaded, VerbsAt
<1>10. CASE Unwire(a) \/ Rm(a)
  <2>1. pc[a] \in {"unwire", "rm"} /\ Verb(a) \in {"run", "reset", "destroy", "reissue"}
    BY <1>10, AtWorkFacts DEF Unwire, Rm, VerbsAt
  <2>2. Verb(a) = "reissue" => pc[a] = "unwire"
    BY <2>1, AtWorkFacts DEF VerbsAt
  <2>3. \E to \in {"rm", "unmount", "stopped", "unwire", "idle"} :
          Goto(a, to) /\ (to = "idle" \/ Verb(a) \in VerbsAt(to))
    BY <1>10, <2>1, <2>2 DEF Unwire, Rm, VerbsAt
  <2> QED BY <1>g, <2>1, <2>3 DEF Pcs, Loaded
<1> QED BY <1>1, <1>2, <1>3, <1>4, <1>5, <1>6, <1>7, <1>8, <1>9, <1>10 DEF Step

\* Where remounts work, what an error leaves bound is as granted.
LEMMA InterruptedIs ==
  ASSUME NEW a \in Actors, NEW m \in Interrupted(a)
  PROVE  /\ m \in [Leaves -> Grants \cup {None}]
         /\ ~MayFail("mount") => m \in Bound(Bench(a), Held(a).fs, FALSE)
BY DEF Interrupted, Bound

\* The files, the kernel and the containers keep their types.
LEMMA StepData ==
  ASSUME TInv, NEW a \in Actors, Step(a)
  PROVE  /\ rec' \in [Benches -> Records \cup {None}]
         /\ cap' \in [Projects -> Caps \cup {0}] /\ tag' \in [Benches -> Projects \cup {0}]
         /\ launcher' \subseteq Benches \X Keys /\ files' \subseteq Dirs
         /\ mount' \in [Benches -> [Leaves -> Grants \cup {None}]]
         /\ ctr' \in [Benches -> Actors \cup {None}] /\ wire' \in [Benches -> SUBSET Profiles]
         /\ due' \subseteq Benches
<1> DEFINE b == Bench(a)
<1>1. CASE Precheck(a) \/ Answer(a) \/ Load(a) \/ LoadCreate(a)
  BY <1>1 DEF TInv, TypeOK, Precheck, Answer, Load, LoadCreate, durable, volatile
<1>w. ASSUME pc[a] \in Loaded
      PROVE  /\ b \in Benches /\ Held(a) \in Records /\ job[a].arg \in Args(Verb(a))
             /\ Verb(a) \in VerbNames
             /\ Held(a).project \in Projects /\ Held(a).quota \in Caps /\ Held(a).fs \subseteq Grants
             /\ Held(a).net \subseteq Profiles /\ Held(a).exports \subseteq Keys
  <2>1. pc[a] # "idle"
    BY <1>w DEF Loaded
  <2> QED BY <1>w, <2>1, AtWorkFacts DEF Records
<1>2. CASE Tag(a) \/ SetCap(a) \/ Uncap(a) \/ RmData(a)
  <2>1. pc[a] \in Loaded
    BY <1>2 DEF Tag, SetCap, Uncap, RmData, Loaded
  <2>2. Project(a) \in Projects
    BY <2>1, <1>w DEF Project, Held
  <2>3. cap' \in [Projects -> Caps \cup {0}]
    BY <1>2, <2>1, <2>2, <1>w DEF TInv, TypeOK, Tag, SetCap, Uncap, RmData
  <2>4. tag' \in [Benches -> Projects \cup {0}]
    BY <1>2, <2>1, <2>2, <1>w DEF TInv, TypeOK, Tag, SetCap, Uncap, RmData
  <2> QED BY <1>2, <2>3, <2>4 DEF TInv, TypeOK, Tag, SetCap, Uncap, RmData, volatile
<1>3. CASE Write(a) \/ Unrecord(a) \/ MarkState(a, "running", "start") \/ MarkState(a, "stopped", "idle")
  <2>1. pc[a] \in Loaded
    BY <1>3 DEF Write, Unrecord, MarkState, Loaded
  <2>2. rec' = [rec EXCEPT ![b] = Held(a)] \/ rec' = rec \/ rec' = [rec EXCEPT ![b] = None]
    BY <1>3 DEF Write, Unrecord, MarkState, PutRecord
  <2>3. rec' \in [Benches -> Records \cup {None}]
    BY <2>1, <2>2, <1>w DEF TInv, TypeOK
  <2> QED BY <1>3, <2>3 DEF TInv, TypeOK, Write, Unrecord, MarkState, volatile
<1>4. CASE Mount(a) \/ Binds(a) \/ Unmount(a)
  <2>1. pc[a] \in Loaded
    BY <1>4 DEF Mount, Binds, Unmount, Loaded
  <2>2. \E m \in [Leaves -> Grants \cup {None}] : mount' = [mount EXCEPT ![b] = m]
    <3>1. CASE Mount(a)
      BY <3>1 DEF Mount, Bound
    <3>2. CASE Unmount(a)
      BY <3>2, <2>1, <1>w DEF Unmount, TInv, TypeOK
    <3>3. CASE Binds(a)
      <4>1. PICK m : /\ mount' = [mount EXCEPT ![b] = m]
                     /\ m \in Interrupted(a) \/ m \in Bound(b, Held(a).fs, TRUE)
        BY <3>3 DEF Binds
      <4>2. m \in [Leaves -> Grants \cup {None}]
        BY <4>1, InterruptedIs DEF Bound
      <4> QED BY <4>1, <4>2
    <3> QED BY <1>4, <3>1, <3>2, <3>3
  <2>3. mount' \in [Benches -> [Leaves -> Grants \cup {None}]]
    BY <2>2 DEF TInv, TypeOK
  <2> QED BY <1>4, <2>3 DEF TInv, TypeOK, Mount, Binds, Unmount, durable
<1>5. CASE RmRunDir(a)
  BY <1>5 DEF TInv, TypeOK, RmRunDir, volatile
<1>6. CASE Desktop(a) \/ Undesktop(a) \/ SweepLaunchers(a)
  <2>1. pc[a] \in Loaded
    BY <1>6 DEF Desktop, Undesktop, SweepLaunchers, Loaded
  <2>2. job[a].arg.exports \subseteq Keys
    BY <2>1, <1>w, ArgsType
  <2>3. Launchers(a, job[a].arg.exports) \subseteq Benches \X Keys
    BY <2>1, <2>2, <1>w DEF Launchers
  <2>4. launcher' \subseteq Benches \X Keys
    BY <1>6, <2>3 DEF TInv, TypeOK, Desktop, Undesktop, SweepLaunchers
  <2> QED BY <1>6, <2>4 DEF TInv, TypeOK, Desktop, Undesktop, SweepLaunchers, volatile
<1>7. CASE Start(a) \/ Work(a) \/ Rm(a)
  <2>1. b \in Benches
    BY <1>7, <1>w DEF Start, Work, Rm, Loaded
  <2>2. ctr' \in [Benches -> Actors \cup {None}]
    BY <1>7, <2>1 DEF TInv, TypeOK, Start, Work, Rm
  <2> QED BY <1>7, <2>2 DEF TInv, TypeOK, Start, Work, Rm, durable
<1>8. CASE Preclear(a) \/ Inject(a) \/ Unwire(a)
  <2>1. b \in Benches /\ Held(a).net \subseteq Profiles
    BY <1>8, <1>w DEF Preclear, Inject, Unwire, Loaded
  <2>2. wire' \in [Benches -> SUBSET Profiles]
    BY <1>8, <2>1 DEF TInv, TypeOK, Preclear, Inject, Unwire
  <2>3. due' \subseteq Benches
    BY <1>8 DEF TInv, TypeOK, Preclear, Inject, Unwire
  <2> QED BY <1>8, <2>2, <2>3 DEF TInv, TypeOK, Preclear, Inject, Unwire, durable
<1> QED BY <1>1, <1>2, <1>3, <1>4, <1>5, <1>6, <1>7, <1>8 DEF Step

LEMMA StepType == ASSUME TInv, NEW a \in Actors, Step(a) PROVE TInv'
<1>1. Control
  BY StepControl
<1>2. TypeOK'
  BY <1>1, StepData DEF Control, TypeOK, Held
<1> QED BY <1>1, <1>2 DEF Control, TInv

LEMMA BeginType ==
  ASSUME TInv, NEW a \in Actors, NEW v \in VerbNames, NEW b \in Benches, NEW x \in Args(v),
         Begin(a, v, b, x)
  PROVE  TInv'
<1>1. \E to \in {"precheck", "load"} : pc' = [pc EXCEPT ![a] = to]
  BY DEF Begin
<1>2. /\ job' = [job EXCEPT ![a] = [verb |-> v, bench |-> b, arg |-> x, held |-> None]]
      /\ [verb |-> v, bench |-> b, arg |-> x, held |-> None] \in Jobs
  BY DEF Begin, Jobs
<1>3. pc' \in [Actors -> Pcs] /\ job' \in [Actors -> Jobs]
  BY <1>1, <1>2 DEF TInv, TypeOK, Pcs
<1>4. /\ pc'[a] \in {"precheck", "load"}
      /\ job'[a] = [verb |-> v, bench |-> b, arg |-> x, held |-> None]
      /\ \A c \in Actors \ {a} : pc'[c] = pc[c] /\ job'[c] = job[c]
  BY <1>1, <1>2 DEF TInv, TypeOK
<1>5. \A c \in Actors : pc'[c] \in Loaded => job'[c].held # None
  BY <1>4 DEF TInv, TypeOK, Loaded, Held
<1>6. v \in VerbsAt("precheck") /\ v \in VerbsAt("load")
  BY DEF VerbsAt
<1>7. ASSUME NEW c \in Actors PROVE AtWork(c)'
  BY <1>4, <1>6 DEF TInv, PathOK, AtWork, Verb, Bench
<1>8. TypeOK'
  BY <1>3, <1>5 DEF TInv, TypeOK, Held, Begin, durable, volatile
<1> QED BY <1>7, <1>8 DEF TInv, PathOK

LEMMA RebootType == TInv /\ Reboot => TInv'
<1> SUFFICES ASSUME TInv, Reboot PROVE TInv' OBVIOUS
<1>1. pc' \in [Actors -> Pcs] /\ job' \in [Actors -> Jobs] /\ \A c \in Actors : pc'[c] = "idle"
  BY NoJobType DEF Reboot, Pcs
<1>2. TypeOK'
  BY <1>1 DEF TInv, TypeOK, Reboot, durable, Loaded
<1> QED BY <1>1, <1>2 DEF TInv, PathOK, AtWork

LEMMA NextType == TInv /\ [Next]_vars => TInv'
<1> SUFFICES ASSUME TInv, UNCHANGED vars PROVE TInv'
  BY StepType, BeginType, RebootType DEF Next
<1>1. TypeOK'
  BY DEF TInv, TypeOK, vars, durable, volatile, Held
<1> QED BY <1>1 DEF TInv, PathOK, AtWork, Verb, Bench, vars

\* The records, the kernel state and the locals keep their types, and no verb
\* acts on a record it has not loaded, for any processes and failures.
THEOREM TypeCorrect == Spec => []TypeOK
<1>1. TInv => TypeOK
  BY DEF TInv
<1> QED BY <1>1, InitType, NextType, PTL DEF Spec

-----------------------------------------------------------------------------
(* What a run leaves behind.  The owner of a container, or of egress, is at  *)
(* one of a few program points, and only its own steps take it from there.   *)

\* A step in which a process goes on leaves the others where they are.
LEMMA GotoFrame ==
  ASSUME TypeOK, NEW a \in Actors, NEW to \in Pcs, Goto(a, to)
  PROVE  /\ pc'[a] = to /\ job'[a] = IF to = "idle" THEN NoJob ELSE job[a]
         /\ \A c \in Actors \ {a} : pc'[c] = pc[c] /\ job'[c] = job[c]
BY DEF TypeOK, Goto

LEMMA OthersStay ==
  ASSUME TypeOK, NEW a \in Actors, Step(a)
  PROVE  \A c \in Actors \ {a} : pc'[c] = pc[c] /\ job'[c] = job[c]
<1>1. (\E to : Goto(a, to)) \/ Load(a) \/ LoadCreate(a)
  <2>1. CASE \/ Precheck(a) \/ Answer(a) \/ Tag(a) \/ SetCap(a) \/ Write(a) \/ Uncap(a)
             \/ RmData(a) \/ Unrecord(a) \/ Mount(a) \/ Binds(a) \/ Unmount(a) \/ RmRunDir(a)
    BY <2>1 DEF Precheck, Answer, Tag, SetCap, Write, Uncap, RmData, Unrecord, Mount, Binds,
                Unmount, RmRunDir
  <2>2. CASE \/ Desktop(a) \/ Undesktop(a) \/ SweepLaunchers(a) \/ Preclear(a) \/ Start(a)
             \/ Inject(a) \/ Work(a) \/ Unwire(a) \/ Rm(a)
             \/ MarkState(a, "running", "start") \/ MarkState(a, "stopped", "idle")
    BY <2>2 DEF Desktop, Undesktop, SweepLaunchers, Preclear, Start, Inject, Work, Unwire, Rm,
                MarkState
  <2> QED BY <2>1, <2>2 DEF Step
<1>2. CASE \E to : Goto(a, to)
  BY <1>2 DEF TypeOK, Goto
<1>3. CASE Load(a)
  BY <1>3 DEF Load, TypeOK, Goto
<1>4. CASE LoadCreate(a)
  BY <1>4 DEF LoadCreate, TypeOK, Goto
<1> QED BY <1>1, <1>2, <1>3, <1>4

\* The program points of a run that has, or may have, a container or egress.
RunPoints == {"preclear", "start", "inject", "work", "unwire", "rm"}
RunStep(a) == Preclear(a) \/ Start(a) \/ Inject(a) \/ Work(a) \/ Unwire(a) \/ Rm(a)

\* Only the steps of those points touch containers and egress.
LEMMA RunFrame ==
  ASSUME NEW a \in Actors, Step(a)
  PROVE  RunStep(a) \/ (pc[a] \notin RunPoints /\ UNCHANGED <<ctr, wire>>)
<1>1. CASE \/ Precheck(a) \/ Answer(a) \/ Load(a) \/ LoadCreate(a) \/ Tag(a) \/ SetCap(a)
           \/ Write(a) \/ Uncap(a) \/ RmData(a) \/ Unrecord(a)
  BY <1>1 DEF Precheck, Answer, Load, LoadCreate, Tag, SetCap, Write, Uncap, RmData, Unrecord,
              RunPoints, volatile
<1>2. CASE \/ Mount(a) \/ Binds(a) \/ Unmount(a) \/ RmRunDir(a) \/ Desktop(a) \/ Undesktop(a)
           \/ SweepLaunchers(a) \/ MarkState(a, "running", "start") \/ MarkState(a, "stopped", "idle")
  BY <1>2 DEF Mount, Binds, Unmount, RmRunDir, Desktop, Undesktop, SweepLaunchers, MarkState,
              RunPoints, volatile
<1> QED BY <1>1, <1>2 DEF Step, RunStep

Owns(a, b) == Verb(a) = "run" /\ Bench(a) = b /\ pc[a] \in {"inject", "work", "unwire", "rm"}
Wires(a, b) == /\ Verb(a) = "run" /\ Bench(a) = b /\ pc[a] \in {"work", "unwire"}
               /\ wire[b] = Held(a).net

LEMMA StepNoStray ==
  ASSUME TInv, NoStrayContainer, NEW a \in Actors, Step(a) PROVE NoStrayContainer'
<1> SUFFICES ASSUME NEW b \in Benches, ctr'[b] # None PROVE Owns(ctr[b], b)'
  BY DEF NoStrayContainer, Owns, Verb, Bench
<1>1. \A c \in Actors \ {a} : pc'[c] = pc[c] /\ job'[c] = job[c]
  BY OthersStay DEF TInv
<1>2. ctr[b] # None => ctr[b] \in Actors /\ Owns(ctr[b], b)
  BY DEF TInv, TypeOK, NoStrayContainer, Owns
<1>3. ASSUME ctr'[b] = ctr[b], ctr[b] # a PROVE Owns(ctr[b], b)'
  BY <1>1, <1>2, <1>3 DEF Owns, Verb, Bench
<1>4. CASE pc[a] \notin RunPoints /\ UNCHANGED <<ctr, wire>>
  BY <1>2, <1>3, <1>4 DEF Owns, RunPoints
<1>5. CASE RunStep(a)
  <2>1. pc[a] \in RunPoints /\ Bench(a) \in Benches /\ Verb(a) \in VerbsAt(pc[a])
    BY <1>5, AtWorkFacts DEF RunStep, RunPoints, Preclear, Start, Inject, Work, Unwire, Rm
  <2>2. CASE Preclear(a)
    BY <2>2, <1>2, <1>3 DEF Preclear, Owns
  <2>3. CASE Start(a)
    <3>1. CASE UNCHANGED ctr
      BY <3>1, <2>3, <1>2, <1>3 DEF Start, Owns
    <3>2. CASE ctr' # ctr
      <4>1. PICK to \in {"inject", "work"} : Goto(a, to)
        BY <3>2, <2>3 DEF Start
      <4>2. pc'[a] = to /\ job'[a] = job[a]
        BY <4>1, GotoFrame DEF TInv, Pcs, Loaded
      <4>3. ctr' = [ctr EXCEPT ![Bench(a)] = a] /\ pc[a] = "start"
        BY <3>2, <2>3 DEF Start
      <4>4. Verb(a) = "run"
        BY <4>3, <2>1 DEF VerbsAt
      <4>5. CASE b = Bench(a)
        BY <4>2, <4>3, <4>4, <4>5, <2>1 DEF TInv, TypeOK, Owns, Verb, Bench
      <4>6. CASE b # Bench(a)
        <5>1. ctr'[b] = ctr[b]
          BY <4>3, <4>6 DEF TInv, TypeOK
        <5> QED BY <5>1, <4>3, <1>2, <1>3 DEF Owns
      <4> QED BY <4>5, <4>6
    <3> QED BY <3>1, <3>2
  <2>4. CASE Inject(a)
    <3>1. PICK to \in {"work", "unwire"} : Goto(a, to)
      BY <2>4 DEF Inject
    <3>2. pc'[a] = to /\ job'[a] = job[a] /\ ctr' = ctr
      BY <3>1, <2>4, GotoFrame DEF TInv, Pcs, Loaded, Inject
    <3> QED BY <3>2, <1>2, <1>3 DEF Owns, Verb, Bench
  <2>5. CASE Work(a)
    <3>1. CASE Networked(a)
      <4>1. Goto(a, "unwire") /\ ctr' = ctr
        BY <3>1, <2>5 DEF Work
      <4>2. pc'[a] = "unwire" /\ job'[a] = job[a]
        BY <4>1, GotoFrame DEF TInv, Pcs, Loaded
      <4> QED BY <4>1, <4>2, <1>2, <1>3 DEF Owns, Verb, Bench
    <3>2. CASE ~Networked(a)
      <4>1. ctr' = [ctr EXCEPT ![Bench(a)] = IF @ = a THEN None ELSE @]
        BY <3>2, <2>5 DEF Work
      <4>2. ctr[b] # a /\ ctr'[b] = ctr[b]
        BY <4>1, <1>2, <2>1 DEF TInv, TypeOK, Owns
      <4> QED BY <4>2, <1>3
    <3> QED BY <3>1, <3>2
  <2>6. CASE Unwire(a)
    <3>1. ctr' = ctr
      BY <2>6 DEF Unwire
    <3>2. CASE Verb(a) = "run"
      <4>1. Goto(a, "rm")
        BY <3>2, <2>6 DEF Unwire
      <4>2. pc'[a] = "rm" /\ job'[a] = job[a]
        BY <4>1, GotoFrame DEF TInv, Pcs, Loaded
      <4> QED BY <3>1, <4>2, <1>2, <1>3 DEF Owns, Verb, Bench
    <3>3. CASE Verb(a) # "run"
      BY <3>1, <3>3, <1>2, <1>3 DEF Owns
    <3> QED BY <3>2, <3>3
  <2>7. CASE Rm(a)
    <3>1. ctr' = [ctr EXCEPT ![Bench(a)] = None]
      BY <2>7 DEF Rm
    <3>2. b # Bench(a) /\ ctr'[b] = ctr[b]
      BY <3>1, <2>1 DEF TInv, TypeOK
    <3> QED BY <3>2, <1>2, <1>3 DEF Owns
  <2> QED BY <1>5, <2>2, <2>3, <2>4, <2>5, <2>6, <2>7 DEF RunStep
<1> QED BY <1>4, <1>5, RunFrame

\* Beginning a verb and a reboot: neither finds a run under way.
LEMMA RestNoStray ==
  TInv /\ NoStrayContainer /\ [Next]_vars /\ (\A a \in Actors : ~Step(a)) => NoStrayContainer'
<1> SUFFICES ASSUME TInv, NoStrayContainer, [Next]_vars, \A a \in Actors : ~Step(a)
             PROVE  NoStrayContainer'
  OBVIOUS
<1>1. ASSUME NEW a \in Actors, NEW v \in VerbNames, NEW b \in Benches, NEW x \in Args(v),
             Begin(a, v, b, x)
      PROVE  NoStrayContainer'
  <2>1. ctr' = ctr /\ pc[a] = "idle"
    BY <1>1 DEF Begin, volatile
  <2>2. \A c \in Actors \ {a} : pc'[c] = pc[c] /\ job'[c] = job[c]
    BY <1>1 DEF Begin, TInv, TypeOK
  <2>3. ASSUME NEW d \in Benches, ctr[d] # None PROVE ctr[d] \in Actors \ {a} /\ Owns(ctr[d], d)
    BY <2>1, <2>3 DEF TInv, TypeOK, NoStrayContainer, Owns
  <2> QED BY <2>1, <2>2, <2>3 DEF NoStrayContainer, Owns, Verb, Bench
<1>2. CASE Reboot
  BY <1>2 DEF Reboot, NoStrayContainer
<1>3. CASE UNCHANGED vars
  BY <1>3 DEF vars, volatile, NoStrayContainer, Verb, Bench
<1> QED BY <1>1, <1>2, <1>3 DEF Next

\* No container outlives its run, on any path out of run_from and run_networked
\* and beside any number of other processes.
THEOREM NoContainerLeft == Spec => []NoStrayContainer
<1>1. Init => NoStrayContainer
  BY DEF Init, NoStrayContainer
<1>2. TInv /\ NoStrayContainer /\ [Next]_vars => NoStrayContainer'
  BY StepNoStray, RestNoStray
<1> QED BY <1>1, <1>2, InitType, NextType, PTL DEF Spec

LEMMA StepEgress ==
  ASSUME TInv, EgressInRun, NEW a \in Actors, Step(a) PROVE EgressInRun'
<1> SUFFICES ASSUME NEW b \in Benches, wire'[b] # {} PROVE \E c \in Actors : Wires(c, b)'
  BY DEF EgressInRun, Wires, Verb, Bench, Held
<1>1. \A c \in Actors \ {a} : pc'[c] = pc[c] /\ job'[c] = job[c]
  BY OthersStay DEF TInv
<1>2. wire[b] # {} => \E c \in Actors : Wires(c, b)
  BY DEF EgressInRun, Wires
<1>3. ASSUME wire'[b] = wire[b], ~Wires(a, b) PROVE \E c \in Actors : Wires(c, b)'
  BY <1>1, <1>2, <1>3 DEF Wires, Verb, Bench, Held
<1>4. CASE pc[a] \notin RunPoints /\ UNCHANGED <<ctr, wire>>
  BY <1>3, <1>4 DEF Wires, RunPoints
<1>5. CASE RunStep(a)
  <2>1. pc[a] \in RunPoints /\ Bench(a) \in Benches /\ Verb(a) \in VerbsAt(pc[a])
    BY <1>5, AtWorkFacts DEF RunStep, RunPoints, Preclear, Start, Inject, Work, Unwire, Rm
  <2>2. CASE Start(a) \/ Rm(a)
    BY <2>2, <1>3 DEF Start, Rm, Wires
  <2>3. CASE Preclear(a)
    <3>1. wire'[b] = wire[b]
      BY <2>1, <2>3 DEF Preclear, TInv, TypeOK
    <3> QED BY <2>3, <3>1, <1>3 DEF Preclear, Wires
  <2>4. CASE Unwire(a)
    <3>1. wire'[b] = wire[b] /\ b # Bench(a)
      BY <2>1, <2>4 DEF Unwire, TInv, TypeOK
    <3> QED BY <3>1, <1>3 DEF Wires
  <2>5. CASE Work(a)
    <3>1. wire' = wire
      BY <2>5 DEF Work
    <3>2. CASE Networked(a)
      <4>1. Goto(a, "unwire")
        BY <3>2, <2>5 DEF Work
      <4>2. pc'[a] = "unwire" /\ job'[a] = job[a]
        BY <4>1, GotoFrame DEF TInv, Pcs, Loaded
      <4>3. CASE Wires(a, b)
        BY <4>2, <4>3, <3>1 DEF Wires, Verb, Bench, Held
      <4> QED BY <4>3, <3>1, <1>3
    <3>3. CASE ~Networked(a)
      BY <3>1, <3>3, <1>3 DEF Wires, Networked
    <3> QED BY <3>2, <3>3
  <2>6. CASE Inject(a)
    <3>1. CASE wire' = wire
      BY <3>1, <2>6, <1>3 DEF Inject, Wires
    <3>2. CASE wire' # wire
      <4>1. wire' = [wire EXCEPT ![Bench(a)] = Held(a).net] /\ pc[a] = "inject"
        BY <3>2, <2>6 DEF Inject
      <4>2. PICK to \in {"work", "unwire"} : Goto(a, to)
        BY <2>6 DEF Inject
      <4>3. pc'[a] = to /\ job'[a] = job[a]
        BY <4>2, GotoFrame DEF TInv, Pcs, Loaded
      <4>4. CASE b = Bench(a)
        <5>1. wire'[b] = Held(a).net /\ Verb(a) = "run"
          BY <4>1, <4>4, <2>1 DEF TInv, TypeOK, VerbsAt
        <5> QED BY <5>1, <4>3, <4>4 DEF Wires, Verb, Bench, Held
      <4>5. CASE b # Bench(a)
        <5>1. wire'[b] = wire[b]
          BY <4>1, <4>5 DEF TInv, TypeOK
        <5> QED BY <5>1, <4>1, <1>3 DEF Wires
      <4> QED BY <4>4, <4>5
    <3> QED BY <3>1, <3>2
  <2> QED BY <1>5, <2>2, <2>3, <2>4, <2>5, <2>6 DEF RunStep
<1> QED BY <1>4, <1>5, RunFrame

LEMMA RestEgress ==
  TInv /\ EgressInRun /\ [Next]_vars /\ (\A a \in Actors : ~Step(a)) => EgressInRun'
<1> SUFFICES ASSUME TInv, EgressInRun, [Next]_vars, \A a \in Actors : ~Step(a)
             PROVE  EgressInRun'
  OBVIOUS
<1>1. ASSUME NEW a \in Actors, NEW v \in VerbNames, NEW b \in Benches, NEW x \in Args(v),
             Begin(a, v, b, x)
      PROVE  EgressInRun'
  <2>1. wire' = wire /\ pc[a] = "idle"
    BY <1>1 DEF Begin, volatile
  <2>2. \A c \in Actors \ {a} : pc'[c] = pc[c] /\ job'[c] = job[c]
    BY <1>1 DEF Begin, TInv, TypeOK
  <2>3. ASSUME NEW d \in Benches, wire[d] # {} PROVE \E c \in Actors \ {a} : Wires(c, d)
    BY <2>1, <2>3 DEF EgressInRun, Wires
  <2>4. ASSUME NEW d \in Benches, wire[d] # {} PROVE \E c \in Actors : Wires(c, d)'
    BY <2>1, <2>2, <2>3, <2>4 DEF Wires, Verb, Bench, Held
  <2> QED BY <2>1, <2>4 DEF EgressInRun, Wires, Verb, Bench, Held
<1>2. CASE Reboot
  BY <1>2 DEF Reboot, EgressInRun
<1>3. CASE UNCHANGED vars
  BY <1>3 DEF vars, volatile, EgressInRun, Verb, Bench, Held
<1> QED BY <1>1, <1>2, <1>3 DEF Next

\* Egress never outlives its run nor exceeds the record that the run loaded, on
\* any path out of run_networked and beside any number of other processes.
THEOREM EgressEndsWithRun == Spec => []EgressInRun
<1>1. Init => EgressInRun
  BY DEF Init, EgressInRun
<1>2. TInv /\ EgressInRun /\ [Next]_vars => EgressInRun'
  BY StepEgress, RestEgress
<1> QED BY <1>1, <1>2, InitType, NextType, PTL DEF Spec

-----------------------------------------------------------------------------
(* One process.  What a verb holds agrees with the record file until it      *)
(* writes, whatever fails and wherever the power goes.                       *)

Solo == Actors = {Broker}

\* A create holds an unused project id for a Bench without a record; any other
\* verb holds the project and, but for the grant it adds, the binds of a record
\* that is there.
HeldAgrees(a) ==
  pc[a] \in Loaded =>
    IF Verb(a) = "create"
    THEN rec[Bench(a)] = None /\ Project(a) \notin Used /\ Held(a).fs = {}
    ELSE /\ rec[Bench(a)] # None /\ Project(a) = rec[Bench(a)].project
         /\ Held(a).fs = rec[Bench(a)].fs \cup job[a].arg.fs

QInv == NoSharedQuota /\ \A a \in Actors : HeldAgrees(a)

\* Steps that neither load nor write a record.
KeepsHeld(a) ==
  /\ rec' = rec
  /\ pc'[a] # "idle" => job'[a] = job[a]
  /\ pc'[a] \in Loaded => pc[a] \in Loaded

LEMMA RecordSteps ==
  ASSUME TInv, NEW a \in Actors, Step(a)
  PROVE  \/ Load(a) \/ LoadCreate(a) \/ Write(a) \/ Unrecord(a) \/ KeepsHeld(a)
         \/ MarkState(a, "running", "start") \/ MarkState(a, "stopped", "idle")
<1>g. ASSUME NEW to, Goto(a, to), rec' = rec, to \in Loaded => pc[a] \in Loaded
      PROVE  KeepsHeld(a)
  BY <1>g DEF TInv, TypeOK, Goto, KeepsHeld
<1>1. CASE Precheck(a) \/ Answer(a)
  <2>1. \E to \in {"ceremony", "load", "idle"} : Goto(a, to)
    BY <1>1 DEF Precheck, Answer
  <2>2. rec' = rec
    BY <1>1 DEF Precheck, Answer, durable
  <2> QED BY <2>1, <2>2, <1>g DEF Loaded
<1>2. CASE \/ Tag(a) \/ SetCap(a) \/ Uncap(a) \/ RmData(a) \/ Mount(a) \/ Binds(a) \/ Unmount(a)
           \/ RmRunDir(a) \/ Desktop(a) \/ Undesktop(a) \/ SweepLaunchers(a)
  <2>1. rec' = rec /\ pc[a] \in Loaded
    BY <1>2 DEF Tag, SetCap, Uncap, RmData, Mount, Binds, Unmount, RmRunDir, Desktop, Undesktop,
                SweepLaunchers, durable, Loaded
  <2>2. \E to : Goto(a, to)
    BY <1>2 DEF Tag, SetCap, Uncap, RmData, Mount, Binds, Unmount, RmRunDir, Desktop, Undesktop,
                SweepLaunchers
  <2> QED BY <2>1, <2>2, <1>g
<1>3. CASE Preclear(a) \/ Start(a) \/ Inject(a) \/ Work(a) \/ Unwire(a) \/ Rm(a)
  <2>1. rec' = rec /\ pc[a] \in Loaded
    BY <1>3 DEF Preclear, Start, Inject, Work, Unwire, Rm, durable, Loaded
  <2>2. \E to : Goto(a, to)
    BY <1>3 DEF Preclear, Start, Inject, Work, Unwire, Rm
  <2> QED BY <2>1, <2>2, <1>g
<1> QED BY <1>1, <1>2, <1>3 DEF Step

\* What a write of the held record leaves.
LEMMA PutKeeps ==
  ASSUME TInv, QInv, NEW a \in Actors, pc[a] \in Loaded, PutRecord(a)
  PROVE  /\ NoSharedQuota'
         /\ rec'[Bench(a)] = Held(a) /\ rec'[Bench(a)] # None
<1>1. pc[a] # "idle"
  BY DEF Loaded
<1>2. Bench(a) \in Benches /\ Held(a) # None
  BY <1>1, AtWorkFacts
<1>3. rec'[Bench(a)] = Held(a) /\ \A b \in Benches \ {Bench(a)} : rec'[b] = rec[b]
  BY <1>2 DEF PutRecord, TInv, TypeOK
<1>4. ASSUME NEW b \in Benches \ {Bench(a)}, rec[b] # None PROVE rec[b].project # Held(a).project
  <2>1. CASE Verb(a) = "create"
    BY <2>1, <1>4 DEF QInv, HeldAgrees, Used, Project, Held
  <2>2. CASE Verb(a) # "create"
    BY <2>2, <1>2, <1>4 DEF QInv, HeldAgrees, NoSharedQuota, Project, Held
  <2> QED BY <2>1, <2>2
<1>5. NoSharedQuota'
  BY <1>3, <1>4 DEF QInv, NoSharedQuota
<1> QED BY <1>2, <1>3, <1>5

LEMMA StepHeld ==
  ASSUME Solo, TInv, QInv, NEW a \in Actors, Step(a) PROVE QInv'
<1> SUFFICES NoSharedQuota' /\ HeldAgrees(a)'
  BY DEF Solo, QInv
<1> USE DEF QInv
<1>1. CASE KeepsHeld(a)
  <2>1. NoSharedQuota'
    BY <1>1 DEF KeepsHeld, NoSharedQuota
  <2>2. HeldAgrees(a)'
    <3>1. SUFFICES ASSUME pc'[a] \in Loaded PROVE HeldAgrees(a)'
      BY DEF HeldAgrees
    <3>2. pc[a] \in Loaded /\ job'[a] = job[a] /\ rec' = rec
      BY <1>1, <3>1 DEF KeepsHeld, Loaded
    <3> QED BY <3>2 DEF HeldAgrees, Verb, Bench, Project, Held, Used
  <2> QED BY <2>1, <2>2
<1>2. CASE Load(a)
  <2>1. rec' = rec /\ pc[a] = "load"
    BY <1>2 DEF Load, durable
  <2>2. Bench(a) \in Benches /\ Verb(a) \in VerbNames /\ job[a].arg \in Args(Verb(a))
    BY <2>1, AtWorkFacts
  <2>3. CASE Goto(a, "idle")
    BY <2>1, <2>3 DEF Goto, TInv, TypeOK, Loaded, HeldAgrees, NoSharedQuota
  <2>4. CASE ~Goto(a, "idle")
    <3> DEFINE r == rec[Bench(a)]
    <3>1. /\ r # None
          /\ job' = [job EXCEPT ![a].held = Edited(Verb(a), r, job[a].arg)]
      BY <2>4, <1>2 DEF Load
    <3>2. job'[a].held = Edited(Verb(a), r, job[a].arg) /\ job'[a].verb = Verb(a)
          /\ job'[a].bench = Bench(a) /\ job'[a].arg = job[a].arg
      BY <3>1 DEF TInv, TypeOK, Jobs, Verb, Bench
    <3>3. r \in Records
      BY <3>1, <2>2 DEF TInv, TypeOK
    <3>4. /\ Edited(Verb(a), r, job[a].arg).project = r.project
          /\ Edited(Verb(a), r, job[a].arg).fs = r.fs \cup job[a].arg.fs
      BY <2>2, <3>3, EditedType
    <3>5. Verb(a) # "create"
      BY <1>2 DEF Load
    <3>6. HeldAgrees(a)'
      BY <2>1, <3>1, <3>2, <3>4, <3>5 DEF HeldAgrees, Verb, Bench, Project, Held
    <3> QED BY <2>1, <3>6 DEF NoSharedQuota
  <2> QED BY <2>3, <2>4
<1>3. CASE LoadCreate(a)
  <2>1. rec' = rec /\ pc[a] = "load" /\ Verb(a) = "create"
    BY <1>3 DEF LoadCreate, durable
  <2>2. CASE Goto(a, "idle")
    BY <2>1, <2>2 DEF Goto, TInv, TypeOK, Loaded, HeldAgrees, NoSharedQuota
  <2>3. CASE ~Goto(a, "idle")
    <3>1. PICK p \in Projects : /\ NextProject(p)
            /\ job' = [job EXCEPT ![a].held = [project |-> p, quota |-> job[a].arg.quota,
                                               fs |-> {}, net |-> {}, exports |-> {}]]
      BY <1>3, <2>3 DEF LoadCreate
    <3>2. job'[a].held.project = p /\ job'[a].held.fs = {} /\ job'[a].verb = "create"
          /\ job'[a].bench = Bench(a)
      BY <2>1, <3>1 DEF TInv, TypeOK, Jobs, Verb, Bench
    <3>3. rec[Bench(a)] = None
      BY <1>3, <2>3 DEF LoadCreate
    <3>4. p \notin Used /\ Used' = Used
      BY <3>1, <2>1 DEF NextProject, Used
    <3>5. HeldAgrees(a)'
      BY <2>1, <3>2, <3>3, <3>4 DEF HeldAgrees, Verb, Bench, Project, Held
    <3> QED BY <2>1, <3>5 DEF NoSharedQuota
  <2> QED BY <2>2, <2>3
<1>4. CASE Write(a)
  <2>1. pc[a] = "write" /\ pc[a] \in Loaded
    BY <1>4 DEF Write, Loaded
  <2>2. CASE PutRecord(a) /\ Goto(a, "idle")
    <3>1. HeldAgrees(a)'
      BY <2>2 DEF Goto, TInv, TypeOK, Loaded, HeldAgrees
    <3> QED BY <3>1, <2>1, <2>2, PutKeeps
  <2>3. CASE rec' = rec /\ \E to : Goto(a, to)
    <3>1. KeepsHeld(a)
      BY <2>1, <2>3 DEF Goto, TInv, TypeOK, KeepsHeld
    <3> QED BY <3>1, <1>1
  <2> QED BY <1>4, <2>2, <2>3 DEF Write
<1>5. CASE Unrecord(a)
  <2>1. Goto(a, "idle") /\ rec' = [rec EXCEPT ![Bench(a)] = None]
    BY <1>5 DEF Unrecord
  <2>2. HeldAgrees(a)'
    BY <2>1 DEF Goto, TInv, TypeOK, Loaded, HeldAgrees
  <2>3. NoSharedQuota'
    BY <2>1 DEF TInv, TypeOK, NoSharedQuota
  <2> QED BY <2>2, <2>3
<1>6. CASE MarkState(a, "running", "start") \/ MarkState(a, "stopped", "idle")
  <2>1. pc[a] \in {"running", "stopped"} /\ pc[a] \in Loaded
    BY <1>6 DEF MarkState, Loaded
  <2>2. Verb(a) = "run" /\ job[a].arg \in Args("run")
    BY <2>1, AtWorkFacts DEF VerbsAt
  <2>3. PICK to \in {"start", "idle"} : Goto(a, to)
    BY <1>6 DEF MarkState
  <2>4. pc'[a] # "idle" => job'[a] = job[a]
    BY <2>3 DEF Goto, TInv, TypeOK
  <2>5. CASE PutRecord(a)
    <3>1. NoSharedQuota' /\ rec'[Bench(a)] = Held(a) /\ rec'[Bench(a)] # None
      BY <2>1, <2>5, PutKeeps
    <3>2. job[a].arg.fs = {}
      BY <2>2 DEF Args
    <3>3. SUFFICES ASSUME pc'[a] \in Loaded PROVE HeldAgrees(a)'
      BY <3>1 DEF HeldAgrees
    <3>4. job'[a] = job[a]
      BY <2>4, <3>3 DEF Loaded
    <3> QED BY <3>1, <3>2, <3>4, <2>2 DEF HeldAgrees, Verb, Bench, Project, Held
  <2>6. CASE rec' = rec
    <3>1. KeepsHeld(a)
      BY <2>1, <2>4, <2>6 DEF KeepsHeld
    <3> QED BY <3>1, <1>1
  <2> QED BY <1>6, <2>5, <2>6 DEF MarkState
<1> QED BY <1>1, <1>2, <1>3, <1>4, <1>5, <1>6, RecordSteps

LEMMA RestHeld ==
  Solo /\ TInv /\ QInv /\ [Next]_vars /\ (\A a \in Actors : ~Step(a)) => QInv'
<1> SUFFICES ASSUME Solo, TInv, QInv, [Next]_vars, \A a \in Actors : ~Step(a) PROVE QInv'
  OBVIOUS
<1>1. ASSUME NEW a \in Actors, NEW v \in VerbNames, NEW b \in Benches, NEW x \in Args(v),
             Begin(a, v, b, x)
      PROVE  QInv'
  <2>1. rec' = rec
    BY <1>1 DEF Begin, durable
  <2>2. pc'[a] \notin Loaded
    BY <1>1 DEF Begin, TInv, TypeOK, Loaded
  <2> QED BY <2>1, <2>2 DEF Solo, QInv, HeldAgrees, NoSharedQuota
<1>2. CASE Reboot
  <2>1. rec' = rec /\ \A a \in Actors : pc'[a] \notin Loaded
    BY <1>2 DEF Reboot, durable, Loaded
  <2> QED BY <2>1 DEF QInv, HeldAgrees, NoSharedQuota
<1>3. CASE UNCHANGED vars
  BY <1>3 DEF vars, durable, QInv, HeldAgrees, NoSharedQuota, Verb, Bench, Held, Project, Used
<1> QED BY <1>1, <1>2, <1>3 DEF Next

\* With one process at a time, no two Benches are ever recorded under one project
\* id (next_project_id), in any order of creates, destroys, failures and reboots.
THEOREM ProjectsApart == ASSUME Solo PROVE Spec => []NoSharedQuota
<1>1. Init => QInv
  BY DEF Init, QInv, NoSharedQuota, HeldAgrees, Loaded
<1>2. TInv /\ QInv /\ [Next]_vars => QInv'
  BY Solo, StepHeld, RestHeld
<1>3. QInv => NoSharedQuota
  BY DEF QInv
<1> QED BY <1>1, <1>2, <1>3, InitType, NextType, PTL DEF Spec

-----------------------------------------------------------------------------
(* What is bound is what is recorded, for one process whose record writes    *)
(* and remounts succeed (both fail the properties otherwise).                *)

WritesLand == Failures \cap {"write", "mount"} = {}

\* The last steps of destroy: nothing is bound any more.
Cleared == {"rundir", "uncap", "rmdata", "unrecord"}

\* A bound directory is at its own leaf, and in the record or in a grant that is
\* about to be recorded.
Accounted(b, l) ==
  mount[b][l] # None =>
    /\ LeafOf[mount[b][l].dir] = l
    /\ \/ rec[b] # None /\ mount[b][l] \in rec[b].fs
       \/ \E a \in Actors : Writes(a, "grant", b) /\ mount[b][l] \in Held(a).fs

Unbound(a) == pc[a] \in Cleared /\ Verb(a) = "destroy" => \A l \in Leaves : mount[Bench(a)][l] = None

MInv == /\ DestroySparesFiles
        /\ \A b \in Benches, l \in Leaves : Accounted(b, l)
        /\ \A a \in Actors : Unbound(a)

\* Steps that leave binds and files alone, and do not end a grant.
Aside(a) ==
  /\ UNCHANGED <<mount, files>> /\ pc[a] # "write"
  /\ rec' = rec \/ (PutRecord(a) /\ Verb(a) = "run" /\ pc[a] \in Loaded)
  /\ pc'[a] \in Cleared /\ job'[a].verb = "destroy" => pc[a] \in Cleared /\ job'[a] = job[a]

LEMMA MountSteps ==
  ASSUME TInv, NEW a \in Actors, Step(a)
  PROVE  \/ Mount(a) \/ Binds(a) \/ Unmount(a) \/ RmRunDir(a) \/ Write(a) \/ Unrecord(a)
         \/ Aside(a)
<1>g. ASSUME NEW to, Goto(a, to), UNCHANGED <<mount, files, rec>>, pc[a] # "write",
             to \notin Cleared \/ (to # "idle" /\ (pc[a] \in Cleared \/ Verb(a) # "destroy"))
      PROVE  Aside(a)
  BY <1>g DEF TInv, TypeOK, Goto, Aside, Verb
<1>1. CASE Precheck(a) \/ Answer(a)
  <2>1. \E to \in {"ceremony", "load", "idle"} : Goto(a, to)
    BY <1>1 DEF Precheck, Answer
  <2>2. UNCHANGED <<mount, files, rec>> /\ pc[a] # "write"
    BY <1>1 DEF Precheck, Answer, durable, volatile
  <2> QED BY <2>1, <2>2, <1>g DEF Cleared
<1>2. CASE Load(a) \/ LoadCreate(a)
  <2>1. UNCHANGED <<mount, files, rec>> /\ pc[a] = "load"
    BY <1>2 DEF Load, LoadCreate, durable, volatile
  <2>2. Verb(a) \in VerbNames
    BY <2>1, AtWorkFacts
  <2>3. Verb(a) # "create" => First(Verb(a)) \notin Cleared
    <3>1. CASE Verb(a) \in {"grant", "network", "quota", "reissue"}
      BY <3>1 DEF First, Cleared
    <3>2. CASE Verb(a) \in {"reset", "destroy", "export", "unexport", "run"}
      BY <3>2 DEF First, Cleared
    <3> QED BY <2>2, <3>1, <3>2 DEF VerbNames
  <2>4. pc'[a] \notin Cleared
    <3>1. CASE Load(a)
      BY <3>1, <2>3 DEF Load, Goto, TInv, TypeOK, Cleared
    <3>2. CASE LoadCreate(a)
      BY <3>2 DEF LoadCreate, Goto, TInv, TypeOK, Cleared
    <3> QED BY <1>2, <3>1, <3>2
  <2> QED BY <2>1, <2>4 DEF Aside
<1>3. CASE Tag(a) \/ SetCap(a)
  <2>1. UNCHANGED <<mount, files, rec>> /\ pc[a] \in {"tag", "setcap"}
    BY <1>3 DEF Tag, SetCap, volatile
  <2>2. Verb(a) \in {"create", "quota", "reissue"}
    BY <2>1, AtWorkFacts DEF VerbsAt
  <2>3. \E to : Goto(a, to)
    BY <1>3 DEF Tag, SetCap
  <2> QED BY <2>1, <2>2, <2>3, <1>g DEF Cleared
<1>4. CASE Uncap(a) \/ RmData(a)
  <2>1. UNCHANGED <<mount, files, rec>> /\ pc[a] \in Cleared /\ pc[a] # "write"
    BY <1>4 DEF Uncap, RmData, volatile, Cleared
  <2>2. \E to : Goto(a, to)
    BY <1>4 DEF Uncap, RmData
  <2> QED BY <2>1, <2>2, <1>g DEF Cleared
<1>5. CASE Desktop(a) \/ Undesktop(a) \/ SweepLaunchers(a)
  <2>1. UNCHANGED <<mount, files, rec>> /\ pc[a] # "write"
    BY <1>5 DEF Desktop, Undesktop, SweepLaunchers, volatile
  <2>2. \E to \in {"write", "idle", "rm"} : Goto(a, to)
    BY <1>5 DEF Desktop, Undesktop, SweepLaunchers
  <2> QED BY <2>1, <2>2, <1>g DEF Cleared
<1>6. CASE RunStep(a)
  <2>1. UNCHANGED <<mount, files, rec>> /\ pc[a] # "write"
    BY <1>6 DEF RunStep, Preclear, Start, Inject, Work, Unwire, Rm, durable
  <2>2. pc[a] \in RunPoints /\ Verb(a) \in VerbsAt(pc[a])
    BY <1>6, AtWorkFacts DEF RunStep, RunPoints, Preclear, Start, Inject, Work, Unwire, Rm
  <2>3. Verb(a) \in {"run", "reset", "destroy", "reissue"}
    BY <2>2 DEF VerbsAt, RunPoints
  <2>4. \E to \in {"running", "inject", "work", "unwire", "stopped", "rm", "unmount", "idle"} : Goto(a, to)
    BY <1>6, <2>3 DEF RunStep, Preclear, Start, Inject, Work, Unwire, Rm
  <2> QED BY <2>1, <2>4, <1>g DEF Cleared
<1>7. CASE MarkState(a, "running", "start") \/ MarkState(a, "stopped", "idle")
  <2>1. UNCHANGED <<mount, files>> /\ pc[a] \in {"running", "stopped"}
    BY <1>7 DEF MarkState, volatile
  <2>2. Verb(a) = "run" /\ pc[a] \in Loaded
    BY <2>1, AtWorkFacts DEF VerbsAt, Loaded
  <2>3. \E to \in {"start", "idle"} : Goto(a, to)
    BY <1>7 DEF MarkState
  <2>4. pc'[a] \notin Cleared
    BY <2>3 DEF Goto, TInv, TypeOK, Cleared
  <2> QED BY <1>7, <2>1, <2>2, <2>4 DEF Aside, MarkState
<1> QED BY <1>1, <1>2, <1>3, <1>4, <1>5, <1>6, <1>7 DEF Step, RunStep

LEMMA StepMounts ==
  ASSUME Solo, WritesLand, TInv, QInv, MInv, NEW a \in Actors, Step(a) PROVE MInv'
<1> PICK b : b = Bench(a) OBVIOUS
<1>a. Actors = {a}
  BY DEF Solo
<1>s. ASSUME pc[a] # "write", NEW c \in Benches, NEW l \in Leaves, mount[c][l] # None
      PROVE  LeafOf[mount[c][l].dir] = l /\ rec[c] # None /\ mount[c][l] \in rec[c].fs
  BY <1>a, <1>s DEF MInv, Accounted, Writes
<1>1. CASE Mount(a)
  <2>1. pc[a] = "mount" /\ pc[a] \in Loaded
    BY <1>1 DEF Mount, Loaded
  <2>2. Verb(a) = "grant" /\ b \in Benches
    BY <2>1, AtWorkFacts DEF VerbsAt
  <2>3. Held(a).fs = rec[b].fs \cup job[a].arg.fs
    BY <2>1, <2>2 DEF QInv, HeldAgrees
  <2>4. PICK g \in job[a].arg.fs, m \in [Leaves -> Grants \cup {None}] :
          /\ mount' = [mount EXCEPT ![b] = m]
          /\ \/ m \in Bound(b, {g}, TRUE) /\ Goto(a, "write")
             \/ m = mount[b] /\ Goto(a, "idle")
    BY <1>1 DEF Mount, MayFail, WritesLand
  <2>5. UNCHANGED <<files, rec>>
    BY <1>1 DEF Mount, durable
  <2>6. \A c \in Benches \ {b} : mount'[c] = mount[c]
    BY <2>4 DEF TInv, TypeOK
  <2>7. mount'[b] = m
    BY <2>2, <2>4 DEF TInv, TypeOK
  <2>8. ASSUME NEW c \in Benches, NEW l \in Leaves, mount'[c][l] = mount[c][l] PROVE Accounted(c, l)'
    BY <2>1, <2>5, <2>8, <1>s DEF Accounted
  <2>9. ASSUME NEW l \in Leaves, mount'[b][l] # mount[b][l] PROVE Accounted(b, l)'
    <3>1. m \in Bound(b, {g}, TRUE) /\ Goto(a, "write")
      BY <2>4, <2>7, <2>9
    <3>2. m[l] \in {h \in {g} : LeafOf[h.dir] = l}
      BY <3>1, <2>7, <2>9 DEF Bound
    <3>3. pc'[a] = "write" /\ job'[a] = job[a]
      BY <3>1 DEF Goto, TInv, TypeOK
    <3>4. mount'[b][l] \in Held(a).fs /\ LeafOf[mount'[b][l].dir] = l
      BY <3>2, <2>3, <2>7
    <3> QED BY <3>3, <3>4, <2>2 DEF Accounted, Writes, Verb, Bench, Held
  <2>10. pc'[a] \notin Cleared
    BY <2>4 DEF Goto, TInv, TypeOK, Cleared
  <2>11. \A c \in Benches, l \in Leaves : Accounted(c, l)'
    BY <2>6, <2>8, <2>9
  <2> QED BY <1>a, <2>5, <2>10, <2>11 DEF MInv, Unbound, DestroySparesFiles
<1>2. CASE Binds(a)
  <2>1. pc[a] = "binds" /\ pc[a] \in Loaded
    BY <1>2 DEF Binds, Loaded
  <2>2. Verb(a) \in {"run", "reissue"} /\ b \in Benches /\ job[a].arg \in Args(Verb(a))
    BY <2>1, AtWorkFacts DEF VerbsAt
  <2>3. Held(a).fs = rec[b].fs /\ rec[b] # None
    BY <2>1, <2>2 DEF QInv, HeldAgrees, Args
  <2>4. PICK m, all : mount' = [mount EXCEPT ![b] = m] /\ m \in Bound(b, Held(a).fs, all)
    <3>1. PICK m : /\ mount' = [mount EXCEPT ![b] = m]
                   /\ m \in Interrupted(a) \/ m \in Bound(b, Held(a).fs, TRUE)
      BY <1>2 DEF Binds
    <3>2. ~MayFail("mount")
      BY DEF WritesLand, MayFail
    <3> QED BY <3>1, <3>2, InterruptedIs
  <2>5. UNCHANGED <<files, rec>>
    BY <1>2 DEF Binds, durable
  <2>6. mount'[b] = m /\ \A c \in Benches \ {b} : mount'[c] = mount[c]
    BY <2>2, <2>4 DEF TInv, TypeOK
  <2>7. ASSUME NEW c \in Benches, NEW l \in Leaves, mount'[c][l] = mount[c][l] PROVE Accounted(c, l)'
    BY <2>1, <2>5, <2>7, <1>s DEF Accounted
  <2>8. ASSUME NEW l \in Leaves, mount'[b][l] # mount[b][l] PROVE Accounted(b, l)'
    <3>1. m[l] = None \/ m[l] \in {h \in Held(a).fs : LeafOf[h.dir] = l}
      BY <2>4, <2>6, <2>8 DEF Bound
    <3> QED BY <3>1, <2>3, <2>5, <2>6 DEF Accounted
  <2>9. pc'[a] \notin Cleared
    <3>1. AfterBinds(a) \notin Cleared
      BY <2>2 DEF AfterBinds, Cleared
    <3>2. Goto(a, AfterBinds(a)) \/ Goto(a, "idle")
      BY <1>2 DEF Binds
    <3> QED BY <3>1, <3>2 DEF Goto, TInv, TypeOK, Cleared
  <2>10. \A c \in Benches, l \in Leaves : Accounted(c, l)'
    BY <2>6, <2>7, <2>8
  <2> QED BY <1>a, <2>5, <2>9, <2>10 DEF MInv, Unbound, DestroySparesFiles
<1>3. CASE Unmount(a)
  <2>1. pc[a] = "unmount" /\ pc[a] \in Loaded
    BY <1>3 DEF Unmount, Loaded
  <2>2. Verb(a) = "destroy" /\ b \in Benches /\ job[a].arg \in Args(Verb(a))
    BY <2>1, AtWorkFacts DEF VerbsAt
  <2>3. Held(a).fs = rec[b].fs /\ rec[b] # None
    BY <2>1, <2>2 DEF QInv, HeldAgrees, Args
  <2>4. UNCHANGED <<files, rec>>
    BY <1>3 DEF Unmount, durable
  <2>5. /\ \A l \in Leaves : mount'[b][l] =
             IF \E g \in Held(a).fs : LeafOf[g.dir] = l THEN None ELSE mount[b][l]
        /\ \A c \in Benches \ {b} : mount'[c] = mount[c]
    BY <1>3, <2>2 DEF Unmount, TInv, TypeOK
  <2>6. \A l \in Leaves : mount'[b][l] = None
    BY <2>1, <2>2, <2>3, <2>5, <1>s
  <2>7. ASSUME NEW c \in Benches, NEW l \in Leaves PROVE Accounted(c, l)'
    BY <2>1, <2>4, <2>5, <2>6, <1>s DEF Accounted
  <2>8. pc'[a] = "rundir" /\ job'[a] = job[a]
    BY <1>3 DEF Unmount, Goto, TInv, TypeOK
  <2> QED BY <1>a, <2>4, <2>6, <2>7, <2>8 DEF MInv, Unbound, DestroySparesFiles, Verb, Bench
<1>4. CASE RmRunDir(a)
  <2>1. pc[a] = "rundir"
    BY <1>4 DEF RmRunDir
  <2>2. Verb(a) = "destroy" /\ b \in Benches
    BY <2>1, AtWorkFacts DEF VerbsAt
  <2>3. \A l \in Leaves : mount[b][l] = None
    BY <1>a, <2>1, <2>2 DEF MInv, Unbound, Cleared
  <2>4. {g.dir : g \in {h \in Grants : h.rw /\ \E l \in Leaves : mount[b][l] = h}} = {}
    BY <2>3, BenchAssumption
  <2>5. files' = files
    BY <1>4, <2>4 DEF RmRunDir
  <2>6. UNCHANGED <<rec, mount>>
    BY <1>4 DEF RmRunDir, volatile
  <2>7. pc'[a] = "uncap" /\ job'[a] = job[a]
    BY <1>4 DEF RmRunDir, Goto, TInv, TypeOK
  <2>8. ASSUME NEW c \in Benches, NEW l \in Leaves PROVE Accounted(c, l)'
    BY <2>1, <2>6, <1>s DEF Accounted
  <2> QED BY <1>a, <2>3, <2>5, <2>6, <2>7, <2>8 DEF MInv, Unbound, DestroySparesFiles, Verb, Bench
<1>5. CASE Write(a)
  <2>1. PutRecord(a) /\ Goto(a, "idle") /\ UNCHANGED <<mount, files>> /\ pc[a] = "write"
    BY <1>5 DEF Write, MayFail, WritesLand, volatile
  <2>2. b \in Benches /\ pc[a] \in Loaded
    BY <2>1, AtWorkFacts DEF Loaded
  <2>3. /\ rec'[b] = Held(a) /\ rec'[b] # None
        /\ \A c \in Benches \ {b} : rec'[c] = rec[c]
    BY <2>1, <2>2, PutKeeps DEF PutRecord, TInv, TypeOK
  <2>4. ASSUME NEW l \in Leaves, mount[b][l] # None
        PROVE  mount[b][l] \in Held(a).fs /\ LeafOf[mount[b][l].dir] = l
    <3>1. CASE Verb(a) = "create"
      BY <3>1, <2>2, <2>4, <1>a DEF MInv, Accounted, Writes, QInv, HeldAgrees
    <3>2. CASE Verb(a) # "create"
      BY <3>2, <2>2, <2>4, <1>a DEF MInv, Accounted, QInv, HeldAgrees
    <3> QED BY <3>1, <3>2
  <2>5. ASSUME NEW c \in Benches, NEW l \in Leaves PROVE Accounted(c, l)'
    <3>1. CASE c = b
      BY <3>1, <2>1, <2>3, <2>4 DEF Accounted
    <3>2. CASE c # b
      BY <3>2, <2>1, <2>3, <1>a DEF Accounted, MInv, Writes
    <3> QED BY <3>1, <3>2
  <2>6. pc'[a] \notin Cleared
    BY <2>1 DEF Goto, TInv, TypeOK, Cleared
  <2> QED BY <1>a, <2>1, <2>5, <2>6 DEF MInv, Unbound, DestroySparesFiles
<1>6. CASE Unrecord(a)
  <2>1. pc[a] = "unrecord" /\ Goto(a, "idle") /\ UNCHANGED <<mount, files>>
    BY <1>6 DEF Unrecord, volatile
  <2>2. Verb(a) = "destroy"
    BY <2>1, AtWorkFacts DEF VerbsAt
  <2>3. \A l \in Leaves : mount[b][l] = None
    BY <1>a, <2>1, <2>2 DEF MInv, Unbound, Cleared
  <2>4. \A c \in Benches \ {b} : rec'[c] = rec[c]
    BY <1>6 DEF Unrecord, TInv, TypeOK
  <2>5. ASSUME NEW c \in Benches, NEW l \in Leaves PROVE Accounted(c, l)'
    BY <2>1, <2>3, <2>4, <1>s DEF Accounted
  <2>6. pc'[a] \notin Cleared
    BY <2>1 DEF Goto, TInv, TypeOK, Cleared
  <2> QED BY <1>a, <2>1, <2>5, <2>6 DEF MInv, Unbound, DestroySparesFiles
<1>7. CASE Aside(a)
  <2>1. ASSUME NEW c \in Benches, NEW l \in Leaves PROVE Accounted(c, l)'
    <3>1. CASE rec' = rec
      BY <3>1, <1>7, <1>s DEF Aside, Accounted
    <3>2. CASE PutRecord(a) /\ Verb(a) = "run" /\ pc[a] \in Loaded
      <4>1. b \in Benches /\ job[a].arg \in Args("run")
        BY <3>2, AtWorkFacts DEF Loaded
      <4>2. Held(a).fs = rec[b].fs
        BY <3>2, <4>1 DEF QInv, HeldAgrees, Args
      <4>3. rec'[b] = Held(a) /\ rec'[b] # None /\ \A d \in Benches \ {b} : rec'[d] = rec[d]
        BY <3>2, <4>1, PutKeeps DEF PutRecord, TInv, TypeOK
      <4> QED BY <4>2, <4>3, <1>7, <1>s DEF Aside, Accounted
    <3> QED BY <3>1, <3>2, <1>7 DEF Aside
  <2>2. Unbound(a)'
    BY <1>7 DEF Aside, MInv, Unbound, Verb, Bench
  <2> QED BY <1>7, <1>a, <2>1, <2>2 DEF Aside, MInv, DestroySparesFiles
<1> QED BY <1>1, <1>2, <1>3, <1>4, <1>5, <1>6, <1>7, MountSteps

LEMMA RestMounts ==
  TInv /\ MInv /\ Solo /\ [Next]_vars /\ (\A a \in Actors : ~Step(a)) => MInv'
<1> SUFFICES ASSUME TInv, MInv, Solo, [Next]_vars, \A a \in Actors : ~Step(a) PROVE MInv'
  OBVIOUS
<1>1. ASSUME NEW a \in Actors, NEW v \in VerbNames, NEW b \in Benches, NEW x \in Args(v),
             Begin(a, v, b, x)
      PROVE  MInv'
  <2>1. UNCHANGED <<rec, mount, files>> /\ pc[a] = "idle" /\ pc'[a] \in {"precheck", "load"}
    BY <1>1 DEF Begin, durable, volatile, TInv, TypeOK
  <2>2. Actors = {a}
    BY DEF Solo
  <2>3. \A c \in Benches, l \in Leaves : Accounted(c, l)'
    BY <2>1, <2>2 DEF MInv, Accounted, Writes
  <2> QED BY <2>1, <2>2, <2>3 DEF MInv, Unbound, Cleared, DestroySparesFiles
<1>2. CASE Reboot
  BY <1>2 DEF Reboot, durable, MInv, Accounted, Unbound, Cleared, DestroySparesFiles
<1>3. CASE UNCHANGED vars
  BY <1>3 DEF vars, durable, volatile, MInv, Accounted, Unbound, DestroySparesFiles, Writes, Verb,
              Bench, Held
<1> QED BY <1>1, <1>2, <1>3 DEF Next

LEMMA MountsInvariant == ASSUME Solo, WritesLand PROVE Spec => []MInv
<1>1. Init => QInv
  BY DEF Init, QInv, NoSharedQuota, HeldAgrees, Loaded
<1>2. Init => MInv
  BY DEF Init, MInv, Accounted, Unbound, Cleared, DestroySparesFiles
<1>3. TInv /\ QInv /\ [Next]_vars => QInv'
  BY Solo, StepHeld, RestHeld
<1>4. TInv /\ QInv /\ MInv /\ [Next]_vars => MInv'
  BY Solo, WritesLand, StepMounts, RestMounts
<1> QED BY <1>1, <1>2, <1>3, <1>4, InitType, NextType, PTL DEF Spec

\* No verb of one process empties a host directory: destroy's recursive removal
\* never meets a bind, if record writes and remounts succeed.
THEOREM FilesSpared == ASSUME Solo, WritesLand PROVE Spec => []DestroySparesFiles
<1>1. MInv => DestroySparesFiles
  BY DEF MInv
<1> QED BY <1>1, MountsInvariant, PTL

\* Between verbs, what is bound for a Bench is in its record, with the recorded
\* access, if record writes and remounts succeed.
THEOREM BindsRecorded == ASSUME Solo, WritesLand PROVE Spec => []MountsRecorded
<1>1. MInv => MountsRecorded
  BY DEF MInv, Accounted, MountsRecorded, Touched, Writes
<1> QED BY <1>1, MountsInvariant, PTL
-----------------------------------------------------------------------------
(* What one verb records no other takes back, for one process: a verb holds  *)
(* all of the record, with its own edit and no other.                        *)

HeldExact(a) ==
  pc[a] \in Loaded /\ Verb(a) # "create" => Held(a) = Edited(Verb(a), rec[Bench(a)], job[a].arg)

XInv == \A a \in Actors : HeldExact(a)

\* A run, a reset, a destroy and a reissue edit nothing.
LEMMA EditedNothing ==
  ASSUME NEW v \in {"run", "reset", "destroy", "reissue"}, NEW x \in Args(v), NEW r \in Records
  PROVE  Edited(v, r, x) = r
<1>1. x.fs = {} /\ x.exports = {}
  BY DEF Args
<1> QED BY <1>1 DEF Edited, Records

\* A record file is written with what its verb held.
LEMMA PutIs ==
  ASSUME TInv, NEW a \in Actors, pc[a] \in Loaded, PutRecord(a)
  PROVE  /\ Bench(a) \in Benches /\ rec'[Bench(a)] = Held(a)
         /\ \A b \in Benches \ {Bench(a)} : rec'[b] = rec[b]
<1>1. Bench(a) \in Benches
  BY AtWorkFacts DEF Loaded
<1> QED BY <1>1 DEF PutRecord, TInv, TypeOK

\* The state line is written back with the record as it is.
LEMMA MarkKeeps ==
  ASSUME TInv, QInv, XInv, NEW a \in Actors,
         MarkState(a, "running", "start") \/ MarkState(a, "stopped", "idle")
  PROVE  rec' = rec
<1>1. pc[a] \in {"running", "stopped"} /\ pc[a] \in Loaded /\ pc[a] # "idle"
  BY DEF MarkState, Loaded
<1>2. Verb(a) = "run" /\ job[a].arg \in Args("run") /\ Bench(a) \in Benches
  BY <1>1, AtWorkFacts DEF VerbsAt
<1>3. rec[Bench(a)] \in Records
  BY <1>1, <1>2 DEF QInv, HeldAgrees, TInv, TypeOK
<1>4. Held(a) = rec[Bench(a)]
  BY <1>1, <1>2, <1>3, EditedNothing DEF XInv, HeldExact
<1>5. CASE PutRecord(a)
  BY <1>4, <1>5 DEF PutRecord, TInv, TypeOK
<1> QED BY <1>5 DEF MarkState

LEMMA StepExact ==
  ASSUME Solo, TInv, QInv, XInv, NEW a \in Actors, Step(a) PROVE XInv'
<1> SUFFICES ASSUME pc'[a] \in Loaded, job'[a].verb # "create" PROVE HeldExact(a)'
  BY DEF Solo, XInv, HeldExact, Verb
<1>1. CASE KeepsHeld(a)
  <2>1. pc[a] \in Loaded /\ job'[a] = job[a] /\ rec' = rec
    BY <1>1 DEF KeepsHeld, Loaded
  <2> QED BY <2>1 DEF XInv, HeldExact, Verb, Bench, Held
<1>2. CASE Load(a)
  <2>1. rec' = rec /\ ~Goto(a, "idle")
    BY <1>2 DEF Load, durable, Goto, TInv, TypeOK, Loaded
  <2>2. job' = [job EXCEPT ![a].held = Edited(Verb(a), rec[Bench(a)], job[a].arg)]
    BY <1>2, <2>1 DEF Load
  <2>3. /\ job'[a].held = Edited(Verb(a), rec[Bench(a)], job[a].arg) /\ job'[a].verb = Verb(a)
        /\ job'[a].bench = Bench(a) /\ job'[a].arg = job[a].arg
    BY <2>2 DEF TInv, TypeOK, Jobs, Verb, Bench
  <2> QED BY <2>1, <2>3 DEF HeldExact, Verb, Bench, Held, Edited
<1>3. CASE LoadCreate(a)
  <2>1. Verb(a) = "create" /\ ~Goto(a, "idle")
    BY <1>3 DEF LoadCreate, Goto, TInv, TypeOK, Loaded
  <2>2. job'[a].verb = Verb(a)
    BY <1>3, <2>1 DEF LoadCreate, TInv, TypeOK, Jobs, Verb
  <2> QED BY <2>1, <2>2
<1>4. CASE Write(a) \/ Unrecord(a)
  <2>1. ~Goto(a, "idle")
    BY DEF Goto, TInv, TypeOK, Loaded
  <2>2. rec' = rec /\ (\E to : Goto(a, to)) /\ pc[a] = "write"
    BY <1>4, <2>1 DEF Write, Unrecord
  <2>3. pc[a] \in Loaded /\ job'[a] = job[a]
    BY <2>1, <2>2 DEF Goto, TInv, TypeOK, Loaded
  <2> QED BY <2>2, <2>3 DEF XInv, HeldExact, Verb, Bench, Held
<1>5. CASE MarkState(a, "running", "start") \/ MarkState(a, "stopped", "idle")
  <2>1. rec' = rec
    BY <1>5, MarkKeeps
  <2>2. pc[a] \in Loaded /\ job'[a] = job[a]
    BY <1>5 DEF MarkState, Goto, TInv, TypeOK, Loaded
  <2> QED BY <2>1, <2>2 DEF XInv, HeldExact, Verb, Bench, Held
<1> QED BY <1>1, <1>2, <1>3, <1>4, <1>5, RecordSteps

\* A verb that begins, a reboot or nothing at all changes no record, and holds none.
LEMMA RestKeeps ==
  ASSUME TInv, [Next]_vars, \A a \in Actors : ~Step(a)
  PROVE  /\ rec' = rec
         /\ \A a \in Actors : pc'[a] \in Loaded => pc[a] = pc'[a] /\ job[a] = job'[a]
<1>1. ASSUME NEW a \in Actors, NEW v \in VerbNames, NEW b \in Benches, NEW x \in Args(v),
             Begin(a, v, b, x)
      PROVE  rec' = rec /\ \A c \in Actors : pc'[c] \in Loaded => pc[c] = pc'[c] /\ job[c] = job'[c]
  BY <1>1 DEF Begin, durable, TInv, TypeOK, Loaded
<1>2. CASE Reboot
  BY <1>2 DEF Reboot, durable, Loaded
<1>3. CASE UNCHANGED vars
  BY <1>3 DEF vars, durable
<1> QED BY <1>1, <1>2, <1>3 DEF Next

LEMMA NextExact ==
  Solo /\ TInv /\ QInv /\ XInv /\ [Next]_vars => XInv'
<1> SUFFICES ASSUME Solo, TInv, QInv, XInv, [Next]_vars, \A a \in Actors : ~Step(a) PROVE XInv'
  BY StepExact
<1>1. ASSUME NEW a \in Actors PROVE HeldExact(a)'
  BY RestKeeps DEF XInv, HeldExact, Verb, Bench, Held
<1> QED BY <1>1 DEF XInv

\* A record that changes, or comes into being, is written by the last step of a verb.
LEMMA OnlyWrites ==
  ASSUME TInv, QInv, XInv, [Next]_vars, NEW b \in Benches, rec'[b] # None, rec'[b] # rec[b]
  PROVE  \E a \in Actors : pc[a] = "write" /\ Bench(a) = b /\ rec'[b] = Held(a)
<1>1. PICK a \in Actors : Step(a)
  BY RestKeeps
<1>2. Write(a)
  <2>1. ~KeepsHeld(a) /\ ~Load(a) /\ ~LoadCreate(a)
    BY DEF KeepsHeld, Load, LoadCreate, durable
  <2>2. ~MarkState(a, "running", "start") /\ ~MarkState(a, "stopped", "idle")
    BY MarkKeeps
  <2>3. ~Unrecord(a)
    BY DEF Unrecord, TInv, TypeOK
  <2> QED BY <1>1, <2>1, <2>2, <2>3, RecordSteps
<1>3. pc[a] = "write" /\ PutRecord(a)
  BY <1>2 DEF Write
<1> QED BY <1>3, PutIs DEF Loaded

\* What a write changes is what its verb was asked to.
LEMMA WriteEdits ==
  ASSUME TInv, QInv, XInv, NEW a \in Actors, pc[a] = "write", rec[Bench(a)] # None
  PROVE  LET r == rec[Bench(a)]  s == Held(a)  x == job[a].arg IN
         /\ s.project = r.project /\ r.fs \subseteq s.fs
         /\ s.net # r.net => Verb(a) = "network" /\ s.net = x.net
         /\ s.quota # r.quota => Verb(a) = "quota"
         /\ s.exports # r.exports => Verb(a) \in {"export", "unexport"}
<1> DEFINE r == rec[Bench(a)]
           x == job[a].arg
<1>1. Verb(a) \in VerbNames /\ Bench(a) \in Benches /\ x \in Args(Verb(a)) /\ pc[a] \in Loaded
  BY AtWorkFacts DEF Loaded
<1>2. Verb(a) # "create" /\ r \in Records
  BY <1>1 DEF QInv, HeldAgrees, TInv, TypeOK
<1>3. Held(a) = Edited(Verb(a), r, x)
  BY <1>1, <1>2 DEF XInv, HeldExact
<1>4. Verb(a) \notin {"export", "unexport"} => x.exports = {}
  BY <1>1 DEF Args
<1> QED BY <1>2, <1>3, <1>4 DEF Edited, Records

\* Each verb's edits stay: egress is revoked and granted by network alone and to
\* the set it was given, grants only grow, quotas and launchers change by their
\* own verbs (save_record), whatever fails and wherever the power goes.
THEOREM NoEditTakenBack == ASSUME Solo PROVE Spec => EditsKept
<1> DEFINE
      Net == \A b \in Benches : rec[b] # None /\ rec'[b] # None /\ rec'[b].net # rec[b].net =>
               \E a \in Actors : Writes(a, "network", b) /\ rec'[b].net = job[a].arg.net
      Kept == \A b \in Benches : LET r == rec[b]  s == rec'[b] IN
        s # None /\ s # r =>
          IF r = None THEN \E a \in Actors : Writes(a, "create", b)
          ELSE /\ s.project = r.project /\ r.fs \subseteq s.fs
               /\ s.quota # r.quota => \E a \in Actors : Writes(a, "quota", b)
               /\ s.exports # r.exports =>
                    \E a \in Actors : Writes(a, "export", b) \/ Writes(a, "unexport", b)
<1>1. Init => QInv /\ XInv
  BY DEF Init, QInv, NoSharedQuota, HeldAgrees, XInv, HeldExact, Loaded
<1>2. TInv /\ QInv /\ [Next]_vars => QInv'
  BY Solo, StepHeld, RestHeld
<1>3. TInv /\ QInv /\ XInv /\ [Next]_vars => XInv'
  BY Solo, NextExact
<1>4. TInv /\ QInv /\ XInv /\ [Next]_vars => [Net]_vars /\ [Kept]_vars
  <2> SUFFICES ASSUME TInv, QInv, XInv, [Next]_vars PROVE Net /\ Kept
    OBVIOUS
  <2> SUFFICES ASSUME NEW b \in Benches, rec'[b] # None, rec'[b] # rec[b]
               PROVE  /\ rec[b] # None /\ rec'[b].net # rec[b].net =>
                           \E a \in Actors : Writes(a, "network", b) /\ rec'[b].net = job[a].arg.net
                      /\ IF rec[b] = None THEN \E a \in Actors : Writes(a, "create", b)
                         ELSE /\ rec'[b].project = rec[b].project /\ rec[b].fs \subseteq rec'[b].fs
                              /\ rec'[b].quota # rec[b].quota => \E a \in Actors : Writes(a, "quota", b)
                              /\ rec'[b].exports # rec[b].exports =>
                                   \E a \in Actors : Writes(a, "export", b) \/ Writes(a, "unexport", b)
    OBVIOUS
  <2>1. PICK a \in Actors : pc[a] = "write" /\ Bench(a) = b /\ rec'[b] = Held(a)
    BY OnlyWrites
  <2>2. CASE rec[b] = None
    <3>1. Verb(a) = "create"
      BY <2>1, <2>2 DEF QInv, HeldAgrees, Loaded
    <3> QED BY <2>1, <2>2, <3>1 DEF Writes
  <2>3. CASE rec[b] # None
    BY <2>1, <2>3, WriteEdits DEF Writes
  <2> QED BY <2>2, <2>3
<1> QED BY <1>1, <1>2, <1>3, <1>4, InitType, NextType, PTL DEF Spec, EditsKept, NetworkSticks, RecordKept
-----------------------------------------------------------------------------
(* A workload has what was granted to it, for one process whose record       *)
(* writes and remounts succeed.                                              *)

\* No two grants want the same leaf.
Apart(fs) == \A g, h \in fs : LeafOf[g.dir] = LeafOf[h.dir] => g = h

\* Each grant is bound at its leaf.
Seen(a) == \A g \in Held(a).fs : mount[Bench(a)][LeafOf[g.dir]] = g

\* Where a run is between its binds and the end of its workload.
SeenPoints == {"running", "preclear", "start", "inject", "work"}

\* The leaf of an approved grant is still free: the precheck looked, and the
\* record has not changed since.
LeafFree(a) ==
  pc[a] \in {"ceremony", "load"} /\ Verb(a) = "grant" /\ rec[Bench(a)] # None =>
    ~LeafTaken(rec[Bench(a)], job[a].arg)

GInv ==
  /\ \A b \in Benches : rec[b] # None => Apart(rec[b].fs)
  /\ \A a \in Actors : /\ pc[a] \in Loaded => Apart(Held(a).fs)
                       /\ LeafFree(a)
                       /\ pc[a] \in SeenPoints => Seen(a)

\* Steps that only go on.
GoesOn(a) ==
  /\ rec' = rec
  /\ pc'[a] # "idle" => job'[a] = job[a]
  /\ pc'[a] \in Loaded => pc[a] \in Loaded
  /\ pc'[a] \in {"ceremony", "load"} => pc[a] = "ceremony"
  /\ pc'[a] \in SeenPoints => pc[a] \in SeenPoints /\ mount' = mount

LEMMA GrantSteps ==
  ASSUME TInv, NEW a \in Actors, Step(a)
  PROVE  \/ Precheck(a) \/ Load(a) \/ LoadCreate(a) \/ Binds(a) \/ Write(a) \/ Unrecord(a)
         \/ GoesOn(a) \/ MarkState(a, "running", "start") \/ MarkState(a, "stopped", "idle")
<1>g. ASSUME NEW to, Goto(a, to), rec' = rec,
             to \in Loaded => pc[a] \in Loaded,
             to \in {"ceremony", "load"} => pc[a] = "ceremony",
             to \in SeenPoints => pc[a] \in SeenPoints /\ mount' = mount
      PROVE  GoesOn(a)
  BY <1>g DEF TInv, TypeOK, Goto, GoesOn
<1>1. CASE Answer(a)
  <2>1. \E to \in {"load", "idle"} : Goto(a, to)
    BY <1>1 DEF Answer
  <2>2. rec' = rec /\ pc[a] = "ceremony"
    BY <1>1 DEF Answer, durable
  <2> QED BY <2>1, <2>2, <1>g DEF Loaded, SeenPoints
<1>2. CASE Tag(a) \/ SetCap(a) \/ Uncap(a) \/ RmData(a)
  <2>1. rec' = rec /\ pc[a] \in Loaded /\ Verb(a) \in VerbsAt(pc[a])
    BY <1>2, AtWorkFacts DEF Tag, SetCap, Uncap, RmData, Loaded
  <2>2. Verb(a) \in {"create", "quota", "reissue", "destroy"}
    BY <1>2, <2>1 DEF VerbsAt, Tag, SetCap, Uncap, RmData
  <2>3. \E to \in {"setcap", "binds", "uncap", "tag", "write", "idle", "rmdata", "unrecord"} : Goto(a, to)
    BY <1>2, <2>1, <2>2 DEF Tag, SetCap, Uncap, RmData, VerbsAt
  <2> QED BY <2>1, <2>3, <1>g DEF SeenPoints
<1>3. CASE \/ Mount(a) \/ Unmount(a) \/ RmRunDir(a) \/ Desktop(a) \/ Undesktop(a)
           \/ SweepLaunchers(a)
  <2>1. rec' = rec /\ pc[a] \in Loaded
    BY <1>3 DEF Mount, Unmount, RmRunDir, Desktop, Undesktop, SweepLaunchers, durable, Loaded
  <2>2. \E to \in {"write", "idle", "rundir", "uncap", "rm"} : Goto(a, to)
    BY <1>3 DEF Mount, Unmount, RmRunDir, Desktop, Undesktop, SweepLaunchers
  <2> QED BY <2>1, <2>2, <1>g DEF SeenPoints
<1>4. CASE Preclear(a) \/ Start(a) \/ Inject(a)
  <2>1. UNCHANGED <<rec, mount>> /\ pc[a] \in Loaded /\ pc[a] \in SeenPoints
    BY <1>4 DEF Preclear, Start, Inject, durable, Loaded, SeenPoints
  <2>2. \E to \in {"running", "inject", "work", "unwire", "stopped", "idle"} : Goto(a, to)
    BY <1>4 DEF Preclear, Start, Inject
  <2> QED BY <2>1, <2>2, <1>g
<1>5. CASE Work(a) \/ Unwire(a) \/ Rm(a)
  <2>1. rec' = rec /\ pc[a] \in Loaded /\ Verb(a) \in VerbsAt(pc[a])
    BY <1>5, AtWorkFacts DEF Work, Unwire, Rm, durable, Loaded
  <2>2. \E to \in {"unwire", "stopped", "rm", "unmount", "idle"} : Goto(a, to)
    BY <1>5, <2>1 DEF Work, Unwire, Rm, VerbsAt
  <2> QED BY <2>1, <2>2, <1>g DEF SeenPoints
<1> QED BY <1>1, <1>2, <1>3, <1>4, <1>5 DEF Step

\* An edit of a record whose grants are apart, by a grant whose leaf is free or
\* by a verb that grants nothing, leaves them apart.
LEMMA EditedApart ==
  ASSUME NEW v \in VerbNames, NEW x \in Args(v), NEW r \in Records, Apart(r.fs),
         v = "grant" => ~LeafTaken(r, x)
  PROVE  Apart(Edited(v, r, x).fs)
<1>1. Edited(v, r, x).fs = r.fs \cup x.fs
  BY EditedType
<1>2. CASE v = "grant"
  <2>1. PICK g \in Grants : x.fs = {g}
    BY <1>2 DEF Args
  <2>2. \A h \in r.fs : LeafOf[g.dir] # LeafOf[h.dir]
    BY <1>2, <2>1 DEF LeafTaken
  <2> QED BY <1>1, <2>1, <2>2 DEF Apart
<1>3. CASE v # "grant"
  <2>1. x.fs = {}
    BY <1>3 DEF Args
  <2> QED BY <1>1, <2>1
<1> QED BY <1>2, <1>3

LEMMA StepSeen ==
  ASSUME Solo, TInv, QInv, XInv, MInv, GInv, NEW a \in Actors, Step(a) PROVE GInv'
<1> PICK b : b = Bench(a) OBVIOUS
<1>a. Actors = {a} /\ a = Broker
  BY DEF Solo
<1>s. SUFFICES /\ \A c \in Benches : rec'[c] # None => Apart(rec'[c].fs)
               /\ pc'[a] \in Loaded => Apart(Held(a)'.fs)
               /\ LeafFree(a)'
               /\ pc'[a] \in SeenPoints => Seen(a)'
  BY <1>a DEF GInv, Apart
<1>l. pc[a] \in Loaded => Apart(Held(a).fs)
  BY DEF GInv
<1>p. \A c : c \in SeenPoints => c \in Loaded /\ c # "idle" /\ c \notin {"ceremony", "load"}
  BY DEF SeenPoints, Loaded
<1>i. Loaded \cap {"idle", "precheck", "ceremony", "load"} = {}
  BY DEF Loaded
<1>1. CASE GoesOn(a)
  <2>1. \A c \in Benches : rec'[c] # None => Apart(rec'[c].fs)
    BY <1>1 DEF GoesOn, GInv
  <2>2. pc'[a] \in Loaded => Apart(Held(a)'.fs)
    BY <1>1, <1>l, <1>i DEF GoesOn, Held
  <2>3. LeafFree(a)'
    BY <1>1 DEF GoesOn, GInv, LeafFree, LeafTaken, Verb, Bench
  <2>4. pc'[a] \in SeenPoints => Seen(a)'
    BY <1>1, <1>p DEF GoesOn, GInv, Seen, Held, Bench
  <2> QED BY <2>1, <2>2, <2>3, <2>4
<1>2. CASE Precheck(a)
  <2>1. rec' = rec /\ pc[a] = "precheck"
    BY <1>2 DEF Precheck, durable
  <2>2. CASE Goto(a, "idle")
    BY <2>1, <2>2, <1>p, <1>i DEF Goto, TInv, TypeOK, GInv, LeafFree
  <2>3. CASE ~Goto(a, "idle")
    <3>1. /\ pc'[a] = "ceremony" /\ job'[a] = job[a]
          /\ Verb(a) = "grant" => ~LeafTaken(rec[b], job[a].arg)
      BY <1>2, <2>3 DEF Precheck, Goto, TInv, TypeOK
    <3>2. LeafFree(a)'
      BY <2>1, <3>1 DEF LeafFree, LeafTaken, Verb, Bench
    <3> QED BY <2>1, <3>1, <3>2, <1>p, <1>i DEF GInv
  <2> QED BY <2>2, <2>3
<1>3. CASE Load(a)
  <2>1. rec' = rec /\ pc[a] = "load"
    BY <1>3 DEF Load, durable
  <2>2. CASE Goto(a, "idle")
    BY <2>1, <2>2, <1>p, <1>i DEF Goto, TInv, TypeOK, GInv, LeafFree
  <2>3. CASE ~Goto(a, "idle")
    <3>1. /\ rec[b] # None /\ pc'[a] = First(Verb(a)) /\ Verb(a) # "create"
          /\ job' = [job EXCEPT ![a].held = Edited(Verb(a), rec[b], job[a].arg)]
      BY <1>3, <2>3 DEF Load, TInv, TypeOK
    <3>2. Verb(a) \in VerbNames /\ b \in Benches /\ job[a].arg \in Args(Verb(a)) /\ rec[b] \in Records
      BY <2>1, <3>1, AtWorkFacts DEF TInv, TypeOK
    <3>3. Apart(Edited(Verb(a), rec[b], job[a].arg).fs)
      BY <2>1, <3>1, <3>2, EditedApart DEF GInv, LeafFree
    <3>4. Held(a)' = Edited(Verb(a), rec[b], job[a].arg)
      BY <3>1 DEF TInv, TypeOK, Jobs, Held
    <3>5. First(Verb(a)) \in Loaded /\ First(Verb(a)) \notin SeenPoints
      <4>1. CASE Verb(a) \in {"grant", "network", "quota", "reissue"}
        BY <4>1 DEF First, Loaded, SeenPoints
      <4>2. CASE Verb(a) \in {"reset", "destroy", "export", "unexport", "run"}
        BY <4>2 DEF First, Loaded, SeenPoints
      <4> QED BY <3>1, <3>2, <4>1, <4>2 DEF VerbNames
    <3> QED BY <2>1, <3>1, <3>3, <3>4, <3>5, <1>i DEF GInv, LeafFree
  <2> QED BY <2>2, <2>3
<1>4. CASE LoadCreate(a)
  <2>1. rec' = rec
    BY <1>4 DEF LoadCreate, durable
  <2>2. CASE Goto(a, "idle")
    BY <2>1, <2>2, <1>p, <1>i DEF Goto, TInv, TypeOK, GInv, LeafFree
  <2>3. CASE ~Goto(a, "idle")
    <3>1. Held(a)'.fs = {} /\ pc'[a] = "tag"
      BY <1>4, <2>3 DEF LoadCreate, TInv, TypeOK, Jobs, Held
    <3> QED BY <2>1, <3>1 DEF GInv, LeafFree, Apart, SeenPoints
  <2> QED BY <2>2, <2>3
<1>5. CASE Binds(a)
  <2>1. pc[a] = "binds" /\ pc[a] \in Loaded /\ rec' = rec
    BY <1>5 DEF Binds, Loaded, durable
  <2>2. Verb(a) \in {"run", "reissue"} /\ b \in Benches /\ job[a].arg \in Args(Verb(a))
    BY <2>1, AtWorkFacts DEF VerbsAt
  <2>3. /\ Held(a).fs = rec[b].fs /\ rec[b] # None /\ Apart(Held(a).fs) /\ Held(a) \in Records
    <3>1. job[a].arg.fs = {}
      BY <2>2 DEF Args
    <3>2. Verb(a) # "create" /\ HeldAgrees(a)
      BY <2>2 DEF QInv
    <3>3. Held(a).fs = rec[b].fs /\ rec[b] # None
      BY <2>1, <3>1, <3>2 DEF HeldAgrees
    <3>4. Held(a) \in Records
      BY <2>1, AtWorkFacts DEF Loaded
    <3> QED BY <2>1, <1>l, <3>3, <3>4
  <2>4. PICK to \in {AfterBinds(a), "idle"} : Goto(a, to)
    BY <1>5 DEF Binds
  <2>5. AfterBinds(a) \in {"unwire", "running", "preclear"}
    BY <2>2 DEF AfterBinds
  <2>6. pc'[a] = to /\ (to # "idle" => job'[a] = job[a])
    BY <2>4 DEF Goto, TInv, TypeOK
  <2>7. ASSUME pc'[a] \in SeenPoints, NEW g \in Held(a).fs PROVE mount'[b][LeafOf[g.dir]] = g
    <3>1. Verb(a) = "run" /\ to # "idle"
      BY <2>2, <2>6, <2>7, <1>p DEF AfterBinds, SeenPoints
    <3>2. PICK m \in Bound(b, Held(a).fs, TRUE) : mount' = [mount EXCEPT ![b] = m]
      BY <1>5, <2>6, <3>1 DEF Binds, Goto, TInv, TypeOK
    <3>3. mount'[b] = m
      BY <3>2, <2>2 DEF TInv, TypeOK
    <3> DEFINE l == LeafOf[g.dir]
    <3>4. l \in Leaves
      BY <2>3, BenchAssumption DEF Records, Grants
    <3>5. CASE mount[b][l] # None
      <4>1. m[l] = mount[b][l]
        BY <3>2, <3>4, <3>5 DEF Bound
      <4>2. LeafOf[mount[b][l].dir] = l /\ mount[b][l] \in Held(a).fs
        BY <1>a, <2>1, <2>2, <2>3, <3>4, <3>5 DEF MInv, Accounted, Writes
      <4>3. mount[b][l] = g
        BY <2>3, <2>7, <4>2 DEF Apart
      <4> QED BY <3>3, <4>1, <4>3
    <3>6. CASE mount[b][l] = None
      <4>1. m[l] \in {h \in Held(a).fs : LeafOf[h.dir] = l}
        BY <2>7, <3>2, <3>4, <3>6 DEF Bound
      <4>2. m[l] = g
        BY <2>3, <2>7, <4>1 DEF Apart
      <4> QED BY <3>3, <4>2
    <3> QED BY <3>5, <3>6
  <2>8. pc'[a] \in SeenPoints => Seen(a)'
    <3>1. pc'[a] \in SeenPoints => job'[a] = job[a]
      BY <2>6, <1>p
    <3> QED BY <2>7, <3>1 DEF Seen, Held, Bench
  <2>9. pc'[a] \in Loaded => Apart(Held(a)'.fs)
    BY <2>3, <2>6, <1>i DEF Held
  <2>10. LeafFree(a)'
    BY <2>5, <2>6 DEF LeafFree
  <2> QED BY <2>1, <2>8, <2>9, <2>10 DEF GInv
<1>6. CASE Write(a)
  <2>1. pc[a] = "write" /\ pc[a] \in Loaded
    BY <1>6 DEF Write, Loaded
  <2>2. PICK to \in {"idle", "uncap", "undesktop"} : Goto(a, to)
    BY <1>6 DEF Write
  <2>3. pc'[a] = to /\ (to # "idle" => job'[a] = job[a])
    BY <2>2 DEF Goto, TInv, TypeOK
  <2>4. \A c \in Benches : rec'[c] # None => Apart(rec'[c].fs)
    <3>1. CASE PutRecord(a)
      BY <3>1, <2>1, <1>l, PutIs DEF GInv
    <3> QED BY <3>1, <1>6 DEF Write, GInv
  <2>5. pc'[a] \in Loaded => Apart(Held(a)'.fs)
    BY <2>1, <2>3, <1>l, <1>i DEF Held
  <2> QED BY <2>3, <2>4, <2>5 DEF LeafFree, SeenPoints
<1>7. CASE Unrecord(a)
  <2>1. pc'[a] = "idle"
    BY <1>7 DEF Unrecord, Goto, TInv, TypeOK
  <2>2. \A c \in Benches : rec'[c] = rec[c] \/ rec'[c] = None
    BY <1>7 DEF Unrecord, TInv, TypeOK
  <2> QED BY <2>1, <2>2, <1>p, <1>i DEF GInv, LeafFree
<1>8. CASE MarkState(a, "running", "start") \/ MarkState(a, "stopped", "idle")
  <2>1. rec' = rec
    BY <1>8, MarkKeeps
  <2>2. PICK to \in {"start", "idle"} : Goto(a, to) /\ (to = "start" => pc[a] = "running")
    BY <1>8 DEF MarkState
  <2>3. pc'[a] = to /\ (to # "idle" => job'[a] = job[a]) /\ mount' = mount
    BY <1>8, <2>2 DEF Goto, TInv, TypeOK, MarkState, volatile
  <2>4. CASE to = "idle"
    BY <2>1, <2>3, <2>4, <1>p, <1>i DEF GInv, LeafFree
  <2>5. CASE to = "start"
    <3>1. pc[a] \in SeenPoints /\ pc[a] \in Loaded
      BY <2>2, <2>5 DEF SeenPoints, Loaded
    <3>2. Seen(a)' /\ Apart(Held(a)'.fs)
      BY <2>3, <2>5, <3>1, <1>l DEF GInv, Seen, Held, Bench
    <3> QED BY <2>1, <2>3, <2>5, <3>2 DEF GInv, LeafFree
  <2> QED BY <2>4, <2>5
<1> QED BY <1>1, <1>2, <1>3, <1>4, <1>5, <1>6, <1>7, <1>8, GrantSteps

LEMMA RestSeen ==
  Solo /\ TInv /\ GInv /\ [Next]_vars /\ (\A a \in Actors : ~Step(a)) => GInv'
<1> SUFFICES ASSUME Solo, TInv, GInv, [Next]_vars, \A a \in Actors : ~Step(a) PROVE GInv'
  OBVIOUS
<1>i. \A p : p \in SeenPoints => p \in Loaded
  BY DEF SeenPoints, Loaded
<1>1. ASSUME NEW a \in Actors, NEW v \in VerbNames, NEW b \in Benches, NEW x \in Args(v),
             Begin(a, v, b, x)
      PROVE  GInv'
  <2>1. rec' = rec /\ Actors = {a} /\ a = Broker
    BY <1>1 DEF Begin, durable, Solo
  <2>2. /\ pc'[a] = IF Gated(v, x) THEN "precheck" ELSE "load"
        /\ job'[a].verb = v
    BY <1>1, <2>1 DEF Begin, TInv, TypeOK
  <2>3. pc'[a] \notin Loaded /\ LeafFree(a)'
    BY <2>2 DEF LeafFree, Verb, Gated, Loaded
  <2> QED BY <2>1, <2>3, <1>i DEF GInv
<1>2. CASE Reboot
  <2>1. rec' = rec /\ \A a \in Actors : pc'[a] = "idle"
    BY <1>2 DEF Reboot, durable
  <2> QED BY <2>1 DEF GInv, LeafFree, Loaded, SeenPoints
<1>3. CASE UNCHANGED vars
  BY <1>3 DEF vars, durable, volatile, GInv, LeafFree, Seen, LeafTaken, Verb, Bench, Held
<1> QED BY <1>1, <1>2, <1>3 DEF Next

\* A workload runs with every granted directory at its leaf, with the access that
\* was granted (ensure_grants_materialized), whatever commands fail and however
\* often the machine reboots, if record writes and remounts succeed.
THEOREM GrantsAreSeen == ASSUME Solo, WritesLand PROVE Spec => []GrantsSeen
<1>1. Init => QInv /\ XInv
  BY DEF Init, QInv, NoSharedQuota, HeldAgrees, XInv, HeldExact, Loaded
<1>2. Init => GInv
  BY DEF Init, GInv, LeafFree, Loaded, SeenPoints
<1>3. TInv /\ QInv /\ [Next]_vars => QInv'
  BY Solo, StepHeld, RestHeld
<1>4. TInv /\ QInv /\ XInv /\ [Next]_vars => XInv'
  BY Solo, NextExact
<1>5. TInv /\ QInv /\ XInv /\ MInv /\ GInv /\ [Next]_vars => GInv'
  BY Solo, StepSeen, RestSeen
<1>6. GInv => GrantsSeen
  BY DEF GInv, GrantsSeen, Seen, SeenPoints
<1> QED BY <1>1, <1>2, <1>3, <1>4, <1>5, <1>6, MountsInvariant, InitType, NextType, PTL DEF Spec
-----------------------------------------------------------------------------
(* The kernel holds the recorded quota, for one process whose commands and   *)
(* record writes succeed; the power may go at any step.                      *)

ToolsWork == Failures \cap {"tool", "write"} = {}

\* A destroy of a Bench that has got this far.
Going(b, S) == \E a \in Actors : pc[a] \in S /\ Verb(a) = "destroy" /\ Bench(a) = b

\* What the boot oneshot is not to redo is as recorded: the project of the data
\* directory and the kernel's quota.
Tagged(b) == rec[b] # None /\ b \notin due => tag[b] = rec[b].project
Capped(b) == rec[b] # None /\ b \notin due => cap[rec[b].project] = rec[b].quota

\* What a create, a quota and a reissue have done so far.
Done(a) ==
  /\ pc[a] # "idle" /\ Verb(a) # "reissue" => due = {}
  /\ pc[a] \in {"setcap", "write"} /\ Verb(a) = "create" => tag[Bench(a)] = Project(a)
  /\ pc[a] = "write" /\ Verb(a) \in {"create", "quota"} => cap[Project(a)] = Held(a).quota
  /\ pc[a] \in {"tag", "binds", "unwire"} /\ Verb(a) = "reissue" => cap[Project(a)] = Held(a).quota
  /\ pc[a] \in {"binds", "unwire"} /\ Verb(a) = "reissue" => tag[Bench(a)] = Project(a)

\* Quota and project are as recorded but for the steps of a verb that is changing
\* them.
KInv ==
  /\ \A b \in Benches :
       /\ Tagged(b) \/ Going(b, {"unrecord"})
       /\ Capped(b) \/ Going(b, {"rmdata", "unrecord"}) \/ \E a \in Actors : Writes(a, "quota", b)
  /\ \A a \in Actors : Done(a)

\* Steps that have nothing to do with records, quotas and tags.
Still(a) ==
  /\ UNCHANGED <<rec, cap, tag, due>> /\ pc[a] \notin {"idle", "write", "rmdata", "unrecord"}
  /\ pc'[a] # "idle" => job'[a].verb = Verb(a)
  /\ pc'[a] \in {"setcap", "write"} => Verb(a) # "create"
  /\ pc'[a] = "write" => Verb(a) # "quota"
  /\ pc'[a] \in {"tag", "binds"} => Verb(a) # "reissue"
  /\ pc'[a] = "unwire" /\ Verb(a) = "reissue" => pc[a] = "binds" /\ job'[a] = job[a]

LEMMA QuotaSteps ==
  ASSUME TInv, QInv, XInv, NEW a \in Actors, Step(a)
  PROVE  \/ Tag(a) \/ SetCap(a) \/ Write(a) \/ Uncap(a) \/ RmData(a) \/ Unrecord(a) \/ Unwire(a)
         \/ Still(a)
<1>u. pc[a] # "idle" => Verb(a) \in VerbNames /\ Verb(a) \in VerbsAt(pc[a])
  BY AtWorkFacts
<1>g. ASSUME NEW to, Goto(a, to)
      PROVE  pc'[a] = to /\ (to # "idle" => job'[a] = job[a] /\ job'[a].verb = Verb(a))
  BY <1>g DEF TInv, TypeOK, Goto, Verb
<1>1. CASE Precheck(a) \/ Answer(a)
  <2>1. PICK to \in {"ceremony", "load", "idle"} : Goto(a, to)
    BY <1>1 DEF Precheck, Answer
  <2>2. UNCHANGED <<rec, cap, tag, due>> /\ pc[a] \in {"precheck", "ceremony"}
    BY <1>1 DEF Precheck, Answer, durable, volatile
  <2> QED BY <2>1, <2>2, <1>g DEF Still
<1>2. CASE Load(a)
  <2>1. UNCHANGED <<rec, cap, tag, due>> /\ pc[a] = "load" /\ Verb(a) # "create"
    BY <1>2 DEF Load, durable, volatile
  <2>2. CASE Goto(a, "idle")
    BY <2>1, <2>2, <1>g DEF Still
  <2>3. CASE ~Goto(a, "idle")
    <3>1. pc'[a] = First(Verb(a)) /\ job'[a].verb = Verb(a)
      BY <1>2, <2>3 DEF Load, TInv, TypeOK, Jobs, Verb
    <3>2. /\ First(Verb(a)) = "write" => Verb(a) # "quota"
          /\ First(Verb(a)) = "tag" => FALSE
          /\ First(Verb(a)) \in {"binds", "unwire"} => Verb(a) # "reissue"
      <4>1. CASE Verb(a) \in {"grant", "network", "quota", "reissue"}
        BY <4>1 DEF First
      <4>2. CASE Verb(a) \in {"reset", "destroy", "export", "unexport", "run"}
        BY <4>2 DEF First
      <4> QED BY <2>1, <4>1, <4>2, <1>u DEF VerbNames
    <3> QED BY <2>1, <3>1, <3>2 DEF Still
  <2> QED BY <2>2, <2>3
<1>3. CASE LoadCreate(a)
  <2>1. UNCHANGED <<rec, cap, tag, due>> /\ pc[a] = "load" /\ Verb(a) = "create"
    BY <1>3 DEF LoadCreate, durable, volatile
  <2>2. CASE Goto(a, "idle")
    BY <2>1, <2>2, <1>g DEF Still
  <2>3. CASE ~Goto(a, "idle")
    <3>1. pc'[a] = "tag" /\ job'[a].verb = Verb(a)
      BY <1>3, <2>3 DEF LoadCreate, TInv, TypeOK, Jobs, Verb
    <3> QED BY <2>1, <3>1 DEF Still
  <2> QED BY <2>2, <2>3
<1>4. CASE Mount(a) \/ Desktop(a) \/ Undesktop(a)
  <2>1. /\ UNCHANGED <<rec, cap, tag, due>> /\ pc[a] \in {"mount", "desktop", "undesktop"}
        /\ \E to \in {"write", "idle"} : Goto(a, to)
    BY <1>4 DEF Mount, Desktop, Undesktop, durable, volatile
  <2>2. Verb(a) \in {"grant", "export", "unexport"}
    BY <2>1, <1>u DEF VerbsAt
  <2> QED BY <2>1, <2>2, <1>g DEF Still
<1>5. CASE Unmount(a) \/ RmRunDir(a) \/ SweepLaunchers(a)
  <2>1. /\ UNCHANGED <<rec, cap, tag, due>> /\ pc[a] \in {"unmount", "rundir", "launchers"}
        /\ \E to \in {"rundir", "uncap", "rm"} : Goto(a, to)
    BY <1>5 DEF Unmount, RmRunDir, SweepLaunchers, durable, volatile
  <2> QED BY <2>1, <1>g DEF Still
<1>6. CASE Binds(a)
  <2>1. /\ UNCHANGED <<rec, cap, tag, due>> /\ pc[a] = "binds"
        /\ \E to \in {AfterBinds(a), "idle"} : Goto(a, to)
    BY <1>6 DEF Binds, durable
  <2>2. AfterBinds(a) \in {"unwire", "running", "preclear"}
    BY <2>1, <1>u DEF VerbsAt, AfterBinds
  <2> QED BY <2>1, <2>2, <1>g DEF Still
<1>7. CASE Preclear(a) \/ Start(a) \/ Inject(a) \/ Work(a)
  <2>1. /\ UNCHANGED <<rec, cap, tag, due>> /\ pc[a] \in {"preclear", "start", "inject", "work"}
        /\ \E to \in {"running", "inject", "work", "unwire", "stopped", "idle"} : Goto(a, to)
    BY <1>7 DEF Preclear, Start, Inject, Work, durable
  <2>2. Verb(a) = "run"
    BY <2>1, <1>u DEF VerbsAt
  <2> QED BY <2>1, <2>2, <1>g DEF Still
<1>8. CASE Rm(a)
  <2>1. /\ UNCHANGED <<rec, cap, tag, due>> /\ pc[a] = "rm"
        /\ \E to \in {"stopped", "unwire"} : Goto(a, to)
    BY <1>8 DEF Rm, durable
  <2>2. Verb(a) # "reissue"
    BY <2>1, <1>u DEF VerbsAt
  <2> QED BY <2>1, <2>2, <1>g DEF Still
<1>9. CASE MarkState(a, "running", "start") \/ MarkState(a, "stopped", "idle")
  <2>1. /\ UNCHANGED <<rec, cap, tag, due>> /\ pc[a] \in {"running", "stopped"}
        /\ \E to \in {"start", "idle"} : Goto(a, to)
    BY <1>9, MarkKeeps DEF MarkState, volatile
  <2> QED BY <2>1, <1>g DEF Still
<1> QED BY <1>1, <1>2, <1>3, <1>4, <1>5, <1>6, <1>7, <1>8, <1>9 DEF Step
\* Quota and project of every Bench are as recorded.
Exact == \A b \in Benches : Tagged(b) /\ Capped(b)

LEMMA ExactSuffices ==
  ASSUME NEW a \in Actors, Actors = {a}, Exact', Done(a)' PROVE KInv'
BY DEF KInv, Exact

\* At a Bench that the verb is not on, and where the verb changes nothing.
LEMMA ExactElsewhere ==
  ASSUME NEW a \in Actors, Actors = {a}, KInv, NEW b \in Benches,
         b # Bench(a) \/ pc[a] \notin {"write", "rmdata", "unrecord"}
  PROVE  Tagged(b) /\ Capped(b)
BY DEF KInv, Going, Writes

LEMMA StepQuota ==
  ASSUME Solo, ToolsWork, TInv, QInv, XInv, KInv, NEW a \in Actors, Step(a) PROVE KInv'
<1> PICK b : b = Bench(a) OBVIOUS
<1>a. Actors = {a}
  BY DEF Solo
<1>f. ~MayFail("tool") /\ ~MayFail("write")
  BY DEF ToolsWork, MayFail
<1>g. ASSUME NEW to, Goto(a, to)
      PROVE  pc'[a] = to /\ (to # "idle" => job'[a] = job[a])
  BY <1>g DEF TInv, TypeOK, Goto
<1>d. ASSUME pc'[a] = "idle" PROVE Done(a)'
  BY <1>d DEF Done
<1>w. ASSUME pc[a] \in Loaded
      PROVE  /\ b \in Benches /\ Held(a) \in Records /\ Project(a) \in Projects /\ pc[a] # "idle"
             /\ Verb(a) \in VerbNames /\ Verb(a) \in VerbsAt(pc[a]) /\ job[a].arg \in Args(Verb(a))
             /\ IF Verb(a) = "create" THEN rec[b] = None /\ Project(a) \notin Used
                ELSE /\ rec[b] # None /\ Project(a) = rec[b].project
                     /\ Held(a) = Edited(Verb(a), rec[b], job[a].arg) /\ rec[b] \in Records
  <2>1. pc[a] # "idle"
    BY <1>w DEF Loaded
  <2>2. b \in Benches /\ Held(a) \in Records
    BY <1>w, <2>1, AtWorkFacts
  <2>3. Project(a) \in Projects
    BY <2>2 DEF Project, Held, Records
  <2>4. Verb(a) # "create" => rec[b] # None /\ rec[b] \in Records
    BY <1>w, <2>2 DEF QInv, HeldAgrees, TInv, TypeOK
  <2> QED BY <1>w, <2>1, <2>2, <2>3, <2>4, AtWorkFacts DEF QInv, HeldAgrees, XInv, HeldExact
\* No other Bench has the project that the verb holds.
<1>o. ASSUME pc[a] \in Loaded, NEW c \in Benches, rec[c] # None, rec[c].project = Project(a)
      PROVE  c = b /\ Verb(a) # "create"
  BY <1>o, <1>w DEF QInv, NoSharedQuota, Used
<1>e. ASSUME pc[a] \notin {"write", "rmdata", "unrecord"} PROVE Exact
  BY <1>a, <1>e, ExactElsewhere DEF Exact
<1>p. \A c \in Benches : rec[c] # None => rec[c].project \in Projects
  BY DEF TInv, TypeOK, Records
<1>1. CASE Still(a)
  <2>1. Exact'
    BY <1>1, <1>e DEF Still, Exact, Tagged, Capped
  <2>2. Done(a)'
    <3>1. Done(a)
      BY DEF KInv
    <3>2. pc'[a] # "idle" /\ Verb(a)' # "reissue" => due' = {}
      BY <1>1, <3>1 DEF Still, Done, Verb
    <3>3. CASE pc'[a] # "unwire"
      BY <1>1, <3>2, <3>3 DEF Still, Done, Verb
    <3>4. CASE pc'[a] = "unwire" /\ Verb(a) # "reissue"
      BY <1>1, <3>2, <3>4 DEF Still, Done, Verb
    <3>5. CASE pc'[a] = "unwire" /\ Verb(a) = "reissue"
      BY <1>1, <3>1, <3>2, <3>5 DEF Still, Done, Verb, Bench, Project, Held
    <3> QED BY <3>3, <3>4, <3>5
  <2> QED BY <1>a, <2>1, <2>2, ExactSuffices
<1>2. CASE Tag(a)
  <2>1. /\ pc[a] = "tag" /\ UNCHANGED <<rec, cap, due>> /\ tag' = [tag EXCEPT ![b] = Project(a)]
        /\ Goto(a, IF Verb(a) = "create" THEN "setcap" ELSE "binds")
    BY <1>2, <1>f DEF Tag, volatile
  <2>2. pc[a] \in Loaded /\ Exact
    BY <2>1, <1>e DEF Loaded
  <2>3. /\ pc'[a] = IF Verb(a) = "create" THEN "setcap" ELSE "binds"
        /\ job'[a] = job[a]
    BY <2>1, <1>g
  <2>4. Verb(a) \in {"create", "reissue"}
    BY <2>1, <2>2, <1>w DEF VerbsAt
  <2>5. tag'[b] = Project(a) /\ \A c \in Benches \ {b} : tag'[c] = tag[c]
    BY <2>1, <2>2, <1>w DEF TInv, TypeOK
  <2>6. Exact'
    BY <2>1, <2>2, <2>5, <1>w DEF Exact, Tagged, Capped
  <2>7. Done(a)'
    <3>1. Done(a)
      BY DEF KInv
    <3> QED BY <2>1, <2>3, <2>4, <2>5, <3>1 DEF Done, Verb, Bench, Project, Held
  <2> QED BY <1>a, <2>6, <2>7, ExactSuffices
<1>3. CASE SetCap(a)
  <2>1. /\ pc[a] = "setcap" /\ UNCHANGED <<rec, tag, due>>
        /\ cap' = [cap EXCEPT ![Project(a)] = Held(a).quota]
        /\ Goto(a, IF Verb(a) = "reissue" THEN "tag" ELSE "write")
    BY <1>3, <1>f DEF SetCap, volatile
  <2>2. pc[a] \in Loaded /\ Exact
    BY <2>1, <1>e DEF Loaded
  <2>3. /\ pc'[a] = IF Verb(a) = "reissue" THEN "tag" ELSE "write"
        /\ job'[a] = job[a]
    BY <2>1, <1>g
  <2>4. Verb(a) \in {"create", "quota", "reissue"}
    BY <2>1, <2>2, <1>w DEF VerbsAt
  <2>5. cap'[Project(a)] = Held(a).quota /\ \A p \in Projects \ {Project(a)} : cap'[p] = cap[p]
    BY <2>1, <2>2, <1>w DEF TInv, TypeOK
  <2>6. \A c \in Benches : Tagged(c)' /\ (c # b => Capped(c)')
    BY <2>1, <2>2, <2>5, <1>o, <1>p DEF Exact, Tagged, Capped
  <2>7. Done(a)'
    <3>1. Done(a)
      BY DEF KInv
    <3> QED BY <2>1, <2>3, <2>4, <2>5, <3>1 DEF Done, Verb, Bench, Project, Held
  <2>8. CASE Verb(a) = "quota"
    <3>1. Writes(a, "quota", b)'
      BY <2>3, <2>8 DEF Writes, Verb, Bench
    <3> QED BY <1>a, <2>6, <2>7, <3>1 DEF KInv
  <2>9. CASE Verb(a) # "quota"
    <3>1. Verb(a) = "reissue" => Held(a) = rec[b]
      BY <2>2, <1>w, EditedNothing
    <3>2. Capped(b)'
      BY <2>1, <2>2, <2>4, <2>5, <2>9, <3>1, <1>w DEF Capped
    <3>3. Exact'
      BY <2>6, <3>2 DEF Exact
    <3> QED BY <1>a, <2>7, <3>3, ExactSuffices
  <2> QED BY <2>8, <2>9
<1>4. CASE Write(a)
  <2>1. pc[a] = "write" /\ UNCHANGED <<cap, tag, due>> /\ PutRecord(a) /\ Goto(a, "idle")
    BY <1>4, <1>f DEF Write, volatile
  <2>2. pc[a] \in Loaded /\ Done(a)
    BY <2>1 DEF Loaded, KInv
  <2>3. pc'[a] = "idle"
    BY <2>1, <1>g
  <2>4. rec'[b] = Held(a) /\ \A c \in Benches \ {b} : rec'[c] = rec[c]
    BY <2>1, <2>2, PutIs
  <2>5. ASSUME NEW c \in Benches, c # b PROVE Tagged(c)' /\ Capped(c)'
    BY <1>a, <2>1, <2>4, <2>5, ExactElsewhere DEF Tagged, Capped
  <2>6. Tagged(b)' /\ Capped(b)'
    <3>1. CASE Verb(a) = "create"
      BY <2>1, <2>2, <2>4, <3>1 DEF Done, Tagged, Capped, Project, Held
    <3>2. CASE Verb(a) # "create"
      <4>1. rec[b] # None /\ Project(a) = rec[b].project /\ b \in Benches
        BY <2>2, <3>2, <1>w
      <4>2. Tagged(b)
        BY <1>a, <2>1, <4>1 DEF KInv, Going
      <4>3. Tagged(b)'
        BY <2>1, <2>4, <4>1, <4>2 DEF Tagged, Project, Held
      <4>4. CASE Verb(a) = "quota"
        BY <2>1, <2>2, <2>4, <4>3, <4>4 DEF Done, Capped, Project, Held
      <4>5. CASE Verb(a) # "quota"
        <5>1. Capped(b)
          BY <1>a, <2>1, <4>1, <4>5 DEF KInv, Going, Writes
        <5>2. Held(a).quota = rec[b].quota
          BY <2>2, <3>2, <4>5, <1>w DEF Edited, Records
        <5> QED BY <2>1, <2>4, <4>1, <4>3, <5>1, <5>2 DEF Capped, Project, Held
      <4> QED BY <4>4, <4>5
    <3> QED BY <3>1, <3>2
  <2>7. Exact'
    BY <2>5, <2>6 DEF Exact
  <2> QED BY <1>a, <1>d, <2>3, <2>7, ExactSuffices
<1>5. CASE Uncap(a)
  <2>1. /\ pc[a] = "uncap" /\ UNCHANGED <<rec, tag, due>> /\ Goto(a, "rmdata")
        /\ cap' = [cap EXCEPT ![Project(a)] = 0]
    BY <1>5, <1>f DEF Uncap, volatile
  <2>2. pc[a] \in Loaded /\ Exact
    BY <2>1, <1>e DEF Loaded
  <2>3. pc'[a] = "rmdata" /\ job'[a] = job[a]
    BY <2>1, <1>g
  <2>4. \A p \in Projects \ {Project(a)} : cap'[p] = cap[p]
    BY <2>1, <2>2, <1>w DEF TInv, TypeOK
  <2>5. \A c \in Benches : Tagged(c)' /\ (c # b => Capped(c)')
    BY <2>1, <2>2, <2>4, <1>o, <1>p DEF Exact, Tagged, Capped
  <2>6. Done(a)'
    BY <2>1, <2>3 DEF KInv, Done, Verb
  <2>7. CASE Verb(a) = "create"
    <3>1. Capped(b)'
      BY <2>1, <2>2, <2>7, <1>w DEF Capped
    <3>2. Exact'
      BY <2>5, <3>1 DEF Exact
    <3> QED BY <1>a, <2>6, <3>2, ExactSuffices
  <2>8. CASE Verb(a) # "create"
    <3>1. Verb(a) = "destroy"
      BY <2>1, <2>2, <2>8, <1>w DEF VerbsAt
    <3>2. Going(b, {"rmdata", "unrecord"})'
      BY <2>3, <3>1 DEF Going, Verb, Bench
    <3> QED BY <1>a, <2>5, <2>6, <3>2 DEF KInv
  <2> QED BY <2>7, <2>8
<1>6. CASE RmData(a)
  <2>1. /\ pc[a] = "rmdata" /\ UNCHANGED <<rec, cap, due>> /\ tag' = [tag EXCEPT ![b] = 0]
        /\ Goto(a, IF Verb(a) = "create" THEN "idle" ELSE "unrecord")
    BY <1>6 DEF RmData, volatile
  <2>2. pc[a] \in Loaded
    BY <2>1 DEF Loaded
  <2>3. \A c \in Benches \ {b} : tag'[c] = tag[c]
    BY <2>1 DEF TInv, TypeOK
  <2>4. ASSUME NEW c \in Benches, c # b PROVE Tagged(c)' /\ Capped(c)'
    BY <1>a, <2>1, <2>3, <2>4, ExactElsewhere DEF Tagged, Capped
  <2>5. CASE Verb(a) = "create"
    <3>1. Tagged(b)' /\ Capped(b)' /\ pc'[a] = "idle"
      BY <2>1, <2>2, <2>5, <1>g, <1>w DEF Tagged, Capped
    <3>2. Exact'
      BY <2>4, <3>1 DEF Exact
    <3> QED BY <1>a, <1>d, <3>1, <3>2, ExactSuffices
  <2>6. CASE Verb(a) # "create"
    <3>1. Verb(a) = "destroy" /\ pc'[a] = "unrecord" /\ job'[a] = job[a]
      BY <2>1, <2>2, <2>6, <1>g, <1>w DEF VerbsAt
    <3>2. Going(b, {"unrecord"})' /\ Going(b, {"rmdata", "unrecord"})'
      BY <3>1 DEF Going, Verb, Bench
    <3>3. Done(a)'
      BY <2>1, <3>1 DEF KInv, Done, Verb
    <3> QED BY <1>a, <2>4, <3>2, <3>3 DEF KInv
  <2> QED BY <2>5, <2>6
<1>7. CASE Unrecord(a)
  <2>1. /\ pc[a] = "unrecord" /\ UNCHANGED <<cap, tag, due>> /\ rec' = [rec EXCEPT ![b] = None]
        /\ pc'[a] = "idle"
    BY <1>7, <1>g DEF Unrecord, volatile
  <2>2. \A c \in Benches : rec'[c] = IF c = b THEN None ELSE rec[c]
    BY <2>1 DEF TInv, TypeOK
  <2>3. ASSUME NEW c \in Benches PROVE Tagged(c)' /\ Capped(c)'
    BY <1>a, <2>1, <2>2, <2>3, ExactElsewhere DEF Tagged, Capped
  <2>4. Exact'
    BY <2>3 DEF Exact
  <2> QED BY <1>a, <1>d, <2>1, <2>4, ExactSuffices
<1>8. CASE Unwire(a)
  <2>1. /\ pc[a] = "unwire" /\ UNCHANGED <<rec, cap, tag>>
        /\ due' = IF Verb(a) = "reissue" THEN due \ {b} ELSE due
    BY <1>8 DEF Unwire, durable
  <2>2. pc[a] \in Loaded /\ Exact /\ Done(a)
    BY <2>1, <1>e DEF Loaded, KInv
  <2>3. Verb(a) \in {"run", "reset", "destroy", "reissue"}
    BY <2>1, <2>2, <1>w DEF VerbsAt
  <2>4. PICK to \in {"rm", "unmount", "idle"} : Goto(a, to) /\ (Verb(a) = "reissue" => to = "idle")
    BY <1>8, <2>3 DEF Unwire
  <2>5. CASE Verb(a) = "reissue"
    <3>1. Held(a) = rec[b]
      BY <2>2, <2>5, <1>w, EditedNothing
    <3>2. tag[b] = rec[b].project /\ cap[rec[b].project] = rec[b].quota
      BY <2>1, <2>2, <2>5, <3>1 DEF Done, Project, Held
    <3>3. Exact'
      BY <2>1, <2>2, <2>5, <3>2 DEF Exact, Tagged, Capped
    <3> QED BY <1>a, <1>d, <1>g, <2>4, <2>5, <3>3, ExactSuffices
  <2>6. CASE Verb(a) # "reissue"
    <3>1. Exact'
      BY <2>1, <2>2, <2>6 DEF Exact, Tagged, Capped
    <3>2. Done(a)'
      BY <2>1, <2>2, <2>4, <2>6, <1>g DEF Done, Verb
    <3> QED BY <1>a, <3>1, <3>2, ExactSuffices
  <2> QED BY <2>5, <2>6
<1> QED BY <1>1, <1>2, <1>3, <1>4, <1>5, <1>6, <1>7, <1>8, QuotaSteps

LEMMA RestQuota ==
  Solo /\ TInv /\ KInv /\ [Next]_vars /\ (\A a \in Actors : ~Step(a)) => KInv'
<1> SUFFICES ASSUME Solo, TInv, KInv, [Next]_vars, \A a \in Actors : ~Step(a) PROVE KInv'
  OBVIOUS
<1>1. ASSUME NEW a \in Actors, NEW v \in VerbNames, NEW b \in Benches, NEW x \in Args(v),
             Begin(a, v, b, x)
      PROVE  KInv'
  <2>1. /\ UNCHANGED <<rec, cap, tag, due>> /\ Actors = {a} /\ pc[a] = "idle"
        /\ v # "reissue" => due = {}
    BY <1>1 DEF Begin, durable, volatile, Solo
  <2>2. pc'[a] \in {"precheck", "load"} /\ job'[a].verb = v
    BY <1>1 DEF Begin, TInv, TypeOK
  <2>3. Exact'
    BY <2>1, ExactElsewhere DEF Exact, Tagged, Capped
  <2>4. Done(a)'
    BY <2>1, <2>2 DEF Done, Verb
  <2> QED BY <2>1, <2>3, <2>4, ExactSuffices
<1>2. CASE Reboot
  <2>1. /\ rec' = rec /\ due' = {b \in Benches : rec[b] # None}
        /\ \A a \in Actors : pc'[a] = "idle"
    BY <1>2 DEF Reboot, durable
  <2> QED BY <2>1 DEF KInv, Tagged, Capped, Done
<1>3. CASE UNCHANGED vars
  BY <1>3 DEF vars, durable, volatile, KInv, Tagged, Capped, Done, Going, Writes, Verb, Bench,
     Project, Held
<1> QED BY <1>1, <1>2, <1>3 DEF Next

\* Once the boot oneshot has reissued a Bench, and while no verb is at work on it,
\* its data is counted in its project and the kernel holds the recorded quota; a
\* workload has what was granted to it.  create, quota and reissue set project and
\* quota before the record is written (create, quota_set, reissue); it takes that
\* setquota, chattr, the remounts and the record writes succeed, at any reboots.
THEOREM RecordIsHeld == ASSUME Solo, WritesLand, ToolsWork PROVE Spec => []RecordHeld
<1>1. Init => QInv /\ XInv
  BY DEF Init, QInv, NoSharedQuota, HeldAgrees, XInv, HeldExact, Loaded
<1>2. Init => KInv
  BY DEF Init, KInv, Tagged, Capped, Done
<1>3. TInv /\ QInv /\ [Next]_vars => QInv'
  BY Solo, StepHeld, RestHeld
<1>4. TInv /\ QInv /\ XInv /\ [Next]_vars => XInv'
  BY Solo, NextExact
<1>5. TInv /\ QInv /\ XInv /\ KInv /\ [Next]_vars => KInv'
  BY Solo, ToolsWork, StepQuota, RestQuota
<1>6. KInv => CapApplied
  BY DEF KInv, CapApplied, Settled, Touched, Tagged, Capped, Going, Writes
<1> QED BY <1>1, <1>2, <1>3, <1>4, <1>5, <1>6, GrantsAreSeen, InitType, NextType, PTL DEF Spec, RecordHeld
=============================================================================
