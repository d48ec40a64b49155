--------------------------- MODULE EgressCapProofs ---------------------------
(***************************************************************************)
(* Proofs about EgressCap, for every set of grants, answers and failures.   *)
(***************************************************************************)
EXTENDS EgressCap, TLAPS

USE DEF Procs, Faults, Pcs

-----------------------------------------------------------------------------
(* Typing. *)

\* What a request is about fits its verb, and only the verbs that pass through a
\* program point are there: TypeOK alone is not inductive.
JobOK ==
  \A s \in Procs :
    /\ job[s].verb \in RawVerbs => job[s].arg \in RawDests
    /\ job[s].verb \in CapVerbs \cup UnlockedCli => job[s].arg \in Profiles
    /\ pc[s] = "wait" => job[s].verb \in CapVerbs \cup RawVerbs \cup LockedCli
    /\ pc[s] = "intent" => job[s].verb \in {"bless", "repin"} \cup RawVerbs
    /\ pc[s] = "resolve" => job[s].verb \in {"bless", "repin", "resolve"}
    /\ pc[s] = "settle" => job[s].verb \in {"bless", "repin", "unbless"} \cup UnlockedCli
    /\ pc[s] = "lapse" => job[s].verb = "manifest-remove"
    /\ pc[s] \in {"drop", "clear"} => job[s].verb \in {"unbless", "manifest-remove"}

Shape == TypeOK /\ JobOK

\* The diff of a typed store and kernel set is typed.
LEMMA DesiredType ==
  ASSUME TypeOK, NEW X PROVE Desired(X) \subseteq Tuples
BY DEF TypeOK, Desired

\* Every job is a record of the seven locals.
LEMMA JobType ==
  ASSUME NEW j \in Jobs
  PROVE  /\ \A x \in SUBSET Profiles : [j EXCEPT !.todo = x] \in Jobs
         /\ \A x \in BOOLEAN : [j EXCEPT !.ok = x] \in Jobs
         /\ \A x, y \in SUBSET Tuples : [j EXCEPT !.add = x, !.added = y] \in Jobs
         /\ \A x, y \in SUBSET Tuples : [j EXCEPT !.add = x, !.del = y] \in Jobs
         /\ \A x \in SUBSET Tuples : [j EXCEPT !.del = x] \in Jobs
         /\ \A x \in BOOLEAN :
              [j EXCEPT !.ok = x, !.add = {}, !.added = {}, !.del = {}] \in Jobs
BY DEF Jobs

LEMMA NoJobType ==
  /\ NoJob \in Jobs
  /\ \A v \in Verbs, a \in Profiles \cup RawDests : [NoJob EXCEPT !.verb = v, !.arg = a] \in Jobs
  /\ \A x \in SUBSET Profiles : [NoJob EXCEPT !.verb = "reconcile", !.todo = x] \in Jobs
BY DEF NoJob, Jobs, Verbs, LockedCli

\* Initially and after a reboot every part is empty.
LEMMA InitType == Init => TypeOK
<1> SUFFICES ASSUME Init PROVE TypeOK OBVIOUS
<1>1. view \in [bless : SUBSET Profiles, pin : [Profiles -> SUBSET Tuples],
                fault : [Profiles -> Faults]]
  BY DEF Init, EmptyView, NoPins
<1>2. pc \in [Procs -> Pcs] /\ job \in [Procs -> Jobs]
  BY NoJobType DEF Init
<1> QED BY <1>1, <1>2 DEF Init, TypeOK, NoPins

\* One step of a process keeps every record well formed.
LEMMA StepType ==
  ASSUME Shape, NEW s \in Procs, Step(s) PROVE TypeOK'
<1>a. TypeOK /\ JobOK
  BY DEF Shape
<1>g. /\ pc[s] \in {"resolve", "settle", "lapse", "drop", "clear"} => job[s].arg \in Profiles
      /\ pc[s] = "intent" /\ job[s].verb \in RawVerbs => job[s].arg \in RawDests
      /\ pc[s] = "intent" /\ job[s].verb \in {"bless", "repin"} => job[s].arg \in Profiles
  BY <1>a DEF JobOK, RawVerbs, CapVerbs, UnlockedCli
<1> USE <1>a
<1>j. /\ job[s] \in Jobs /\ job[s].todo \in SUBSET Profiles
      /\ job[s].add \in SUBSET Tuples /\ job[s].added \in SUBSET Tuples
      /\ job[s].del \in SUBSET Tuples
  BY DEF TypeOK, Jobs
<1>u. /\ \A j \in Jobs : [job EXCEPT ![s] = j] \in [Procs -> Jobs]
      /\ job \in [Procs -> Jobs]
  BY DEF TypeOK
<1>t. [job[s] EXCEPT !.ok = FALSE] \in Jobs /\ job[s].arg \in Profiles \cup RawDests \cup {"none"}
  BY <1>j, JobType DEF Jobs
<1>f. ASSUME NEW p \in Profiles, NEW f \in Faults, SetFault(p, f)
      PROVE  fault' \in [Profiles -> Faults]
  BY <1>f DEF TypeOK, SetFault
<1> USE DEF Goto, SetJob, Release, store
<1>1. CASE Acquire(s)
  <2>1. (IF job[s].verb = "reconcile" THEN bless ELSE {}) \in SUBSET Profiles
    BY DEF TypeOK
  <2>2. job' \in [Procs -> Jobs]
    BY <1>1, <1>j, <2>1, JobType DEF TypeOK, Acquire
  <2> QED BY <1>1, <2>2 DEF TypeOK, Acquire
<1>2. CASE IntentBless(s)
  <2>1. bless' \subseteq Profiles
    BY <1>2, <1>g DEF TypeOK, IntentBless
  <2>2. pc' \in [Procs -> Pcs]
    BY <1>2 DEF TypeOK, IntentBless
  <2> QED BY <1>2, <2>1, <2>2 DEF TypeOK, IntentBless
<1>3. CASE IntentRaw(s)
  <2>1. job' = job \/ job' = [job EXCEPT ![s] = [job[s] EXCEPT !.ok = FALSE]]
    BY <1>3 DEF IntentRaw
  <2>2. job' \in [Procs -> Jobs]
    BY <2>1, <1>t, <1>u
  <2>3. raw' \subseteq RawDests
    <3>1. /\ pc[s] = "intent" /\ job[s].verb \in RawVerbs
          /\ raw' \in {raw, raw \cup {job[s].arg}, raw \ {job[s].arg}}
      BY <1>3 DEF IntentRaw
    <3> QED BY <1>g, <3>1 DEF TypeOK
  <2>4. pc' \in [Procs -> Pcs]
    BY <1>3 DEF TypeOK, IntentRaw
  <2> QED BY <1>3, <2>2, <2>3, <2>4 DEF TypeOK, IntentRaw
<1>4. CASE Resolve(s)
  <2>1. pin' \in [Profiles -> SUBSET Tuples] /\ fault' \in [Profiles -> Faults]
    <3>1. job[s].arg \in Profiles
      BY <1>4, <1>g DEF Resolve
    <3>2. fault' = fault \/ \E f \in Faults : SetFault(job[s].arg, f)
      BY <1>4 DEF Resolve
    <3>3. fault' \in [Profiles -> Faults]
      BY <1>f, <3>1, <3>2 DEF TypeOK
    <3>4. pin' \in [Profiles -> SUBSET Tuples]
      BY <1>4, <3>1, AnswersAssumption DEF TypeOK, Resolve
    <3> QED BY <3>3, <3>4
  <2>2. job' \in [Procs -> Jobs] /\ pc' \in [Procs -> Pcs]
    <3>1. job' = job \/ job' = [job EXCEPT ![s] = [job[s] EXCEPT !.ok = FALSE]]
      BY <1>4 DEF Resolve
    <3>2. pc' = [pc EXCEPT ![s] = "plan"] \/ pc' = [pc EXCEPT ![s] = "project"]
      BY <1>4 DEF Resolve
    <3>3. job' \in [Procs -> Jobs]
      BY <3>1, <1>t, <1>u
    <3>4. pc' \in [Procs -> Pcs]
      BY <3>2 DEF TypeOK
    <3> QED BY <3>3, <3>4
  <2> QED BY <1>4, <2>1, <2>2 DEF TypeOK, Resolve
<1>5. ASSUME NEW p \in Profiles, HealOne(s, p) PROVE TypeOK'
  <2>1. job' \in [Procs -> Jobs]
    BY <1>5, <1>j, JobType DEF TypeOK, HealOne
  <2>2. pin' \in [Profiles -> SUBSET Tuples] /\ fault' \in [Profiles -> Faults]
    <3>1. fault' = fault \/ \E f \in Faults : SetFault(p, f)
      BY <1>5 DEF HealOne
    <3>2. fault' \in [Profiles -> Faults]
      BY <1>f, <3>1 DEF TypeOK
    <3>3. pin' \in [Profiles -> SUBSET Tuples]
      BY <1>5, AnswersAssumption DEF TypeOK, HealOne
    <3> QED BY <3>2, <3>3
  <2> QED BY <1>5, <2>1, <2>2 DEF TypeOK, HealOne
<1>6. CASE RawResolve(s)
  BY <1>6 DEF TypeOK, RawResolve
<1>7. ASSUME NEW ok \in BOOLEAN, ApplyReturns(s, ok)
      PROVE  pc' \in [Procs -> Pcs] /\ job' \in [Procs -> Jobs]
  <2>1. AfterApply(job[s].verb, ok) \in Pcs
    BY DEF AfterApply
  <2> QED BY <1>7, <1>j, <2>1, JobType DEF TypeOK, ApplyReturns
<1>8. CASE Plan(s)
  <2>1. Desired(Excluded(s)) \ live \in SUBSET Tuples /\ live \ Desired(Excluded(s)) \in SUBSET Tuples
    BY DesiredType DEF TypeOK
  <2>2. [job[s] EXCEPT !.add = Desired(Excluded(s)) \ live,
                       !.del = live \ Desired(Excluded(s))] \in Jobs
    BY <1>j, <2>1, JobType
  <2> QED BY <1>8, <2>2 DEF TypeOK, Plan
<1>9. CASE PlanFails(s) \/ AddFails(s) \/ Applied(s) \/ \E t \in Tuples : DelFails(s, t)
  <2>1. pc' \in [Procs -> Pcs] /\ job' \in [Procs -> Jobs]
    <3>1. \E ok \in BOOLEAN : ApplyReturns(s, ok)
      BY <1>9 DEF PlanFails, AddFails, Applied, DelFails
    <3> QED BY <1>7, <3>1
  <2>2. live' \subseteq Tuples /\ lapsed' \subseteq Profiles
    BY <1>9 DEF TypeOK, PlanFails, AddFails, Applied, DelFails
  <2> QED BY <1>9, <2>1, <2>2 DEF TypeOK, PlanFails, AddFails, Applied, DelFails
<1>10. ASSUME NEW t \in Tuples, AddElement(s, t) \/ DelElement(s, t) PROVE TypeOK'
  <2>1. job' \in [Procs -> Jobs]
    <3> DEFINE ja == [job[s] EXCEPT !.add = @ \ {t}, !.added = @ \cup {t}]
               jd == [job[s] EXCEPT !.del = @ \ {t}]
    <3>1. ja \in Jobs /\ jd \in Jobs
      BY <1>j, JobType
    <3>2. job' = [job EXCEPT ![s] = ja] \/ job' = [job EXCEPT ![s] = jd]
      BY <1>10 DEF AddElement, DelElement
    <3> HIDE DEF ja, jd
    <3> QED BY <1>u, <3>1, <3>2
  <2> QED BY <1>10, <2>1 DEF TypeOK, AddElement, DelElement
<1>11. CASE SettleFault(s) \/ DropBless(s) \/ LapseBless(s) \/ DropPin(s) \/ DropFault(s)
  <2>1. CASE SettleFault(s)
    <3>1. fault' \in [Profiles -> Faults]
      BY <1>f, <1>g, <2>1 DEF SettleFault
    <3> QED BY <2>1, <3>1 DEF TypeOK, SettleFault
  <2>2. CASE DropBless(s) BY <1>g, <2>2 DEF TypeOK, DropBless
  <2>3. CASE DropPin(s) BY <1>g, <2>3 DEF TypeOK, DropPin
  <2>4. CASE LapseBless(s)
    <3>1. job' = job \/ job' = [job EXCEPT ![s] = [job[s] EXCEPT !.ok = FALSE]]
      BY <2>4 DEF LapseBless
    <3>2. job' \in [Procs -> Jobs]
      BY <1>t, <1>u, <3>1
    <3>3. pc' \in [Procs -> Pcs]
      BY <2>4 DEF TypeOK, LapseBless
    <3>4. bless' \subseteq Profiles /\ lapsed' \subseteq Profiles
      BY <2>4 DEF TypeOK, LapseBless
    <3> QED BY <2>4, <3>2, <3>3, <3>4 DEF TypeOK, LapseBless
  <2>5. CASE DropFault(s)
    <3>1. fault' \in [Profiles -> Faults]
      BY <1>f, <1>g, <2>5 DEF DropFault
    <3> QED BY <2>5, <3>1 DEF TypeOK, DropFault
  <2> QED BY <1>11, <2>1, <2>2, <2>3, <2>4, <2>5
<1>12. CASE Project(s) \/ Leave(s)
  <2>1. pc' \in [Procs -> Pcs] /\ job' \in [Procs -> Jobs] /\ lock' \in Procs \cup {"free"}
    <3>1. Finish(s)
      BY <1>12 DEF Project, Leave
    <3>2. job' = [job EXCEPT ![s] = NoJob] /\ (lock' = lock \/ lock' = "free")
      BY <3>1 DEF Finish
    <3>3. pc' = [pc EXCEPT ![s] = "idle"] \/ pc' = [pc EXCEPT ![s] = "off"]
      BY <3>1 DEF Finish
    <3>4. job' \in [Procs -> Jobs]
      BY <3>2, NoJobType DEF TypeOK
    <3>5. pc' \in [Procs -> Pcs]
      BY <3>3 DEF TypeOK
    <3>6. lock' \in Procs \cup {"free"}
      BY <3>2 DEF TypeOK
    <3> QED BY <3>4, <3>5, <3>6
  <2>2. view' \in [bless : SUBSET Profiles, pin : [Profiles -> SUBSET Tuples],
                   fault : [Profiles -> Faults]]
    BY <1>12 DEF TypeOK, Project, Leave
  <2> QED BY <1>12, <2>1, <2>2 DEF TypeOK, Project, Leave, Finish
<1> QED
  BY <1>1, <1>2, <1>3, <1>4, <1>5, <1>6, <1>8, <1>9, <1>10, <1>11, <1>12 DEF Step

\* A step of one process leaves the other where it is.
LEMMA OtherStays ==
  ASSUME TypeOK, NEW s \in Procs, NEW o \in Procs \ {s}, Step(s)
  PROVE  pc'[o] = pc[o] /\ job'[o] = job[o]
BY DEF TypeOK, Step, Acquire, IntentBless, IntentRaw, Resolve, HealOne, RawResolve, Plan,
       PlanFails, AddFails, Applied, AddElement, DelElement, DelFails, ApplyReturns,
       SettleFault, DropBless, LapseBless, DropPin, DropFault, Project, Leave, Finish, Goto, SetJob

\* One step keeps every process's locals fitting its verb and program point.
LEMMA StepJob ==
  ASSUME Shape, NEW s \in Procs, Step(s) PROVE JobOK'
<1>a. TypeOK /\ JobOK
  BY DEF Shape
<1> USE <1>a DEF Goto, SetJob
<1>o. ASSUME NEW o \in Procs \ {s} PROVE pc'[o] = pc[o] /\ job'[o] = job[o]
  BY <1>a, OtherStays
<1> DEFINE J(v, a, p) ==
      /\ v \in RawVerbs => a \in RawDests
      /\ v \in CapVerbs \cup UnlockedCli => a \in Profiles
      /\ p = "wait" => v \in CapVerbs \cup RawVerbs \cup LockedCli
      /\ p = "intent" => v \in {"bless", "repin"} \cup RawVerbs
      /\ p = "resolve" => v \in {"bless", "repin", "resolve"}
      /\ p = "settle" => v \in {"bless", "repin", "unbless"} \cup UnlockedCli
      /\ p = "lapse" => v = "manifest-remove"
      /\ p \in {"drop", "clear"} => v \in {"unbless", "manifest-remove"}
<1>s. J(job'[s].verb, job'[s].arg, pc'[s])
  <2>j. job[s] \in Jobs /\ J(job[s].verb, job[s].arg, pc[s])
    BY DEF TypeOK, JobOK
  <2>1. CASE Acquire(s)
    BY <2>1, <2>j DEF TypeOK, Acquire, Jobs, CapVerbs, RawVerbs, UnlockedCli, LockedCli
  <2>2. CASE IntentBless(s) \/ IntentRaw(s) \/ RawResolve(s)
    BY <2>2, <2>j DEF TypeOK, IntentBless, IntentRaw, RawResolve, Jobs
  <2>3. CASE Resolve(s)
    BY <2>3, <2>j DEF TypeOK, Resolve, Jobs
  <2>4. CASE \E p \in Profiles : HealOne(s, p)
    BY <2>4, <2>j DEF TypeOK, HealOne, Jobs
  <2>5. CASE Plan(s) \/ \E t \in Tuples : AddElement(s, t) \/ DelElement(s, t)
    <3>1. job'[s].verb = job[s].verb /\ job'[s].arg = job[s].arg
      <4>1. CASE Plan(s)
        BY <4>1, <2>j DEF TypeOK, Plan, Jobs
      <4>2. ASSUME NEW t \in Tuples, AddElement(s, t)
            PROVE  job'[s].verb = job[s].verb /\ job'[s].arg = job[s].arg
        BY <4>2, <2>j DEF TypeOK, AddElement, Jobs
      <4>3. ASSUME NEW t \in Tuples, DelElement(s, t)
            PROVE  job'[s].verb = job[s].verb /\ job'[s].arg = job[s].arg
        BY <4>3, <2>j DEF TypeOK, DelElement, Jobs
      <4> QED BY <2>5, <4>1, <4>2, <4>3
    <3>2. pc'[s] = "nft"
      BY <2>5 DEF TypeOK, Plan, AddElement, DelElement
    <3> QED BY <3>1, <3>2, <2>j
  <2>6. CASE PlanFails(s) \/ AddFails(s) \/ Applied(s) \/ \E t \in Tuples : DelFails(s, t)
    <3>1. PICK ok \in BOOLEAN : ApplyReturns(s, ok)
      BY <2>6 DEF PlanFails, AddFails, Applied, DelFails
    <3>2. pc'[s] = AfterApply(job[s].verb, ok) /\ job'[s].verb = job[s].verb /\ job'[s].arg = job[s].arg
      BY <3>1, <2>j DEF TypeOK, ApplyReturns, Jobs
    <3> QED BY <3>2, <2>j DEF AfterApply, CapVerbs, UnlockedCli
  <2>7. CASE SettleFault(s) \/ DropBless(s) \/ DropPin(s) \/ DropFault(s)
    BY <2>7, <2>j DEF TypeOK, SettleFault, DropBless, DropPin, DropFault
  <2>9. CASE LapseBless(s)
    BY <2>9, <2>j DEF TypeOK, LapseBless, Jobs
  <2>8. CASE Project(s) \/ Leave(s)
    BY <2>8 DEF TypeOK, Project, Leave, Finish, NoJob, CapVerbs, RawVerbs, UnlockedCli
  <2> QED BY <2>1, <2>2, <2>3, <2>4, <2>5, <2>6, <2>7, <2>8, <2>9 DEF Step
<1> QED BY <1>o, <1>s DEF JobOK

\* Starting, asking, dying and rebooting.
LEMMA NextShape == Shape /\ [Next]_vars => Shape'
<1> SUFFICES ASSUME Shape, [Next]_vars PROVE Shape' OBVIOUS
<1>a. TypeOK /\ JobOK
  BY DEF Shape
<1> USE <1>a DEF Goto, SetJob, Release, store, Shape
<1>0. JobOK => \A s \in Procs : NoJob.verb \notin RawVerbs \cup CapVerbs \cup UnlockedCli
  BY DEF NoJob, RawVerbs, CapVerbs, UnlockedCli
<1>1. CASE DaemonStart
  <2>1. [NoJob EXCEPT !.verb = "reconcile", !.todo = bless] \in Jobs
    BY NoJobType DEF TypeOK
  <2>2. TypeOK'
    BY <1>1, <2>1 DEF TypeOK, DaemonStart
  <2>3. JobOK'
    BY <1>1 DEF TypeOK, DaemonStart, JobOK, NoJob, RawVerbs, CapVerbs, UnlockedCli
  <2> QED BY <2>2, <2>3
<1>2. ASSUME NEW v \in Verbs, NEW a \in Profiles \cup RawDests, Request(v, a) \/ CliStart(v, a)
      PROVE  Shape'
  <2>1. [NoJob EXCEPT !.verb = v, !.arg = a] \in Jobs
    BY NoJobType
  <2>2. TypeOK'
    BY <1>2, <2>1 DEF TypeOK, Request, CliStart
  <2>3. CASE Request(v, a)
    BY <1>a, <2>2, <2>3 DEF TypeOK, Request, JobOK, NoJob, RawVerbs, CapVerbs, UnlockedCli
  <2>4. CASE CliStart(v, a)
    <3>1. v \in LockedCli \cup UnlockedCli /\ a \in Profiles
      BY <2>4, EnvironmentAssumption DEF CliStart
    <3> QED BY <2>2, <2>4, <3>1
        DEF TypeOK, CliStart, JobOK, NoJob, RawVerbs, CapVerbs, UnlockedCli, LockedCli
  <2> QED BY <1>2, <2>3, <2>4
<1>3. ASSUME NEW s \in Procs, Crash(s) PROVE Shape'
  <2>1. TypeOK'
    BY <1>3, NoJobType DEF TypeOK, Crash
  <2> QED BY <1>3, <2>1 DEF TypeOK, Crash, JobOK, NoJob, RawVerbs, CapVerbs, UnlockedCli
<1>4. CASE Reboot
  <2>1. view' \in [bless : SUBSET Profiles, pin : [Profiles -> SUBSET Tuples],
                   fault : [Profiles -> Faults]]
    BY <1>4 DEF Reboot, EmptyView, NoPins
  <2>2. TypeOK'
    BY <1>4, <2>1, NoJobType DEF TypeOK, Reboot
  <2> QED BY <1>4, <2>2 DEF Reboot, JobOK, NoJob, RawVerbs, CapVerbs, UnlockedCli
<1>5. CASE UNCHANGED vars
  BY <1>5 DEF TypeOK, JobOK, vars
<1> QED BY <1>1, <1>2, <1>3, <1>4, <1>5, StepType, StepJob DEF Next

LEMMA InitShape == Init => Shape
BY InitType DEF Init, Shape, JobOK, NoJob, RawVerbs, CapVerbs, UnlockedCli

\* The store, the kernel set, the projections and the locals keep their types.
THEOREM TypeCorrect == Spec => []TypeOK
<1>1. Shape => TypeOK
  BY DEF Shape
<1> QED BY <1>1, InitShape, NextShape, PTL DEF Spec
-----------------------------------------------------------------------------
(* Nothing is allowed that is not granted. *)

\* What may be allowed while process s is at work: during an unbless, without
\* the profile that is going.
Allow(s) == Cover((bless \ Excluded(s)) \cup RawDests)

\* A process at work holds the store lock, but for the boot reconcile.
LockOK ==
  \A s \in Procs :
    Busy(s) /\ ~(s = "daemon" /\ job[s].verb = "reconcile") => lock = s

\* Only reconcile runs on the command line, and it revokes nothing.
CliOK ==
  pc["cli"] # "off" => job["cli"].verb = "reconcile"

\* What is stored for a grant is an answer for that grant.
AnswerOK ==
  /\ \A p \in Profiles : pin[p] \subseteq Answers[p]
  /\ \A r \in RawDests : rawPins[r] \subseteq Answers[r]

\* The diff a process is applying leads to a set its grants allow.
PlanOK ==
  \A s \in Procs :
    /\ pc[s] = "nft" => job[s].add \subseteq Allow(s) /\ live \ job[s].del \subseteq Allow(s)
    /\ pc[s] = "settle" /\ job[s].verb = "unbless" /\ job[s].ok => live \subseteq Allow(s)

IInv == Shape /\ LockOK /\ CliOK /\ AnswerOK /\ PlanOK /\ GrantedOnly

LEMMA CoverMono ==
  ASSUME NEW A, NEW B, A \subseteq B PROVE Cover(A) \subseteq Cover(B)
BY DEF Cover

\* The union an apply aims at is allowed by the grants it was computed from.
LEMMA DesiredAllowed ==
  ASSUME Shape, AnswerOK, NEW s \in Procs PROVE Desired(Excluded(s)) \subseteq Allow(s)
BY DEF Shape, TypeOK, AnswerOK, Desired, Allow, Cover

LEMMA InitIInv == Init => IInv
<1> SUFFICES ASSUME Init PROVE IInv OBVIOUS
<1>1. Shape
  BY InitShape
<1> QED BY <1>1 DEF Init, IInv, LockOK, CliOK, AnswerOK, PlanOK, GrantedOnly, Busy, NoPins

\* A handler's verb and argument do not change before it replies.
LEMMA StepVerb ==
  ASSUME Shape, NEW s \in Procs, Step(s), ~Project(s), ~Leave(s)
  PROVE  job'[s].verb = job[s].verb /\ job'[s].arg = job[s].arg
<1>a. TypeOK /\ job[s] \in Jobs
  BY DEF Shape, TypeOK
<1> USE <1>a DEF SetJob, Jobs, TypeOK
<1> DEFINE Same == job'[s].verb = job[s].verb /\ job'[s].arg = job[s].arg
<1>1. CASE Acquire(s)
  BY <1>1 DEF Acquire
<1>2. CASE \/ IntentBless(s) \/ RawResolve(s) \/ SettleFault(s) \/ DropBless(s) \/ DropPin(s)
           \/ DropFault(s)
  BY <1>2 DEF IntentBless, RawResolve, SettleFault, DropBless, DropPin, DropFault
<1>3. CASE IntentRaw(s) \/ Resolve(s) \/ LapseBless(s)
  BY <1>3 DEF IntentRaw, Resolve, LapseBless
<1>4. ASSUME NEW p \in Profiles, HealOne(s, p) PROVE Same
  BY <1>4 DEF HealOne
<1>5. CASE Plan(s)
  BY <1>5 DEF Plan
<1>6. ASSUME NEW ok \in BOOLEAN, ApplyReturns(s, ok) PROVE Same
  BY <1>6 DEF ApplyReturns
<1>7. ASSUME NEW t \in Tuples, AddElement(s, t) PROVE Same
  BY <1>7 DEF AddElement
<1>8. ASSUME NEW t \in Tuples, DelElement(s, t) PROVE Same
  BY <1>8 DEF DelElement
<1>9. CASE PlanFails(s) \/ AddFails(s) \/ Applied(s) \/ \E t \in Tuples : DelFails(s, t)
  BY <1>6, <1>9 DEF PlanFails, AddFails, Applied, DelFails
<1> HIDE DEF Same
<1> QED BY <1>1, <1>2, <1>3, <1>4, <1>5, <1>7, <1>8, <1>9 DEF Step, Same

\* Every step of a process keeps the lock discipline.
LEMMA StepLock ==
  ASSUME IInv, NEW s \in Procs, Step(s) PROVE LockOK' /\ CliOK'
<1>a. Shape /\ TypeOK /\ JobOK /\ LockOK /\ CliOK
  BY DEF IInv, Shape
<1> USE <1>a DEF Goto, SetJob
<1>o. ASSUME NEW o \in Procs \ {s} PROVE pc'[o] = pc[o] /\ job'[o] = job[o]
  BY <1>a, OtherStays
<1>1. CASE Acquire(s)
  <2>1. lock = "free" /\ lock' = s /\ pc[s] = "wait" /\ job'[s].verb = job[s].verb
    BY <1>1 DEF TypeOK, Acquire, Jobs
  <2>2. ASSUME NEW o \in Procs \ {s} PROVE ~Busy(o) \/ (o = "daemon" /\ job[o].verb = "reconcile")
    BY <2>1 DEF LockOK
  <2>3. pc'[s] # "off"
    BY <1>1 DEF TypeOK, Acquire
  <2>4. ASSUME NEW o \in Procs \ {s}
        PROVE  Busy(o)' => (o = "daemon" /\ job'[o].verb = "reconcile")
    BY <2>2, <1>o DEF Busy
  <2>5. LockOK'
    BY <2>1, <2>4 DEF LockOK
  <2>6. CliOK'
    BY <2>1, <1>o DEF CliOK
  <2> QED BY <2>5, <2>6
<1>2. CASE ~Acquire(s) /\ ~Project(s) /\ ~Leave(s)
  <2>a. lock' = lock /\ pc[s] \notin {"off", "idle", "wait"}
    BY <1>2 DEF Step, IntentBless, IntentRaw, Resolve, HealOne, RawResolve, Plan,
         PlanFails, AddFails, Applied, AddElement, DelElement, DelFails, ApplyReturns,
         SettleFault, DropBless, LapseBless, DropPin, DropFault
  <2>b. job'[s].verb = job[s].verb
    BY <1>2, StepVerb
  <2>1. lock' = lock /\ pc[s] \notin {"off", "idle", "wait"} /\ job'[s].verb = job[s].verb
    BY <2>a, <2>b
  <2>2. ASSUME NEW o \in Procs, Busy(o)' PROVE Busy(o) /\ job'[o].verb = job[o].verb
    BY <2>1, <2>2, <1>o DEF Busy
  <2>3. LockOK'
    BY <2>1, <2>2 DEF LockOK
  <2>4. CliOK'
    BY <2>1, <1>o DEF CliOK
  <2> QED BY <2>3, <2>4
<1>3. CASE Project(s) \/ Leave(s)
  <2>1. Finish(s) /\ Busy(s)
    BY <1>3 DEF Project, Leave, Busy
  <2>2. ~Busy(s)' /\ (s = "cli" => pc'[s] = "off")
    BY <2>1 DEF TypeOK, Finish, Busy
  <2>3. ASSUME NEW o \in Procs \ {s} PROVE Busy(o)' = Busy(o)
    BY <1>o DEF Busy
  <2>4. ASSUME NEW o \in Procs \ {s} PROVE lock = o => lock' = o
    BY <2>1 DEF Finish, Release
  <2>5. LockOK'
    BY <2>2, <2>3, <2>4, <1>o DEF LockOK
  <2> QED BY <2>2, <2>5, <1>o DEF CliOK
<1> QED BY <1>1, <1>2, <1>3

\* Every stored answer comes from the resolver, asked for that grant.
LEMMA StepAnswer ==
  ASSUME IInv, NEW s \in Procs, Step(s) PROVE AnswerOK'
<1>a. TypeOK /\ AnswerOK
  BY DEF IInv, Shape
<1>1. CASE Resolve(s)
  BY <1>a, <1>1 DEF TypeOK, AnswerOK, Resolve
<1>2. ASSUME NEW p \in Profiles, HealOne(s, p) PROVE AnswerOK'
  BY <1>a, <1>2 DEF TypeOK, AnswerOK, HealOne
<1>3. CASE RawResolve(s)
  <2>1. CASE UNCHANGED rawPins
    BY <1>a, <1>3, <2>1 DEF AnswerOK, RawResolve
  <2>2. ASSUME NEW ans \in [raw -> SUBSET Tuples],
               \A r \in raw : RawAnswer(r, ans[r]),
               rawPins' = [r \in RawDests |-> IF r \in raw THEN ans[r] ELSE {}]
        PROVE  AnswerOK'
    <3>1. ASSUME NEW r \in RawDests PROVE rawPins'[r] \subseteq Answers[r]
      BY <1>a, <2>2 DEF TypeOK, RawAnswer
    <3> QED BY <1>a, <1>3, <3>1 DEF AnswerOK, RawResolve
  <2> QED BY <1>3, <2>1, <2>2 DEF RawResolve
<1>4. CASE DropPin(s)
  BY <1>a, <1>4 DEF TypeOK, AnswerOK, DropPin
<1>5. CASE ~Resolve(s) /\ ~RawResolve(s) /\ ~DropPin(s) /\ ~\E p \in Profiles : HealOne(s, p)
  <2>1. pin' = pin /\ rawPins' = rawPins
    BY <1>5 DEF Step, Acquire, IntentBless, IntentRaw, Plan, PlanFails, AddFails, Applied,
         AddElement, DelElement, DelFails, SettleFault, DropBless, LapseBless, DropFault,
         Project, Leave, store
  <2> QED BY <1>a, <2>1 DEF AnswerOK
<1> QED BY <1>1, <1>2, <1>3, <1>4, <1>5
\* Two processes are at work together only to reconcile.
LEMMA BusyTogether ==
  ASSUME IInv, NEW s \in Procs, NEW o \in Procs \ {s}, Busy(s), Busy(o)
  PROVE  job[s].verb = "reconcile" /\ job[o].verb = "reconcile"
BY DEF IInv, LockOK, CliOK, Busy

\* Every step of a process leads to a kernel set the grants allow.
LEMMA StepPlan ==
  ASSUME IInv, NEW s \in Procs, Step(s) PROVE PlanOK' /\ GrantedOnly'
<1>a. TypeOK /\ JobOK /\ Shape /\ LockOK /\ CliOK /\ AnswerOK /\ PlanOK /\ GrantedOnly
  BY DEF IInv, Shape
<1>o. ASSUME NEW o \in Procs \ {s} PROVE pc'[o] = pc[o] /\ job'[o] = job[o]
  BY <1>a, OtherStays
<1>b. ASSUME NEW o \in Procs \ {s} PROVE Excluded(o)' = Excluded(o)
  BY <1>o DEF Excluded
<1>c. \A X : X \subseteq Allow(s) => X \subseteq Cover(bless \cup RawDests)
  BY DEF Allow, Cover
<1>d. Cover(bless \cup RawDests) \subseteq Cover(bless \cup lapsed \cup RawDests)
  BY CoverMono
<1> DEFINE P(o) ==
      /\ pc[o] = "nft" => job[o].add \subseteq Allow(o) /\ live \ job[o].del \subseteq Allow(o)
      /\ pc[o] = "settle" /\ job[o].verb = "unbless" /\ job[o].ok => live \subseteq Allow(o)
<1>p. \A o \in Procs : P(o)
  BY <1>a DEF PlanOK
<1>q. (\A o \in Procs : P(o)') => PlanOK'
  BY DEF PlanOK
<1> HIDE DEF P
\* Nothing is blessed, revoked, opened or closed, and the process is not applying.
<1>1. ASSUME live' = live, bless' = bless, lapsed' = lapsed, pc'[s] \notin {"nft", "settle"}
      PROVE  PlanOK' /\ GrantedOnly'
  <2>1. ASSUME NEW o \in Procs \ {s} PROVE P(o)'
    BY <1>1, <1>o, <1>b, <1>p DEF P, Allow
  <2>2. P(s)'
    BY <1>1 DEF P
  <2> QED BY <1>a, <1>1, <1>q, <2>1, <2>2 DEF GrantedOnly
<1>2. CASE \/ Acquire(s) \/ IntentRaw(s) \/ Resolve(s) \/ RawResolve(s) \/ SettleFault(s)
           \/ DropPin(s) \/ DropFault(s) \/ Project(s) \/ Leave(s)
           \/ \E p \in Profiles : HealOne(s, p)
  <2>1. live' = live /\ bless' = bless /\ lapsed' = lapsed
    BY <1>2 DEF Acquire, IntentRaw, Resolve, RawResolve, SettleFault, DropPin, DropFault, Project,
         Leave, HealOne, store
  <2>2. pc'[s] \notin {"nft", "settle"}
    <3>1. CASE \/ Acquire(s) \/ IntentRaw(s) \/ Resolve(s) \/ RawResolve(s)
               \/ \E p \in Profiles : HealOne(s, p)
      BY <1>a, <3>1 DEF TypeOK, Acquire, IntentRaw, Resolve, RawResolve, HealOne, Goto
    <3>2. CASE SettleFault(s) \/ DropPin(s) \/ DropFault(s) \/ Project(s) \/ Leave(s)
      BY <1>a, <3>2 DEF TypeOK, SettleFault, DropPin, DropFault, Project, Leave, Finish, Goto
    <3> QED BY <1>2, <3>1, <3>2
  <2> QED BY <1>1, <2>1, <2>2
<1>3. CASE IntentBless(s)
  <2>1. live' = live /\ bless \subseteq bless' /\ lapsed' = lapsed /\ pc'[s] = "resolve"
    BY <1>a, <1>3 DEF TypeOK, IntentBless, Goto
  <2>2. ASSUME NEW o \in Procs \ {s} PROVE Allow(o) \subseteq Allow(o)'
    BY <2>1, <1>b DEF Allow, Cover
  <2>3. ASSUME NEW o \in Procs \ {s} PROVE P(o)'
    BY <2>1, <2>2, <1>o, <1>p DEF P
  <2>4. P(s)'
    BY <2>1 DEF P
  <2>5. GrantedOnly'
    BY <1>a, <2>1 DEF GrantedOnly, Cover
  <2> QED BY <1>q, <2>3, <2>4, <2>5
\* The steps of apply_cap: the records stay, and what is opened is granted.
<1>4. ASSUME bless' = bless, Busy(s), job'[s].verb = job[s].verb, job'[s].arg = job[s].arg,
             P(s)', live' \subseteq live \cup Allow(s),
             live' \subseteq Cover(bless \cup lapsed' \cup RawDests)
      PROVE  PlanOK' /\ GrantedOnly'
  <2>1. ASSUME NEW o \in Procs \ {s} PROVE P(o)'
    <3>1. CASE Busy(o)
      <4>1. job[o].verb = "reconcile" /\ job[s].verb = "reconcile"
        BY <1>4, <3>1, BusyTogether
      <4>2. Allow(o) = Allow(s) /\ Allow(o)' = Allow(o)
        BY <4>1, <1>4, <1>b DEF Allow, Excluded
      <4>3. pc[o] = "nft" => job[o].add \subseteq Allow(o) /\ live \ job[o].del \subseteq Allow(o)
        BY <1>p DEF P
      <4>4. pc[o] = "nft" => live' \ job[o].del \subseteq Allow(o)
        BY <1>4, <4>2, <4>3
      <4> QED BY <4>1, <4>2, <4>3, <4>4, <1>o DEF P
    <3>2. CASE ~Busy(o)
      BY <3>2, <1>o DEF Busy, P
    <3> QED BY <3>1, <3>2
  <2> QED BY <1>4, <1>q, <2>1 DEF GrantedOnly
<1>v. ASSUME ~Project(s), ~Leave(s)
      PROVE  job'[s].verb = job[s].verb /\ job'[s].arg = job[s].arg
  BY <1>a, <1>v, StepVerb
<1>e. ASSUME bless' = bless, job'[s].verb = job[s].verb, job'[s].arg = job[s].arg
      PROVE  Allow(s)' = Allow(s)
  BY <1>e DEF Allow, Excluded
<1>5. CASE Plan(s)
  <2>1. /\ job'[s].add = Desired(Excluded(s)) \ live /\ job'[s].del = live \ Desired(Excluded(s))
        /\ live' = live /\ bless' = bless /\ lapsed' = lapsed /\ Busy(s) /\ pc'[s] = "nft"
    BY <1>a, <1>5 DEF TypeOK, Plan, Goto, SetJob, Jobs, Busy, store
  <2>2. job'[s].verb = job[s].verb /\ job'[s].arg = job[s].arg
    BY <1>5, <1>v DEF Plan, Project, Leave
  <2>3. Desired(Excluded(s)) \subseteq Allow(s)'
    BY <1>a, <1>e, <2>1, <2>2, DesiredAllowed
  <2>4. P(s)'
    BY <2>1, <2>3 DEF P
  <2> QED BY <1>4, <1>a, <2>1, <2>2, <2>4 DEF GrantedOnly
<1>6. CASE PlanFails(s) \/ AddFails(s) \/ \E t \in Tuples : DelFails(s, t)
  <2>1. live' \subseteq live /\ bless' = bless /\ lapsed' = lapsed /\ Busy(s) /\ ApplyReturns(s, FALSE)
    BY <1>6 DEF PlanFails, AddFails, DelFails, Busy, store
  <2>2. pc'[s] # "nft" /\ job'[s].ok = FALSE
    BY <1>a, <2>1 DEF TypeOK, ApplyReturns, AfterApply, Goto, SetJob, Jobs
  <2>3. job'[s].verb = job[s].verb /\ job'[s].arg = job[s].arg
    BY <1>6, <1>v DEF PlanFails, AddFails, DelFails, Project, Leave
  <2>4. P(s)'
    BY <2>2 DEF P
  <2> QED BY <1>4, <1>a, <2>1, <2>3, <2>4 DEF GrantedOnly
<1>7. ASSUME NEW t \in Tuples, AddElement(s, t) \/ DelElement(s, t)
      PROVE  PlanOK' /\ GrantedOnly'
  <2>1. bless' = bless /\ lapsed' = lapsed /\ Busy(s) /\ pc[s] = "nft" /\ pc'[s] = "nft"
    BY <1>a, <1>7 DEF TypeOK, AddElement, DelElement, Busy, store
  <2>2. job'[s].verb = job[s].verb /\ job'[s].arg = job[s].arg
    BY <1>7, <1>v DEF AddElement, DelElement, Project, Leave
  <2>3. job[s].add \subseteq Allow(s) /\ live \ job[s].del \subseteq Allow(s)
    BY <1>p, <2>1 DEF P
  <2>4. /\ job'[s].add \subseteq job[s].add
        /\ live' \ job'[s].del \subseteq (live \ job[s].del) \cup job[s].add
        /\ live' \subseteq live \cup job[s].add
    <3>1. CASE AddElement(s, t)
      BY <1>a, <3>1 DEF TypeOK, AddElement, SetJob, Jobs
    <3>2. CASE DelElement(s, t)
      BY <1>a, <3>2 DEF TypeOK, DelElement, SetJob, Jobs
    <3> QED BY <1>7, <3>1, <3>2
  <2>5. P(s)'
    BY <1>e, <2>1, <2>2, <2>3, <2>4 DEF P
  <2>6. live' \subseteq Cover(bless \cup lapsed' \cup RawDests)
    <3>1. live \subseteq Cover(bless \cup lapsed \cup RawDests)
      BY <1>a DEF GrantedOnly
    <3>2. job[s].add \subseteq Cover(bless \cup lapsed \cup RawDests)
      BY <1>c, <1>d, <2>3
    <3> QED BY <2>1, <2>4, <3>1, <3>2
  <2>7. live' \subseteq live \cup Allow(s)
    BY <2>3, <2>4
  <2> QED BY <1>4, <2>1, <2>2, <2>5, <2>6, <2>7
\* An apply that went through leaves nothing that is not granted now.
<1>8. CASE Applied(s)
  <2>1. /\ live' = live /\ bless' = bless /\ lapsed' = {} /\ Busy(s) /\ ApplyReturns(s, TRUE)
        /\ pc[s] = "nft" /\ job[s].del = {}
    BY <1>8 DEF Applied, Busy, store
  <2>2. pc'[s] # "nft"
    BY <1>a, <2>1 DEF TypeOK, ApplyReturns, AfterApply, Goto
  <2>3. job'[s].verb = job[s].verb /\ job'[s].arg = job[s].arg
    BY <1>8, <1>v DEF Applied, Project, Leave
  <2>4. live \subseteq Allow(s)
    BY <1>p, <2>1 DEF P
  <2>5. P(s)'
    BY <1>e, <2>1, <2>2, <2>3, <2>4 DEF P
  <2>6. live' \subseteq Cover(bless \cup lapsed' \cup RawDests)
    BY <1>c, <2>1, <2>4
  <2> QED BY <1>4, <2>1, <2>3, <2>5, <2>6
<1>9. CASE DropBless(s)
  <2>1. /\ live' = live /\ Busy(s) /\ pc[s] = "settle" /\ pc'[s] = "drop"
        /\ job[s].verb = "unbless" /\ job[s].ok
        /\ bless' = bless \/ bless' = bless \ Excluded(s)
    BY <1>a, <1>9 DEF TypeOK, DropBless, Goto, Excluded, Busy
  <2>2. live \subseteq Allow(s)
    BY <1>p, <2>1 DEF P
  <2>3. live' \subseteq Cover(bless' \cup lapsed' \cup RawDests)
    BY <2>1, <2>2 DEF Allow, Cover
  <2>4. ASSUME NEW o \in Procs \ {s} PROVE P(o)'
    <3>1. ~Busy(o)
      BY <2>1, BusyTogether
    <3> QED BY <1>o, <3>1 DEF Busy, P
  <2>5. P(s)'
    BY <2>1 DEF P
  <2> QED BY <1>q, <2>3, <2>4, <2>5 DEF GrantedOnly
\* A record that goes ahead of the kernel is remembered.
<1>10. CASE LapseBless(s)
  <2>1. /\ live' = live /\ Busy(s) /\ pc'[s] \in {"drop", "leave"} /\ job[s].verb = "manifest-remove"
        /\ bless \cup lapsed \subseteq bless' \cup lapsed'
    BY <1>a, <1>10 DEF TypeOK, JobOK, LapseBless, Goto, Busy
  <2>2. GrantedOnly'
    BY <1>a, <2>1 DEF GrantedOnly, Cover
  <2>3. ASSUME NEW o \in Procs \ {s} PROVE P(o)'
    <3>1. ~Busy(o)
      BY <2>1, BusyTogether
    <3> QED BY <1>o, <3>1 DEF Busy, P
  <2>4. P(s)'
    BY <2>1 DEF P
  <2> QED BY <1>q, <2>2, <2>3, <2>4
<1> QED
  BY <1>2, <1>3, <1>5, <1>6, <1>7, <1>8, <1>9, <1>10 DEF Step

\* Every step of the system keeps the invariant, when the command line runs
\* only what takes the store lock.
LEMMA NextIInv ==
  ASSUME CliVerbs \subseteq LockedCli, IInv, [Next]_vars PROVE IInv'
<1>a. TypeOK /\ JobOK /\ Shape /\ LockOK /\ CliOK /\ AnswerOK /\ PlanOK /\ GrantedOnly
  BY DEF IInv, Shape
<1>s. Shape'
  BY <1>a, NextShape
<1> DEFINE Rest == (LockOK /\ CliOK /\ AnswerOK /\ PlanOK /\ GrantedOnly)'
<1>1. ASSUME NEW s \in Procs, Step(s) PROVE Rest
  BY <1>1, StepLock, StepAnswer, StepPlan
\* A process starts or stops: the store stays and it is not applying.
<1>2. ASSUME NEW s \in Procs, UNCHANGED <<store, live, lapsed>>, pc'[s] \in {"off", "wait", "heal"},
             \A o \in Procs \ {s} : pc'[o] = pc[o] /\ job'[o] = job[o] /\ (lock = o => lock' = o),
             Busy(s)' => s = "daemon" /\ job'[s].verb = "reconcile",
             s = "cli" /\ pc'[s] # "off" => job'[s].verb = "reconcile"
      PROVE  Rest
  <2>1. LockOK'
    BY <1>a, <1>2 DEF LockOK, Busy
  <2>2. CliOK'
    BY <1>a, <1>2 DEF CliOK
  <2>3. AnswerOK' /\ GrantedOnly'
    BY <1>a, <1>2 DEF AnswerOK, GrantedOnly, store
  <2>4. ASSUME NEW o \in Procs, pc'[o] \in {"nft", "settle"}
        PROVE  pc[o] = pc'[o] /\ job[o] = job'[o] /\ Allow(o)' = Allow(o)
    BY <1>2, <2>4 DEF Allow, Excluded, store
  <2>5. PlanOK'
    BY <1>a, <1>2, <2>4 DEF PlanOK, store
  <2> QED BY <2>1, <2>2, <2>3, <2>5
<1>3. ASSUME DaemonStart PROVE Rest
  BY <1>a, <1>2, <1>3 DEF TypeOK, DaemonStart, Goto, SetJob, NoJob, Busy
<1>4. ASSUME NEW v \in Verbs, NEW a \in Profiles \cup RawDests, Request(v, a)
      PROVE  Rest
  BY <1>a, <1>2, <1>4 DEF TypeOK, Request, Goto, SetJob, NoJob, Busy
<1>5. ASSUME NEW v \in Verbs, NEW a \in Profiles \cup RawDests, CliStart(v, a)
      PROVE  Rest
  BY <1>a, <1>2, <1>5 DEF TypeOK, CliStart, Goto, SetJob, NoJob, Busy, LockedCli
<1>6. ASSUME NEW s \in Procs, Crash(s) PROVE Rest
  BY <1>a, <1>2, <1>6 DEF TypeOK, Crash, Goto, SetJob, Release, Busy
<1>7. ASSUME Reboot PROVE Rest
  <2>1. pc' = [s \in Procs |-> "off"] /\ live' = {} /\ UNCHANGED store
    BY <1>7 DEF Reboot
  <2> QED BY <1>a, <2>1
      DEF LockOK, CliOK, AnswerOK, PlanOK, GrantedOnly, Busy, store
<1>8. ASSUME UNCHANGED vars PROVE Rest
  BY <1>a, <1>8 DEF vars, store, LockOK, CliOK, AnswerOK, PlanOK, GrantedOnly, Busy, Allow, Excluded
<1> QED
  BY <1>s, <1>1, <1>3, <1>4, <1>5, <1>6, <1>7, <1>8 DEF Next, IInv

\* No element stays live for a profile whose bless record is gone, through any
\* failure, crash or reboot, as long as every process that applies takes the
\* store lock or is the boot reconcile; but for a record that a manifest removal
\* (confirmed_manifest_remove) dropped ahead of the kernel, until an apply goes
\* through.
THEOREM RevokedIsGone ==
  ASSUME CliVerbs \subseteq LockedCli PROVE Spec => []GrantedOnly
<1>1. Init => IInv
  BY InitIInv
<1>2. IInv /\ [Next]_vars => IInv'
  BY NextIInv
<1>3. IInv => GrantedOnly
  BY DEF IInv
<1> QED BY <1>1, <1>2, <1>3, PTL DEF Spec
-----------------------------------------------------------------------------
(* The supervisor implements the promise. *)

\* What the promise allows to the grants on record.
LEMMA AllowableIs ==
  ASSUME NEW G, G \subseteq Profiles
  PROVE  Promise!Allowable(G \cup raw) = Cover(G \cup raw \cup RawDests)
BY AnswersAssumption DEF Promise!Allowable, Promise!Covered, Cover

\* A step that neither grants, revokes nor opens is a stutter or a closing.
LEMMA OnlyCloses ==
  ASSUME bless' = bless, raw' = raw, live' \subseteq live, lapsed' = lapsed
  PROVE  [Promise!Next]_<<bless \cup raw, live, lapsed>>
<1>1. live \ live' \in SUBSET live /\ live' = live \ (live \ live')
  OBVIOUS
<1>2. Promise!Close(live \ live')
  BY <1>1 DEF Promise!Close
<1> QED BY <1>1, <1>2 DEF Promise!Next

\* Each of a process's steps grants, revokes, opens or closes.
LEMMA StepPromise ==
  ASSUME IInv, NEW s \in Procs, Step(s)
  PROVE  [Promise!Next]_<<bless \cup raw, live, lapsed>>
<1>a. TypeOK /\ JobOK /\ PlanOK
  BY DEF IInv, Shape
<1>1. CASE IntentBless(s)
  <2>1. job[s].arg \in Profiles
    BY <1>a, <1>1 DEF IntentBless, JobOK, CapVerbs
  <2>2. CASE bless' = bless \cup {job[s].arg}
    <3>1. Promise!Grant(job[s].arg)
      BY <1>1, <2>2 DEF IntentBless, Promise!Grant
    <3> QED BY <2>1, <3>1 DEF Promise!Next
  <2>3. CASE UNCHANGED bless
    BY <1>1, <2>3, OnlyCloses DEF IntentBless
  <2> QED BY <1>1, <2>2, <2>3 DEF IntentBless
<1>2. CASE IntentRaw(s)
  <2>1. job[s].arg \in RawDests /\ job[s].arg \notin Profiles
    BY <1>a, <1>2, AnswersAssumption DEF IntentRaw, JobOK
  <2>2. CASE raw' = raw \cup {job[s].arg}
    <3>1. Promise!Grant(job[s].arg)
      BY <1>2, <2>2 DEF IntentRaw, Promise!Grant
    <3> QED BY <2>1, <3>1 DEF Promise!Next
  <2>3. CASE raw' = raw \ {job[s].arg}
    <3>1. bless \cup raw' = (bless \cup raw) \ {job[s].arg}
      BY <1>a, <2>1, <2>3 DEF TypeOK
    <3>2. Promise!Revoke(job[s].arg)
      BY <1>2, <2>1, <3>1 DEF IntentRaw, Promise!Revoke
    <3> QED BY <2>1, <3>2 DEF Promise!Next
  <2>4. CASE UNCHANGED raw
    BY <1>2, <2>4, OnlyCloses DEF IntentRaw
  <2> QED BY <1>2, <2>2, <2>3, <2>4 DEF IntentRaw
<1>3. ASSUME NEW t \in Tuples, AddElement(s, t)
      PROVE  [Promise!Next]_<<bless \cup raw, live, lapsed>>
  <2>1. t \in Allow(s)
    BY <1>a, <1>3 DEF AddElement, PlanOK
  <2>2. t \in Cover(bless \cup raw \cup RawDests)
    BY <2>1 DEF Allow, Cover
  <2>3. Promise!Open(t)
    BY <1>a, <1>3, <2>2, AllowableIs DEF TypeOK, AddElement, Promise!Open, store
  <2>4. t \in Promise!Covered(Profiles \cup RawDests)
    BY <1>a, <2>2 DEF TypeOK, Cover, Promise!Covered
  <2> QED BY <2>3, <2>4 DEF Promise!Next
<1>4. CASE DropBless(s)
  <2> DEFINE p == job[s].arg
  <2>1. p \in Profiles /\ p \notin raw /\ Excluded(s) = {p}
    BY <1>a, <1>4, AnswersAssumption DEF TypeOK, DropBless, JobOK, CapVerbs, Excluded
  <2>2. live \subseteq Cover((bless \ {p}) \cup RawDests)
    BY <1>a, <1>4, <2>1 DEF DropBless, PlanOK, Allow
  <2>3. CASE bless' = bless \ {p}
    <3>1. (bless \cup raw) \ {p} = bless' \cup raw
      BY <2>1, <2>3
    <3>2. live \subseteq Promise!Allowable(bless' \cup raw)
      BY <1>a, <2>2, <2>3, AllowableIs DEF TypeOK, Cover
    <3>3. Promise!Revoke(p)
      BY <1>4, <3>1, <3>2 DEF DropBless, Promise!Revoke
    <3> QED BY <2>1, <3>3 DEF Promise!Next
  <2>4. CASE UNCHANGED bless
    BY <1>4, <2>4, OnlyCloses DEF DropBless
  <2> QED BY <1>4, <2>3, <2>4 DEF DropBless
<1>5. CASE LapseBless(s)
  <2> DEFINE p == job[s].arg
  <2>1. p \in Profiles /\ p \notin raw
    BY <1>a, <1>5, AnswersAssumption DEF TypeOK, LapseBless, JobOK, CapVerbs
  <2>2. CASE UNCHANGED <<bless, lapsed>>
    BY <1>5, <2>2, OnlyCloses DEF LapseBless
  <2>3. CASE p \notin bless
    <3>1. UNCHANGED <<bless, lapsed>>
      BY <1>5, <2>3 DEF LapseBless
    <3> QED BY <2>2, <3>1
  <2>4. CASE p \in bless /\ bless' = bless \ {p} /\ lapsed' = lapsed \cup (bless \cap {p})
    <3>1. bless' \cup raw' = (bless \cup raw) \ {p} /\ lapsed' = lapsed \cup {p} /\ live' = live
      BY <1>5, <2>1, <2>4 DEF LapseBless
    <3>2. Promise!Withdraw(p)
      BY <3>1 DEF Promise!Withdraw
    <3> QED BY <2>1, <3>2 DEF Promise!Next
  <2> QED BY <1>5, <2>2, <2>3, <2>4 DEF LapseBless
<1>6. CASE Applied(s)
  <2>1. /\ live' = live /\ bless' = bless /\ raw' = raw /\ lapsed' = {}
        /\ pc[s] = "nft" /\ job[s].del = {}
    BY <1>6 DEF Applied, store
  <2>2. live \subseteq Allow(s)
    BY <1>a, <2>1 DEF PlanOK
  <2>3. live' \subseteq Promise!Allowable(bless \cup raw)
    BY <1>a, <2>1, <2>2, AllowableIs DEF TypeOK, Allow, Cover
  <2>4. Promise!Close({})
    BY <2>1, <2>3 DEF Promise!Close
  <2> QED BY <2>4 DEF Promise!Next
<1>7. CASE /\ ~IntentBless(s) /\ ~IntentRaw(s) /\ ~DropBless(s) /\ ~LapseBless(s) /\ ~Applied(s)
           /\ ~\E t \in Tuples : AddElement(s, t)
  <2>1. bless' = bless /\ raw' = raw /\ live' \subseteq live /\ lapsed' = lapsed
    BY <1>7 DEF Step, Acquire, Resolve, HealOne, RawResolve, Plan, PlanFails, AddFails,
         DelElement, DelFails, SettleFault, DropPin, DropFault, Project, Leave, store
  <2> QED BY <2>1, OnlyCloses
<1> QED BY <1>1, <1>2, <1>3, <1>4, <1>5, <1>6, <1>7

\* The engine implements the promise: enforcement of a profile goes before its
\* record does, but for a manifest removal, whose withdrawn grant lapses until an
\* apply goes through; and nothing is opened that no grant on record reaches.
THEOREM ImplementsPromise ==
  ASSUME CliVerbs \subseteq LockedCli PROVE Spec => PromiseKept
<1>1. Init => Promise!Init
  BY DEF Init, Promise!Init
<1>2. IInv /\ [Next]_vars => [Promise!Next]_<<bless \cup raw, live, lapsed>>
  <2> SUFFICES ASSUME IInv, [Next]_vars
               PROVE  [Promise!Next]_<<bless \cup raw, live, lapsed>>
    OBVIOUS
  <2>1. CASE \E s \in Procs : Step(s)
    BY <2>1, StepPromise
  <2>2. CASE Reboot
    <3>1. bless' = bless /\ raw' = raw /\ live' = live \ live /\ live' = {} /\ lapsed' = {}
      BY <2>2 DEF Reboot, store
    <3>2. Promise!Close(live)
      BY <3>1 DEF Promise!Close
    <3> QED BY <3>2 DEF Promise!Next
  <2>3. CASE ~Reboot /\ ~\E s \in Procs : Step(s)
    <3>1. bless' = bless /\ raw' = raw /\ live' = live /\ lapsed' = lapsed
      BY <2>3 DEF Next, DaemonStart, Request, CliStart, Crash, vars, store
    <3> QED BY <3>1, OnlyCloses
  <2> QED BY <2>1, <2>2, <2>3
<1>3. Init => IInv
  BY InitIInv
<1>4. IInv /\ [Next]_vars => IInv'
  BY NextIInv
<1> QED BY <1>1, <1>2, <1>3, <1>4, PTL DEF Spec, PromiseKept, Promise!Spec
-----------------------------------------------------------------------------
(* What the daemon has said it has done. *)

\* The daemon at a request, from the store lock to the reply.
Serving == Busy("daemon") /\ job["daemon"].verb # "reconcile"

\* A bless or a repin that got as far as its pins.
Granting == job["daemon"].verb \in {"bless", "repin"}

\* What is left of the diff leads to the union the request aims at; when it was
\* applied, the kernel holds that union, and a grant has pins and, as far as the
\* store lets it be cleared, no fault.
DoneOK ==
  LET j == job["daemon"]
      at == pc["daemon"]
  IN /\ at = "nft" /\ j.verb # "reconcile" =>
          (live \cup j.add) \ j.del = Desired(Excluded("daemon"))
     /\ at \in {"settle", "drop", "clear", "project"} /\ j.verb = "unbless" /\ j.ok =>
          live = Desired({j.arg})
     /\ at = "project" /\ j.verb = "manifest-remove" /\ j.ok => live = Desired({})
     /\ at \in {"heal", "rawresolve"} => ~Granting
     /\ at \in {"plan", "nft", "settle"} /\ Granting => pin[j.arg] # {}
     /\ at \in {"settle", "project"} /\ Granting /\ j.ok => live = Desired({})
     /\ at = "project" /\ Granting /\ j.ok =>
          pin[j.arg] # {} /\ (fault[j.arg] = "none" \/ MayFail("store"))

\* While the daemon is at a request, the command line is not at work: its
\* reconcile takes the store lock (lock_store).
LEMMA CliWaits ==
  ASSUME IInv, Serving PROVE ~Busy("cli")
BY DEF IInv, LockOK, CliOK, Serving, Busy

\* A process moves only when it is at work or is granted the lock.
LEMMA StepsFrom ==
  ASSUME NEW s \in Procs, Step(s) PROVE Busy(s) \/ lock = "free"
BY DEF Step, Acquire, IntentBless, IntentRaw, Resolve, HealOne, RawResolve, Plan, PlanFails,
       AddFails, Applied, AddElement, DelElement, DelFails, SettleFault, DropBless, LapseBless,
       DropPin, DropFault, Project, Leave, Busy

\* Only a delete and a rollback take an element out of the kernel set.
LEMMA OnlyDeletes ==
  ASSUME NEW s \in Procs, Step(s), ~AddFails(s), ~\E t \in Tuples : DelElement(s, t)
  PROVE  live \subseteq live'
BY DEF Step, Acquire, IntentBless, IntentRaw, Resolve, HealOne, RawResolve, Plan, PlanFails,
       Applied, AddElement, DelFails, SettleFault, DropBless, LapseBless, DropPin, DropFault,
       Project, Leave, store

\* While a request is served, no step is the command line's.
LEMMA CliStands ==
  ASSUME IInv, Serving PROVE ~Step("cli")
<1>1. lock = "daemon" /\ ~Busy("cli")
  BY CliWaits DEF IInv, LockOK, Serving
<1> QED BY <1>1, StepsFrom

\* So the command line does not disturb the request.
LEMMA CliKeepsDone ==
  ASSUME IInv, DoneOK, Step("cli") PROVE DoneOK'
<1>1. pc'["daemon"] = pc["daemon"] /\ job'["daemon"] = job["daemon"]
  BY OtherStays DEF IInv, Shape
<1>2. ~Serving
  BY CliStands
<1> QED BY <1>1, <1>2 DEF DoneOK, Serving, Busy, Granting

\* Each step of a request brings the kernel nearer to what it will have said.
LEMMA DaemonKeepsDone ==
  ASSUME IInv, DoneOK, Step("daemon") PROVE DoneOK'
<1> DEFINE s == "daemon"
           j == job[s]
           i == job'[s]
<1>a. Shape /\ TypeOK /\ JobOK
  BY DEF IInv, Shape
<1>j. j \in Jobs /\ s \in Procs
  BY <1>a DEF TypeOK
<1>v. ~Project(s) /\ ~Leave(s) => i.verb = j.verb /\ i.arg = j.arg
  BY <1>a, <1>j, StepVerb
<1>w. ~Project(s) /\ ~Leave(s) => Excluded(s)' = Excluded(s)
  BY <1>v DEF Excluded
<1> USE DEF Goto, SetJob
\* Where there is nothing to say yet.
<1>0. ASSUME pc'[s] \notin {"plan", "nft", "settle", "drop", "clear", "project"},
             pc'[s] \in {"heal", "rawresolve"} => i.verb \notin {"bless", "repin"}
      PROVE  DoneOK'
  BY <1>0 DEF DoneOK, Granting
<1>1. CASE Acquire(s)
  <2>1. CASE j.verb = "unbless"
    <3>1. pc'[s] = "plan" /\ i.verb = "unbless"
      BY <1>1, <1>v, <2>1 DEF IInv, Shape, TypeOK, Acquire, Project, Leave
    <3> QED BY <3>1 DEF DoneOK, Granting
  <2>2. CASE j.verb # "unbless"
    <3>1. /\ pc'[s] \in {"heal", "leave", "intent", "lapse"}
          /\ pc'[s] = "heal" => j.verb = "reconcile"
      BY <1>a, <1>1, <2>2 DEF TypeOK, Acquire
    <3>2. i.verb = j.verb
      BY <1>1, <1>v DEF Acquire, Project, Leave
    <3> QED BY <1>0, <3>1, <3>2
  <2> QED BY <2>1, <2>2
<1>2. CASE IntentBless(s) \/ Project(s) \/ Leave(s) \/ IntentRaw(s)
  <2>1. /\ pc'[s] \notin {"plan", "nft", "settle", "drop", "clear", "project", "heal"}
        /\ pc'[s] = "rawresolve" => i.verb \in RawVerbs
    BY <1>a, <1>j, <1>2, <1>v DEF TypeOK, IntentBless, Project, Leave, Finish, IntentRaw
  <2> QED BY <1>0, <2>1 DEF RawVerbs
<1>3. CASE Resolve(s)
  <2>1. j.verb \in {"bless", "repin", "resolve"} /\ j.arg \in Profiles /\ i.verb = j.verb /\ i.arg = j.arg
    BY <1>a, <1>3, <1>v DEF Resolve, JobOK, CapVerbs, UnlockedCli, Project, Leave
  <2>2. CASE pc'[s] = "plan"
    <3>1. pin'[j.arg] # {}
      BY <1>a, <1>3, <2>1, <2>2 DEF TypeOK, Resolve
    <3> QED BY <2>1, <2>2, <3>1 DEF DoneOK
  <2>3. CASE pc'[s] # "plan"
    <3>1. pc'[s] = "project" /\ i.ok = FALSE
      BY <1>a, <1>j, <1>3, <2>3 DEF TypeOK, Resolve, Jobs
    <3> QED BY <3>1 DEF DoneOK
  <2> QED BY <2>2, <2>3
<1>4. CASE \E p \in Profiles : HealOne(s, p)
  <2>1. pc'[s] = "heal" /\ pc[s] = "heal" /\ i.verb = j.verb
    BY <1>4, <1>v DEF HealOne, Project, Leave
  <2> QED BY <1>0, <2>1 DEF DoneOK, Granting
<1>5. CASE RawResolve(s)
  <2>1. pc'[s] = "plan" /\ i = j /\ pc[s] \in {"rawresolve", "heal"}
    BY <1>a, <1>5 DEF TypeOK, RawResolve
  <2>2. ~Granting
    BY <1>a, <2>1 DEF DoneOK
  <2> QED BY <2>1, <2>2 DEF DoneOK, Granting
<1>6. CASE Plan(s)
  <2>1. /\ pc[s] = "plan" /\ pc'[s] = "nft" /\ live' = live /\ UNCHANGED <<bless, pin, rawPins>>
        /\ i.add = Desired(Excluded(s)) \ live /\ i.del = live \ Desired(Excluded(s)) /\ i.ok = j.ok
    BY <1>a, <1>j, <1>6 DEF TypeOK, Plan, Jobs, store
  <2>2. i.verb = j.verb /\ i.arg = j.arg /\ Excluded(s)' = Excluded(s)
    BY <1>6, <1>v, <1>w DEF Plan, Project, Leave
  <2>3. Desired(Excluded(s))' = Desired(Excluded(s))
    BY <2>1, <2>2 DEF Desired
  <2>4. (live' \cup i.add) \ i.del = Desired(Excluded(s))'
    BY <2>1, <2>3
  <2> QED BY <2>1, <2>2, <2>4 DEF DoneOK, Granting
<1>7. CASE PlanFails(s) \/ AddFails(s) \/ \E t \in Tuples : DelFails(s, t)
  <2>1. ApplyReturns(s, FALSE)
    BY <1>7 DEF PlanFails, AddFails, DelFails
  <2>2. i.ok = FALSE /\ pc'[s] \notin {"plan", "nft", "heal", "rawresolve"}
    BY <1>a, <1>j, <2>1 DEF TypeOK, ApplyReturns, AfterApply, Jobs
  <2>3. i.verb = j.verb /\ i.arg = j.arg /\ pin' = pin /\ pc[s] \in {"plan", "nft"}
    BY <1>7, <1>v DEF PlanFails, AddFails, DelFails, Project, Leave, store
  <2>4. Granting => pin[j.arg] # {}
    BY <2>3 DEF DoneOK
  <2> QED BY <2>2, <2>3, <2>4 DEF DoneOK, Granting
<1>8. ASSUME NEW t \in Tuples, AddElement(s, t) \/ DelElement(s, t) PROVE DoneOK'
  <2>1. /\ pc[s] = "nft" /\ pc'[s] = "nft" /\ UNCHANGED <<bless, pin, rawPins>>
    BY <1>a, <1>8 DEF TypeOK, AddElement, DelElement, store
  <2>2. i.verb = j.verb /\ i.arg = j.arg /\ Excluded(s)' = Excluded(s)
    BY <1>8, <1>v, <1>w DEF AddElement, DelElement, Project, Leave
  <2>3. Desired(Excluded(s))' = Desired(Excluded(s))
    BY <2>1, <2>2 DEF Desired
  <2>4. (live' \cup i.add) \ i.del = (live \cup j.add) \ j.del /\ i.ok = j.ok
    <3>1. CASE AddElement(s, t)
      BY <1>a, <1>j, <3>1 DEF TypeOK, AddElement, Jobs
    <3>2. CASE DelElement(s, t)
      BY <1>a, <1>j, <3>2 DEF TypeOK, DelElement, Jobs
    <3> QED BY <1>8, <3>1, <3>2
  <2> QED BY <2>1, <2>2, <2>3, <2>4 DEF DoneOK, Granting
<1>9. CASE Applied(s)
  <2>1. /\ pc[s] = "nft" /\ j.add = {} /\ j.del = {} /\ ApplyReturns(s, TRUE) /\ live' = live
        /\ UNCHANGED <<bless, pin, rawPins>>
    BY <1>9 DEF Applied, store
  <2>2. i.verb = j.verb /\ i.arg = j.arg
    BY <1>9, <1>v DEF Applied, Project, Leave
  <2>3. j.verb # "reconcile" => live = Desired(Excluded(s))
    BY <2>1 DEF DoneOK
  <2>4. pc'[s] = AfterApply(j.verb, TRUE)
    BY <1>a, <2>1 DEF TypeOK, ApplyReturns
  <2>5. CASE j.verb = "unbless"
    <3>1. live' = Desired({j.arg})' /\ pc'[s] = "settle"
      BY <2>1, <2>2, <2>3, <2>4, <2>5 DEF Desired, Excluded, AfterApply
    <3> QED BY <2>2, <2>5, <3>1 DEF DoneOK, Granting
  <2>6. CASE Granting
    <3>1. live' = Desired({})' /\ pc'[s] = "settle"
      BY <2>1, <2>2, <2>3, <2>4, <2>6 DEF Desired, Excluded, AfterApply, Granting
    <3>2. pin'[i.arg] # {}
      BY <2>1, <2>2, <2>6 DEF DoneOK
    <3> QED BY <2>2, <2>6, <3>1, <3>2 DEF DoneOK, Granting
  <2>7. CASE j.verb # "unbless" /\ ~Granting
    <3>1. pc'[s] # "nft"
      BY <2>4 DEF AfterApply
    <3>2. j.verb = "manifest-remove" => live' = Desired({})'
      BY <2>1, <2>3 DEF Desired, Excluded
    <3> QED BY <2>2, <2>7, <3>1, <3>2 DEF DoneOK, Granting
  <2> QED BY <2>5, <2>6, <2>7
<1>10. CASE SettleFault(s)
  <2>1. /\ pc[s] = "settle" /\ pc'[s] = "project" /\ i = j /\ live' = live /\ UNCHANGED <<bless, pin, rawPins>>
        /\ ~(j.verb = "unbless" /\ j.ok)
        /\ SetFault(j.arg, IF j.ok THEN "none" ELSE "apply-fail")
        /\ j.verb # "manifest-remove"
    BY <1>a, <1>10 DEF TypeOK, JobOK, SettleFault, UnlockedCli
  <2>2. j.arg \in Profiles
    BY <1>a, <2>1 DEF JobOK, CapVerbs
  <2>3. j.ok => fault'[j.arg] = "none" \/ MayFail("store")
    BY <1>a, <2>1, <2>2 DEF TypeOK, SetFault
  <2>4. Desired({})' = Desired({})
    BY <2>1 DEF Desired
  <2> QED BY <2>1, <2>3, <2>4 DEF DoneOK, Granting
<1>11. CASE DropBless(s)
  <2>1. /\ pc[s] = "settle" /\ pc'[s] = "drop" /\ i = j /\ live' = live /\ UNCHANGED <<pin, rawPins>>
        /\ j.verb = "unbless" /\ j.ok /\ bless' \in {bless, bless \ {j.arg}}
    BY <1>a, <1>11 DEF TypeOK, DropBless
  <2>2. Desired({j.arg})' = Desired({j.arg})
    BY <2>1 DEF Desired
  <2> QED BY <2>1, <2>2 DEF DoneOK, Granting
<1>12. CASE DropPin(s)
  <2>1. /\ pc[s] = "drop" /\ pc'[s] = "clear" /\ i = j /\ live' = live /\ UNCHANGED <<bless, rawPins>>
        /\ pin' \in {pin, [pin EXCEPT ![j.arg] = {}]}
    BY <1>a, <1>12 DEF TypeOK, DropPin
  <2>2. j.verb \in {"unbless", "manifest-remove"} /\ j.arg \in Profiles
    BY <1>a, <2>1 DEF JobOK, CapVerbs
  <2>3. \A p \in bless \ {j.arg} : pin'[p] = pin[p]
    BY <1>a, <2>1 DEF TypeOK
  <2>4. Desired({j.arg})' = Desired({j.arg})
    BY <2>1, <2>3 DEF Desired
  <2> QED BY <2>1, <2>2, <2>4 DEF DoneOK, Granting
<1>13. CASE DropFault(s)
  <2>1. /\ pc[s] = "clear" /\ i = j /\ live' = live /\ UNCHANGED <<bless, pin, rawPins>>
        /\ pc'[s] = IF j.verb = "unbless" THEN "project" ELSE "plan"
    BY <1>a, <1>13 DEF TypeOK, DropFault
  <2>2. j.verb \in {"unbless", "manifest-remove"}
    BY <1>a, <2>1 DEF JobOK
  <2>3. Desired({j.arg})' = Desired({j.arg})
    BY <2>1 DEF Desired
  <2> QED BY <2>1, <2>2, <2>3 DEF DoneOK, Granting
<1>14. CASE LapseBless(s)
  <2>1. pc[s] = "lapse" /\ pc'[s] \in {"drop", "leave"}
    BY <1>a, <1>14 DEF TypeOK, LapseBless
  <2>2. i.verb = "manifest-remove"
    BY <1>a, <1>v, <1>14, <2>1 DEF JobOK, LapseBless, Project, Leave
  <2> QED BY <2>1, <2>2 DEF DoneOK, Granting
<1> QED
  BY <1>1, <1>2, <1>3, <1>4, <1>5, <1>6, <1>7, <1>8, <1>9, <1>10, <1>11, <1>12, <1>13, <1>14 DEF Step

\* Every step of the system leaves what the daemon has said true until it is said.
LEMMA NextDone ==
  ASSUME CliVerbs \subseteq LockedCli, IInv, DoneOK, [Next]_vars PROVE DoneOK'
<1>a. TypeOK
  BY DEF IInv, Shape
<1>1. CASE \E s \in Procs : Step(s)
  BY <1>1, CliKeepsDone, DaemonKeepsDone
\* The daemon starts, reads a request or dies.
<1>2. ASSUME pc'["daemon"] \in {"off", "heal", "wait"},
             pc'["daemon"] = "heal" => job'["daemon"].verb = "reconcile"
      PROVE  DoneOK'
  BY <1>2 DEF DoneOK, Granting
<1>3. CASE DaemonStart
  BY <1>a, <1>2, <1>3 DEF TypeOK, DaemonStart, Goto, SetJob, NoJob
<1>4. ASSUME NEW v \in Verbs, NEW a \in Profiles \cup RawDests, Request(v, a) PROVE DoneOK'
  BY <1>a, <1>2, <1>4 DEF TypeOK, Request, Goto
<1>5. CASE Crash("daemon")
  BY <1>a, <1>2, <1>5 DEF TypeOK, Crash, Goto
<1>6. CASE Reboot
  BY <1>2, <1>6 DEF Reboot
\* The command line starts or dies.
<1>7. ASSUME pc'["daemon"] = pc["daemon"], job'["daemon"] = job["daemon"], UNCHANGED <<store, live>>
      PROVE  DoneOK'
  BY <1>7 DEF DoneOK, Granting, Desired, Excluded, store
<1>8. ASSUME NEW v \in Verbs, NEW a \in Profiles \cup RawDests, CliStart(v, a) PROVE DoneOK'
  BY <1>a, <1>7, <1>8 DEF TypeOK, CliStart, Goto, SetJob
<1>9. CASE Crash("cli")
  BY <1>a, <1>7, <1>9 DEF TypeOK, Crash, Goto, SetJob
<1>10. CASE UNCHANGED vars
  BY <1>7, <1>10 DEF vars
<1> QED BY <1>1, <1>3, <1>4, <1>5, <1>6, <1>8, <1>9, <1>10 DEF Next

DoneInv == IInv /\ DoneOK

\* What the daemon says OK to is done: an unbless with the kernel holding just
\* what the other grants want, a manifest removal with just what is granted, a
\* bless or repin with its pins live and no fault unless the store failed (unbless,
\* confirmed_manifest_remove, bless, repin), whatever failed or died, beside a
\* locked reconcile.
THEOREM OkIsDone ==
  ASSUME CliVerbs \subseteq LockedCli PROVE Spec => []OkMeansDone
<1>1. Init => DoneInv
  BY InitIInv DEF Init, DoneInv, DoneOK
<1>2. DoneInv /\ [Next]_vars => DoneInv'
  BY NextIInv, NextDone DEF DoneInv
<1>3. DoneInv => OkMeansDone
  <2> SUFFICES ASSUME DoneInv PROVE RevokeConfirmed /\ BlessConfirmed
    BY DEF OkMeansDone
  <2>1. RevokeConfirmed
    BY DEF DoneInv, DoneOK, RevokeConfirmed, Excluded
  <2>2. BlessConfirmed
    BY DEF DoneInv, DoneOK, BlessConfirmed, Granting, Desired
  <2> QED BY <2>1, <2>2
<1> QED BY <1>1, <1>2, <1>3, PTL DEF Spec

\* Removal recomputes the union (apply_cap): serving a request, the daemon never
\* deletes an element that another grant on record wants.
THEOREM SharedIsKept ==
  ASSUME CliVerbs \subseteq LockedCli PROVE Spec => KeepsShared
<1> DEFINE Kept == pc["daemon"] = "nft" /\ pc'["daemon"] = "nft" /\ job["daemon"].verb # "reconcile" =>
                     (live \ live') \cap Desired(Excluded("daemon")) = {}
<1>1. Init => DoneInv
  BY InitIInv DEF Init, DoneInv, DoneOK
<1>2. DoneInv /\ [Next]_vars => DoneInv'
  BY NextIInv, NextDone DEF DoneInv
<1>3. DoneInv /\ [Next]_vars => [Kept]_vars
  <2> SUFFICES ASSUME DoneInv, [Next]_vars, pc["daemon"] = "nft", pc'["daemon"] = "nft",
                      job["daemon"].verb # "reconcile"
               PROVE  (live \ live') \cap Desired(Excluded("daemon")) = {}
    OBVIOUS
  <2>a. TypeOK
    BY DEF DoneInv, IInv, Shape
  <2>1. (live \cup job["daemon"].add) \ job["daemon"].del = Desired(Excluded("daemon"))
    BY DEF DoneInv, DoneOK
  <2>2. CASE \E t \in Tuples : DelElement("daemon", t)
    BY <2>1, <2>2 DEF DelElement
  <2>3. CASE Step("daemon") /\ ~\E t \in Tuples : DelElement("daemon", t)
    <3>1. ~AddFails("daemon")
      BY <2>a DEF TypeOK, AddFails, ApplyReturns, AfterApply, Goto
    <3>2. live \subseteq live'
      BY <2>3, <3>1, OnlyDeletes
    <3> QED BY <3>2
  <2>4. CASE Step("cli")
    BY <2>4, CliStands DEF DoneInv, Serving, Busy
  <2>5. CASE ~\E s \in Procs : Step(s)
    <3>1. live' = live \/ Reboot
      BY <2>5 DEF Next, DaemonStart, Request, CliStart, Crash, vars, store
    <3>2. ~Reboot
      BY DEF Reboot
    <3> QED BY <3>1, <3>2
  <2> QED BY <2>2, <2>3, <2>4, <2>5
<1> QED BY <1>1, <1>2, <1>3, PTL DEF Spec, KeepsShared
-----------------------------------------------------------------------------
(* Where neither nft nor the store fails, every recovery ends in line. *)

\* Every blessed profile outside S that has no pin shows a fault.
Spoken(S) == \A p \in bless \ S : pin[p] = {} => fault[p] # "none"

\* The kernel holds the stored union, but for the profiles of S and those whose
\* resolution failed.
Lit(S) ==
  /\ live \subseteq Desired({})
  /\ \A p \in bless \ S : pin[p] \subseteq live \/ fault[p] = "resolve-fail"
  /\ \A r \in RawDests : rawPins[r] \subseteq live

\* What the daemon has still to do, stage by stage, to be in line again.
RecoveryOK ==
  LET j    == job["daemon"]
      at   == pc["daemon"]
      want == Desired(Excluded("daemon"))
  IN /\ pc["cli"] = "off" /\ j.verb \notin UnlockedCli
     /\ at \in {"idle", "wait", "intent", "lapse", "project", "leave"} => Lit({}) /\ Spoken({})
     /\ at \in {"idle", "wait", "leave"} => view = [bless |-> bless, pin |-> pin, fault |-> fault]
     /\ at = "resolve" => Lit({j.arg}) /\ Spoken({j.arg})
     /\ at = "heal" => Spoken(j.todo)
     /\ at \in {"rawresolve", "plan", "nft", "settle", "drop", "clear"} => Spoken({})
     /\ at \in {"plan", "nft", "settle"} /\ Granting => pin[j.arg] # {}
     /\ at = "nft" => /\ (live \cup j.add) \ j.del = want
                      /\ j.del \subseteq live /\ j.add \cap j.del = {}
     /\ at = "settle" => j.ok /\ live = want
     /\ at \in {"drop", "clear"} => /\ j.arg \notin bless
                                    /\ j.verb = "unbless" => live = Desired({})

\* The daemon alone, beside a kernel and a store that do what they are told.
Sound == CliVerbs = {} /\ {"nft", "store"} \cap Failures = {}

LEMMA DaemonRecovers ==
  ASSUME Sound, Shape, DoneOK, RecoveryOK, Step("daemon") PROVE RecoveryOK'
<1> DEFINE s == "daemon"
           j == job[s]
           i == job'[s]
<1>a. /\ Shape /\ TypeOK /\ JobOK /\ s \in Procs
      /\ ~MayFail("nft") /\ ~MayFail("store")
  BY DEF Shape, Sound, MayFail, Procs
<1>b. j \in Jobs
  BY <1>a DEF TypeOK
<1>c. pc'["cli"] = "off"
  BY <1>a, OtherStays DEF RecoveryOK, Procs
<1> USE <1>a, <1>b, <1>c DEF Goto, SetJob
<1>1. CASE Acquire(s)
  <2>1. /\ Lit({}) /\ Spoken({}) /\ j.verb \notin UnlockedCli
        /\ view = [bless |-> bless, pin |-> pin, fault |-> fault]
    BY <1>1 DEF Acquire, RecoveryOK
  <2>2. /\ UNCHANGED <<bless, pin, fault, rawPins, live, view>>
        /\ pc'[s] \in {"heal", "plan", "leave", "intent", "lapse"}
        /\ i.verb = j.verb /\ i.arg = j.arg
        /\ pc'[s] = "plan" => j.verb = "unbless"
    BY <1>1 DEF Acquire, TypeOK, Jobs, store
  <2>3. Lit({})' /\ Spoken({})' /\ Spoken(j.todo)'
    BY <2>1, <2>2 DEF Lit, Spoken, Desired
  <2> QED BY <2>1, <2>2, <2>3 DEF RecoveryOK, Granting
<1>2. CASE IntentBless(s)
  <2>1. Lit({}) /\ Spoken({}) /\ j.verb \notin UnlockedCli
    BY <1>2 DEF IntentBless, RecoveryOK
  <2>2. /\ UNCHANGED <<pin, fault, rawPins, live, job>> /\ bless' = bless \cup {j.arg}
        /\ pc'[s] = "resolve"
    BY <1>2 DEF IntentBless, TypeOK
  <2>3. Lit({j.arg})' /\ Spoken({j.arg})'
    BY <2>1, <2>2 DEF Lit, Spoken, Desired
  <2> QED BY <2>1, <2>2, <2>3 DEF RecoveryOK
<1>3. CASE IntentRaw(s)
  <2>1. Lit({}) /\ Spoken({}) /\ j.verb \notin UnlockedCli
    BY <1>3 DEF IntentRaw, RecoveryOK
  <2>2. UNCHANGED <<bless, pin, fault, job>> /\ pc'[s] = "rawresolve"
    BY <1>3 DEF IntentRaw, TypeOK
  <2>3. Spoken({})'
    BY <2>1, <2>2 DEF Spoken
  <2> QED BY <2>1, <2>2, <2>3 DEF RecoveryOK
<1>4. CASE Resolve(s)
  <2>0. j.verb \in {"bless", "repin"} /\ j.arg \in Profiles
    BY <1>4 DEF Resolve, JobOK, RecoveryOK, UnlockedCli, CapVerbs
  <2>1. Lit({j.arg}) /\ Spoken({j.arg}) /\ j.verb \notin UnlockedCli
    BY <1>4 DEF Resolve, RecoveryOK
  <2>2. CASE /\ \E ans \in SUBSET Answers[j.arg] :
                   ans # {} /\ pin' = [pin EXCEPT ![j.arg] = ans]
             /\ UNCHANGED <<fault, job>> /\ pc'[s] = "plan" /\ UNCHANGED bless
    <3>1. Spoken({})' /\ pin'[j.arg] # {}
      BY <2>0, <2>1, <2>2 DEF Spoken, TypeOK
    <3> QED BY <2>1, <2>2, <3>1 DEF RecoveryOK
  <2>3. CASE /\ fault' = [fault EXCEPT ![j.arg] = "resolve-fail"] /\ pc'[s] = "project"
             /\ UNCHANGED <<bless, pin, rawPins, live>> /\ i.verb = j.verb
    <3>1. Lit({})' /\ Spoken({})'
      BY <2>0, <2>1, <2>3 DEF Lit, Spoken, Desired, TypeOK
    <3> QED BY <2>1, <2>3, <3>1 DEF RecoveryOK
  <2> QED BY <1>4, <2>0, <2>2, <2>3 DEF Resolve, SetFault, TypeOK, Jobs
<1>5. ASSUME NEW p \in Profiles, HealOne(s, p) PROVE RecoveryOK'
  <2>1. Spoken(j.todo) /\ j.verb \notin UnlockedCli
    BY <1>5 DEF HealOne, RecoveryOK
  <2>2. /\ i.todo = j.todo \ {p} /\ i.verb = j.verb
        /\ pc'[s] = "heal" /\ bless' = bless
    BY <1>5 DEF HealOne, TypeOK, Jobs
  <2>3. /\ \A q \in Profiles \ {p} : pin'[q] = pin[q] /\ fault'[q] = fault[q]
        /\ pin'[p] = {} => fault'[p] = "resolve-fail"
    BY <1>5 DEF HealOne, SetFault, TypeOK
  <2>4. Spoken(j.todo)'
    BY <2>1, <2>2, <2>3 DEF Spoken, TypeOK
  <2> QED BY <2>1, <2>2, <2>4 DEF RecoveryOK
<1>6. CASE RawResolve(s)
  <2>1. Spoken({}) /\ j.verb \notin UnlockedCli /\ ~Granting
    BY <1>6 DEF RawResolve, RecoveryOK, DoneOK
  <2>2. UNCHANGED <<bless, pin, fault, job>> /\ pc'[s] = "plan"
    BY <1>6 DEF RawResolve, TypeOK
  <2>3. Spoken({})'
    BY <2>1, <2>2 DEF Spoken
  <2> QED BY <2>1, <2>2, <2>3 DEF RecoveryOK, Granting
<1>7. CASE Plan(s)
  <2>1. Spoken({}) /\ j.verb \notin UnlockedCli /\ (Granting => pin[j.arg] # {})
    BY <1>7 DEF Plan, RecoveryOK
  <2>2. /\ UNCHANGED <<bless, pin, fault, rawPins, live>> /\ pc'[s] = "nft"
        /\ i.verb = j.verb /\ i.arg = j.arg
        /\ i.add = Desired(Excluded(s)) \ live /\ i.del = live \ Desired(Excluded(s))
    BY <1>7 DEF Plan, TypeOK, Jobs, store
  <2>3. Spoken({})' /\ Desired(Excluded(s))' = Desired(Excluded(s))
    BY <2>1, <2>2 DEF Spoken, Desired, Excluded
  <2> QED BY <2>1, <2>2, <2>3 DEF RecoveryOK, Granting
<1>8. ~PlanFails(s) /\ ~AddFails(s)
  BY DEF PlanFails, AddFails
<1>9. ASSUME NEW t \in Tuples, AddElement(s, t) PROVE RecoveryOK'
  <2>1. /\ Spoken({}) /\ j.verb \notin UnlockedCli /\ (Granting => pin[j.arg] # {})
        /\ (live \cup j.add) \ j.del = Desired(Excluded(s))
        /\ j.del \subseteq live /\ j.add \cap j.del = {}
    BY <1>9 DEF AddElement, RecoveryOK
  <2>2. /\ UNCHANGED <<bless, pin, fault, rawPins>> /\ pc'[s] = "nft" /\ t \in j.add
        /\ i.verb = j.verb /\ i.arg = j.arg /\ i.del = j.del
        /\ i.add = j.add \ {t} /\ live' = live \cup {t}
    BY <1>9 DEF AddElement, TypeOK, Jobs, store
  <2>3. Spoken({})' /\ Desired(Excluded(s))' = Desired(Excluded(s))
    BY <2>1, <2>2 DEF Spoken, Desired, Excluded
  <2>4. /\ (live' \cup i.add) \ i.del = Desired(Excluded(s))
        /\ i.del \subseteq live' /\ i.add \cap i.del = {}
    BY <2>1, <2>2
  <2> QED BY <2>1, <2>2, <2>3, <2>4 DEF RecoveryOK, Granting
<1>10. ASSUME NEW t \in Tuples, DelElement(s, t) PROVE RecoveryOK'
  <2>1. /\ Spoken({}) /\ j.verb \notin UnlockedCli /\ (Granting => pin[j.arg] # {})
        /\ (live \cup j.add) \ j.del = Desired(Excluded(s)) /\ j.del \subseteq live
    BY <1>10 DEF DelElement, RecoveryOK
  <2>2. /\ UNCHANGED <<bless, pin, fault, rawPins>> /\ pc'[s] = "nft" /\ t \in j.del
        /\ i.verb = j.verb /\ i.arg = j.arg /\ j.add = {} /\ i.add = {}
        /\ i.del = j.del \ {t} /\ live' = live \ {t}
    BY <1>10 DEF DelElement, TypeOK, Jobs, store
  <2>3. Spoken({})' /\ Desired(Excluded(s))' = Desired(Excluded(s))
    BY <2>1, <2>2 DEF Spoken, Desired, Excluded
  <2>4. /\ (live' \cup i.add) \ i.del = Desired(Excluded(s))
        /\ i.del \subseteq live' /\ i.add \cap i.del = {}
    BY <2>1, <2>2
  <2> QED BY <2>1, <2>2, <2>3, <2>4 DEF RecoveryOK, Granting
\* What is to be deleted is there: no other process deletes.
<1>11. ASSUME NEW t \in Tuples PROVE ~DelFails(s, t)
  BY DEF DelFails, RecoveryOK
<1>12. CASE Applied(s)
  <2>1. /\ Spoken({}) /\ j.verb \notin UnlockedCli /\ (Granting => pin[j.arg] # {})
        /\ live = Desired(Excluded(s))
    BY <1>12 DEF Applied, RecoveryOK
  <2>2. /\ UNCHANGED <<bless, pin, fault, rawPins, live>> /\ pc'[s] = AfterApply(j.verb, TRUE)
        /\ i.verb = j.verb /\ i.arg = j.arg /\ i.ok
    BY <1>12 DEF Applied, ApplyReturns, TypeOK, Jobs, store
  <2>3. /\ pc'[s] = IF j.verb \in {"bless", "repin", "unbless"} THEN "settle" ELSE "project"
        /\ Excluded(s) = IF j.verb = "unbless" THEN {j.arg} ELSE {}
    BY <2>1, <2>2 DEF AfterApply, Excluded, UnlockedCli
  <2>4. Spoken({})' /\ Desired(Excluded(s))' = Desired(Excluded(s)) /\ live' = Desired(Excluded(s))
    BY <2>1, <2>2 DEF Spoken, Desired, Excluded
  <2>5. CASE pc'[s] = "settle"
    BY <2>1, <2>2, <2>4, <2>5 DEF RecoveryOK, Granting
  <2>6. CASE pc'[s] = "project"
    <3>1. Lit({})'
      BY <2>1, <2>2, <2>3, <2>4, <2>6 DEF Lit, Desired
    <3> QED BY <2>1, <2>2, <2>4, <2>6, <3>1 DEF RecoveryOK
  <2> QED BY <2>3, <2>5, <2>6
<1>13. CASE SettleFault(s)
  <2>1. /\ Spoken({}) /\ j.verb \notin UnlockedCli /\ (Granting => pin[j.arg] # {})
        /\ live = Desired(Excluded(s)) /\ j.ok
    BY <1>13 DEF SettleFault, RecoveryOK
  <2>2. Granting /\ j.arg \in Profiles
    BY <1>13, <2>1 DEF SettleFault, JobOK, Granting, CapVerbs
  <2>3. /\ UNCHANGED <<bless, pin, rawPins, live, job>> /\ pc'[s] = "project"
        /\ fault' = [fault EXCEPT ![j.arg] = "none"]
    BY <1>13, <2>1 DEF SettleFault, SetFault, TypeOK
  <2>4. live = Desired({})
    BY <2>1, <2>2 DEF Granting, Excluded
  <2>5. Lit({})' /\ Spoken({})'
    BY <2>1, <2>2, <2>3, <2>4 DEF Lit, Spoken, Desired, TypeOK
  <2> QED BY <2>1, <2>3, <2>5 DEF RecoveryOK
<1>14. CASE DropBless(s)
  <2>1. /\ Spoken({}) /\ j.verb \notin UnlockedCli /\ j.verb = "unbless"
        /\ live = Desired({j.arg})
    BY <1>14 DEF DropBless, RecoveryOK, Excluded
  <2>2. /\ UNCHANGED <<pin, fault, rawPins, live, job>> /\ pc'[s] = "drop"
        /\ bless' = bless \ {j.arg}
    BY <1>14 DEF DropBless, TypeOK
  <2>3. Spoken({})' /\ live' = Desired({})'
    BY <2>1, <2>2 DEF Spoken, Desired
  <2> QED BY <2>1, <2>2, <2>3 DEF RecoveryOK
<1>15. CASE DropPin(s)
  <2>1. /\ Spoken({}) /\ j.verb \notin UnlockedCli /\ j.arg \notin bless
        /\ j.verb = "unbless" => live = Desired({})
    BY <1>15 DEF DropPin, RecoveryOK
  <2>2. /\ UNCHANGED <<bless, fault, rawPins, live, job>> /\ pc'[s] = "clear"
        /\ \A q \in Profiles \ {j.arg} : pin'[q] = pin[q]
    BY <1>15 DEF DropPin, TypeOK
  <2>3. \A q \in bless : pin'[q] = pin[q]
    BY <2>1, <2>2 DEF TypeOK
  <2>4. Spoken({})' /\ Desired({})' = Desired({})
    BY <2>1, <2>2, <2>3 DEF Spoken, Desired
  <2> QED BY <2>1, <2>2, <2>4 DEF RecoveryOK
<1>18. CASE DropFault(s)
  <2>1. /\ Spoken({}) /\ j.verb \notin UnlockedCli /\ j.arg \notin bless /\ pc[s] = "clear"
        /\ j.verb = "unbless" => live = Desired({})
    BY <1>18 DEF DropFault, RecoveryOK
  <2>2. /\ UNCHANGED <<bless, pin, rawPins, live, job>>
        /\ pc'[s] = IF j.verb = "unbless" THEN "project" ELSE "plan"
        /\ \A q \in Profiles \ {j.arg} : fault'[q] = fault[q]
    BY <1>18 DEF DropFault, SetFault, TypeOK
  <2>3. \A q \in bless : fault'[q] = fault[q]
    BY <2>1, <2>2 DEF TypeOK
  <2>4. Spoken({})'
    BY <2>1, <2>2, <2>3 DEF Spoken
  <2>5. CASE j.verb = "unbless"
    <3>1. Lit({})'
      BY <2>1, <2>2, <2>5 DEF Lit, Desired
    <3> QED BY <2>1, <2>2, <2>4, <2>5, <3>1 DEF RecoveryOK
  <2>6. CASE j.verb # "unbless"
    <3>1. ~Granting
      BY <2>1 DEF JobOK, Granting
    <3> QED BY <2>1, <2>2, <2>4, <2>6, <3>1 DEF RecoveryOK, Granting
  <2> QED BY <2>5, <2>6
\* A manifest removal takes its record away first: what is dark for it is nobody's.
<1>19. CASE LapseBless(s)
  <2>1. Spoken({}) /\ j.verb \notin UnlockedCli /\ pc[s] = "lapse"
    BY <1>19 DEF LapseBless, RecoveryOK
  <2>2. /\ UNCHANGED <<pin, fault, job>> /\ pc'[s] = "drop" /\ bless' = bless \ {j.arg}
    BY <1>19 DEF LapseBless, TypeOK
  <2>3. Spoken({})' /\ j.verb = "manifest-remove"
    BY <2>1, <2>2 DEF Spoken, JobOK
  <2> QED BY <2>1, <2>2, <2>3 DEF RecoveryOK
<1>16. CASE Project(s)
  <2>1. Lit({}) /\ Spoken({})
    BY <1>16 DEF Project, RecoveryOK
  <2>2. /\ UNCHANGED <<bless, pin, fault, rawPins, live>> /\ pc'[s] = "idle" /\ i = NoJob
        /\ view' = [bless |-> bless, pin |-> pin, fault |-> fault]
    BY <1>16 DEF Project, Finish, TypeOK, store
  <2>3. Lit({})' /\ Spoken({})'
    BY <2>1, <2>2 DEF Lit, Spoken, Desired
  <2> QED BY <2>2, <2>3 DEF RecoveryOK, NoJob, UnlockedCli
<1>17. CASE Leave(s)
  <2>1. Lit({}) /\ Spoken({}) /\ view = [bless |-> bless, pin |-> pin, fault |-> fault]
    BY <1>17 DEF Leave, RecoveryOK
  <2>2. UNCHANGED <<bless, pin, fault, rawPins, live, view>> /\ pc'[s] = "idle" /\ i = NoJob
    BY <1>17 DEF Leave, Finish, TypeOK, store
  <2>3. Lit({})' /\ Spoken({})'
    BY <2>1, <2>2 DEF Lit, Spoken, Desired
  <2> QED BY <2>1, <2>2, <2>3 DEF RecoveryOK, NoJob, UnlockedCli
<1> QED BY <1>1, <1>2, <1>3, <1>4, <1>5, <1>6, <1>7, <1>8, <1>9, <1>10, <1>11, <1>12, <1>13,
           <1>14, <1>15, <1>16, <1>17, <1>18, <1>19 DEF Step

LEMMA NextRecovers ==
  ASSUME Sound, Shape, DoneOK, RecoveryOK, [Next]_vars PROVE RecoveryOK'
<1>a. TypeOK
  BY DEF Shape
<1> USE <1>a DEF Goto, SetJob
<1>1. CASE Step("daemon")
  BY <1>1, DaemonRecovers
<1>2. ~Step("cli") /\ ~Crash("cli")
  BY DEF RecoveryOK, Crash, Step, Acquire, IntentBless, IntentRaw, Resolve, HealOne, RawResolve,
         Plan, PlanFails, AddFails, Applied, AddElement, DelElement, DelFails, SettleFault,
         DropBless, LapseBless, DropPin, DropFault, Project, Leave
<1>3. \A v \in Verbs, a \in Profiles \cup RawDests : ~CliStart(v, a)
  BY DEF Sound, CliStart
<1>4. CASE DaemonStart
  <2>1. /\ pc'["cli"] = "off" /\ pc'["daemon"] = "heal" /\ bless' = bless
        /\ job'["daemon"].todo = bless /\ job'["daemon"].verb = "reconcile"
    BY <1>4 DEF DaemonStart, RecoveryOK, TypeOK, NoJob, store
  <2>2. Spoken(job["daemon"].todo)'
    BY <2>1 DEF Spoken
  <2> QED BY <2>1, <2>2 DEF RecoveryOK, UnlockedCli
<1>5. ASSUME NEW v \in Verbs, NEW a \in Profiles \cup RawDests, Request(v, a) PROVE RecoveryOK'
  <2>1. Lit({}) /\ Spoken({}) /\ view = [bless |-> bless, pin |-> pin, fault |-> fault]
    BY <1>5 DEF Request, RecoveryOK
  <2>2. /\ UNCHANGED <<bless, pin, fault, rawPins, live, view>> /\ pc'["daemon"] = "wait"
        /\ pc'["cli"] = "off" /\ job'["daemon"].verb = v /\ v \notin UnlockedCli
    BY <1>5 DEF Request, RecoveryOK, TypeOK, NoJob, store, CapVerbs, RawVerbs, UnlockedCli
  <2>3. Lit({})' /\ Spoken({})'
    BY <2>1, <2>2 DEF Lit, Spoken, Desired
  <2> QED BY <2>1, <2>2, <2>3 DEF RecoveryOK
<1>6. ASSUME pc'["daemon"] = "off", pc'["cli"] = "off", job'["daemon"] = NoJob PROVE RecoveryOK'
  BY <1>6 DEF RecoveryOK, NoJob, UnlockedCli
<1>7. CASE Crash("daemon")
  BY <1>6, <1>7 DEF Crash, RecoveryOK, TypeOK
<1>8. CASE Reboot
  BY <1>6, <1>8 DEF Reboot, Procs
<1>9. CASE UNCHANGED vars
  BY <1>9 DEF vars, store, RecoveryOK, Lit, Spoken, Desired, Excluded, Granting
<1> QED BY <1>1, <1>2, <1>3, <1>4, <1>5, <1>7, <1>8, <1>9 DEF Next, Procs

\* Where nft and the store do what they are told, whatever a crash, a reboot or a
\* failed DoT round cut short, once the daemon is idle the kernel holds the stored
\* union, short only of profiles whose resolution failed, /run shows the store,
\* and every grant that stays dark shows a fault (boot reconcile, handlers).
THEOREM RecoveryIsSound ==
  ASSUME CliVerbs = {}, {"nft", "store"} \cap Failures = {}
  PROVE  Spec => [](Converged /\ ViewCurrent /\ DarkIsFaulted)
<1> DEFINE Inv == IInv /\ DoneOK /\ RecoveryOK
<1>a. Sound /\ CliVerbs \subseteq LockedCli
  BY DEF Sound
<1>1. Init => Inv
  BY InitIInv DEF Init, DoneOK, RecoveryOK, NoJob, UnlockedCli
<1>2. Inv /\ [Next]_vars => Inv'
  BY <1>a, NextIInv, NextDone, NextRecovers DEF IInv
<1>3. Inv => Converged /\ ViewCurrent /\ DarkIsFaulted
  <2> SUFFICES ASSUME Inv PROVE Converged /\ ViewCurrent /\ DarkIsFaulted
    OBVIOUS
  <2>1. Quiet => /\ Lit({}) /\ Spoken({})
                 /\ view = [bless |-> bless, pin |-> pin, fault |-> fault]
    BY DEF Quiet, RecoveryOK
  <2> QED BY <2>1 DEF Converged, ViewCurrent, DarkIsFaulted, Lit, Spoken
<1> QED BY <1>1, <1>2, <1>3, PTL DEF Spec
=============================================================================
