------------------------- MODULE EgressBrowserProofs -------------------------
(***************************************************************************)
(* Proofs about EgressBrowser, for any cgroup ids, rule handles and         *)
(* failures.                                                                *)
(***************************************************************************)
EXTENDS EgressBrowser, SequenceTheorems, FiniteSetTheorems, TLAPS

USE DEF Procs

-----------------------------------------------------------------------------
(* Sequences of rules. *)

\* Taking one element out of a sequence.
LEMMA RemoveAtShifts ==
  ASSUME NEW S, NEW c \in Seq(S), NEW i \in 1..Len(c)
  PROVE  /\ RemoveAt(c, i) \in Seq(S)
         /\ Len(RemoveAt(c, i)) = Len(c) - 1
         /\ \A j \in 1..(Len(c) - 1) : RemoveAt(c, i)[j] = c[IF j < i THEN j ELSE j + 1]
<1> DEFINE A == SubSeq(c, 1, i - 1)
           B == SubSeq(c, i + 1, Len(c))
<1>1. Len(c) \in Nat /\ \A k \in 1..Len(c) : c[k] \in S
  BY LenProperties, ElementOfSeq
<1>2. A \in Seq(S) /\ Len(A) = i - 1 /\ \A k \in 1..(i - 1) : A[k] = c[k]
  <2>1. \A k \in 1..(i - 1) : c[k] \in S
    BY <1>1
  <2>2. /\ SubSeq(c, 1, i - 1) \in Seq(S)
        /\ Len(SubSeq(c, 1, i - 1)) = IF 1 <= i - 1 THEN (i - 1) - 1 + 1 ELSE 0
        /\ \A k \in 1..((i - 1) - 1 + 1) : SubSeq(c, 1, i - 1)[k] = c[1 + k - 1]
    BY <1>1, <2>1, SubSeqProperties
  <2> QED BY <1>1, <2>2
<1>3. B \in Seq(S) /\ Len(B) = Len(c) - i /\ \A k \in 1..(Len(c) - i) : B[k] = c[i + k]
  <2>1. \A k \in (i + 1)..Len(c) : c[k] \in S
    BY <1>1
  <2>2. /\ SubSeq(c, i + 1, Len(c)) \in Seq(S)
        /\ Len(SubSeq(c, i + 1, Len(c))) = IF i + 1 <= Len(c) THEN Len(c) - (i + 1) + 1 ELSE 0
        /\ \A k \in 1..(Len(c) - (i + 1) + 1) : SubSeq(c, i + 1, Len(c))[k] = c[(i + 1) + k - 1]
    BY <1>1, <2>1, SubSeqProperties
  <2> QED BY <1>1, <2>2
<1> HIDE DEF A, B
<1>4. /\ A \o B \in Seq(S)
      /\ Len(A \o B) = Len(A) + Len(B)
      /\ \A j \in 1..(Len(A) + Len(B)) : (A \o B)[j] = IF j <= Len(A) THEN A[j] ELSE B[j - Len(A)]
  BY <1>2, <1>3, ConcatProperties
<1>5. RemoveAt(c, i) = A \o B
  BY DEF RemoveAt, A, B
<1>6. ASSUME NEW j \in 1..(Len(c) - 1)
      PROVE  (A \o B)[j] = c[IF j < i THEN j ELSE j + 1]
  <2>1. CASE j < i
    BY <1>1, <1>2, <1>3, <1>4, <2>1
  <2>2. CASE ~(j < i)
    <3>1. j - (i - 1) \in 1..(Len(c) - i)
      BY <1>1, <2>2
    <3>2. (A \o B)[j] = B[j - (i - 1)]
      BY <1>1, <1>2, <1>3, <1>4, <2>2
    <3>3. B[j - (i - 1)] = c[i + (j - (i - 1))] /\ i + (j - (i - 1)) = j + 1
      BY <1>1, <1>3, <3>1
    <3> QED BY <3>2, <3>3, <2>2
  <2> QED BY <2>1, <2>2
<1>7. Len(A \o B) = Len(c) - 1
  BY <1>1, <1>2, <1>3, <1>4
<1> QED BY <1>4, <1>5, <1>6, <1>7

\* A chain stays one when a rule leaves it or a fresh one is put at its end.
LEMMA RemoveChain ==
  ASSUME NEW c, ChainOK(c), NEW i \in 1..Len(c)
  PROVE  /\ ChainOK(RemoveAt(c, i))
         /\ \A j \in 1..Len(RemoveAt(c, i)) :
              \E k \in 1..Len(c) : RemoveAt(c, i)[j] = c[k] /\ c[k].handle # c[i].handle
<1>1. /\ c \in Seq(Rules) /\ Len(c) \in Nat
      /\ \A k, j \in 1..Len(c) : c[k].handle = c[j].handle => k = j
  BY LenProperties DEF ChainOK
<1> DEFINE R == RemoveAt(c, i)
           At(j) == IF j < i THEN j ELSE j + 1
<1>2. R \in Seq(Rules) /\ Len(R) = Len(c) - 1 /\ \A j \in 1..(Len(c) - 1) : R[j] = c[At(j)]
  BY <1>1, RemoveAtShifts
<1>3. \A j \in 1..(Len(c) - 1) : At(j) \in 1..Len(c) /\ At(j) # i
  BY <1>1
<1>4. \A j, k \in 1..(Len(c) - 1) : At(j) = At(k) => j = k
  BY <1>1
<1>5. ASSUME NEW j \in 1..Len(R), NEW k \in 1..Len(R), R[j].handle = R[k].handle
      PROVE  j = k
  <2>1. j \in 1..(Len(c) - 1) /\ k \in 1..(Len(c) - 1)
    BY <1>2
  <2>2. At(j) = At(k)
    BY <1>1, <1>2, <1>3, <1>5, <2>1
  <2> QED BY <1>4, <2>1, <2>2
<1>6. ASSUME NEW j \in 1..Len(R)
      PROVE  \E k \in 1..Len(c) : R[j] = c[k] /\ c[k].handle # c[i].handle
  <2>1. j \in 1..(Len(c) - 1)
    BY <1>2
  <2>2. At(j) \in 1..Len(c) /\ At(j) # i /\ R[j] = c[At(j)]
    BY <1>2, <1>3, <2>1
  <2> QED BY <1>1, <2>2
<1> QED BY <1>2, <1>5, <1>6 DEF ChainOK

LEMMA AppendChain ==
  ASSUME NEW c, ChainOK(c), NEW r \in Rules, r.handle \notin {c[i].handle : i \in 1..Len(c)}
  PROVE  ChainOK(Append(c, r))
<1>1. c \in Seq(Rules) /\ Len(c) \in Nat
  BY LenProperties DEF ChainOK
<1>2. /\ Append(c, r) \in Seq(Rules) /\ Len(Append(c, r)) = Len(c) + 1
      /\ \A i \in 1..Len(c) : Append(c, r)[i] = c[i]
      /\ Append(c, r)[Len(c) + 1] = r
  BY <1>1
<1>3. ASSUME NEW i \in 1..(Len(c) + 1), NEW j \in 1..(Len(c) + 1),
             Append(c, r)[i].handle = Append(c, r)[j].handle
      PROVE  i = j
  <2>1. CASE i \in 1..Len(c) /\ j \in 1..Len(c)
    BY <1>2, <1>3, <2>1 DEF ChainOK
  <2>2. CASE i = Len(c) + 1 /\ j \in 1..Len(c)
    BY <1>2, <1>3, <2>2
  <2>3. CASE i \in 1..Len(c) /\ j = Len(c) + 1
    BY <1>2, <1>3, <2>3
  <2>4. CASE i = Len(c) + 1 /\ j = Len(c) + 1
    BY <2>4
  <2> QED BY <1>1, <2>1, <2>2, <2>3, <2>4
<1> QED BY <1>2, <1>3 DEF ChainOK

-----------------------------------------------------------------------------
(* The inductive invariant. *)

\* Which verbs reach which program point, and that only reconcile runs on the
\* command line.
VerbOK ==
  /\ job["cli"].verb \in {"none", "reconcile"}
  /\ \A s \in Procs :
       /\ pc[s] = "record" => job[s].verb = "bless"
       /\ pc[s] = "forget" => job[s].verb = "remove"
       /\ pc[s] = "clear" => job[s].verb \in {"bless", "unbless", "remove"}
       /\ pc[s] \in {"list", "delete", "park"} => job[s].verb = "unbless"
       /\ pc[s] = "wait" => job[s].verb \in Verbs \cup {"reconcile"}
       /\ s = "daemon" /\ pc[s] = "wait" => job[s].verb \in Verbs
       /\ pc[s] # "off" /\ pc[s] # "idle" => job[s].verb # "none"
       /\ pc[s] \in {"check", "broad", "stub"} => job[s].verb \in {"bless", "up", "reconcile"}
       /\ pc[s] = "leave" => job[s].verb \in {"bless", "remove", "up"}

\* A process at work holds the store lock, but for the boot reconcile.
LockOK ==
  \A s \in Procs :
    Busy(s) /\ ~(s = "daemon" /\ job[s].verb = "reconcile") => lock = s

\* A pair is being installed for a record that is still there.
GuardOK == \A s \in Procs : pc[s] \in Kinds => bless

\* During a teardown every rule in the chain is one that is still to be deleted.
DeleteOK ==
  \A s \in Procs : pc[s] = "delete" =>
    \A i \in 1..Len(chain) : \E j \in 1..Len(job[s].todo) : chain[i].handle = job[s].todo[j]

\* How far a revocation has come.
DoneOK ==
  \A s \in Procs : job[s].verb = "unbless" =>
    /\ pc[s] \in {"wait", "list", "delete", "clear"} => job[s].ok
    /\ pc[s] = "park" => ~job[s].ok
    /\ pc[s] \in {"clear", "project"} /\ job[s].ok => chain = <<>>
    /\ pc[s] = "project" => (fault <=> ~job[s].ok)

\* The projection lags the store only on the way to the next one.
ViewOK ==
  pc["daemon"] \in {"idle", "wait", "record", "forget", "list", "delete", "leave"}
    \/ job["daemon"].verb = "up"
  => view = [bless |-> bless, fault |-> fault]

IInv ==
  TypeOK /\ VerbOK /\ LockOK /\ GuardOK /\ DeleteOK /\ DoneOK /\ ViewOK /\ RevokedClosed

-----------------------------------------------------------------------------
(* Typing. *)

LEMMA NoJobType ==
  /\ NoJob \in Jobs
  /\ \A v \in Verbs \cup {"reconcile", "apply-browser"}, x \in Slices \cup {NoSlice} :
       /\ [NoJob EXCEPT !.verb = v] \in Jobs
       /\ [NoJob EXCEPT !.verb = v, !.from = x] \in Jobs
BY EmptySeq DEF NoJob, Jobs

LEMMA JobType ==
  ASSUME NEW j \in Jobs
  PROVE  /\ \A x \in BOOLEAN : [j EXCEPT !.ok = x] \in Jobs
         /\ \A x \in Seq(Handles) : [j EXCEPT !.todo = x] \in Jobs
BY DEF Jobs

\* The handles of a chain are a sequence of handles.
LEMMA ListedType == ASSUME TypeOK PROVE Listed \in Seq(Handles)
<1>1. chain \in Seq(Rules) /\ Len(chain) \in Nat
  BY LenProperties DEF TypeOK, ChainOK
<1>2. \A i \in 1..Len(chain) : chain[i] \in Rules
  BY <1>1, ElementOfSeq
<1>3. Listed \in [1..Len(chain) -> Handles]
  BY <1>2 DEF Listed, Rules
<1> QED BY <1>1, <1>3, SeqDef

LEMMA InitType == Init => TypeOK
<1> SUFFICES ASSUME Init PROVE TypeOK OBVIOUS
<1>1. ChainOK(chain)
  BY EmptySeq DEF Init, ChainOK
<1>2. job \in [Procs -> Jobs] /\ pc \in [Procs -> Pcs]
  BY NoJobType DEF Init, Pcs
<1> QED BY <1>1, <1>2 DEF Init, TypeOK, EmptyView

LEMMA StepType ==
  ASSUME TypeOK, NEW s \in Procs, Step(s) PROVE TypeOK'
<1>a. job[s] \in Jobs /\ job[s].todo \in Seq(Handles)
  BY DEF TypeOK, Jobs
<1>b. [job[s] EXCEPT !.ok = TRUE] \in Jobs /\ [job[s] EXCEPT !.ok = FALSE] \in Jobs
  BY <1>a, JobType
<1> USE DEF Goto, SetJob, Ok, Release
<1>i. ASSUME NEW ok \in BOOLEAN, NEW landed \in BOOLEAN, Installed(s, ok, landed)
      PROVE  pc' \in [Procs -> Pcs] /\ job' \in [Procs -> Jobs]
  <2>1. [job[s] EXCEPT !.ok = (ok \/ job[s].verb # "up")] \in Jobs
    BY <1>a, JobType
  <2>2. job' \in [Procs -> Jobs]
    BY <1>i, <2>1 DEF TypeOK, Installed
  <2>3. pc' \in [Procs -> Pcs]
    BY <1>i DEF TypeOK, Installed, Pcs
  <2> QED BY <2>2, <2>3
<1>1. CASE Acquire(s) \/ RecordBless(s) \/ ForgetRecord(s) \/ ClearFault(s) \/ ParkFault(s)
             \/ DropRecord(s)
  <2>1. pc' \in [Procs -> Pcs]
    <3>1. CASE Acquire(s)
      BY <3>1 DEF TypeOK, Acquire, Pcs
    <3>2. CASE RecordBless(s) \/ ClearFault(s) \/ ParkFault(s) \/ DropRecord(s)
      BY <3>2 DEF TypeOK, RecordBless, ClearFault, ParkFault, DropRecord, Pcs
    <3>3. CASE ForgetRecord(s)
      BY <3>3 DEF TypeOK, ForgetRecord, Pcs
    <3> QED BY <1>1, <3>1, <3>2, <3>3
  <2>2. job' = job \/ job' = [job EXCEPT ![s] = [job[s] EXCEPT !.ok = FALSE]]
    BY <1>1 DEF Acquire, RecordBless, ForgetRecord, ClearFault, ParkFault, DropRecord
  <2>3. job' \in [Procs -> Jobs]
    BY <1>b, <2>2 DEF TypeOK
  <2>4. bless' \in BOOLEAN /\ fault' \in BOOLEAN /\ lapsed' \in BOOLEAN
    BY <1>1 DEF TypeOK, Acquire, RecordBless, ForgetRecord, ClearFault, ParkFault, DropRecord
  <2> QED BY <1>1, <2>1, <2>3, <2>4
         DEF TypeOK, Acquire, RecordBless, ForgetRecord, ClearFault, ParkFault, DropRecord
<1>2. CASE Check(s)
  <2>1. pc' \in [Procs -> Pcs] /\ job' \in [Procs -> Jobs]
    BY <1>2, <1>i DEF TypeOK, Check, Pcs
  <2> QED BY <1>2, <2>1 DEF TypeOK, Check
<1>3. CASE InstallFails(s)
  <2>1. pc' \in [Procs -> Pcs] /\ job' \in [Procs -> Jobs]
    BY <1>3, <1>i DEF InstallFails
  <2> QED BY <1>3, <2>1 DEF TypeOK, InstallFails
<1>4. ASSUME NEW kind \in Kinds, Insert(s, kind) PROVE TypeOK'
  <2>1. PICK r \in NewRule(kind) : chain' = Append(chain, r)
    BY <1>4 DEF Insert
  <2>2. r \in Rules /\ r.handle \notin {chain[i].handle : i \in 1..Len(chain)}
    BY <1>4, <2>1 DEF TypeOK, NewRule, Rules, Insert
  <2>3. ChainOK(chain')
    BY <2>1, <2>2, AppendChain DEF TypeOK
  <2>4. pc' \in [Procs -> Pcs] /\ job' \in [Procs -> Jobs]
    BY <1>4, <1>i DEF TypeOK, Insert, Pcs
  <2> QED BY <1>4, <2>3, <2>4 DEF TypeOK, Insert
<1>5. CASE ListRules(s)
  <2>1. [job[s] EXCEPT !.todo = Listed] \in Jobs
    BY <1>a, JobType, ListedType
  <2>2. job' \in [Procs -> Jobs] /\ pc' \in [Procs -> Pcs]
    <3>1. CASE SetJob(s, [job[s] EXCEPT !.todo = Listed]) /\ Goto(s, "delete")
      BY <3>1, <2>1 DEF TypeOK, Pcs
    <3>2. CASE Ok(s, FALSE) /\ Goto(s, "park")
      BY <3>2, <1>b DEF TypeOK, Pcs
    <3> QED BY <1>5, <3>1, <3>2 DEF ListRules
  <2> QED BY <1>5, <2>2 DEF TypeOK, ListRules
<1>6. CASE DeleteRule(s)
  <2>1. ChainOK(chain')
    BY <1>6, RemoveChain DEF TypeOK, DeleteRule
  <2>2. job' \in [Procs -> Jobs]
    <3>1. Tail(job[s].todo) \in Seq(Handles)
      BY <1>6, <1>a, HeadTailProperties DEF DeleteRule
    <3>2. [job[s] EXCEPT !.todo = Tail(job[s].todo)] \in Jobs
      BY <1>a, <3>1, JobType
    <3> QED BY <1>6, <1>b, <3>2 DEF TypeOK, DeleteRule
  <2>3. pc' \in [Procs -> Pcs]
    BY <1>6 DEF TypeOK, DeleteRule, Pcs
  <2> QED BY <1>6, <2>1, <2>2, <2>3 DEF TypeOK, DeleteRule
<1>7. CASE Project(s) \/ Leave(s)
  <2>1. Finish(s)
    BY <1>7 DEF Project, Leave
  <2>2. pc' \in [Procs -> Pcs] /\ job' \in [Procs -> Jobs]
    BY <2>1, NoJobType DEF TypeOK, Finish, Pcs
  <2>3. lock' \in Procs \cup {"free"}
    BY <2>1 DEF TypeOK, Finish
  <2>4. view' \in [bless : BOOLEAN, fault : BOOLEAN]
    BY <1>7 DEF TypeOK, Project, Leave
  <2> QED BY <1>7, <2>2, <2>3, <2>4 DEF TypeOK, Project, Leave
<1> QED BY <1>1, <1>2, <1>3, <1>4, <1>5, <1>6, <1>7 DEF Step

LEMMA NextType == TypeOK /\ [Next]_vars => TypeOK'
<1> SUFFICES ASSUME TypeOK, [Next]_vars PROVE TypeOK' OBVIOUS
<1> USE DEF Goto, SetJob, Release
<1>1. CASE DaemonStart
  BY <1>1, NoJobType DEF TypeOK, DaemonStart, Pcs
<1>2. ASSUME NEW v \in Verbs, Request(v) PROVE TypeOK'
  BY <1>2, NoJobType DEF TypeOK, Request, Pcs
<1>3. ASSUME NEW v \in CliVerbs, CliStart(v) PROVE TypeOK'
  <2>1. [NoJob EXCEPT !.verb = v] \in Jobs
    BY NoJobType, BrowserAssumption
  <2> QED BY <1>3, <2>1 DEF TypeOK, CliStart, Pcs
<1>4. ASSUME NEW s \in Procs, Crash(s) PROVE TypeOK'
  BY <1>4, NoJobType DEF TypeOK, Crash, Pcs
<1>5. CASE Login \/ Logout
  BY <1>5 DEF TypeOK, Login, Logout
<1>6. CASE Reboot
  <2>1. ChainOK(chain')
    BY <1>6, EmptySeq DEF Reboot, ChainOK
  <2>2. job' \in [Procs -> Jobs] /\ pc' \in [Procs -> Pcs]
    BY <1>6, NoJobType DEF Reboot, Pcs
  <2> QED BY <1>6, <2>1, <2>2 DEF TypeOK, Reboot, EmptyView
<1>7. CASE UNCHANGED vars
  BY <1>7 DEF TypeOK, vars
<1> QED BY <1>1, <1>2, <1>3, <1>4, <1>5, <1>6, <1>7, StepType DEF Next

\* The store, the chain, the projection and the locals keep their types, for any
\* cgroup ids, handles, failures and command-line verbs.
THEOREM TypeCorrect == Spec => []TypeOK
BY InitType, NextType, PTL DEF Spec

-----------------------------------------------------------------------------
(* The invariant holds. *)

Rest == VerbOK /\ LockOK /\ GuardOK /\ DeleteOK /\ DoneOK /\ ViewOK /\ RevokedClosed

\* A process other than a locked one is the daemon at boot, or not at work.
LEMMA OnlyOneAtWork ==
  ASSUME TypeOK, VerbOK, LockOK, NEW s \in Procs, NEW o \in Procs, o # s,
         Busy(s), job[s].verb # "reconcile"
  PROVE  s = "daemon" /\ ~Busy(o)
<1>1. job["cli"].verb \in {"none", "reconcile"}
  BY DEF VerbOK
<1>2. lock = s
  BY DEF LockOK
<1>3. s = "daemon" \/ job[s].verb = "none"
  BY <1>1
<1>4. job["cli"].verb = "none" => ~Busy("cli")
  BY DEF VerbOK, Busy, TypeOK, Pcs, Verbs
<1> QED BY <1>2, <1>3, <1>4 DEF LockOK

LEMMA InitIInv == Init => IInv
<1> SUFFICES ASSUME Init PROVE IInv OBVIOUS
<1>1. TypeOK
  BY InitType
<1> QED
  BY <1>1 DEF Init, IInv, VerbOK, LockOK, GuardOK, DeleteOK, DoneOK, ViewOK, RevokedClosed,
     Busy, NoJob, EmptyView, Kinds

\* What a step does to the locals of the process that takes it.
LEMMA StepLocals ==
  ASSUME TypeOK, VerbOK, NEW s \in Procs, Step(s)
  PROVE  /\ Project(s) \/ Leave(s) \/ job'[s].verb = job[s].verb
         /\ \A o \in Procs \ {s} : pc'[o] = pc[o] /\ job'[o] = job[o]
<1> USE DEF Goto, SetJob, Ok, TypeOK, Jobs
<1>1. \A o \in Procs \ {s} : pc'[o] = pc[o] /\ job'[o] = job[o]
  BY DEF Step, Acquire, RecordBless, ForgetRecord, ClearFault, Check, Insert, InstallFails, Installed,
         ListRules, DeleteRule, ParkFault, DropRecord, Project, Leave, Finish
<1>2. CASE Acquire(s) \/ RecordBless(s) \/ ForgetRecord(s) \/ ClearFault(s) \/ ParkFault(s)
             \/ DropRecord(s)
  BY <1>1, <1>2 DEF Acquire, RecordBless, ForgetRecord, ClearFault, ParkFault, DropRecord
<1>3. CASE ListRules(s) \/ DeleteRule(s)
  BY <1>1, <1>3 DEF ListRules, DeleteRule
<1>4. CASE Check(s) \/ InstallFails(s) \/ \E kind \in Kinds : Insert(s, kind)
  BY <1>1, <1>4 DEF Check, InstallFails, Insert, Installed
<1> QED BY <1>1, <1>2, <1>3, <1>4 DEF Step

LEMMA StepRest ==
  ASSUME TypeOK, Rest, NEW s \in Procs, Step(s) PROVE Rest'
<1>a. VerbOK /\ LockOK /\ GuardOK /\ DeleteOK /\ DoneOK /\ ViewOK /\ RevokedClosed
  BY DEF Rest
<1>b. /\ Project(s) \/ Leave(s) \/ job'[s].verb = job[s].verb
      /\ \A o \in Procs \ {s} : pc'[o] = pc[o] /\ job'[o] = job[o]
  BY <1>a, StepLocals
<1>c. /\ pc[s] = "record" => s = "daemon" /\ job[s].verb = "bless"
      /\ pc[s] = "forget" => s = "daemon" /\ job[s].verb = "remove"
      /\ pc[s] = "clear" => s = "daemon" /\ job[s].verb \in {"bless", "unbless", "remove"}
      /\ pc[s] \in {"list", "delete", "park"} => s = "daemon" /\ job[s].verb = "unbless"
  BY <1>a DEF VerbOK
<1>d. \A o \in Procs \ {s} :
        Busy(s) /\ job[s].verb # "reconcile" => s = "daemon" /\ ~Busy(o)
  BY <1>a, OnlyOneAtWork
<1> USE DEF Goto, SetJob, Ok, TypeOK, Jobs
<1>1. CASE Acquire(s)
  BY <1>1, <1>a, <1>b DEF Acquire, Rest, VerbOK, LockOK, GuardOK, DeleteOK, DoneOK, ViewOK,
     RevokedClosed, Busy, Kinds, Verbs
<1>2. CASE RecordBless(s)
  BY <1>2, <1>a, <1>b, <1>c DEF RecordBless, Rest, VerbOK, LockOK, GuardOK, DeleteOK, DoneOK,
     ViewOK, RevokedClosed, Busy, Kinds, Verbs
<1>3. CASE ClearFault(s)
  BY <1>3, <1>a, <1>b, <1>c DEF ClearFault, Rest, VerbOK, LockOK, GuardOK, DeleteOK, DoneOK,
     ViewOK, RevokedClosed, Busy, Kinds, Verbs
<1>4. CASE Check(s)
  BY <1>4, <1>a, <1>b DEF Check, Installed, Rest, VerbOK, LockOK, GuardOK, DeleteOK, DoneOK,
     ViewOK, RevokedClosed, Busy, Kinds, Verbs
<1>5. CASE InstallFails(s)
  BY <1>5, <1>a, <1>b DEF InstallFails, Installed, Rest, VerbOK, LockOK, GuardOK, DeleteOK,
     DoneOK, ViewOK, RevokedClosed, Busy, Kinds, Verbs
<1>6. ASSUME NEW kind \in Kinds, Insert(s, kind) PROVE Rest'
  <2>1. pc[s] = kind /\ bless /\ bless' = bless /\ Busy(s)
    BY <1>6, <1>a DEF Insert, GuardOK, Busy, Kinds
  <2>2. job[s].verb \in {"bless", "up", "reconcile"}
    BY <2>1, <1>a DEF VerbOK, Kinds
  <2>4. ASSUME NEW o \in Procs PROVE ~(job[o].verb = "unbless" /\ Busy(o))
    <3>1. CASE o = s
      BY <3>1, <2>2
    <3>2. CASE o # s
      <4>1. job[o].verb = "unbless" /\ Busy(o) => ~Busy(s)
        BY <3>2, <1>a, OnlyOneAtWork
      <4> QED BY <4>1, <2>1
    <3> QED BY <3>1, <3>2
  <2>5. pc'[s] \in {"stub", "leave", "project"}
    BY <1>6 DEF Insert, Installed
  <2>6. \A o \in Procs : pc'[o] # "delete"
    <3>1. ASSUME NEW o \in Procs, o # s PROVE pc'[o] # "delete"
      <4>1. pc[o] = "delete" => job[o].verb = "unbless" /\ Busy(o)
        BY <1>a DEF VerbOK, Busy
      <4> QED BY <1>b, <2>4, <3>1, <4>1
    <3> QED BY <2>5, <3>1
  <2>8. DeleteOK'
    BY <2>6 DEF DeleteOK
  <2>9. job'[s].verb = job[s].verb
    BY <1>6, <1>b, <2>1 DEF Project, Leave, Kinds
  <2>10. ASSUME NEW o \in Procs, job'[o].verb = "unbless"
         PROVE  o # s /\ job'[o] = job[o] /\ pc'[o] = pc[o] /\ pc[o] \in {"off", "idle", "wait"}
    <3>1. o # s
      BY <2>2, <2>9, <2>10
    <3>2. job'[o] = job[o] /\ pc'[o] = pc[o]
      BY <1>b, <3>1
    <3> QED BY <2>4, <2>10, <3>1, <3>2 DEF Busy
  <2>11. DoneOK'
    BY <1>a, <2>10 DEF DoneOK
  <2>7. VerbOK' /\ LockOK' /\ GuardOK' /\ ViewOK' /\ RevokedClosed'
    BY <1>6, <1>a, <1>b DEF Insert, Installed, VerbOK, LockOK, GuardOK, ViewOK, RevokedClosed,
       Busy, Kinds, Verbs
  <2> QED BY <2>7, <2>8, <2>11 DEF Rest
<1>7. CASE ListRules(s)
  <2>1. \A o \in Procs \ {s} : pc[o] # "delete"
    BY <1>7, <1>c, <1>d DEF ListRules, Busy
  <2>2. DeleteOK'
    <3>1. pc'[s] = "delete" => job'[s].todo = Listed /\ chain' = chain
      BY <1>7 DEF ListRules
    <3>2. pc'[s] = "delete" =>
            \A i \in 1..Len(chain') : \E j \in 1..Len(job'[s].todo) :
              chain'[i].handle = job'[s].todo[j]
      <4>1. Len(Listed) = Len(chain) /\ \A i \in 1..Len(chain) : Listed[i] = chain[i].handle
        <5>1. Len(chain) \in Nat
          BY LenProperties DEF ChainOK
        <5> QED BY <5>1 DEF Listed
      <4> QED BY <3>1, <4>1
    <3>3. ASSUME NEW o \in Procs, pc'[o] = "delete" PROVE o = s
      BY <1>b, <2>1, <3>3
    <3> HIDE DEF TypeOK, Jobs
    <3>4. ASSUME NEW o \in Procs, pc'[o] = "delete"
          PROVE  \A i \in 1..Len(chain') : \E j \in 1..Len(job'[o].todo) :
                   chain'[i].handle = job'[o].todo[j]
      BY <3>2, <3>3, <3>4
    <3> QED BY <3>4 DEF DeleteOK
  <2>3. VerbOK' /\ LockOK'
    BY <1>7, <1>a, <1>b, <1>c DEF ListRules, VerbOK, LockOK, Busy, Kinds, Verbs
  <2>4. GuardOK' /\ ViewOK'
    BY <1>7, <1>a, <1>b, <1>c DEF ListRules, GuardOK, ViewOK, Busy, Kinds, Verbs
  <2>5. RevokedClosed'
    BY <1>7, <1>a DEF ListRules, RevokedClosed
  <2>6. DoneOK'
    <3>1. /\ pc[s] = "list" /\ job[s].ok /\ fault' = fault /\ chain' = chain
          /\ (pc'[s] = "delete" /\ job'[s].ok) \/ (pc'[s] = "park" /\ ~job'[s].ok)
      BY <1>7, <1>a, <1>c DEF ListRules, DoneOK
    <3> HIDE DEF TypeOK, Jobs
    <3>2. ASSUME NEW o \in Procs \ {s} PROVE pc'[o] = pc[o] /\ job'[o] = job[o] /\ pc[o] # "project"
      BY <1>b, <1>c, <1>d, <3>1 DEF Busy
    <3> QED BY <1>a, <3>1, <3>2 DEF DoneOK
  <2> QED BY <2>2, <2>3, <2>4, <2>5, <2>6 DEF Rest
<1>8. CASE DeleteRule(s)
  <2>1. pc[s] = "delete" /\ s = "daemon" /\ job[s].verb = "unbless" /\ Busy(s)
    BY <1>8, <1>c DEF DeleteRule, Busy
  <2>2. \A o \in Procs \ {s} : ~Busy(o)
    BY <1>d, <2>1
  <2>3. CASE pc'[s] = "park"
    <3>1. \A o \in Procs : pc'[o] # "delete"
      BY <1>b, <2>2, <2>3 DEF Busy
    <3>2. chain' = chain
      BY <1>8, <2>1, <2>3 DEF DeleteRule
    <3> QED BY <1>8, <1>a, <1>b, <2>1, <2>3, <3>1, <3>2 DEF DeleteRule, Rest, VerbOK, LockOK,
               GuardOK, DeleteOK, DoneOK, ViewOK, RevokedClosed, Busy, Kinds, Verbs
  <2>4. CASE pc'[s] # "park"
    <3>1. PICK i \in 1..Len(chain) :
            /\ chain[i].handle = Head(job[s].todo) /\ chain' = RemoveAt(chain, i)
            /\ job' = [job EXCEPT ![s] = [job[s] EXCEPT !.todo = Tail(@)]]
            /\ pc' = pc
      BY <1>8, <2>1, <2>4 DEF DeleteRule
    <3>2. /\ job[s] \in Jobs /\ job[s].todo \in Seq(Handles) /\ job[s].todo # <<>>
          /\ job'[s] = [job[s] EXCEPT !.todo = Tail(job[s].todo)]
      BY <1>8, <3>1 DEF DeleteRule
    <3>3. job'[s].todo = Tail(job[s].todo) /\ job'[s].ok = job[s].ok
      BY <3>2
    <3>4. \A j \in 1..Len(chain') : \E k \in 1..Len(chain) :
            chain'[j] = chain[k] /\ chain[k].handle # Head(job[s].todo)
      BY <3>1, RemoveChain
    <3>5. ASSUME NEW j \in 1..Len(chain')
          PROVE  \E n \in 1..Len(job'[s].todo) : chain'[j].handle = job'[s].todo[n]
      <4>1. PICK k \in 1..Len(chain) :
              chain'[j] = chain[k] /\ chain[k].handle # Head(job[s].todo)
        BY <3>4
      <4>2. PICK n \in 1..Len(job[s].todo) : chain[k].handle = job[s].todo[n]
        BY <1>a, <2>1 DEF DeleteOK
      <4>3. /\ Len(job[s].todo) \in Nat /\ Head(job[s].todo) = job[s].todo[1]
            /\ Len(Tail(job[s].todo)) = Len(job[s].todo) - 1
            /\ \A m \in 1..Len(Tail(job[s].todo)) : Tail(job[s].todo)[m] = job[s].todo[m + 1]
        BY <3>2, HeadTailProperties, LenProperties
      <4>4. n # 1
        BY <4>1, <4>2, <4>3
      <4>5. n - 1 \in 1..Len(Tail(job[s].todo))
        BY <4>3, <4>4
      <4>6. Tail(job[s].todo)[n - 1] = job[s].todo[n]
        BY <4>3, <4>5
      <4> QED BY <3>3, <4>1, <4>2, <4>5, <4>6
    <3>6. DeleteOK'
      <4>1. ASSUME NEW o \in Procs, pc'[o] = "delete" PROVE o = s
        BY <2>2, <3>1, <4>1 DEF Busy
      <4> HIDE DEF TypeOK, Jobs
      <4>2. ASSUME NEW o \in Procs, pc'[o] = "delete"
            PROVE  \A j \in 1..Len(chain') : \E n \in 1..Len(job'[o].todo) :
                     chain'[j].handle = job'[o].todo[n]
        BY <3>5, <4>1, <4>2
      <4> QED BY <4>2 DEF DeleteOK
    <3>7. RevokedClosed'
      <4>1. chain # <<>> /\ bless' = bless /\ lapsed' = lapsed
        BY <1>8, <3>1 DEF DeleteRule
      <4> QED BY <1>a, <4>1 DEF RevokedClosed
    <3>8. VerbOK' /\ LockOK' /\ GuardOK' /\ ViewOK'
      <4>1. VerbOK' /\ LockOK'
        BY <1>8, <1>a, <1>b, <2>1, <3>1 DEF DeleteRule, VerbOK, LockOK, Busy, Kinds, Verbs
      <4>2. GuardOK' /\ ViewOK'
        BY <1>8, <1>a, <1>b, <2>1, <3>1 DEF DeleteRule, GuardOK, ViewOK, Busy, Kinds, Verbs
      <4> QED BY <4>1, <4>2
    <3>9. DoneOK'
      <4>1. \A o \in Procs \ {s} : pc[o] \in {"off", "idle", "wait"}
        BY <2>2 DEF Busy
      <4>2. pc' = pc /\ job'[s].ok = job[s].ok /\ \A o \in Procs \ {s} : job'[o] = job[o]
        BY <1>b, <3>1, <3>3
      <4> HIDE DEF TypeOK, Jobs
      <4> QED BY <1>a, <2>1, <4>1, <4>2 DEF DoneOK
    <3> QED BY <3>6, <3>7, <3>8, <3>9 DEF Rest
  <2> QED BY <2>3, <2>4
<1>9. CASE ParkFault(s)
  <2>1. VerbOK' /\ LockOK'
    BY <1>9, <1>a, <1>b, <1>c, <1>d DEF ParkFault, VerbOK, LockOK, Busy, Kinds, Verbs
  <2>2. GuardOK' /\ ViewOK' /\ RevokedClosed'
    BY <1>9, <1>a, <1>b, <1>c, <1>d DEF ParkFault, GuardOK, ViewOK, RevokedClosed, Busy, Kinds,
       Verbs
  <2>3. DeleteOK' /\ DoneOK'
    BY <1>9, <1>a, <1>b, <1>c, <1>d DEF ParkFault, DeleteOK, DoneOK, Busy, Kinds, Verbs
  <2> QED BY <2>1, <2>2, <2>3 DEF Rest
<1>10. CASE DropRecord(s)
  <2>1. /\ pc[s] = "delete" /\ job[s].todo = <<>> /\ pc' = [pc EXCEPT ![s] = "clear"]
        /\ bless' = FALSE \/ (bless' = bless /\ lapsed' = lapsed)
        /\ UNCHANGED <<fault, slice, chain, view, lock, job>>
    BY <1>10 DEF DropRecord
  <2>2. s = "daemon" /\ job[s].verb = "unbless" /\ \A o \in Procs \ {s} : ~Busy(o)
    BY <1>c, <1>d, <2>1 DEF Busy
  <2>3. pc'[s] = "clear" /\ \A o \in Procs \ {s} : pc'[o] \in {"off", "idle", "wait"}
    BY <1>b, <2>1, <2>2 DEF Busy
  <2>4. chain = <<>>
    <3>1. Len(job[s].todo) = 0 BY <2>1
    <3>2. Len(chain) \in Nat /\ (Len(chain) = 0 => chain = <<>>)
      BY LenProperties, EmptySeq DEF ChainOK
    <3>3. \A i \in 1..Len(chain) : \E j \in 1..Len(job[s].todo) : TRUE
      BY <1>a, <2>1 DEF DeleteOK
    <3> QED BY <3>1, <3>2, <3>3
  <2> HIDE DEF Jobs
  <2>5. VerbOK' BY <1>a, <2>1, <2>2, <2>3 DEF VerbOK
  <2>6. LockOK' BY <1>a, <2>1, <2>2, <2>3 DEF LockOK, Busy
  <2>7. GuardOK' /\ DeleteOK' BY <2>3 DEF GuardOK, DeleteOK, Kinds
  <2>8. DoneOK' /\ RevokedClosed' BY <1>a, <2>1, <2>2, <2>3, <2>4 DEF DoneOK, RevokedClosed
  <2>9. ViewOK' BY <2>1, <2>2, <2>3 DEF ViewOK
  <2> QED BY <2>5, <2>6, <2>7, <2>8, <2>9 DEF Rest
<1>11. CASE ForgetRecord(s)
  <2>1. /\ pc[s] = "forget" /\ pc'[s] \in {"clear", "leave"}
        /\ \/ bless' = FALSE /\ (lapsed \/ (bless /\ chain # <<>>) => lapsed')
           \/ bless' = bless /\ lapsed' = lapsed
        /\ pc'[s] = "leave" => bless' = bless
        /\ UNCHANGED <<fault, slice, chain, view, lock>>
    BY <1>11 DEF ForgetRecord
  <2>2. s = "daemon" /\ job[s].verb = "remove" /\ \A o \in Procs \ {s} : ~Busy(o)
    BY <1>c, <1>d, <2>1 DEF Busy
  <2>3. /\ job'[s].verb = "remove"
        /\ \A o \in Procs \ {s} : pc'[o] \in {"off", "idle", "wait"}
    BY <1>11, <1>b, <2>2 DEF ForgetRecord, Busy
  <2> HIDE DEF TypeOK, Jobs
  <2>4. VerbOK' BY <1>a, <1>b, <2>1, <2>2, <2>3 DEF VerbOK
  <2>5. LockOK' BY <1>a, <1>b, <2>1, <2>2, <2>3 DEF LockOK, Busy
  <2>6. GuardOK' /\ DeleteOK' BY <2>1, <2>3 DEF GuardOK, DeleteOK, Kinds
  <2>7. DoneOK'
    <3>1. ASSUME NEW o \in Procs, job'[o].verb = "unbless"
          PROVE  o # s /\ job'[o] = job[o] /\ pc'[o] = pc[o] /\ pc[o] \in {"off", "idle", "wait"}
      BY <1>b, <2>3, <3>1
    <3> QED BY <1>a, <3>1 DEF DoneOK
  <2>8. RevokedClosed' BY <1>a, <2>1 DEF RevokedClosed
  <2>9. ViewOK'
    <3>1. view = [bless |-> bless, fault |-> fault]
      BY <1>a, <2>1, <2>2 DEF ViewOK
    <3>2. pc'["daemon"] # "clear" => bless' = bless
      BY <2>1, <2>2
    <3> QED BY <2>1, <2>2, <2>3, <3>1, <3>2 DEF ViewOK
  <2> QED BY <2>4, <2>5, <2>6, <2>7, <2>8, <2>9 DEF Rest
<1>12. CASE Project(s) \/ Leave(s)
  BY <1>12, <1>a, <1>b DEF Project, Leave, Finish, Release, NoJob, Rest, VerbOK, LockOK, GuardOK,
     DeleteOK, DoneOK, ViewOK, RevokedClosed, Busy, Kinds, Verbs
<1> QED
  BY <1>1, <1>2, <1>3, <1>4, <1>5, <1>6, <1>7, <1>8, <1>9, <1>10, <1>11, <1>12 DEF Step

\* Requests, starts and crashes move one process and leave the store, the chain
\* and the projection alone.
LEMMA OutsideRest ==
  ASSUME Rest, NEW o \in Procs,
         UNCHANGED <<bless, fault, chain, lapsed, view>>,
         \A p \in Procs \ {o} :
           pc'[p] = pc[p] /\ job'[p] = job[p] /\ (lock = p => lock' = p),
         \/ pc'[o] = "off" /\ job'[o].verb = "none"
         \/ /\ pc'[o] = "wait" /\ job'[o].ok
            /\ IF o = "daemon" THEN pc[o] = "idle" /\ job'[o].verb \in Verbs
                               ELSE job'[o].verb = "reconcile"
         \/ o = "daemon" /\ pc'[o] = "check" /\ job'[o].verb = "reconcile"
  PROVE  Rest'
<1>a. VerbOK /\ LockOK /\ GuardOK /\ DeleteOK /\ DoneOK /\ ViewOK /\ RevokedClosed
  BY DEF Rest
<1>1. VerbOK'
  BY <1>a DEF VerbOK, Verbs
<1>2. LockOK' /\ GuardOK'
  BY <1>a DEF LockOK, GuardOK, Busy, Kinds, Verbs
<1>3. DeleteOK'
  BY <1>a DEF DeleteOK
<1>4. DoneOK'
  BY <1>a DEF DoneOK
<1>5. ViewOK' /\ RevokedClosed'
  BY <1>a DEF ViewOK, RevokedClosed
<1> QED BY <1>1, <1>2, <1>3, <1>4, <1>5 DEF Rest

LEMMA NextRest ==
  ASSUME CliVerbs \subseteq {"reconcile"}, IInv, [Next]_vars PROVE IInv'
<1> SUFFICES Rest'
  BY NextType DEF IInv, Rest
<1>a. TypeOK /\ Rest
  BY DEF IInv, Rest
<1>b. VerbOK /\ LockOK /\ GuardOK /\ DeleteOK /\ DoneOK /\ ViewOK /\ RevokedClosed
  BY DEF IInv
<1>c. pc \in [Procs -> Pcs] /\ job \in [Procs -> Jobs] /\ NoJob.verb = "none"
  BY <1>a DEF TypeOK, NoJob
<1>1. ASSUME NEW s \in Procs, Step(s) PROVE Rest'
  BY <1>1, <1>a, StepRest
<1>2. CASE DaemonStart
  <2>1. /\ pc'["daemon"] = "check" /\ job'["daemon"].verb = "reconcile" /\ lock' = lock
        /\ UNCHANGED <<bless, fault, chain, lapsed, view>>
        /\ \A p \in Procs \ {"daemon"} : pc'[p] = pc[p] /\ job'[p] = job[p]
    BY <1>2, <1>c DEF DaemonStart, Goto, SetJob, NoJob
  <2> QED BY <1>a, <2>1, OutsideRest
<1>3. ASSUME NEW v \in Verbs, Request(v) PROVE Rest'
  <2>1. /\ pc["daemon"] = "idle" /\ pc'["daemon"] = "wait" /\ lock' = lock
        /\ job'["daemon"].verb \in Verbs /\ job'["daemon"].ok
        /\ UNCHANGED <<bless, fault, chain, lapsed, view>>
        /\ \A p \in Procs \ {"daemon"} : pc'[p] = pc[p] /\ job'[p] = job[p]
    BY <1>3, <1>c DEF Request, Goto, SetJob, NoJob
  <2> QED BY <1>a, <2>1, OutsideRest
<1>4. ASSUME NEW v \in CliVerbs, CliStart(v) PROVE Rest'
  <2>1. /\ pc'["cli"] = "wait" /\ job'["cli"].verb = "reconcile" /\ job'["cli"].ok
        /\ UNCHANGED <<bless, fault, chain, lapsed, view>> /\ lock' = lock
        /\ \A p \in Procs \ {"cli"} : pc'[p] = pc[p] /\ job'[p] = job[p]
    BY <1>4, <1>c DEF CliStart, Goto, SetJob, NoJob
  <2> QED BY <1>a, <2>1, OutsideRest
<1>5. ASSUME NEW s \in Procs, Crash(s) PROVE Rest'
  <2>1. /\ pc'[s] = "off" /\ job'[s].verb = "none"
        /\ UNCHANGED <<bless, fault, chain, lapsed, view>>
        /\ \A p \in Procs \ {s} :
             pc'[p] = pc[p] /\ job'[p] = job[p] /\ (lock = p => lock' = p)
    BY <1>5, <1>c DEF Crash, Goto, SetJob, Release
  <2> QED BY <1>a, <2>1, OutsideRest
<1>6. CASE Login \/ Logout
  BY <1>6, <1>b DEF Login, Logout, Rest, VerbOK, LockOK, GuardOK, DeleteOK, DoneOK, ViewOK,
     RevokedClosed, Busy
<1>7. CASE Reboot
  <2>1. /\ \A p \in Procs : pc'[p] = "off" /\ job'[p].verb = "none"
        /\ chain' = <<>>
    BY <1>7, <1>c DEF Reboot
  <2> QED BY <2>1 DEF Rest, VerbOK, LockOK, GuardOK, DeleteOK, DoneOK, ViewOK, RevokedClosed, Busy,
             Kinds
<1>8. CASE UNCHANGED vars
  BY <1>8, <1>b DEF vars, Rest, VerbOK, LockOK, GuardOK, DeleteOK, DoneOK, ViewOK, RevokedClosed,
     Busy
<1> QED
  BY <1>1, <1>2, <1>3, <1>4, <1>5, <1>6, <1>7, <1>8 DEF Next

-----------------------------------------------------------------------------
(* The properties.  They need apply-browser, which takes no lock and reads no *)
(* record, to stay unused beside the daemon.                                  *)

LEMMA Inductive == CliVerbs \subseteq {"reconcile"} /\ Spec => []IInv
<1> SUFFICES ASSUME CliVerbs \subseteq {"reconcile"} PROVE Spec => []IInv OBVIOUS
<1>1. IInv /\ [Next]_vars => IInv'
  BY NextRest
<1> QED BY <1>1, InitIInv, PTL DEF Spec

\* Never revoked in the store and still allowed in the kernel: confirmed_unbless
\* deletes every listed rule before it drops the record, and nothing that holds the
\* store lock can add one in between.  Only confirmed_manifest_remove, which takes
\* the record and leaves the chain alone, is excepted (lapsed).
THEOREM RevokedIsClosed == CliVerbs \subseteq {"reconcile"} /\ Spec => []RevokedClosed
<1>1. IInv => RevokedClosed
  BY DEF IInv
<1> QED BY <1>1, Inductive, PTL

\* The projection shows the store between requests, and so no "off" in the panel
\* while browser rules are in the chain that a manifest removal did not leave there.
THEOREM PanelIsTrue ==
  CliVerbs \subseteq {"reconcile"} /\ Spec => [](PanelCurrent /\ PanelOff)
<1>1. IInv => PanelCurrent /\ PanelOff
  BY DEF IInv, ViewOK, RevokedClosed, PanelCurrent, PanelOff, Quiet, TypeOK
<1> QED BY <1>1, Inductive, PTL

\* confirmed_unbless answers OK with an empty chain and ERR with a parked fault.
THEOREM UnblessIsAnswered == CliVerbs \subseteq {"reconcile"} /\ Spec => []UnblessAnswered
<1>1. IInv => UnblessAnswered
  BY DEF IInv, DoneOK, UnblessAnswered, TypeOK, Jobs
<1> QED BY <1>1, Inductive, PTL

-----------------------------------------------------------------------------
(* One pair, when only the daemon runs these verbs. *)

\* No kind of rule is in the chain twice, whatever slice it names; between the
\* look at the chain and the inserts nothing came into it.
PairInv ==
  /\ pc["cli"] = "off"
  /\ \A i, j \in 1..Len(chain) : chain[i].kind = chain[j].kind => i = j
  /\ pc["daemon"] = "broad" => chain = <<>>
  /\ pc["daemon"] = "stub" => chain # <<>> /\ \A i \in 1..Len(chain) : chain[i].kind = "broad"

\* The command line stays off, so a step is the daemon's; it inserts, deletes,
\* finds the chain empty, or leaves the chain alone.
LEMMA ChainSteps ==
  ASSUME TypeOK, pc["cli"] = "off", NEW s \in Procs, Step(s)
  PROVE  /\ s = "daemon" /\ pc'["cli"] = "off"
         /\ \/ DeleteRule(s) \/ \E kind \in Kinds : Insert(s, kind)
            \/ /\ chain' = chain /\ pc'[s] # "stub"
               /\ pc'[s] = "broad" => pc[s] = "check" /\ bless /\ slice # NoSlice /\ chain = <<>>
<1>1. s = "daemon"
  BY DEF Step, Acquire, RecordBless, ForgetRecord, ClearFault, Check, Insert, InstallFails, Kinds, ListRules,
         DeleteRule, ParkFault, DropRecord, Project, Leave
<1>2. \A to : Goto(s, to) => pc'[s] = to /\ pc'["cli"] = "off"
  BY <1>1 DEF Goto, TypeOK
<1>3. CASE Acquire(s) \/ RecordBless(s) \/ ForgetRecord(s) \/ ClearFault(s) \/ ListRules(s)
             \/ ParkFault(s) \/ DropRecord(s)
  <2>1. /\ chain' = chain
        /\ \E to \in {"record", "forget", "list", "check", "clear", "leave", "project", "delete",
                      "park"} : Goto(s, to)
    BY <1>3 DEF Acquire, RecordBless, ForgetRecord, ClearFault, ListRules, ParkFault, DropRecord
  <2> QED BY <1>1, <1>2, <2>1
<1>4. CASE Project(s) \/ Leave(s)
  <2>1. chain' = chain /\ Goto(s, "idle")
    BY <1>1, <1>4 DEF Project, Leave, Finish
  <2> QED BY <1>1, <1>2, <2>1
<1>5. ASSUME NEW ok, NEW landed, Installed(s, ok, landed) PROVE pc'[s] \in {"leave", "project"} /\ pc'["cli"] = "off"
  <2>1. \E to \in {"leave", "project"} : Goto(s, to)
    BY <1>5 DEF Installed
  <2> QED BY <1>2, <2>1
<1>6. CASE Check(s)
  <2>1. chain' = chain /\ pc[s] = "check"
    BY <1>6 DEF Check
  <2>2. CASE bless /\ slice # NoSlice /\ chain = <<>>
    <3>1. pc'[s] = "broad" /\ pc'["cli"] = "off"
      BY <1>2, <1>6, <2>2 DEF Check
    <3> QED BY <1>1, <2>1, <2>2, <3>1
  <2>3. CASE ~(bless /\ slice # NoSlice /\ chain = <<>>)
    <3>1. pc'[s] \in {"leave", "project"} /\ pc'["cli"] = "off"
      BY <1>5, <1>6, <2>3 DEF Check
    <3> QED BY <1>1, <2>1, <3>1
  <2> QED BY <2>2, <2>3
<1>7. CASE InstallFails(s)
  BY <1>1, <1>5, <1>7 DEF InstallFails
<1>8. ASSUME NEW kind \in Kinds, Insert(s, kind) PROVE pc'["cli"] = "off"
  BY <1>2, <1>5, <1>8 DEF Insert
<1>9. CASE DeleteRule(s)
  BY <1>1, <1>2, <1>9 DEF DeleteRule
<1> QED BY <1>1, <1>3, <1>4, <1>6, <1>7, <1>8, <1>9 DEF Step

\* An insert puts a rule of its kind for the slice that is up at the end.
LEMMA InsertIs ==
  ASSUME TypeOK, NEW s \in Procs, NEW kind \in Kinds, Insert(s, kind)
  PROVE  /\ pc[s] = kind /\ slice \in Slices /\ Len(chain) \in Nat
         /\ Len(chain') = Len(chain) + 1 /\ chain' # <<>>
         /\ \A i \in 1..Len(chain) : chain'[i] = chain[i]
         /\ chain'[Len(chain) + 1].kind = kind /\ chain'[Len(chain) + 1].slice = slice
         /\ pc'[s] = "stub" => kind = "broad"
<1>1. PICK r \in NewRule(kind) : chain' = Append(chain, r)
  BY DEF Insert
<1>2. r \in Rules /\ r.kind = kind /\ r.slice = slice
  BY DEF NewRule, Rules, TypeOK, Insert
<1>3. chain \in Seq(Rules) /\ Len(chain) \in Nat
  BY LenProperties DEF TypeOK, ChainOK
<1>4. /\ Len(Append(chain, r)) = Len(chain) + 1 /\ Append(chain, r) # <<>>
      /\ \A i \in 1..Len(chain) : Append(chain, r)[i] = chain[i]
      /\ Append(chain, r)[Len(chain) + 1] = r
  BY <1>2, <1>3, AppendProperties
<1>5. pc'[s] = "stub" => kind = "broad"
  BY DEF Insert, Installed, Goto, TypeOK
<1> QED BY <1>1, <1>2, <1>3, <1>4, <1>5 DEF Insert, TypeOK

LEMMA DeleteKinds ==
  ASSUME TypeOK, NEW s \in Procs, DeleteRule(s)
  PROVE  /\ pc[s] = "delete" /\ pc'[s] \in {"delete", "park"}
         /\ (\A i, j \in 1..Len(chain) : chain[i].kind = chain[j].kind => i = j) =>
               \A i, j \in 1..Len(chain') : chain'[i].kind = chain'[j].kind => i = j
<1>1. pc[s] = "delete" /\ pc'[s] \in {"delete", "park"}
  BY DEF DeleteRule, Goto, TypeOK
<1>2. CASE chain' = chain
  BY <1>1, <1>2
<1>3. CASE chain' # chain
  <2>1. PICK i \in 1..Len(chain) : chain' = RemoveAt(chain, i)
    BY <1>3 DEF DeleteRule
  <2>2. chain \in Seq(Rules) /\ Len(chain) \in Nat
    BY LenProperties DEF TypeOK, ChainOK
  <2>3. /\ Len(chain') = Len(chain) - 1
        /\ \A j \in 1..(Len(chain) - 1) : chain'[j] = chain[IF j < i THEN j ELSE j + 1]
    BY <2>1, <2>2, RemoveAtShifts
  <2>4. \A j \in 1..(Len(chain) - 1) : (IF j < i THEN j ELSE j + 1) \in 1..Len(chain)
    BY <2>2
  <2>5. ASSUME \A j, k \in 1..Len(chain) : chain[j].kind = chain[k].kind => j = k,
               NEW j \in 1..Len(chain'), NEW k \in 1..Len(chain'), chain'[j].kind = chain'[k].kind
        PROVE  j = k
    <3>1. (IF j < i THEN j ELSE j + 1) = (IF k < i THEN k ELSE k + 1)
      BY <2>2, <2>3, <2>4, <2>5
    <3> QED BY <2>2, <2>3, <3>1
  <2> QED BY <1>1, <2>5
<1> QED BY <1>2, <1>3

LEMMA NextPair ==
  ASSUME CliVerbs = {}, TypeOK, PairInv, [Next]_vars PROVE PairInv'
<1> USE DEF PairInv
<1>1. ASSUME NEW s \in Procs, Step(s) PROVE PairInv'
  <2>1. s = "daemon" /\ pc'["cli"] = "off"
    BY <1>1, ChainSteps
  <2>2. CASE DeleteRule(s)
    BY <2>1, <2>2, DeleteKinds
  <2>3. ASSUME NEW kind \in Kinds, Insert(s, kind) PROVE PairInv'
    <3>1. /\ pc[s] = kind /\ Len(chain) \in Nat /\ Len(chain') = Len(chain) + 1 /\ chain' # <<>>
          /\ \A i \in 1..Len(chain) : chain'[i] = chain[i]
          /\ chain'[Len(chain) + 1].kind = kind
          /\ pc'[s] = "stub" => kind = "broad"
      BY <2>3, InsertIs
    <3>2. \A i \in 1..Len(chain) : chain[i].kind # kind
      <4>1. CASE kind = "broad"
        <5>1. chain = <<>> /\ Len(chain) = 0
          BY <2>1, <3>1, <4>1
        <5> QED BY <5>1
      <4>2. CASE kind = "stub"
        BY <2>1, <3>1, <4>2
      <4> QED BY <4>1, <4>2 DEF Kinds
    <3>3. \A i, j \in 1..Len(chain') : chain'[i].kind = chain'[j].kind => i = j
      <4> SUFFICES ASSUME NEW i \in 1..Len(chain'), NEW j \in 1..Len(chain'), chain'[i].kind = chain'[j].kind
                   PROVE  i = j
        OBVIOUS
      <4>1. i \in 1..Len(chain) \/ i = Len(chain) + 1
        BY <3>1
      <4>2. j \in 1..Len(chain) \/ j = Len(chain) + 1
        BY <3>1
      <4> QED BY <3>1, <3>2, <4>1, <4>2
    <3>4. pc'[s] # "broad"
      BY <2>3 DEF Insert, Installed, Goto, TypeOK
    <3>5. pc'[s] = "stub" => \A i \in 1..Len(chain') : chain'[i].kind = "broad"
      <4> SUFFICES ASSUME pc'[s] = "stub", NEW i \in 1..Len(chain') PROVE chain'[i].kind = "broad"
        OBVIOUS
      <4>1. chain = <<>> /\ Len(chain) = 0 /\ kind = "broad"
        BY <2>1, <3>1
      <4> QED BY <3>1, <4>1
    <3> QED BY <2>1, <3>1, <3>3, <3>4, <3>5
  <2>4. CASE chain' = chain /\ pc'[s] # "stub" /\ (pc'[s] = "broad" => chain = <<>>)
    BY <2>1, <2>4
  <2> QED BY <1>1, <2>2, <2>3, <2>4, ChainSteps
<1>2. CASE DaemonStart \/ \E v \in Verbs : Request(v)
  BY <1>2 DEF DaemonStart, Request, Goto, TypeOK
<1>3. ~ \E v \in CliVerbs : CliStart(v)
  OBVIOUS
<1>4. ASSUME NEW s \in Procs, Crash(s) PROVE PairInv'
  BY <1>4 DEF Crash, Goto, TypeOK
<1>5. CASE Login \/ Logout \/ UNCHANGED vars
  BY <1>5 DEF Login, Logout, vars
<1>6. CASE Reboot
  <2>1. \A s \in Procs : pc'[s] = "off"
    BY <1>6 DEF Reboot
  <2>2. Len(chain') = 0
    BY <1>6 DEF Reboot
  <2> QED BY <2>1, <2>2
<1> QED BY <1>1, <1>2, <1>3, <1>4, <1>5, <1>6 DEF Next

LEMMA PairInvariant == CliVerbs = {} /\ Spec => [](TypeOK /\ PairInv)
<1> SUFFICES ASSUME CliVerbs = {} PROVE Spec => [](TypeOK /\ PairInv) OBVIOUS
<1>1. Init => PairInv
  <2>1. Init => Len(chain) = 0 /\ pc["cli"] = "off" /\ pc["daemon"] = "off"
    BY DEF Init
  <2> QED BY <2>1 DEF PairInv
<1>2. TypeOK /\ PairInv /\ [Next]_vars => PairInv'
  BY NextPair
<1> QED BY <1>1, <1>2, InitType, NextType, PTL DEF Spec

\* reconcile_web_browsing does not double-insert: however often bless, browser-up
\* and the boot reconcile run, fail or are cut short, and whatever slices come and
\* go, no rule is twice in the chain.
THEOREM PairIsOne == CliVerbs = {} /\ Spec => []OnePair
<1>1. TypeOK /\ PairInv => OnePair
  <2> SUFFICES ASSUME TypeOK, PairInv, NEW kind \in Kinds, NEW c \in Slices
               PROVE  Cardinality(Kernel(kind, c)) <= 1
    BY DEF OnePair
  <2>1. \A i, j \in Kernel(kind, c) : i = j
    BY DEF Kernel, PairInv
  <2>2. CASE Kernel(kind, c) = {}
    BY <2>2, FS_EmptySet
  <2>3. CASE Kernel(kind, c) # {}
    <3>1. PICK i : Kernel(kind, c) = {i}
      BY <2>1, <2>3
    <3>2. Cardinality({i}) = 1
      BY FS_Singleton
    <3> QED BY <3>1, <3>2
  <2> QED BY <2>2, <2>3
<1> QED BY <1>1, PairInvariant, PTL

-----------------------------------------------------------------------------
(* A launch finds its pair, for a user who logs in once between boots, while  *)
(* nft does what it is told and the daemon is not killed.                     *)

OneLogin    == \E c : Slices = {c}
NothingLost == Failures \cap {"nft", "crash"} = {}

Has(kind) == \E i \in 1..Len(chain) : chain[i].kind = kind

\* The handles still to be deleted are in the chain, each once.
TodoOK ==
  pc["daemon"] = "delete" =>
    /\ \A j \in 1..Len(job["daemon"].todo) :
         \E i \in 1..Len(chain) : chain[i].handle = job["daemon"].todo[j]
    /\ \A j, k \in 1..Len(job["daemon"].todo) : job["daemon"].todo[j] = job["daemon"].todo[k] => j = k

\* While the slice is up, what is in the chain is its pair, but for an install or
\* a teardown under way.  (What an install left half done when the user logged out
\* stays until an unbless or the next boot, and so does the log-out.)
WholeOK ==
  slice # NoSlice /\ chain # <<>> =>
    pc["daemon"] \in {"stub", "delete"} \/ (Has("broad") /\ Has("stub"))

\* A launch comes from a slice, and is answered OK only with rules in the chain.
UpOK ==
  job["daemon"].verb = "up" =>
    /\ job["daemon"].from # NoSlice
    /\ pc["daemon"] \in {"project", "leave"} /\ job["daemon"].ok /\ bless
         /\ slice = job["daemon"].from => chain # <<>>

LaunchInv == TodoOK /\ WholeOK /\ UpOK

\* With one login every rule is for the slice that is up.
LEMMA OneSlice ==
  ASSUME OneLogin, TypeOK
  PROVE  /\ \A i \in 1..Len(chain) : chain[i].slice \in Slices
         /\ slice # NoSlice => \A i \in 1..Len(chain) : chain[i].slice = slice
         /\ chain # <<>> => \E i \in 1..Len(chain) : Slices = {chain[i].slice}
<1>1. chain \in Seq(Rules) /\ Len(chain) \in Nat
  BY LenProperties DEF TypeOK, ChainOK
<1>2. ASSUME NEW i \in 1..Len(chain) PROVE chain[i].slice \in Slices
  <2>1. chain[i] \in Rules
    BY <1>1, ElementOfSeq
  <2> QED BY <2>1 DEF Rules
<1>3. slice # NoSlice => slice \in Slices
  BY DEF TypeOK
<1>4. chain # <<>> => 1 \in 1..Len(chain)
  BY <1>1, EmptySeq
<1> QED BY <1>2, <1>3, <1>4 DEF OneLogin

\* A revocation deletes exactly the listed rules: no handle is missing.
LEMMA DeleteTodo ==
  ASSUME NothingLost, TypeOK, TodoOK, pc["cli"] = "off", NEW s \in Procs, DeleteRule(s)
  PROVE  s = "daemon" /\ pc' = pc /\ TodoOK' /\ job'["daemon"].verb = job["daemon"].verb
<1>1. s = "daemon" /\ pc[s] = "delete" /\ job[s].todo # <<>>
  BY DEF DeleteRule
<1>2. /\ job[s] \in Jobs /\ job[s].todo \in Seq(Handles) /\ Len(job[s].todo) \in Nat
      /\ Head(job[s].todo) = job[s].todo[1] /\ 1 \in 1..Len(job[s].todo)
      /\ Tail(job[s].todo) \in Seq(Handles)
      /\ Len(Tail(job[s].todo)) = Len(job[s].todo) - 1
      /\ \A m \in 1..Len(Tail(job[s].todo)) : Tail(job[s].todo)[m] = job[s].todo[m + 1]
  <2>1. job[s] \in Jobs /\ job[s].todo \in Seq(Handles)
    BY DEF TypeOK, Jobs
  <2> QED BY <1>1, <2>1, HeadTailProperties, LenProperties, EmptySeq
<1>3. PICK n \in 1..Len(chain) : chain[n].handle = Head(job[s].todo)
  BY <1>1, <1>2 DEF TodoOK
<1>4. PICK i \in 1..Len(chain) :
        /\ chain[i].handle = Head(job[s].todo) /\ chain' = RemoveAt(chain, i)
        /\ job' = [job EXCEPT ![s] = [job[s] EXCEPT !.todo = Tail(job[s].todo)]]
        /\ pc' = pc
  BY <1>3 DEF DeleteRule, SetJob, NothingLost, MayFail
<1>5. job'[s].todo = Tail(job[s].todo) /\ job'[s].verb = job[s].verb
  BY <1>2, <1>4 DEF TypeOK, Jobs
<1>6. /\ chain \in Seq(Rules) /\ Len(chain) \in Nat
      /\ Len(chain') = Len(chain) - 1
      /\ \A j \in 1..(Len(chain) - 1) : chain'[j] = chain[IF j < i THEN j ELSE j + 1]
  BY <1>4, LenProperties, RemoveAtShifts DEF TypeOK, ChainOK
<1>7. ASSUME NEW j \in 1..Len(job'[s].todo)
      PROVE  \E k \in 1..Len(chain') : chain'[k].handle = job'[s].todo[j]
  <2>1. j + 1 \in 1..Len(job[s].todo) /\ job'[s].todo[j] = job[s].todo[j + 1] /\ j + 1 # 1
    BY <1>2, <1>5
  <2>2. PICK m \in 1..Len(chain) : chain[m].handle = job[s].todo[j + 1]
    BY <1>1, <2>1 DEF TodoOK
  <2>3. job[s].todo[j + 1] # job[s].todo[1]
    BY <1>1, <1>2, <2>1 DEF TodoOK
  <2>4. m # i
    BY <1>2, <1>4, <2>2, <2>3
  <2>5. CASE m < i
    <3>1. m \in 1..Len(chain') /\ chain'[m] = chain[m]
      BY <1>6, <2>5
    <3> QED BY <2>1, <2>2, <3>1
  <2>6. CASE m > i
    <3>1. m - 1 \in 1..Len(chain') /\ chain'[m - 1] = chain[m]
      BY <1>6, <2>6
    <3> QED BY <2>1, <2>2, <3>1
  <2> QED BY <2>4, <2>5, <2>6
<1>8. ASSUME NEW j \in 1..Len(job'[s].todo), NEW k \in 1..Len(job'[s].todo),
             job'[s].todo[j] = job'[s].todo[k]
      PROVE  j = k
  <2>1. /\ j + 1 \in 1..Len(job[s].todo) /\ job'[s].todo[j] = job[s].todo[j + 1]
        /\ k + 1 \in 1..Len(job[s].todo) /\ job'[s].todo[k] = job[s].todo[k + 1]
    BY <1>2, <1>5
  <2>2. j + 1 = k + 1
    BY <1>1, <1>8, <2>1 DEF TodoOK
  <2> QED BY <1>2, <1>5, <2>2
<1> QED BY <1>1, <1>4, <1>5, <1>7, <1>8 DEF TodoOK

LEMMA NextLaunch ==
  ASSUME CliVerbs = {}, OneLogin, NothingLost, IInv, PairInv, LaunchInv, [Next]_vars
  PROVE  LaunchInv'
<1>a. TypeOK /\ VerbOK /\ DeleteOK /\ TodoOK /\ WholeOK /\ UpOK
  BY DEF IInv, LaunchInv
<1>b. Len(chain) \in Nat /\ chain \in Seq(Rules)
  BY <1>a, LenProperties DEF TypeOK, ChainOK
<1>f. ~MayFail("nft") /\ ~MayFail("crash")
  BY DEF NothingLost, MayFail
<1> DEFINE j == job["daemon"]
           p == pc["daemon"]
<1>j. \A to, k : /\ Goto("daemon", to) => p' = to
                 /\ SetJob("daemon", k) => j' = k
  BY <1>a DEF Goto, SetJob, TypeOK
<1>k. /\ j \in Jobs /\ \A x \in BOOLEAN : /\ [j EXCEPT !.ok = x].verb = j.verb
                                          /\ [j EXCEPT !.ok = x].from = j.from
                                          /\ [j EXCEPT !.ok = x].ok = x
  BY <1>a DEF TypeOK, Jobs
\* A step that leaves the chain, the slice and the verb alone.
<1>g. ASSUME chain' = chain, slice' = slice, p \notin {"stub", "delete"}, p' # "delete",
             j'.verb = "up" => j'.from # NoSlice,
             j'.verb = "up" /\ p' \in {"project", "leave"} => FALSE
      PROVE  LaunchInv'
  <2>1. WholeOK'
    BY <1>a, <1>g DEF WholeOK, Has
  <2> QED BY <2>1, <1>g DEF LaunchInv, TodoOK, UpOK
<1>i. ASSUME NEW ok \in BOOLEAN, NEW landed \in BOOLEAN, Installed("daemon", ok, landed)
      PROVE  /\ p' \in {"leave", "project"} /\ j'.verb = j.verb /\ j'.from = j.from
             /\ j'.ok = (ok \/ j.verb # "up")
  <2>1. p' \in {"leave", "project"}
    BY <1>i, <1>j DEF Installed
  <2>2. j' = [j EXCEPT !.ok = (ok \/ j.verb # "up")]
    BY <1>i, <1>j DEF Installed, Ok
  <2> QED BY <2>1, <2>2, <1>k
<1>1. ASSUME NEW s \in Procs, Step(s) PROVE LaunchInv'
  <2>0. s = "daemon"
    BY <1>1, <1>a, ChainSteps DEF PairInv
  <2>1. CASE Acquire(s)
    BY <2>0, <2>1, <1>a, <1>g, <1>j DEF Acquire, UpOK
  <2>2. CASE RecordBless(s) \/ ForgetRecord(s) \/ ClearFault(s) \/ ParkFault(s)
    <3>1. /\ p \in {"record", "forget", "clear", "park"} /\ j.verb # "up"
          /\ chain' = chain /\ slice' = slice
      BY <2>0, <2>2, <1>a DEF RecordBless, ForgetRecord, ClearFault, ParkFault, VerbOK
    <3>2. j' = j \/ j' = [j EXCEPT !.ok = FALSE]
      BY <2>0, <2>2, <1>j DEF RecordBless, ForgetRecord, ClearFault, ParkFault, Ok
    <3>3. p' \in {"clear", "leave", "check", "project"}
      BY <2>0, <2>2, <1>j DEF RecordBless, ForgetRecord, ClearFault, ParkFault
    <3> QED BY <3>1, <3>2, <3>3, <1>g, <1>k
  <2>3. CASE Check(s)
    <3>1. p = "check" /\ chain' = chain /\ slice' = slice /\ bless' = bless
      BY <2>0, <2>3 DEF Check
    <3>2. CASE bless /\ slice # NoSlice /\ chain = <<>>
      <4>1. p' = "broad" /\ j' = j
        BY <2>0, <2>3, <3>2, <1>j DEF Check
      <4> QED BY <3>1, <4>1, <1>a, <1>g DEF UpOK
    <3>3. CASE ~(bless /\ slice # NoSlice /\ chain = <<>>)
      <4>1. Installed("daemon", TRUE, FALSE)
        BY <2>0, <2>3, <3>3 DEF Check
      <4>2. p' \in {"leave", "project"} /\ j'.verb = j.verb /\ j'.from = j.from
        BY <4>1, <1>i
      <4>3. UpOK'
        BY <1>a, <3>1, <3>3, <4>2 DEF UpOK
      <4>4. WholeOK' /\ TodoOK'
        BY <1>a, <3>1, <4>2 DEF WholeOK, Has, TodoOK
      <4> QED BY <4>3, <4>4 DEF LaunchInv
    <3> QED BY <3>2, <3>3
  <2>4. CASE Insert(s, "broad")
    <3>1. p' = "stub" /\ j' = j
      BY <2>0, <2>4, <1>j DEF Insert
    <3> QED BY <1>a, <3>1 DEF LaunchInv, TodoOK, WholeOK, UpOK
  <2>5. CASE Insert(s, "stub")
    <3>1. Installed("daemon", TRUE, TRUE)
      BY <2>0, <2>5 DEF Insert
    <3>2. p' \in {"leave", "project"} /\ j'.verb = j.verb /\ j'.from = j.from
      BY <3>1, <1>i
    <3>3. /\ p = "stub" /\ Len(chain') = Len(chain) + 1 /\ chain' # <<>>
          /\ \A i \in 1..Len(chain) : chain'[i] = chain[i]
          /\ chain'[Len(chain) + 1].kind = "stub"
      BY <2>0, <2>5, <1>a, InsertIs DEF Kinds
    <3>4. Has("stub")'
      BY <1>b, <3>3 DEF Has
    <3>5. Has("broad")'
      <4>1. 1 \in 1..Len(chain) /\ chain[1].kind = "broad"
        BY <1>b, <3>3, EmptySeq DEF PairInv
      <4> QED BY <3>3, <4>1 DEF Has
    <3> QED BY <1>a, <3>2, <3>3, <3>4, <3>5 DEF LaunchInv, TodoOK, WholeOK, UpOK
  <2>6. CASE InstallFails(s)
    <3>1. Installed("daemon", FALSE, FALSE) /\ slice' = NoSlice
      BY <2>0, <2>6, <1>f DEF InstallFails
    <3>2. p' \in {"leave", "project"} /\ j'.verb = j.verb /\ j'.from = j.from
          /\ (j'.verb = "up" => ~j'.ok)
      BY <3>1, <1>i
    <3> QED BY <1>a, <3>1, <3>2 DEF LaunchInv, TodoOK, WholeOK, UpOK
  <2>7. CASE ListRules(s)
    <3>1. p = "list" /\ p' = "delete" /\ j' = [j EXCEPT !.todo = Listed] /\ chain' = chain
      BY <2>0, <2>7, <1>f, <1>j DEF ListRules
    <3>2. j'.todo = Listed /\ j'.verb # "up"
      BY <3>1, <1>a DEF TypeOK, Jobs, VerbOK
    <3>3. Len(Listed) = Len(chain) /\ \A i \in 1..Len(chain) : Listed[i] = chain[i].handle
      BY <1>b DEF Listed
    <3>4. TodoOK'
      BY <1>a, <3>1, <3>2, <3>3 DEF TodoOK, TypeOK, ChainOK
    <3> QED BY <3>1, <3>2, <3>4 DEF LaunchInv, WholeOK, UpOK
  <2>8. CASE DeleteRule(s)
    <3>1. pc' = pc /\ TodoOK' /\ j'.verb = j.verb /\ p = "delete"
      BY <2>0, <2>8, <1>a, DeleteTodo DEF PairInv, DeleteRule
    <3>2. j.verb = "unbless"
      BY <1>a, <3>1 DEF VerbOK
    <3> QED BY <3>1, <3>2 DEF LaunchInv, WholeOK, UpOK
  <2>9. CASE DropRecord(s)
    <3>1. p = "delete" /\ j.todo = <<>> /\ p' = "clear" /\ j' = j /\ chain' = chain
      BY <2>0, <2>9, <1>j DEF DropRecord
    <3>2. j.verb = "unbless"
      BY <1>a, <3>1 DEF VerbOK
    <3>3. chain = <<>>
      <4>1. 1 \notin 1..Len(chain)
        BY <1>a, <2>0, <3>1 DEF DeleteOK
      <4> QED BY <1>b, <4>1, EmptySeq
    <3> QED BY <3>1, <3>2, <3>3 DEF LaunchInv, TodoOK, WholeOK, UpOK
  <2>10. CASE Project(s) \/ Leave(s)
    <3>1. /\ p \in {"project", "leave"} /\ p' = "idle" /\ j' = NoJob /\ chain' = chain
          /\ slice' = slice
      BY <2>0, <2>10, <1>j DEF Project, Leave, Finish
    <3> QED BY <3>1, <1>g DEF NoJob
  <2> QED BY <1>1, <2>1, <2>2, <2>3, <2>4, <2>5, <2>6, <2>7, <2>8, <2>9, <2>10 DEF Step, Kinds
<1>2. CASE DaemonStart
  <2>1. p = "off" /\ p' = "check" /\ j'.verb = "reconcile" /\ chain' = chain /\ slice' = slice
    BY <1>2, <1>j DEF DaemonStart, NoJob
  <2> QED BY <2>1, <1>g
<1>3. ASSUME NEW v \in Verbs, Request(v) PROVE LaunchInv'
  <2>1. /\ p = "idle" /\ p' = "wait" /\ chain' = chain /\ slice' = slice
        /\ j'.verb = v /\ (v = "up" => j'.from # NoSlice)
    BY <1>3, <1>j DEF Request, NoJob
  <2> QED BY <2>1, <1>g
<1>4. CASE Login
  <2>1. chain = <<>>
    <3>1. ASSUME chain # <<>> PROVE FALSE
      <4>1. PICK i \in 1..Len(chain) : Slices = {chain[i].slice}
        BY <1>a, <3>1, OneSlice
      <4> QED BY <1>4, <4>1 DEF Login
    <3> QED BY <3>1
  <2>2. slice' # j.from /\ UNCHANGED <<bless, chain, pc, job>>
    BY <1>4 DEF Login
  <2> QED BY <1>a, <2>1, <2>2 DEF LaunchInv, TodoOK, WholeOK, UpOK
<1>5. CASE Logout
  BY <1>5, <1>a DEF Logout, LaunchInv, TodoOK, WholeOK, UpOK
<1>6. CASE Reboot
  <2>1. p' = "off" /\ j' = NoJob /\ slice' = NoSlice
    BY <1>6 DEF Reboot
  <2> QED BY <2>1 DEF LaunchInv, TodoOK, WholeOK, UpOK, NoJob
<1>7. CASE UNCHANGED vars
  BY <1>7, <1>a DEF vars, LaunchInv, TodoOK, WholeOK, UpOK, Has
<1> QED BY <1>1, <1>2, <1>3, <1>4, <1>5, <1>6, <1>7, <1>f DEF Next, Crash

\* A blessed record heals at browser launch: an OK to browser-up finds both rules in
\* for the slice that the launcher runs in, for a user who logs in once between
\* boots; store writes may fail and the machine reboot at any step.
THEOREM LaunchIsLive ==
  ASSUME CliVerbs = {}, OneLogin, NothingLost PROVE Spec => []LaunchLive
<1>1. Init => LaunchInv
  BY DEF Init, LaunchInv, TodoOK, WholeOK, UpOK, NoJob
<1>2. IInv /\ PairInv /\ LaunchInv /\ [Next]_vars => LaunchInv'
  BY CliVerbs = {}, OneLogin, NothingLost, NextLaunch
<1>3. IInv /\ LaunchInv => LaunchLive
  <2> SUFFICES ASSUME IInv, LaunchInv, pc["daemon"] \in {"project", "leave"},
                      job["daemon"].verb = "up", job["daemon"].ok, bless, slice = job["daemon"].from
               PROVE  PairLive
    BY DEF LaunchLive
  <2>1. slice # NoSlice /\ chain # <<>>
    BY DEF LaunchInv, UpOK
  <2>2. Has("broad") /\ Has("stub")
    BY <2>1 DEF LaunchInv, WholeOK
  <2>3. \A i \in 1..Len(chain) : chain[i].slice = slice
    BY <2>1, OneLogin, OneSlice DEF IInv
  <2> QED BY <2>2, <2>3 DEF PairLive, Kernel, Kinds, Has
<1>4. CliVerbs \subseteq {"reconcile"}
  BY CliVerbs = {}
<1> QED BY <1>1, <1>2, <1>3, <1>4, Inductive, PairInvariant, PTL DEF Spec
=============================================================================
