---------------------------- MODULE EgressBrowser ----------------------------
(***************************************************************************)
(* The one runtime rule pair of the desktop-egress table: a blessed         *)
(* web-browsing opens broad egress and the DoT stub for the cgroup of       *)
(* shrekbrowser.slice.  nft can only name a cgroup that exists, so the pair *)
(* is installed at bless time, at boot or when the browser is launched,     *)
(* whichever finds the slice up, and is deleted by handle on revocation.    *)
(* Removing an owner manifest of that name drops the record too, but leaves *)
(* the pair in the chain: the handler reconciles @cap_pinned only.          *)
(*                                                                          *)
(* The daemon and a command-line egressd run the same code; every step is   *)
(* one store write or one nft command.                                      *)
(***************************************************************************)
EXTENDS Integers, Sequences, SequencesExt, FiniteSets

CONSTANTS
  Slices,     \* the cgroup ids that shrekbrowser.slice can get, one per login
  Handles,    \* nft rule handles: bounds the rules that can be in the chain
  NoSlice,    \* the slice is not up
  Failures,   \* what may go wrong: a subset of FailureKinds
  CliVerbs    \* which command-line verbs are run beside the daemon

FailureKinds == {"nft", "store", "crash", "reboot"}
Kinds        == {"broad", "stub"}

ASSUME BrowserAssumption ==
  /\ NoSlice \notin Slices
  /\ Failures \subseteq FailureKinds
  /\ CliVerbs \subseteq {"reconcile", "apply-browser"}

VARIABLES
  bless,    \* there is a bless record of web-browsing      } durable
  fault,    \* an apply-fail is parked for it               } store
  slice,    \* the cgroup id of shrekbrowser.slice, or NoSlice
  chain,    \* the browser rules above rule 0, in chain order
  lapsed,   \* a history variable: a manifest removal left rules in the chain
  view,     \* what /run shows of the record and the fault
  lock,     \* the holder of the store flock, or "free"
  pc, job   \* where each process is, and its local variables

vars == <<bless, fault, slice, chain, lapsed, view, lock, pc, job>>

Procs     == {"daemon", "cli"}
Verbs     == {"bless", "unbless", "remove", "up"}
EmptyView == [bless |-> FALSE, fault |-> FALSE]
NoJob     == [verb |-> "none", from |-> NoSlice, todo |-> <<>>, ok |-> TRUE]

MayFail(kind) == kind \in Failures

Init ==
  /\ bless = FALSE /\ fault = FALSE
  /\ slice = NoSlice /\ chain = <<>> /\ lapsed = FALSE
  /\ view = EmptyView /\ lock = "free"
  /\ pc = [s \in Procs |-> "off"] /\ job = [s \in Procs |-> NoJob]

Goto(s, to)  == pc' = [pc EXCEPT ![s] = to]
SetJob(s, j) == job' = [job EXCEPT ![s] = j]
Ok(s, b)     == SetJob(s, [job[s] EXCEPT !.ok = b])
Release(s)   == lock' = IF lock = s THEN "free" ELSE lock

\* The handles that `nft -a list chain` shows for the browser shape.
Listed == [i \in 1..Len(chain) |-> chain[i].handle]

\* The rule that an insert adds: the kernel gives it an unused handle and the id
\* of the cgroup that the path names now.
NewRule(kind) ==
  {[handle |-> h, kind |-> kind, slice |-> slice] :
     h \in Handles \ {chain[i].handle : i \in 1..Len(chain)}}

-----------------------------------------------------------------------------
\* Requests.

\* systemd (re)starts the daemon; the boot reconcile takes no lock.
DaemonStart ==
  /\ pc["daemon"] = "off"
  /\ Goto("daemon", "check") /\ SetJob("daemon", [NoJob EXCEPT !.verb = "reconcile"])
  /\ UNCHANGED <<bless, fault, slice, chain, lapsed, view, lock>>

\* confirmed-bless, confirmed-unbless and confirmed-manifest-remove come from
\* gatekeeperd after a ceremony, browser-up from the launcher inside the slice.
Request(v) ==
  /\ pc["daemon"] = "idle"
  /\ v = "up" => slice # NoSlice
  /\ Goto("daemon", "wait")
  /\ SetJob("daemon", [NoJob EXCEPT !.verb = v, !.from = IF v = "up" THEN slice ELSE NoSlice])
  /\ UNCHANGED <<bless, fault, slice, chain, lapsed, view, lock>>

\* `egressd reconcile` takes the lock; `egressd apply-browser` goes straight to
\* the insert.
CliStart(v) ==
  /\ pc["cli"] = "off" /\ v \in CliVerbs
  /\ Goto("cli", IF v = "reconcile" THEN "wait" ELSE "broad")
  /\ SetJob("cli", [NoJob EXCEPT !.verb = v])
  /\ UNCHANGED <<bless, fault, slice, chain, lapsed, view, lock>>

Acquire(s) ==
  /\ pc[s] = "wait" /\ lock = "free"
  /\ lock' = s
  /\ Goto(s, CASE job[s].verb = "bless"   -> "record"
               [] job[s].verb = "unbless" -> "list"
               [] job[s].verb = "remove"  -> "forget"
               [] OTHER                   -> "check")
  /\ UNCHANGED <<bless, fault, slice, chain, lapsed, view, job>>

-----------------------------------------------------------------------------
\* confirmed_bless: the record first, then the fault is cleared.

RecordBless(s) ==
  /\ pc[s] = "record"
  /\ \/ bless' = TRUE /\ lapsed' = FALSE /\ Goto(s, "clear") /\ UNCHANGED job
     \/ MayFail("store") /\ Goto(s, "leave") /\ Ok(s, FALSE) /\ UNCHANGED <<bless, lapsed>>
  /\ UNCHANGED <<fault, slice, chain, view, lock>>

\* confirmed_manifest_remove: the record goes and the rules stay.  The manifest
\* file goes first, and failing that the handler gives up; a record that cannot be
\* removed is not missed.
ForgetRecord(s) ==
  /\ pc[s] = "forget"
  /\ \/ /\ bless' = FALSE /\ lapsed' = (lapsed \/ (bless /\ chain # <<>>))
        /\ Goto(s, "clear") /\ UNCHANGED job
     \/ /\ MayFail("store") /\ UNCHANGED <<bless, lapsed>>
        /\ \/ Goto(s, "clear") /\ UNCHANGED job
           \/ Goto(s, "leave") /\ Ok(s, FALSE)
  /\ UNCHANGED <<fault, slice, chain, view, lock>>

\* After a bless the install is tried; the other two reproject.
ClearFault(s) ==
  /\ pc[s] = "clear"
  /\ fault' = FALSE
  /\ Goto(s, IF job[s].verb = "bless" THEN "check" ELSE "project")
  /\ UNCHANGED <<bless, slice, chain, lapsed, view, lock, job>>

-----------------------------------------------------------------------------
\* reconcile_web_browsing: the pair goes in if it is blessed, the slice is up and
\* no browser rule is listed.

\* Where a handler goes when the install returns; `landed` is its Ok(true). A
\* bless swallows the error, a browser-up that changed nothing does not project.
Installed(s, ok, landed) ==
  /\ Goto(s, IF job[s].verb = "apply-browser" \/ (job[s].verb = "up" /\ ~landed)
             THEN "leave" ELSE "project")
  /\ Ok(s, ok \/ job[s].verb # "up")

Check(s) ==
  /\ pc[s] = "check"
  /\ IF bless /\ slice # NoSlice /\ chain = <<>>
     THEN Goto(s, "broad") /\ UNCHANGED job
     ELSE Installed(s, TRUE, FALSE)
  /\ UNCHANGED <<bless, fault, slice, chain, lapsed, view, lock>>

\* Mutant: the insert goes ahead when the path names no cgroup.
Insert_NoSlice(s, kind) ==
  /\ pc[s] = kind
  /\ \E r \in NewRule(kind) : chain' = Append(chain, r)
  /\ IF kind = "broad" THEN Goto(s, "stub") /\ UNCHANGED job
                       ELSE Installed(s, TRUE, TRUE)
  /\ UNCHANGED <<bless, fault, slice, lapsed, view, lock>>

\* Mutant: the stub accept is forgotten.
Insert_BroadOnly(s, kind) ==
  /\ pc[s] = kind
  /\ slice # NoSlice
  /\ \E r \in NewRule(kind) : chain' = Append(chain, r)
  /\ Installed(s, TRUE, TRUE)
  /\ UNCHANGED <<bless, fault, slice, lapsed, view, lock>>

\* Each rule is inserted right above rule 0, so below the rules already there.
Insert(s, kind) ==
  /\ pc[s] = kind
  /\ slice # NoSlice
  /\ \E r \in NewRule(kind) : chain' = Append(chain, r)
  /\ IF kind = "broad" THEN Goto(s, "stub") /\ UNCHANGED job
                       ELSE Installed(s, TRUE, TRUE)
  /\ UNCHANGED <<bless, fault, slice, lapsed, view, lock>>

\* nft refuses a path with no cgroup; a failed second insert leaves the first.
InstallFails(s) ==
  /\ \/ pc[s] = "check" /\ bless /\ slice # NoSlice /\ MayFail("nft")
     \/ pc[s] \in Kinds /\ (MayFail("nft") \/ slice = NoSlice)
  /\ Installed(s, FALSE, FALSE)
  /\ UNCHANGED <<bless, fault, slice, chain, lapsed, view, lock>>

-----------------------------------------------------------------------------
\* confirmed_unbless: the rules first, then the record.

\* Mutant: only the first rule of the pair is looked up.
ListRules_FirstOnly(s) ==
  /\ pc[s] = "list"
  /\ SetJob(s, [job[s] EXCEPT !.todo = SelectSeq(Listed, LAMBDA h : h = Listed[1])]) /\ Goto(s, "delete")
  /\ UNCHANGED <<bless, fault, slice, chain, lapsed, view, lock>>

ListRules(s) ==
  /\ pc[s] = "list"
  /\ \/ SetJob(s, [job[s] EXCEPT !.todo = Listed]) /\ Goto(s, "delete")
     \/ MayFail("nft") /\ Ok(s, FALSE) /\ Goto(s, "park")
  /\ UNCHANGED <<bless, fault, slice, chain, lapsed, view, lock>>

\* Delete the listed handles in order; the first error stops it.
DeleteRule(s) ==
  /\ pc[s] = "delete" /\ job[s].todo # <<>>
  /\ LET at(i) == chain[i].handle = Head(job[s].todo) IN
     \/ /\ \E i \in 1..Len(chain) : at(i) /\ chain' = RemoveAt(chain, i)
        /\ SetJob(s, [job[s] EXCEPT !.todo = Tail(@)]) /\ UNCHANGED pc
     \/ /\ MayFail("nft") \/ \A i \in 1..Len(chain) : ~at(i)
        /\ Ok(s, FALSE) /\ Goto(s, "park") /\ UNCHANGED chain
  /\ UNCHANGED <<bless, fault, slice, lapsed, view, lock>>

\* Mutant: a failed teardown goes on to drop the record.
ParkFault_Drops(s) ==
  /\ pc[s] = "park"
  /\ fault' = TRUE /\ bless' = FALSE
  /\ Goto(s, "project")
  /\ UNCHANGED <<slice, chain, lapsed, view, lock, job>>

\* Mutant: a failed teardown parks no fault.
ParkFault_Silent(s) ==
  /\ pc[s] = "park"
  /\ Goto(s, "project")
  /\ UNCHANGED <<bless, fault, slice, chain, lapsed, view, lock, job>>

\* A failed teardown parks apply-fail and keeps the record.
ParkFault(s) ==
  /\ pc[s] = "park"
  /\ fault' = TRUE
  /\ Goto(s, "project")
  /\ UNCHANGED <<bless, slice, chain, lapsed, view, lock, job>>

\* Mutant: the handler returns once the record is gone.
DropRecord_NoReproject(s) ==
  /\ pc[s] = "delete" /\ job[s].todo = <<>>
  /\ bless' = FALSE
  /\ Goto(s, "leave")
  /\ UNCHANGED <<fault, slice, chain, lapsed, view, lock, job>>

DropRecord(s) ==
  /\ pc[s] = "delete" /\ job[s].todo = <<>>
  /\ \/ bless' = FALSE /\ lapsed' = FALSE
     \/ MayFail("store") /\ UNCHANGED <<bless, lapsed>>
  /\ Goto(s, "clear")
  /\ UNCHANGED <<fault, slice, chain, view, lock, job>>

-----------------------------------------------------------------------------
\* The reply.

Finish(s) ==
  /\ Goto(s, IF s = "daemon" THEN "idle" ELSE "off")
  /\ SetJob(s, NoJob) /\ Release(s)

Project(s) ==
  /\ pc[s] = "project"
  /\ view' = [bless |-> bless, fault |-> fault]
  /\ Finish(s)
  /\ UNCHANGED <<bless, fault, slice, chain, lapsed>>

Leave(s) ==
  /\ pc[s] = "leave"
  /\ Finish(s)
  /\ UNCHANGED <<bless, fault, slice, chain, lapsed, view>>

-----------------------------------------------------------------------------
\* Sessions, process death, reboot.

\* The user manager starts the static slice with the login, under a fresh cgroup
\* id: one that neither a rule nor a waiting launch comes from.
Login ==
  /\ slice = NoSlice
  /\ slice' \in Slices \ ({chain[i].slice : i \in 1..Len(chain)} \cup {job["daemon"].from})
  /\ UNCHANGED <<bless, fault, chain, lapsed, view, lock, pc, job>>

\* The slice ends with the user manager; rules that name its id stay in the chain.
Logout ==
  /\ slice # NoSlice
  /\ slice' = NoSlice
  /\ UNCHANGED <<bless, fault, chain, lapsed, view, lock, pc, job>>

Crash(s) ==
  /\ MayFail("crash") /\ pc[s] # "off"
  /\ Goto(s, "off") /\ SetJob(s, NoJob) /\ Release(s)
  /\ UNCHANGED <<bless, fault, slice, chain, lapsed, view>>

Reboot ==
  /\ MayFail("reboot")
  /\ slice' = NoSlice /\ chain' = <<>> /\ lapsed' = FALSE /\ view' = EmptyView /\ lock' = "free"
  /\ pc' = [s \in Procs |-> "off"] /\ job' = [s \in Procs |-> NoJob]
  /\ UNCHANGED <<bless, fault>>

Step(s) ==
  \/ Acquire(s) \/ RecordBless(s) \/ ForgetRecord(s) \/ ClearFault(s) \/ Check(s)
  \/ \E kind \in Kinds : Insert(s, kind)
  \/ InstallFails(s) \/ ListRules(s) \/ DeleteRule(s) \/ ParkFault(s)
  \/ DropRecord(s) \/ Project(s) \/ Leave(s)

Next ==
  \/ DaemonStart
  \/ \E v \in Verbs : Request(v)
  \/ \E v \in CliVerbs : CliStart(v)
  \/ \E s \in Procs : Step(s) \/ Crash(s)
  \/ Login \/ Logout \/ Reboot

Spec == Init /\ [][Next]_vars
-----------------------------------------------------------------------------
\* Properties.

Busy(s) == pc[s] \notin {"off", "idle", "wait"}
Quiet   == pc["daemon"] = "idle" /\ pc["cli"] = "off"
Pcs     == {"off", "idle", "wait", "record", "forget", "clear", "check", "broad", "stub",
          "list", "delete", "park", "project", "leave"}
Rules   == [handle : Handles, kind : Kinds, slice : Slices]
Jobs    == [verb : Verbs \cup {"none", "reconcile", "apply-browser"},
          from : Slices \cup {NoSlice}, todo : Seq(Handles), ok : BOOLEAN]

\* A chain of rules in which a handle names one rule.
ChainOK(c) ==
  /\ c \in Seq(Rules)
  /\ \A i, j \in 1..Len(c) : c[i].handle = c[j].handle => i = j

\* The store, the chain, the projection and the locals have the shape the code
\* gives them.
TypeOK ==
  /\ bless \in BOOLEAN /\ fault \in BOOLEAN
  /\ slice \in Slices \cup {NoSlice}
  /\ ChainOK(chain) /\ lapsed \in BOOLEAN
  /\ view \in [bless : BOOLEAN, fault : BOOLEAN]
  /\ lock \in Procs \cup {"free"}
  /\ pc \in [Procs -> Pcs] /\ job \in [Procs -> Jobs]

Kernel(kind, c) == {i \in 1..Len(chain) : chain[i].kind = kind /\ chain[i].slice = c}

\* Never "revoked in the store, still allowed in the kernel" (confirmed_unbless):
\* without a bless record the chain has no browser rule, whatever failed or
\* crashed and whatever command-line reconcile ran beside it.  The exception is a
\* record that went with an owner manifest (confirmed_manifest_remove): its rules
\* stay until a confirmed-unbless or the next boot.
RevokedClosed == ~bless => chain = <<>> \/ lapsed

\* The panel cannot read "off" while egress persists (MF-5), but for such a record.
PanelOff == Quiet /\ ~view.bless => chain = <<>> \/ lapsed

\* An OK to unbless comes with an empty chain, an ERR with a fault for the panel
\* (whose file, best effort in the code, is taken to be written).
UnblessAnswered ==
  pc["daemon"] = "project" /\ job["daemon"].verb = "unbless" =>
    IF job["daemon"].ok THEN chain = <<>> /\ ~fault ELSE fault

\* The panel shows the store: every handler that changes the record or the fault
\* reprojects on every path.
PanelCurrent == Quiet => view = [bless |-> bless, fault |-> fault]

\* reconcile_web_browsing does not double-insert: no rule is twice in the chain,
\* however often bless, browser-up, boot and reconcile run.
OnePair == \A kind \in Kinds, c \in Slices : Cardinality(Kernel(kind, c)) <= 1

\* Both rules of the pair are in for the slice that is up.
PairLive == \A kind \in Kinds : Kernel(kind, slice) # {}

\* A blessed record "heals at browser launch via browser-up": when browser-up is
\* answered OK, the pair of the slice that the launcher runs in is in the chain.
LaunchLive ==
  pc["daemon"] \in {"project", "leave"} /\ job["daemon"].verb = "up" /\ job["daemon"].ok
    /\ bless /\ slice = job["daemon"].from => PairLive
=============================================================================
