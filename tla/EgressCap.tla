------------------------------ MODULE EgressCap ------------------------------
(***************************************************************************)
(* egressd's @cap_pinned engine: the durable grant store, the live nft set *)
(* and the handlers that keep the second equal to what the first grants.   *)
(*                                                                         *)
(* Two root processes run the same code: the daemon (one request at a      *)
(* time, after a boot-time reconcile) and a command-line egressd.  Every   *)
(* step below is one store write, one DoT round or one nft command, so the *)
(* two interleave, and either may die, exactly there.                      *)
(***************************************************************************)
CONSTANTS
  Profiles,   \* the one-click pinnable profiles (admits_socket_bless)
  RawDests,   \* the user-authored raw host:proto:port destinations
  Literals,   \* the raw destinations whose host is an IPv4 literal
  Tuples,     \* (ip, proto, port) elements of @cap_pinned
  Answers,    \* what DoT may answer for a grant, as tuples of its sealed rule
  Failures,   \* what may go wrong: a subset of FailureKinds
  CliVerbs    \* which command-line verbs are run beside the daemon

FailureKinds == {"nft", "dot", "store", "crash", "reboot"}
LockedCli    == {"reconcile"}
UnlockedCli  == {"apply", "withdraw", "resolve"}

ASSUME AnswersAssumption ==
  /\ Literals \subseteq RawDests
  /\ Profiles \cap RawDests = {}
  /\ Answers \in [Profiles \cup RawDests -> SUBSET Tuples]

ASSUME EnvironmentAssumption ==
  /\ Failures \subseteq FailureKinds
  /\ CliVerbs \subseteq LockedCli \cup UnlockedCli

VARIABLES
  bless,    \* the profiles with a bless record          } durable,
  pin,      \* each profile's stored pin tuples          } in the
  fault,    \* each profile's parked fault               } 0700
  raw,      \* the raw destinations on file              } store
  rawPins,  \* the raw resolved cache                    }
  live,     \* the elements of the kernel set @cap_pinned
  lapsed,   \* history: the profiles whose record a manifest removal dropped ahead
            \* of the kernel, since the last apply that went through
  view,     \* what /run shows: pinned map and state view
  lock,     \* the holder of the store flock, or "free"
  pc, job   \* where each process is, and its local variables

store == <<bless, pin, fault, raw, rawPins>>
vars  == <<store, live, lapsed, view, lock, pc, job>>

Procs      == {"daemon", "cli"}
Faults     == {"none", "resolve-fail", "apply-fail"}
NoPins     == [p \in Profiles |-> {}]
EmptyView  == [bless |-> {}, pin |-> NoPins, fault |-> [p \in Profiles |-> "none"]]
NoJob      == [verb |-> "none", arg |-> "none", todo |-> {},
               add |-> {}, added |-> {}, del |-> {}, ok |-> TRUE]

CapVerbs   == {"bless", "repin", "unbless", "manifest-remove"}
RawVerbs   == {"add-raw", "remove-raw"}
Verbs      == CapVerbs \cup RawVerbs \cup LockedCli \cup UnlockedCli

\* A failure of this kind can strike.
MayFail(kind) == kind \in Failures

Init ==
  /\ bless = {} /\ pin = NoPins /\ fault = [p \in Profiles |-> "none"]
  /\ raw = {} /\ rawPins = [r \in RawDests |-> {}]
  /\ live = {} /\ lapsed = {} /\ view = EmptyView /\ lock = "free"
  /\ pc = [s \in Procs |-> "off"] /\ job = [s \in Procs |-> NoJob]

Goto(s, to)      == pc' = [pc EXCEPT ![s] = to]
SetJob(s, j)     == job' = [job EXCEPT ![s] = j]
Release(s)       == lock' = IF lock = s THEN "free" ELSE lock

\* The union every apply reconciles the kernel set to: each blessed profile's
\* stored pins, but for the excluded ones, and the whole raw cache.
Desired(exclude) ==
  (UNION {pin[p] : p \in bless \ exclude}) \cup (UNION {rawPins[r] : r \in RawDests})

\* Mutant: an unbless applies the whole union, its own tuples included.
Excluded_Nobody(s) == {}

\* unbless and `apply --unbless` leave the profile's own tuples out.
Excluded(s) == IF job[s].verb \in {"unbless", "withdraw"} THEN {job[s].arg} ELSE {}

-----------------------------------------------------------------------------
\* Requests and their way to the store lock.

\* systemd (re)starts the daemon: the boot reconcile runs before any request is
\* served and takes no lock.
DaemonStart ==
  /\ pc["daemon"] = "off"
  /\ Goto("daemon", "heal")
  /\ SetJob("daemon", [NoJob EXCEPT !.verb = "reconcile", !.todo = bless])
  /\ UNCHANGED <<store, live, lapsed, view, lock>>

\* The accept loop reads an authorised mutating request.
Request(v, a) ==
  /\ pc["daemon"] = "idle"
  /\ \/ v \in CapVerbs /\ a \in Profiles
     \/ v \in RawVerbs /\ a \in RawDests
  /\ Goto("daemon", "wait")
  /\ SetJob("daemon", [NoJob EXCEPT !.verb = v, !.arg = a])
  /\ UNCHANGED <<store, live, lapsed, view, lock>>

\* A root shell runs egressd: only `reconcile` takes the store lock.
CliStart(v, a) ==
  /\ pc["cli"] = "off" /\ v \in CliVerbs /\ a \in Profiles
  /\ Goto("cli", IF v \in LockedCli THEN "wait"
                 ELSE IF v = "resolve" THEN "resolve" ELSE "plan")
  /\ SetJob("cli", [NoJob EXCEPT !.verb = v, !.arg = a])
  /\ UNCHANGED <<store, live, lapsed, view, lock>>

\* The flock is granted; a repin of a profile that is not blessed is refused.
Acquire(s) ==
  /\ pc[s] = "wait" /\ lock = "free"
  /\ lock' = s
  /\ LET v == job[s].verb IN
       /\ Goto(s, IF v = "reconcile" THEN "heal"
                  ELSE IF v = "unbless" THEN "plan"
                  ELSE IF v = "manifest-remove" THEN "lapse"
                  ELSE IF v = "repin" /\ job[s].arg \notin bless THEN "leave"
                  ELSE "intent")
       /\ SetJob(s, [job[s] EXCEPT !.todo = IF v = "reconcile" THEN bless ELSE {}])
  /\ UNCHANGED <<store, live, lapsed, view>>

-----------------------------------------------------------------------------
\* Intent and resolution.

\* A fault file is written or removed, best effort.
SetFault(p, f) ==
  \/ fault' = [fault EXCEPT ![p] = f]
  \/ MayFail("store") /\ UNCHANGED fault

\* Mutant: every intent is written as a bless record.
IntentBless_AnyVerb(s) ==
  /\ pc[s] = "intent"
  /\ bless' = bless \cup {job[s].arg}
  /\ Goto(s, "resolve")
  /\ UNCHANGED <<pin, fault, raw, rawPins, live, lapsed, view, lock, job>>

\* bless / repin write the durable record first; a failed write is ignored.
IntentBless(s) ==
  /\ pc[s] = "intent" /\ job[s].verb \in {"bless", "repin"}
  /\ \/ bless' = bless \cup {job[s].arg}
     \/ MayFail("store") /\ UNCHANGED bless
  /\ Goto(s, "resolve")
  /\ UNCHANGED <<pin, fault, raw, rawPins, live, lapsed, view, lock, job>>

\* add-raw / remove-raw rewrite the raw file first; a failed write is ERR store.
IntentRaw(s) ==
  /\ pc[s] = "intent" /\ job[s].verb \in RawVerbs
  /\ \/ /\ raw' = IF job[s].verb = "add-raw" THEN raw \cup {job[s].arg}
                                             ELSE raw \ {job[s].arg}
        /\ Goto(s, "rawresolve") /\ UNCHANGED job
     \/ /\ MayFail("store") /\ UNCHANGED raw
        /\ Goto(s, "leave") /\ SetJob(s, [job[s] EXCEPT !.ok = FALSE])
  /\ UNCHANGED <<bless, pin, fault, rawPins, live, lapsed, view, lock>>

\* DoT-resolve the profile and store its pins, or park resolve-fail and keep the
\* old pins. `egressd resolve` also clears the fault here, and without --apply
\* stops at the state view.
Resolve(s) ==
  LET p == job[s].arg IN
  /\ pc[s] = "resolve"
  /\ \/ \E ans \in SUBSET Answers[p] :
          /\ ans # {}
          /\ pin' = [pin EXCEPT ![p] = ans]
          /\ IF job[s].verb = "resolve" THEN SetFault(p, "none") ELSE UNCHANGED fault
          /\ \/ Goto(s, "plan") /\ UNCHANGED job
             \/ /\ job[s].verb = "resolve"
                /\ Goto(s, "project") /\ SetJob(s, [job[s] EXCEPT !.ok = FALSE])
     \/ /\ MayFail("dot") \/ MayFail("store")
        /\ SetFault(p, "resolve-fail")
        /\ Goto(s, "project") /\ SetJob(s, [job[s] EXCEPT !.ok = FALSE])
        /\ UNCHANGED pin
  /\ UNCHANGED <<bless, raw, rawPins, live, lapsed, view, lock>>

\* Mutant: a boot resolution that fails parks no fault.
HealOne_NoFault(s, p) ==
  /\ pc[s] = "heal" /\ p \in job[s].todo
  /\ SetJob(s, [job[s] EXCEPT !.todo = @ \ {p}])
  /\ \/ pin[p] # {} /\ UNCHANGED pin
     \/ pin[p] = {} /\ \E ans \in SUBSET Answers[p] : pin' = [pin EXCEPT ![p] = ans]
  /\ fault' = IF pin[p] = {} THEN [fault EXCEPT ![p] = "none"] ELSE fault
  /\ UNCHANGED <<bless, raw, rawPins, live, lapsed, view, lock, pc>>

\* Reconcile visits the blessed profiles it listed and re-resolves those with no
\* stored pin. A pin that cannot be written leaves the profile as it was.
HealOne(s, p) ==
  /\ pc[s] = "heal" /\ p \in job[s].todo
  /\ SetJob(s, [job[s] EXCEPT !.todo = @ \ {p}])
  /\ \/ pin[p] # {} /\ UNCHANGED <<pin, fault>>
     \/ /\ pin[p] = {}
        /\ \E ans \in SUBSET Answers[p] :
             ans # {} /\ pin' = [pin EXCEPT ![p] = ans]
        /\ SetFault(p, "none")
     \/ /\ pin[p] = {} /\ MayFail("dot")
        /\ SetFault(p, "resolve-fail") /\ UNCHANGED pin
     \/ pin[p] = {} /\ MayFail("store") /\ UNCHANGED <<pin, fault>>
  /\ UNCHANGED <<bless, raw, rawPins, live, lapsed, view, lock, pc>>

\* One raw destination's answer: a literal is pinned verbatim, a name may fail
\* and then stays out of the cache ("blessed, waiting").
RawAnswer(r, ans) ==
  IF r \in Literals THEN ans = Answers[r]
  ELSE ans \subseteq Answers[r] /\ (ans = {} => MayFail("dot"))

\* resolve_raw rewrites the cache wholesale from the raw file; a failed write of
\* the cache is ignored.
RawResolve(s) ==
  /\ pc[s] = "rawresolve" \/ (pc[s] = "heal" /\ job[s].todo = {})
  /\ \/ \E ans \in [raw -> SUBSET Tuples] :
          /\ \A r \in raw : RawAnswer(r, ans[r])
          /\ rawPins' = [r \in RawDests |-> IF r \in raw THEN ans[r] ELSE {}]
     \/ MayFail("store") /\ UNCHANGED rawPins
  /\ Goto(s, "plan")
  /\ UNCHANGED <<bless, pin, fault, raw, live, lapsed, view, lock, job>>

-----------------------------------------------------------------------------
\* apply_cap: list, add what is missing, then delete what is stale.

\* Where a handler goes when apply_cap returns.
AfterApply(v, ok) ==
  IF v \in {"bless", "repin", "unbless", "apply"} \/ (v = "resolve" /\ ~ok) THEN "settle"
  ELSE IF v = "withdraw" /\ ~ok THEN "leave" ELSE "project"

ApplyReturns(s, ok) ==
  /\ Goto(s, AfterApply(job[s].verb, ok))
  /\ SetJob(s, [job[s] EXCEPT !.ok = ok, !.add = {}, !.added = {}, !.del = {}])

\* Mutant: unbless deletes its own pins one by one instead of recomputing the union.
Plan_PerEntry(s) ==
  LET mine == UNION {pin[p] : p \in Excluded(s)}
      want == IF Excluded(s) = {} THEN Desired({}) ELSE live \ mine IN
  /\ pc[s] = "plan"
  /\ Goto(s, "nft")
  /\ SetJob(s, [job[s] EXCEPT !.add = want \ live, !.del = live \ want])
  /\ UNCHANGED <<store, live, lapsed, view, lock>>

\* desired_cap_union and `nft list set`: the diff is computed once.
Plan(s) ==
  LET want == Desired(Excluded(s)) IN
  /\ pc[s] = "plan"
  /\ Goto(s, "nft")
  /\ SetJob(s, [job[s] EXCEPT !.add = want \ live, !.del = live \ want])
  /\ UNCHANGED <<store, live, lapsed, view, lock>>

PlanFails(s) ==
  /\ pc[s] = "plan" /\ MayFail("nft")
  /\ ApplyReturns(s, FALSE)
  /\ UNCHANGED <<store, live, lapsed, view, lock>>

AddElement(s, t) ==
  /\ pc[s] = "nft" /\ t \in job[s].add
  /\ live' = live \cup {t}
  /\ SetJob(s, [job[s] EXCEPT !.add = @ \ {t}, !.added = @ \cup {t}])
  /\ UNCHANGED <<store, lapsed, view, lock, pc>>

\* Mutant: a failed add is not reported.
AddFails_Silent(s) ==
  /\ pc[s] = "nft" /\ job[s].add # {} /\ MayFail("nft")
  /\ \E undone \in SUBSET job[s].added : live' = live \ undone
  /\ ApplyReturns(s, TRUE)
  /\ UNCHANGED <<store, lapsed, view, lock>>

\* A failed add rolls back the added elements, best effort: any of the rollback
\* deletes may fail too.
AddFails(s) ==
  /\ pc[s] = "nft" /\ job[s].add # {} /\ MayFail("nft")
  /\ \E undone \in SUBSET job[s].added : live' = live \ undone
  /\ ApplyReturns(s, FALSE)
  /\ UNCHANGED <<store, lapsed, view, lock>>

DelElement(s, t) ==
  /\ pc[s] = "nft" /\ job[s].add = {} /\ t \in job[s].del /\ t \in live
  /\ live' = live \ {t}
  /\ SetJob(s, [job[s] EXCEPT !.del = @ \ {t}])
  /\ UNCHANGED <<store, lapsed, view, lock, pc>>

\* A failed delete stops there: the adds and the earlier deletes stay. Deleting
\* an element another process removed fails as well.
DelFails(s, t) ==
  /\ pc[s] = "nft" /\ job[s].add = {} /\ t \in job[s].del
  /\ MayFail("nft") \/ t \notin live
  /\ ApplyReturns(s, FALSE)
  /\ UNCHANGED <<store, live, lapsed, view, lock>>

\* The whole diff is in: what a manifest removal left behind is gone with it.
Applied(s) ==
  /\ pc[s] = "nft" /\ job[s].add = {} /\ job[s].del = {}
  /\ ApplyReturns(s, TRUE)
  /\ lapsed' = {}
  /\ UNCHANGED <<store, live, view, lock>>

-----------------------------------------------------------------------------
\* Recording the outcome, projecting it and leaving.

\* bless, repin and the command-line apply clear or park the fault; so does an
\* unbless (or resolve) whose apply failed, with its records kept.
SettleFault(s) ==
  /\ pc[s] = "settle" /\ ~(job[s].verb = "unbless" /\ job[s].ok)
  /\ SetFault(job[s].arg, IF job[s].ok THEN "none" ELSE "apply-fail")
  /\ Goto(s, "project")
  /\ UNCHANGED <<bless, pin, raw, rawPins, live, lapsed, view, lock, job>>

\* Mutant: the record is dropped whatever the apply said.
DropBless_Anyway(s) ==
  /\ pc[s] = "settle" /\ job[s].verb = "unbless"
  /\ bless' = bless \ {job[s].arg}
  /\ Goto(s, "drop")
  /\ UNCHANGED <<pin, fault, raw, rawPins, live, lapsed, view, lock, job>>

\* unbless drops the bless record only after its tuples are gone ...
DropBless(s) ==
  /\ pc[s] = "settle" /\ job[s].verb = "unbless" /\ job[s].ok
  /\ \/ bless' = bless \ {job[s].arg}
     \/ MayFail("store") /\ UNCHANGED bless
  /\ Goto(s, "drop")
  /\ UNCHANGED <<pin, fault, raw, rawPins, live, lapsed, view, lock, job>>

\* ... while confirmed-manifest-remove, asked to remove a capability of that name,
\* drops it before the kernel hears of it.  Where the owner manifest itself cannot
\* be removed, the handler ends there.
LapseBless(s) ==
  /\ pc[s] = "lapse"
  /\ \/ /\ bless' = bless \ {job[s].arg}
        /\ lapsed' = lapsed \cup (bless \cap {job[s].arg})
        /\ Goto(s, "drop") /\ UNCHANGED job
     \/ /\ MayFail("store") /\ UNCHANGED <<bless, lapsed>>
        /\ \/ Goto(s, "drop") /\ UNCHANGED job
           \/ Goto(s, "leave") /\ SetJob(s, [job[s] EXCEPT !.ok = FALSE])
  /\ UNCHANGED <<pin, fault, raw, rawPins, live, view, lock>>

\* Both then drop the pins ...
DropPin(s) ==
  /\ pc[s] = "drop"
  /\ \/ pin' = [pin EXCEPT ![job[s].arg] = {}]
     \/ MayFail("store") /\ UNCHANGED pin
  /\ Goto(s, "clear")
  /\ UNCHANGED <<bless, fault, raw, rawPins, live, lapsed, view, lock, job>>

\* ... and the fault; the manifest removal applies the union now.
DropFault(s) ==
  /\ pc[s] = "clear"
  /\ SetFault(job[s].arg, "none")
  /\ Goto(s, IF job[s].verb = "unbless" THEN "project" ELSE "plan")
  /\ UNCHANGED <<bless, pin, raw, rawPins, live, lapsed, view, lock, job>>

\* Mutant: the lock outlives the handler.
Finish_HoldsLock(s) ==
  /\ Goto(s, IF s = "daemon" THEN "idle" ELSE "off")
  /\ SetJob(s, NoJob)
  /\ UNCHANGED lock

\* The handler replies and drops the lock; a command-line process exits.
Finish(s) ==
  /\ Goto(s, IF s = "daemon" THEN "idle" ELSE "off")
  /\ SetJob(s, NoJob)
  /\ Release(s)

\* reproject: the pinned map and the state view. A failed command-line verb
\* refreshes only the state view.
Project(s) ==
  /\ pc[s] = "project"
  /\ view' = [bless |-> bless, fault |-> fault,
              pin |-> IF s = "cli" /\ ~job[s].ok THEN view.pin ELSE pin]
  /\ Finish(s)
  /\ UNCHANGED <<store, live, lapsed>>

\* Errors that return before any projection.
Leave(s) ==
  /\ pc[s] = "leave"
  /\ Finish(s)
  /\ UNCHANGED <<store, live, lapsed, view>>

-----------------------------------------------------------------------------
\* Process death and reboot.

\* The kernel releases the flock of a dead process.
Crash(s) ==
  /\ MayFail("crash") /\ pc[s] # "off"
  /\ Goto(s, "off") /\ SetJob(s, NoJob) /\ Release(s)
  /\ UNCHANGED <<store, live, lapsed, view>>

\* The store survives; the nft table is re-created with its baked, empty sets
\* and /run is a fresh tmpfs.
Reboot ==
  /\ MayFail("reboot")
  /\ live' = {} /\ lapsed' = {} /\ view' = EmptyView /\ lock' = "free"
  /\ pc' = [s \in Procs |-> "off"] /\ job' = [s \in Procs |-> NoJob]
  /\ UNCHANGED store

Step(s) ==
  \/ Acquire(s) \/ IntentBless(s) \/ IntentRaw(s) \/ Resolve(s)
  \/ \E p \in Profiles : HealOne(s, p)
  \/ RawResolve(s)
  \/ Plan(s) \/ PlanFails(s) \/ AddFails(s) \/ Applied(s)
  \/ \E t \in Tuples : AddElement(s, t) \/ DelElement(s, t) \/ DelFails(s, t)
  \/ SettleFault(s) \/ DropBless(s) \/ LapseBless(s) \/ DropPin(s) \/ DropFault(s)
  \/ Project(s) \/ Leave(s)

Next ==
  \/ DaemonStart
  \/ \E v \in Verbs, a \in Profiles \cup RawDests : Request(v, a) \/ CliStart(v, a)
  \/ \E s \in Procs : Step(s) \/ Crash(s)
  \/ Reboot

Spec == Init /\ [][Next]_vars

\* systemd restarts the daemon (Restart=always) and a running handler goes on;
\* flock queues its waiters, so a waiter is not overtaken for ever.
Fairness ==
  /\ WF_vars(DaemonStart)
  /\ \A s \in Procs : WF_vars(Step(s)) /\ SF_vars(Acquire(s))

FairSpec == Spec /\ Fairness
-----------------------------------------------------------------------------
\* Properties.

\* The tuples DoT can answer for these grants.
Cover(G) == UNION {Answers[g] : g \in G}

\* Between the lock (or the start, for a process that takes none) and the reply.
Busy(s)  == pc[s] \notin {"off", "idle", "wait"}
Quiet    == pc["daemon"] = "idle" /\ pc["cli"] = "off"
Pcs      == {"off", "idle", "wait", "intent", "resolve", "heal", "rawresolve",
             "plan", "nft", "settle", "lapse", "drop", "clear", "project", "leave"}
Jobs     == [verb : Verbs \cup {"none"}, arg : Profiles \cup RawDests \cup {"none"},
             todo : SUBSET Profiles, add : SUBSET Tuples, added : SUBSET Tuples,
             del : SUBSET Tuples, ok : BOOLEAN]

\* Every record, the kernel set, the projections and the processes' locals have
\* the shape the store's parsers and the handlers give them.
TypeOK ==
  /\ bless \subseteq Profiles /\ raw \subseteq RawDests
  /\ pin \in [Profiles -> SUBSET Tuples] /\ rawPins \in [RawDests -> SUBSET Tuples]
  /\ fault \in [Profiles -> Faults]
  /\ live \subseteq Tuples /\ lapsed \subseteq Profiles
  /\ view \in [bless : SUBSET Profiles, pin : [Profiles -> SUBSET Tuples],
               fault : [Profiles -> Faults]]
  /\ lock \in Procs \cup {"free"}
  /\ pc \in [Procs -> Pcs] /\ job \in [Procs -> Jobs]

\* "Never a drift where records say revoked but elements linger" (unbless): an
\* element is live for a profile whose bless record is gone only where
\* confirmed_manifest_remove dropped that record, which it does before it applies,
\* and no apply has gone through since (nor a reboot): its own may fail or the
\* daemon die before it.  No other handler leaves one, whatever failed, crashed or
\* was running beside it; the quarantine scan of a starting daemon is EgressDesk's and
\* not spoken of here.  A raw destination's tuples are exempt: its record goes first.
GrantedOnly == live \subseteq Cover(bless \cup lapsed \cup RawDests)

\* An OK to unbless or to a manifest removal is said only when the kernel holds
\* exactly what the records grant, without the unblessed profile.
RevokeConfirmed ==
  /\ pc["daemon"] = "project" /\ job["daemon"].ok
  /\ job["daemon"].verb \in {"unbless", "manifest-remove"}
  => live = Desired(Excluded("daemon"))

\* An OK to bless or repin is said only when pins are stored, and live unless the
\* disk lost the record ("fail-closed at each step with a parked fault").
BlessConfirmed ==
  pc["daemon"] = "project" /\ job["daemon"].verb \in {"bless", "repin"} /\ job["daemon"].ok =>
    LET p == job["daemon"].arg IN
    /\ pin[p] # {} /\ (p \in bless => pin[p] \subseteq live)
    /\ fault[p] = "none" \/ MayFail("store")

\* An OK of the daemon, to a revocation or to a grant, is never ahead of the kernel.
OkMeansDone == RevokeConfirmed /\ BlessConfirmed

\* Serving a request, the daemon never deletes an element another grant still
\* wants: two grants may share a tuple, so removal recomputes the union (MF-5).
KeepsShared ==
  [][pc["daemon"] = "nft" /\ pc'["daemon"] = "nft" /\ job["daemon"].verb # "reconcile" =>
       (live \ live') \cap Desired(Excluded("daemon")) = {}]_vars

\* A blessed profile with a stored pin that is not fully live always carries a
\* fault once the daemon is idle: the panel shows "needs attention", never a
\* grant that silently does nothing.
DarkIsFaulted ==
  Quiet => \A p \in bless : (pin[p] = {} \/ ~(pin[p] \subseteq live)) => fault[p] # "none"

\* Whatever was interrupted, once the daemon is idle again the kernel holds the
\* stored union, nothing more, and short only of the pins of a profile whose
\* resolution failed: the boot reconcile repairs every half-done request.
Converged ==
  Quiet => /\ live \subseteq Desired({})
           /\ \A p \in bless : pin[p] \subseteq live \/ fault[p] = "resolve-fail"
           /\ \A r \in RawDests : rawPins[r] \subseteq live

\* ... and the /run projections show the store (reproject: the uid-1000 UI never
\* reads a stale panel).
ViewCurrent == Quiet => view = [bless |-> bless, pin |-> pin, fault |-> fault]

\* Every request the daemon reads is answered, also while a command-line
\* reconcile competes for the store lock.
RequestsAnswered == (pc["daemon"] = "wait") ~> (pc["daemon"] \in {"idle", "off"})

\* A revocation that was asked for ends with the record gone, or with a fault for
\* the panel, or with the daemon's death: it never ends in silence, whatever nft,
\* DoT and the command line do.
RevocationsLand ==
  \A p \in Profiles :
    (pc["daemon"] = "wait" /\ job["daemon"].verb = "unbless" /\ job["daemon"].arg = p)
      ~> (p \notin bless \/ fault[p] = "apply-fail" \/ pc["daemon"] = "off")

\* No request ends in silence.
RequestsEnd == RequestsAnswered /\ RevocationsLand

Promise == INSTANCE EgressPromise WITH
  Grants <- Profiles \cup RawDests, TeardownFirst <- Profiles, Reach <- Answers,
  granted <- bless \cup raw, allowed <- live, lapsed <- lapsed

\* The supervisor implements the promise: unbless tears down first, a manifest removal
\* is a withdrawal (the quarantine scan of a starting daemon is not spoken of here).
PromiseKept == Promise!Spec
=============================================================================
