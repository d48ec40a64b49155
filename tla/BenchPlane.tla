------------------------------ MODULE BenchPlane ------------------------------
(***************************************************************************)
(* A Bench is a rootless container with a data directory under a project    *)
(* quota, host directories bound into it, a set of egress profiles that a   *)
(* run injects, and launchers.  One record file per Bench is the durable    *)
(* truth; the rest is kernel, podman or desktop state that a verb brings    *)
(* in line with it.                                                         *)
(*                                                                          *)
(* The broker serves its socket one connection at a time.  `gatekeeperd     *)
(* bench` (the only way to `enter`) and the boot oneshot run the same code  *)
(* in other processes, with no lock on the records: a verb loads a record,  *)
(* acts on it and writes its copy back.  A step is one record access or one *)
(* external command.                                                        *)
(***************************************************************************)
EXTENDS Naturals, FiniteSets

CONSTANTS
  Benches, Dirs, Leaves, Profiles, Keys,
  LeafOf,      \* the basename of a host directory: its mount point in a Bench
  Caps,        \* quotas in KiB
  Projects,    \* the project ids from PROJECT_ID_BASE up
  Actors,      \* the processes that run bench verbs
  Broker,      \* the one whose caller has to pass the consent ceremony
  Verbs,       \* the verbs each of them is asked for
  Failures,    \* what may go wrong: a subset of FailureKinds
  None

\* A command that fails and changes nothing, a remount that fails after its
\* bind, a record that cannot be written, a reboot.
FailureKinds == {"tool", "mount", "write", "reboot"}
VerbNames == {"create", "run", "grant", "network", "export", "unexport",
              "reset", "quota", "destroy", "reissue"}
Grants  == [dir : Dirs, rw : BOOLEAN]
Records == [project : Projects, quota : Caps, fs : SUBSET Grants,
            net : SUBSET Profiles, exports : SUBSET Keys]

ASSUME BenchAssumption ==
  /\ LeafOf \in [Dirs -> Leaves]
  /\ Caps \subseteq Nat /\ Projects \subseteq Nat \ {0}
  /\ Broker \in Actors /\ Verbs \in [Actors -> SUBSET VerbNames]
  /\ Failures \subseteq FailureKinds
  /\ None \notin Actors /\ None \notin Grants /\ None \notin Records

VARIABLES
  rec,       \* the record file of a Bench, or None                } durable
  cap,       \* the kernel's block quota of a project, 0: no limit }
  tag,       \* the project of a Bench's data directory, 0: none   }
  launcher,  \* the .desktop files in dev's applications directory }
  files,     \* the host directories whose contents are all there  }
  mount,     \* what is bound at each leaf of a Bench's grant directory
  ctr,       \* whose container bears the Bench's name, or None
  wire,      \* the profiles that the Bench's veth and nft table let out
  due,       \* the Benches that the boot oneshot has not reissued yet
  pc, job    \* where each process is, and its local variables

durable  == <<rec, cap, tag, launcher, files>>
volatile == <<mount, ctr, wire, due>>
vars     == <<durable, volatile, pc, job>>

NoArg == [fs |-> {}, net |-> {}, exports |-> {}, quota |-> 0]
NoJob == [verb |-> "none", bench |-> None, arg |-> NoArg, held |-> None]

\* What a verb may be asked for, beside its Bench.
Args(v) ==
  [fs      : IF v = "grant" THEN {{g} : g \in Grants} ELSE {{}},
   net     : IF v = "network" THEN SUBSET Profiles ELSE {{}},
   exports : IF v \in {"export", "unexport"} THEN {{k} : k \in Keys} ELSE {{}},
   quota   : IF v \in {"create", "quota"} THEN Caps ELSE {0}]

MayFail(kind) == kind \in Failures

Init ==
  /\ rec = [b \in Benches |-> None] /\ cap = [p \in Projects |-> 0]
  /\ tag = [b \in Benches |-> 0] /\ launcher = {} /\ files = Dirs
  /\ mount = [b \in Benches |-> [l \in Leaves |-> None]]
  /\ ctr = [b \in Benches |-> None] /\ wire = [b \in Benches |-> {}] /\ due = {}
  /\ pc = [a \in Actors |-> "idle"] /\ job = [a \in Actors |-> NoJob]

\* Go on, or return to the caller.
Goto(a, to) ==
  /\ pc'  = [pc EXCEPT ![a] = to]
  /\ job' = IF to = "idle" THEN [job EXCEPT ![a] = NoJob] ELSE job

Verb(a)    == job[a].verb
Bench(a)   == job[a].bench
Held(a)    == job[a].held
Project(a) == job[a].held.project

-----------------------------------------------------------------------------
\* Requests.

\* Through the socket, grant, export and a set of profiles need a ceremony;
\* `network <name> none` does not.
Gated(v, x) == v \in {"grant", "export"} \/ (v = "network" /\ x.net # {})

\* The oneshot comes before local-fs.target, so before any other verb.
Begin(a, v, b, x) ==
  /\ pc[a] = "idle" /\ v \in Verbs[a] /\ x \in Args(v)
  /\ v # "reissue" => due = {}
  /\ pc'  = [pc EXCEPT ![a] = IF a = Broker /\ Gated(v, x) THEN "precheck" ELSE "load"]
  /\ job' = [job EXCEPT ![a] = [verb |-> v, bench |-> b, arg |-> x, held |-> None]]
  /\ UNCHANGED <<durable, volatile>>

\* A directory granted already has its leaf taken, like one of the same name.
LeafTaken(r, x)  == \E g \in x.fs, h \in r.fs : LeafOf[g.dir] = LeafOf[h.dir]
KeyTaken(r, x)   == x.exports \cap r.exports # {}

Precheck(a) ==
  /\ pc[a] = "precheck"
  /\ LET r == rec[Bench(a)] IN
     Goto(a, IF r # None /\ ~(Verb(a) = "grant" /\ LeafTaken(r, job[a].arg))
                /\ ~(Verb(a) = "export" /\ KeyTaken(r, job[a].arg))
             THEN "ceremony" ELSE "idle")
  /\ UNCHANGED <<durable, volatile>>

\* Mutant: an approved plan is written as it was checked, with no second load.
Answer_NoReload(a) ==
  /\ pc[a] = "ceremony"
  /\ Goto(a, "write") \/ Goto(a, "idle")
  /\ UNCHANGED <<durable, volatile>>

Answer(a) ==
  /\ pc[a] = "ceremony"
  /\ Goto(a, "load") \/ Goto(a, "idle")
  /\ UNCHANGED <<durable, volatile>>

-----------------------------------------------------------------------------
\* Loading the record.

\* Mutant: a verb that has no profiles clears them.
Edited_AnyVerb(v, r, x) ==
  [r EXCEPT !.quota   = IF v = "quota" THEN x.quota ELSE @,
            !.fs      = @ \cup x.fs,
            !.net     = x.net,
            !.exports = IF v = "unexport" THEN @ \ x.exports ELSE @ \cup x.exports]

\* The record that a verb will write: network replaces, the rest add or remove.
Edited(v, r, x) ==
  [r EXCEPT !.quota   = IF v = "quota" THEN x.quota ELSE @,
            !.fs      = @ \cup x.fs,
            !.net     = IF v = "network" THEN x.net ELSE @,
            !.exports = IF v = "unexport" THEN @ \ x.exports ELSE @ \cup x.exports]

First(v) ==
  CASE v = "grant"              -> "mount"
    [] v = "network"            -> "write"
    [] v \in {"quota", "reissue"} -> "setcap"
    [] v = "reset"              -> "rm"
    [] v = "destroy"            -> "launchers"
    [] v = "export"             -> "desktop"
    [] v = "unexport"           -> "undesktop"
    [] v = "run"                -> "binds"

\* The commit of an approved grant pins the directory again, but does not look
\* at the leaves again.
Refused(a, r, x) ==
  \/ Verb(a) = "grant" /\ a # Broker /\ LeafTaken(r, x)
  \/ Verb(a) = "export" /\ KeyTaken(r, x)
  \/ Verb(a) = "unexport" /\ ~KeyTaken(r, x)

Load(a) ==
  /\ pc[a] = "load" /\ Verb(a) # "create"
  /\ LET r == rec[Bench(a)] IN
     IF r = None \/ Refused(a, r, job[a].arg) THEN Goto(a, "idle")
     ELSE /\ pc'  = [pc EXCEPT ![a] = First(Verb(a))]
          /\ job' = [job EXCEPT ![a].held = Edited(Verb(a), r, job[a].arg)]
  /\ UNCHANGED <<durable, volatile>>

Used == {rec[b].project : b \in {c \in Benches : rec[c] # None}}

\* Mutant: the id after the number of records, as if none were ever destroyed.
NextProject_ByCount(p) == p = 1 + Cardinality({b \in Benches : rec[b] # None})

\* The smallest project id that no record uses.
NextProject(p) == p \notin Used /\ \A q \in Projects : q < p => q \in Used

LoadCreate(a) ==
  /\ pc[a] = "load" /\ Verb(a) = "create"
  /\ IF rec[Bench(a)] # None THEN Goto(a, "idle")
     ELSE \E p \in Projects :
            /\ NextProject(p)
            /\ pc'  = [pc EXCEPT ![a] = "tag"]
            /\ job' = [job EXCEPT ![a].held =
                 [project |-> p, quota |-> job[a].arg.quota, fs |-> {}, net |-> {}, exports |-> {}]]
  /\ UNCHANGED <<durable, volatile>>

-----------------------------------------------------------------------------
\* Quota, data directory, record file.

\* chattr: create makes and tags the directory, reissue tags it again.
Tag(a) ==
  /\ pc[a] = "tag"
  /\ \/ /\ tag' = [tag EXCEPT ![Bench(a)] = Project(a)]
        /\ Goto(a, IF Verb(a) = "create" THEN "setcap" ELSE "binds")
     \/ /\ MayFail("tool") /\ UNCHANGED tag
        /\ Goto(a, IF Verb(a) = "create" THEN "uncap" ELSE "binds")
  /\ UNCHANGED <<rec, cap, launcher, files, volatile>>

\* setquota: a failure ends `quota`, undoes `create` and is skipped by `reissue`.
SetCap(a) ==
  /\ pc[a] = "setcap"
  /\ \/ /\ cap' = [cap EXCEPT ![Project(a)] = Held(a).quota]
        /\ Goto(a, IF Verb(a) = "reissue" THEN "tag" ELSE "write")
     \/ /\ MayFail("tool") /\ UNCHANGED cap
        /\ Goto(a, CASE Verb(a) = "create" -> "uncap" [] Verb(a) = "quota" -> "idle"
                     [] Verb(a) = "reissue" -> "tag")
  /\ UNCHANGED <<rec, tag, launcher, files, volatile>>

PutRecord(a) == rec' = [rec EXCEPT ![Bench(a)] = Held(a)]

\* The last step of create, grant, network, quota, export and unexport; only
\* create and export undo what they did when it fails.
Write(a) ==
  /\ pc[a] = "write"
  /\ \/ PutRecord(a) /\ Goto(a, "idle")
     \/ /\ MayFail("write") /\ UNCHANGED rec
        /\ Goto(a, IF Verb(a) = "create" THEN "uncap"
                   ELSE IF Verb(a) = "export" THEN "undesktop" ELSE "idle")
  /\ UNCHANGED <<cap, tag, launcher, files, volatile>>

Uncap(a) ==
  /\ pc[a] = "uncap"
  /\ cap' = [cap EXCEPT ![Project(a)] = 0] \/ (MayFail("tool") /\ UNCHANGED cap)
  /\ Goto(a, "rmdata")
  /\ UNCHANGED <<rec, tag, launcher, files, volatile>>

RmData(a) ==
  /\ pc[a] = "rmdata"
  /\ tag' = [tag EXCEPT ![Bench(a)] = 0]
  /\ Goto(a, IF Verb(a) = "create" THEN "idle" ELSE "unrecord")
  /\ UNCHANGED <<rec, cap, launcher, files, volatile>>

Unrecord(a) ==
  /\ pc[a] = "unrecord"
  /\ rec' = [rec EXCEPT ![Bench(a)] = None]
  /\ Goto(a, "idle")
  /\ UNCHANGED <<cap, tag, launcher, files, volatile>>

-----------------------------------------------------------------------------
\* Filesystem grants.

\* What may be bound in a Bench once the grants of a record have been gone
\* through: a leaf that is a mount point is left alone; `all` is FALSE when an
\* error stopped the loop.
Bound(b, fs, all) ==
  {m \in [Leaves -> Grants \cup {None}] :
     \A l \in Leaves : LET here == {g \in fs : LeafOf[g.dir] = l} IN
       IF mount[b][l] # None \/ here = {} THEN m[l] = mount[b][l]
       ELSE m[l] \in here \/ (~all /\ m[l] = None)}

\* One grant of `grant`.  A remount that fails leaves the bind behind, writable.
Mount(a) ==
  /\ pc[a] = "mount"
  /\ \E g \in job[a].arg.fs, m \in [Leaves -> Grants \cup {None}] :
       /\ mount' = [mount EXCEPT ![Bench(a)] = m]
       /\ \/ m \in Bound(Bench(a), {g}, TRUE) /\ Goto(a, "write")
          \/ MayFail("tool") /\ m = mount[Bench(a)] /\ Goto(a, "idle")
          \/ /\ MayFail("mount") /\ m \in Bound(Bench(a), {[g EXCEPT !.rw = TRUE]}, TRUE)
             /\ Goto(a, "idle")
  /\ UNCHANGED <<durable, ctr, wire, due>>

AfterBinds(a) ==
  CASE Verb(a) = "reissue" -> "unwire"
    [] Verb(a) = "run"     -> IF Held(a).net = {} THEN "running" ELSE "preclear"

\* What an error leaves bound of the grants of a run or a reissue: the loop stops
\* at a bind that fails, or at a remount that does, whose bind stays writable.
Interrupted(a) ==
  LET b == Bench(a)  fs == Held(a).fs
      open(g) == [g EXCEPT !.rw = TRUE]
  IN  {m \in Bound(b, fs, FALSE) : MayFail("tool")} \cup
      UNION {{m \in Bound(b, (fs \ {g}) \cup {open(g)}, FALSE) : m[LeafOf[g.dir]] = open(g)} :
               g \in {h \in fs : MayFail("mount") /\ mount[b][LeafOf[h.dir]] = None}}

\* Mutant: the binds are left to the boot oneshot's last pass.
Binds_None(a) ==
  /\ pc[a] = "binds"
  /\ Goto(a, AfterBinds(a))
  /\ UNCHANGED <<durable, volatile>>

\* ensure_grants_materialized, for run and reissue.
Binds(a) ==
  /\ pc[a] = "binds"
  /\ \/ \E m \in Bound(Bench(a), Held(a).fs, TRUE) :
          mount' = [mount EXCEPT ![Bench(a)] = m] /\ Goto(a, AfterBinds(a))
     \/ \E m \in Interrupted(a) :
          /\ mount' = [mount EXCEPT ![Bench(a)] = m]
          /\ Goto(a, IF Verb(a) = "run" THEN "idle" ELSE AfterBinds(a))
  /\ UNCHANGED <<durable, ctr, wire, due>>

\* Mutant: destroy unmounts the read-only grants only.
Unmount_ReadOnly(a) ==
  /\ pc[a] = "unmount"
  /\ mount' = [mount EXCEPT ![Bench(a)] = [l \in Leaves |->
       IF \E g \in Held(a).fs : LeafOf[g.dir] = l /\ ~g.rw THEN None ELSE @[l]]]
  /\ Goto(a, "rundir")
  /\ UNCHANGED <<durable, ctr, wire, due>>

\* Mutant: destroy forgets the mounts, and the directory they are in.
Unmount_Skips(a) ==
  /\ pc[a] = "unmount"
  /\ Goto(a, "uncap")
  /\ UNCHANGED <<durable, volatile>>

\* destroy unmounts the grants that the record lists.
Unmount(a) ==
  /\ pc[a] = "unmount"
  /\ mount' = [mount EXCEPT ![Bench(a)] = [l \in Leaves |->
       IF \E g \in Held(a).fs : LeafOf[g.dir] = l THEN None ELSE @[l]]]
  /\ Goto(a, "rundir")
  /\ UNCHANGED <<durable, ctr, wire, due>>

\* remove_dir_all of the Bench's directory under /run goes through what is still
\* bound there: it empties a writable bind and fails on a read-only one.
RmRunDir(a) ==
  /\ pc[a] = "rundir"
  /\ files' = files \ {g.dir : g \in {h \in Grants :
       h.rw /\ \E l \in Leaves : mount[Bench(a)][l] = h}}
  /\ Goto(a, "uncap")
  /\ UNCHANGED <<rec, cap, tag, launcher, volatile>>

-----------------------------------------------------------------------------
\* Launchers.

Launchers(a, keys) == {Bench(a)} \X keys

\* export: a file of that name refuses the request.
Desktop(a) ==
  /\ pc[a] = "desktop"
  /\ LET new == Launchers(a, job[a].arg.exports) IN
     \/ new \cap launcher = {} /\ launcher' = launcher \cup new /\ Goto(a, "write")
     \/ /\ (new \cap launcher # {} \/ MayFail("tool"))
        /\ Goto(a, "idle") /\ UNCHANGED launcher
  /\ UNCHANGED <<rec, cap, tag, files, volatile>>

\* unexport, and the roll-back of export.
Undesktop(a) ==
  /\ pc[a] = "undesktop"
  /\ launcher' = launcher \ Launchers(a, job[a].arg.exports)
  /\ Goto(a, IF Verb(a) = "unexport" THEN "write" ELSE "idle")
  /\ UNCHANGED <<rec, cap, tag, files, volatile>>

\* destroy sweeps the launchers that the record lists.
SweepLaunchers(a) ==
  /\ pc[a] = "launchers"
  /\ launcher' = launcher \ Launchers(a, Held(a).exports)
  /\ Goto(a, "rm")
  /\ UNCHANGED <<rec, cap, tag, files, volatile>>

-----------------------------------------------------------------------------
\* Runs.

Networked(a) == Held(a).net # {}

\* The profiles are resolved, or the run is refused; then crash residue is torn
\* down.
Preclear(a) ==
  /\ pc[a] = "preclear"
  /\ \/ wire' = [wire EXCEPT ![Bench(a)] = {}] /\ Goto(a, "running")
     \/ MayFail("tool") /\ UNCHANGED wire /\ Goto(a, "idle")
  /\ UNCHANGED <<durable, mount, ctr, due>>

\* The state line of the record, by writing back all of it; errors are ignored.
MarkState(a, from, to) ==
  /\ pc[a] = from
  /\ PutRecord(a) \/ (MayFail("write") /\ UNCHANGED rec)
  /\ Goto(a, to)
  /\ UNCHANGED <<cap, tag, launcher, files, volatile>>

\* podman run: the workload itself, or the holder that the egress is injected
\* into; the name must be free.
Start(a) ==
  /\ pc[a] = "start"
  /\ \/ /\ ctr[Bench(a)] = None /\ ctr' = [ctr EXCEPT ![Bench(a)] = a]
        /\ Goto(a, IF Networked(a) THEN "inject" ELSE "work")
     \/ /\ (ctr[Bench(a)] # None \/ MayFail("tool")) /\ UNCHANGED ctr
        /\ Goto(a, IF Networked(a) THEN "unwire" ELSE "stopped")
  /\ UNCHANGED <<durable, mount, wire, due>>

\* Mutant: a failed injection returns without the teardown.
Inject_NoTeardown(a) ==
  /\ pc[a] = "inject"
  /\ \/ /\ ctr[Bench(a)] # None /\ wire[Bench(a)] = {}
        /\ wire' = [wire EXCEPT ![Bench(a)] = Held(a).net] /\ Goto(a, "work")
     \/ /\ (ctr[Bench(a)] = None \/ wire[Bench(a)] # {} \/ MayFail("tool"))
        /\ Goto(a, "stopped") /\ UNCHANGED wire
  /\ UNCHANGED <<durable, mount, ctr, due>>

\* The leader of whatever container bears the name is wired up; the attach
\* fails if the plumbing's name is taken, and a late failure finds it complete.
\* Look-up and attachment are one step: a container that goes in between takes its
\* pid along, and the attachment to that pid fails, which is among the failures.
Inject(a) ==
  /\ pc[a] = "inject"
  /\ \/ /\ ctr[Bench(a)] # None /\ wire[Bench(a)] = {}
        /\ wire' = [wire EXCEPT ![Bench(a)] = Held(a).net]
        /\ Goto(a, "work") \/ (MayFail("tool") /\ Goto(a, "unwire"))
     \/ /\ (ctr[Bench(a)] = None \/ wire[Bench(a)] # {} \/ MayFail("tool"))
        /\ Goto(a, "unwire") /\ UNCHANGED wire
  /\ UNCHANGED <<durable, mount, ctr, due>>

\* Mutant: the holder is removed and the plumbing left to the next run.
Work_NoTeardown(a) ==
  /\ pc[a] = "work"
  /\ IF Networked(a) THEN Goto(a, "rm") /\ UNCHANGED ctr
     ELSE /\ ctr' = [ctr EXCEPT ![Bench(a)] = IF @ = a THEN None ELSE @]
          /\ Goto(a, "stopped")
  /\ UNCHANGED <<durable, mount, wire, due>>

\* The workload ends; `--rm` removes the container of a plain run.
Work(a) ==
  /\ pc[a] = "work"
  /\ IF Networked(a) THEN Goto(a, "unwire") /\ UNCHANGED ctr
     ELSE /\ ctr' = [ctr EXCEPT ![Bench(a)] = IF @ = a THEN None ELSE @]
          /\ Goto(a, "stopped")
  /\ UNCHANGED <<durable, mount, wire, due>>

\* Mutant: the end of a run takes its container for gone.
Unwire_KeepsContainer(a) ==
  /\ pc[a] = "unwire"
  /\ wire' = [wire EXCEPT ![Bench(a)] = {}]
  /\ Goto(a, CASE Verb(a) = "run" -> "stopped" [] Verb(a) = "destroy" -> "unmount"
               [] Verb(a) \in {"reset", "reissue"} -> "idle")
  /\ due' = IF Verb(a) = "reissue" THEN due \ {Bench(a)} ELSE due
  /\ UNCHANGED <<durable, mount, ctr>>

\* SandboxNet::teardown, of a run that ends or fails, reset, destroy and reissue.
\* The code ignores errors here and in Rm; both are taken to do their work.
Unwire(a) ==
  /\ pc[a] = "unwire"
  /\ wire' = [wire EXCEPT ![Bench(a)] = {}]
  /\ Goto(a, CASE Verb(a) = "run" -> "rm" [] Verb(a) = "destroy" -> "unmount"
               [] Verb(a) \in {"reset", "reissue"} -> "idle")
  /\ due' = IF Verb(a) = "reissue" THEN due \ {Bench(a)} ELSE due
  /\ UNCHANGED <<durable, mount, ctr>>

\* podman rm -f by name, whoever started the container.
Rm(a) ==
  /\ pc[a] = "rm"
  /\ ctr' = [ctr EXCEPT ![Bench(a)] = None]
  /\ Goto(a, IF Verb(a) = "run" THEN "stopped" ELSE "unwire")
  /\ UNCHANGED <<durable, mount, wire, due>>

-----------------------------------------------------------------------------
\* Power loss: /run, mounts, containers, network namespaces and nft tables go.
Reboot ==
  /\ MayFail("reboot")
  /\ mount' = [b \in Benches |-> [l \in Leaves |-> None]]
  /\ ctr' = [b \in Benches |-> None] /\ wire' = [b \in Benches |-> {}]
  /\ due' = {b \in Benches : rec[b] # None}
  /\ pc' = [a \in Actors |-> "idle"] /\ job' = [a \in Actors |-> NoJob]
  /\ UNCHANGED durable

Step(a) ==
  \/ Precheck(a) \/ Answer(a) \/ Load(a) \/ LoadCreate(a)
  \/ Tag(a) \/ SetCap(a) \/ Write(a) \/ Uncap(a) \/ RmData(a) \/ Unrecord(a)
  \/ Mount(a) \/ Binds(a) \/ Unmount(a) \/ RmRunDir(a)
  \/ Desktop(a) \/ Undesktop(a) \/ SweepLaunchers(a)
  \/ Preclear(a) \/ MarkState(a, "running", "start") \/ Start(a) \/ Inject(a)
  \/ Work(a) \/ Unwire(a) \/ Rm(a) \/ MarkState(a, "stopped", "idle")

Next ==
  \/ \E a \in Actors, v \in VerbNames, b \in Benches : \E x \in Args(v) : Begin(a, v, b, x)
  \/ \E a \in Actors : Step(a)
  \/ Reboot

Spec == Init /\ [][Next]_vars
-----------------------------------------------------------------------------
\* Properties.

Loaded == {"mount", "write", "setcap", "rm", "launchers", "desktop", "undesktop",
  "binds", "tag", "uncap", "rmdata", "unrecord", "unmount", "rundir", "preclear",
  "running", "start", "inject", "work", "unwire", "stopped"}
Pcs  == {"idle", "precheck", "ceremony", "load"} \cup Loaded
Jobs == [verb : VerbNames \cup {"none"}, bench : Benches \cup {None},
         arg : UNION {Args(v) : v \in VerbNames}, held : Records \cup {None}]

\* Records, kernel state and locals have the shape the code gives them; a verb
\* acts on a record it has loaded.
TypeOK ==
  /\ rec \in [Benches -> Records \cup {None}]
  /\ cap \in [Projects -> Caps \cup {0}] /\ tag \in [Benches -> Projects \cup {0}]
  /\ launcher \subseteq Benches \X Keys /\ files \subseteq Dirs
  /\ mount \in [Benches -> [Leaves -> Grants \cup {None}]]
  /\ ctr \in [Benches -> Actors \cup {None}] /\ wire \in [Benches -> SUBSET Profiles]
  /\ due \subseteq Benches
  /\ pc \in [Actors -> Pcs] /\ job \in [Actors -> Jobs]
  /\ \A a \in Actors : pc[a] \in Loaded => Held(a) # None

Touched(b) == \E a \in Actors : pc[a] # "idle" /\ Bench(a) = b
Settled(b) == rec[b] # None /\ b \notin due /\ ~Touched(b)

\* "A Bench reuses no live project id, so two Benches never share a quota"
\* (next_project_id).
NoSharedQuota ==
  \A b, c \in Benches : rec[b] # None /\ rec[c] # None /\ rec[b].project = rec[c].project => b = c

\* Once a reboot has been followed by reissue and no verb is at work, a Bench's
\* data is counted in its project and the kernel holds the recorded quota.
CapApplied ==
  \A b \in Benches : Settled(b) => tag[b] = rec[b].project /\ cap[rec[b].project] = rec[b].quota

\* Host directories are bound for a Bench only as its record says, access mode
\* included, while no verb is at work on it; none after destroy.
MountsRecorded ==
  \A b \in Benches, l \in Leaves : ~Touched(b) /\ mount[b][l] # None =>
    rec[b] # None /\ mount[b][l] \in rec[b].fs

\* "never a silently-missing bind" (ensure_grants_materialized): the workload has
\* each granted directory at its leaf, with the access that was granted.
GrantsSeen ==
  \A a \in Actors : pc[a] = "work" => \A g \in Held(a).fs : mount[Bench(a)][LeafOf[g.dir]] = g

\* What is recorded is so: the quota of every Bench at rest, the binds of every run.
RecordHeld == CapApplied /\ GrantsSeen

\* destroy stops the container and unmounts the grants before it removes the
\* directory they were bound in: no verb takes a file from a granted directory.
DestroySparesFiles == files = Dirs

Writes(a, v, b) == pc[a] = "write" /\ Verb(a) = v /\ Bench(a) = b

\* `network` replaces the set and "`none` alone REVOKES all egress": only
\* network changes the recorded profiles, and to the set that it was given.
NetworkSticks ==
  [][\A b \in Benches : rec[b] # None /\ rec'[b] # None /\ rec'[b].net # rec[b].net =>
       \E a \in Actors : Writes(a, "network", b) /\ rec'[b].net = job[a].arg.net]_vars

\* What one verb records no other verb takes back: the project stays, grants
\* only grow, quotas and launchers change by their own verbs, and a Bench comes
\* into being by create alone.
RecordKept ==
  [][\A b \in Benches : LET r == rec[b]  s == rec'[b] IN
       s # None /\ s # r =>
         IF r = None THEN \E a \in Actors : Writes(a, "create", b)
         ELSE /\ s.project = r.project /\ r.fs \subseteq s.fs
              /\ s.quota # r.quota => \E a \in Actors : Writes(a, "quota", b)
              /\ s.exports # r.exports =>
                   \E a \in Actors : Writes(a, "export", b) \/ Writes(a, "unexport", b)]_vars

\* No verb takes back what another recorded.
EditsKept == NetworkSticks /\ RecordKept

\* No container outlives the run that started it, on any path out of it and
\* beside any other process: the name is free for the next run.  Where podman rm
\* does what it is told, and the process lives to ask for it.
NoStrayContainer ==
  \A b \in Benches : ctr[b] # None => LET a == ctr[b] IN
    Verb(a) = "run" /\ Bench(a) = b /\ pc[a] \in {"inject", "work", "unwire", "rm"}

\* "never persisted as a live netns" (reissue): egress is up only within a run,
\* and only to the profiles of the record that this run loaded (with the same
\* provisos).
EgressInRun ==
  \A b \in Benches : wire[b] # {} => \E a \in Actors :
    /\ Verb(a) = "run" /\ Bench(a) = b /\ pc[a] \in {"work", "unwire"}
    /\ wire[b] = Held(a).net
=============================================================================
