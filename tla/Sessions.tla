------------------------------ MODULE Sessions ------------------------------
(***************************************************************************)
(* What `gatekeeperd sandbox` builds around one workload and takes down    *)
(* after it.  Every session is a gatekeeperd process of its own; they      *)
(* share, without a lock, the names their ids give them: the work          *)
(* directory, the netns name, the nft table, the view; and, through a hash *)
(* of the id, the veth, the /30 address and the binding of that address.   *)
(* swamp-broker and swampd answer queries by those bindings and records.   *)
(***************************************************************************)
EXTENDS Naturals, FiniteSets

CONSTANTS
    Procs,     \* gatekeeperd processes, one session each
    Ids,       \* session ids; `shrek run` derives one from the project's name
    Slots,     \* what djb2(id) & 0x3FFF leaves of an id
    Requests,  \* [tier, egress, rw]: tier T1 or T2, sealed profiles, rw grants
    Nobody,    \* model value
    Failures,    \* what may fail: subset of FailureKinds
    MaxFailures, \* bound: failures and kills
    MaxAsks    \* bound: queries

FailureKinds == {"bind", "prepare", "wire", "record", "binding", "view", "run", "kill"}

ASSUME SessionAssumption ==
    /\ Nobody \notin Procs \cup Ids \cup Slots
    /\ Failures \subseteq FailureKinds
    /\ {MaxFailures, MaxAsks} \subseteq Nat
    /\ \A r \in Requests : r.tier \in {"T1", "T2"}

VARIABLES
    slotOf,   \* the hash
    stage,       \* process: where its constructor is
    after,    \* process: what the teardown of the network is part of
    id, req,  \* process: its session
    bound,    \* process: rw grants bound under work/rwgrants in its mount namespace
    work,     \* work directories under /run, by tier and id
    leaf,     \* cgroup leaves, by process
    netns,    \* the process whose namespace a netns name refers to
    veth,     \* the process whose namespace holds a slot's container end
    table,    \* per id: [slot, allow] of the nft table, or none
    binding,  \* per slot: the handle net-binding has for the address
    record,   \* per handle (the process that minted it): the grants recorded
    view,     \* per id: the process whose session-view is on disk
    minted,   \* handles in existence
    sandbox,  \* process: "no", "held" (behind the barrier) or "runs"
    inside,   \* process: the owner of the namespace its sandbox is in
    conn,     \* the query swamp-broker is serving
    asks, failures, \* bounds
    failed,   \* ghost: processes whose construction failed after the binds
    shared,   \* ghost: ids built while another session had their address
    erased    \* ghost: rw grants whose files gatekeeperd has deleted

netVars     == <<netns, veth, table>>
recordVars  == <<binding, record, view, minted>>
sandboxVars == <<sandbox, inside>>
placeVars   == <<bound, work, leaf, erased>>
queryVars   == <<conn, asks>>
sessionVars == <<slotOf, stage, after, id, req, placeVars, netVars, recordVars, sandboxVars,
                 queryVars, failures, failed, shared>>

---------------------------------------------------------------------------

NoTable == [slot |-> Nobody, allow |-> {}]
NoReq   == [tier |-> "none", egress |-> {}, rw |-> {}]
NoConn  == [from |-> Nobody, slot |-> Nobody, handle |-> Nobody, at |-> "none"]

Slot(p)    == slotOf[id[p]]
Tier(p)    == req[p].tier
Netted(p)  == req[p].egress # {}
Capable(p) == Tier(p) = "T2" /\ "swamp" \in req[p].egress   \* is_swamp_capable
Dir(p)     == <<Tier(p), id[p]>>

\* A namespace lives while a name refers to it or a sandbox is in it
Held(o)    == o # Nobody /\ ((\E i \in Ids : netns[i] = o)
                             \/ \E q \in Procs : sandbox[q] # "no" /\ inside[q] = o)
Linked(s)  == Held(veth[s])

Goes(p, l) == stage' = [stage EXCEPT ![p] = l]

Fails(k)   == k \in Failures /\ failures < MaxFailures /\ failures' = failures + 1
TearDown(p, why) == Goes(p, "untable") /\ after' = [after EXCEPT ![p] = why]

\* every failure from the wiring on: n.teardown, cg.destroy, remove_dir_all
Abort(p) == TearDown(p, "abort") /\ failed' = failed \cup {p}

---------------------------------------------------------------------------
(* Construction up to the network *)

\* processes at work on a session with the address of i
Rivals(i) == {q \in Procs : stage[q] \notin {"idle", "done"} /\ Slot(q) = slotOf[i]}

Begin(p, i, r) ==
    /\ stage[p] = "idle"
    /\ id' = [id EXCEPT ![p] = i]
    /\ req' = [req EXCEPT ![p] = r]
    /\ shared' = shared \cup UNION {{i, id[q]} : q \in Rivals(i)}
    /\ Goes(p, "clear")
    /\ UNCHANGED <<slotOf, after, placeVars, netVars, recordVars, sandboxVars, queryVars,
                   failures, failed>>

\* remove_dir_all and create_dir_all of the work directory.  The removal of a
\* mount point of another namespace detaches what is mounted there.
Clear(p) ==
    /\ stage[p] = "clear"
    /\ bound' = [q \in Procs |-> IF id[q] = id[p] /\ Tier(q) = Tier(p) THEN {} ELSE bound[q]]
    /\ work' = work \cup {Dir(p)}
    /\ Goes(p, "bind")
    /\ UNCHANGED <<slotOf, after, id, req, leaf, erased, netVars, recordVars, sandboxVars,
                   queryVars, failures, failed, shared>>

\* enter_private_mount_ns, pin_beneath and relocate_rw of each writable grant
\* (T1: relocate_ro of each grant, through which nothing can be deleted)
Bind(p) ==
    /\ stage[p] = "bind"
    /\ \/ /\ bound' = [bound EXCEPT ![p] = IF Tier(p) = "T2" THEN req[p].rw ELSE {}]
          /\ Goes(p, "prepare") /\ UNCHANGED failures
       \/ Fails("bind") /\ Goes(p, "done") /\ UNCHANGED bound
    /\ UNCHANGED <<slotOf, after, id, req, work, leaf, erased, netVars, recordVars, sandboxVars,
                   queryVars, failed, shared>>

\* rootfs copy, resolution of the profiles, the handle, config.json, the cgroup
\* leaf; an error returns at once, and its mount namespace goes with the process
Prepare(p) ==
    /\ stage[p] = "prepare"
    /\ \/ /\ minted' = IF Capable(p) THEN minted \cup {p} ELSE minted
          /\ leaf' = IF Tier(p) = "T2" THEN leaf \cup {p} ELSE leaf
          /\ IF Tier(p) = "T1" THEN Goes(p, "spawn") /\ UNCHANGED after
             ELSE IF Netted(p) THEN TearDown(p, "wire")
             ELSE Goes(p, "view") /\ UNCHANGED after
          /\ UNCHANGED <<bound, failures>>
       \/ /\ Fails("prepare") /\ Goes(p, "done")
          /\ bound' = [bound EXCEPT ![p] = {}]
          /\ UNCHANGED <<minted, leaf, after>>
    /\ UNCHANGED <<slotOf, id, req, work, erased, netVars, binding, record, view, sandboxVars,
                   queryVars, failed, shared>>

---------------------------------------------------------------------------
(* teardown: three commands, each of which may find nothing to remove; that one *)
(* fails with something to remove (the code ignores it) is left out             *)

Untable(p) ==
    /\ stage[p] = "untable"
    /\ table' = [table EXCEPT ![id[p]] = NoTable]
    /\ Goes(p, "unlink")
    /\ UNCHANGED <<slotOf, after, id, req, placeVars, netns, veth, recordVars, sandboxVars,
                   queryVars, failures, failed, shared>>

Unlink(p) ==
    /\ stage[p] = "unlink"
    /\ veth' = [veth EXCEPT ![Slot(p)] = Nobody]
    /\ Goes(p, "unname")
    /\ UNCHANGED <<slotOf, after, id, req, placeVars, netns, table, recordVars, sandboxVars,
                   queryVars, failures, failed, shared>>

Unname(p) ==
    /\ stage[p] = "unname"
    /\ netns' = [netns EXCEPT ![id[p]] = Nobody]
    /\ Goes(p, CASE after[p] = "wire" -> "name"
                 [] after[p] = "abort" -> IF Tier(p) = "T2" THEN "wipe" ELSE "wait"
                 [] after[p] = "end" -> "done")
    /\ UNCHANGED <<slotOf, after, id, req, placeVars, veth, table, recordVars, sandboxVars,
                   queryVars, failures, failed, shared>>

---------------------------------------------------------------------------
(* create_and_inject (T2, before the spawn) and inject (T1, behind the barrier) *)

\* Mutant: the workload is not put behind the barrier
Spawn_Free(p) ==
    /\ stage[p] = "spawn"
    /\ sandbox' = [sandbox EXCEPT ![p] = "runs"] /\ Goes(p, IF Netted(p) THEN "name" ELSE "run")
    /\ inside' = [inside EXCEPT ![p] = p]
    /\ UNCHANGED <<slotOf, after, id, req, placeVars, netVars, recordVars, queryVars,
                   failures, failed, shared>>

\* T1: nspawn owns its namespace; the workload waits for /rv/go
Spawn(p) ==
    /\ stage[p] = "spawn"
    /\ IF Netted(p)
       THEN sandbox' = [sandbox EXCEPT ![p] = "held"] /\ Goes(p, "name")
       ELSE sandbox' = [sandbox EXCEPT ![p] = "runs"] /\ Goes(p, "run")
    /\ inside' = [inside EXCEPT ![p] = p]
    /\ UNCHANGED <<slotOf, after, id, req, placeVars, netVars, recordVars, queryVars,
                   failures, failed, shared>>

\* `ip netns add`, or attach of the leader's namespace
Name(p) ==
    /\ stage[p] = "name"
    /\ \/ /\ netns[id[p]] = Nobody
          /\ netns' = [netns EXCEPT ![id[p]] = p]
          /\ Goes(p, "link") /\ UNCHANGED <<after, failures, failed>>
       \/ /\ (netns[id[p]] # Nobody /\ UNCHANGED failures) \/ Fails("wire")
          /\ Abort(p) /\ UNCHANGED netns
    /\ UNCHANGED <<slotOf, id, req, placeVars, veth, table, recordVars, sandboxVars, queryVars,
                   shared>>

\* link add, move of one end into the named namespace, addresses, route
Link(p) ==
    LET free == ~Linked(Slot(p)) /\ netns[id[p]] # Nobody
        Joined == [veth EXCEPT ![Slot(p)] = netns[id[p]]] IN
    /\ stage[p] = "link"
    /\ \/ free /\ veth' = Joined /\ Goes(p, "nft") /\ UNCHANGED <<after, failures, failed>>
       \/ ~free /\ Abort(p) /\ UNCHANGED <<veth, failures>>
       \/ free /\ Fails("wire") /\ Abort(p) /\ veth' \in {veth, Joined}
    /\ UNCHANGED <<slotOf, id, req, placeVars, netns, table, recordVars, sandboxVars, queryVars,
                   shared>>

\* nft -f - of the ruleset; a table of that name already there keeps its drop first
Nft(p) ==
    /\ stage[p] = "nft"
    /\ \/ /\ table' = IF table[id[p]] # NoTable THEN table
                      ELSE [table EXCEPT ![id[p]] = [slot |-> Slot(p), allow |-> req[p].egress]]
          /\ Goes(p, IF Tier(p) = "T1" THEN "go" ELSE IF Capable(p) THEN "record" ELSE "view")
          /\ UNCHANGED <<after, failures, failed>>
       \/ Fails("wire") /\ Abort(p) /\ UNCHANGED table
    /\ UNCHANGED <<slotOf, id, req, placeVars, netns, veth, recordVars, sandboxVars, queryVars,
                   shared>>

---------------------------------------------------------------------------
(* The identity of a swamp session and its view *)

WriteRecord(p) ==
    /\ stage[p] = "record"
    /\ \/ /\ record' = [record EXCEPT ![p] = req[p].rw]
          /\ Goes(p, "binding") /\ UNCHANGED failures
       \/ Fails("record") /\ Goes(p, "rollback") /\ UNCHANGED record
    /\ UNCHANGED <<slotOf, after, id, req, placeVars, netVars, binding, view, minted,
                   sandboxVars, queryVars, failed, shared>>

WriteBinding(p) ==
    /\ stage[p] = "binding"
    /\ \/ /\ binding' = [binding EXCEPT ![Slot(p)] = p]
          /\ Goes(p, "view") /\ UNCHANGED failures
       \/ Fails("binding") /\ Goes(p, "rollback") /\ UNCHANGED binding
    /\ UNCHANGED <<slotOf, after, id, req, placeVars, netVars, record, view, minted,
                   sandboxVars, queryVars, failed, shared>>

\* Mutant: a failed commit is logged, as that of the view is
RollBack_GoesOn(p) ==
    /\ stage[p] = "rollback"
    /\ Goes(p, "view")
    /\ UNCHANGED <<slotOf, after, id, req, placeVars, netVars, recordVars, sandboxVars,
                   queryVars, failures, failed, shared>>

RollBack(p) ==
    /\ stage[p] = "rollback"
    /\ record' = [record EXCEPT ![p] = {}]
    /\ Abort(p)
    /\ UNCHANGED <<slotOf, id, req, placeVars, netVars, binding, view, minted, sandboxVars,
                   queryVars, failures, shared>>

\* the display projection: a failure is logged and the session goes on
WriteView(p) ==
    /\ stage[p] = "view"
    /\ \/ view' = [view EXCEPT ![id[p]] = p] /\ UNCHANGED failures
       \/ Fails("view") /\ UNCHANGED view
    /\ Goes(p, "start")
    /\ UNCHANGED <<slotOf, after, id, req, placeVars, netVars, binding, record, minted,
                   sandboxVars, queryVars, failed, shared>>

---------------------------------------------------------------------------
(* The run and what follows it *)

\* runsc run: the sentry joins whatever namespace the name refers to now
Start(p) ==
    /\ stage[p] = "start"
    /\ \/ /\ Netted(p) => netns[id[p]] # Nobody
          /\ sandbox' = [sandbox EXCEPT ![p] = "runs"]
          /\ inside' = [inside EXCEPT ![p] = IF Netted(p) THEN netns[id[p]] ELSE p]
          /\ Goes(p, "run") /\ UNCHANGED failures
       \/ /\ (Netted(p) /\ netns[id[p]] = Nobody /\ UNCHANGED failures) \/ Fails("run")
          /\ Goes(p, "delete") /\ UNCHANGED sandboxVars
    /\ UNCHANGED <<slotOf, after, id, req, placeVars, netVars, recordVars, queryVars, failed,
                   shared>>

\* barrier.go: rules before usable
Go(p) ==
    /\ stage[p] = "go"
    /\ \/ /\ sandbox' = [sandbox EXCEPT ![p] = IF sandbox[p] = "held" THEN "runs" ELSE "no"]
          /\ Goes(p, "run") /\ UNCHANGED <<after, failures, failed>>
       \/ Fails("wire") /\ Abort(p) /\ UNCHANGED sandbox
    /\ UNCHANGED <<slotOf, id, req, placeVars, netVars, recordVars, inside, queryVars, shared>>

\* the workload ends, or waits 60 s behind its barrier, or finds /rv/abort
Exit(p) ==
    /\ sandbox[p] # "no"
    /\ sandbox' = [sandbox EXCEPT ![p] = "no"]
    /\ inside' = [inside EXCEPT ![p] = Nobody]
    /\ UNCHANGED <<slotOf, stage, after, id, req, placeVars, netVars, recordVars, queryVars,
                   failures, failed, shared>>

\* cmd.status or child.wait returns
Ended(p) ==
    /\ stage[p] \in {"run", "wait"} /\ sandbox[p] = "no"
    /\ IF Tier(p) = "T2" THEN Goes(p, "delete") /\ UNCHANGED after
       ELSE IF stage[p] = "run" /\ Netted(p) THEN TearDown(p, "end")
       ELSE Goes(p, "done") /\ UNCHANGED after
    /\ UNCHANGED <<slotOf, id, req, placeVars, netVars, recordVars, sandboxVars, queryVars,
                   failures, failed, shared>>

\* Mutant: only the rootfs is detached
Unmount_Rootfs(p) ==
    /\ stage[p] = "delete"
    /\ Goes(p, "wipe")
    /\ UNCHANGED <<slotOf, after, id, req, placeVars, netVars, recordVars, sandboxVars,
                   queryVars, failures, failed, shared>>

\* delete --force, umount2(MNT_DETACH) of every writable bind and of the rootfs
Unmount(p) ==
    /\ stage[p] = "delete"
    /\ bound' = [bound EXCEPT ![p] = {}]
    /\ Goes(p, "wipe")
    /\ UNCHANGED <<slotOf, after, id, req, work, leaf, erased, netVars, recordVars, sandboxVars,
                   queryVars, failures, failed, shared>>

\* remove_dir_all goes through what is still bound, unless it met the mounted
\* rootfs first: a mount point cannot be removed, and the walk stops there
Wipe(p) ==
    /\ stage[p] = "wipe"
    /\ erased' \in {erased, erased \cup bound[p]}
    /\ work' = IF p \in failed THEN work ELSE work \ {Dir(p)}
    /\ leaf' = leaf \ {p}
    /\ bound' = [bound EXCEPT ![p] = {}]
    /\ Goes(p, IF p \in failed THEN "done" ELSE IF Capable(p) THEN "unbind" ELSE "unview")
    /\ UNCHANGED <<slotOf, after, id, req, netVars, recordVars, sandboxVars, queryVars, failures,
                   failed, shared>>

Unbind(p) ==
    /\ stage[p] = "unbind"
    /\ binding' = [binding EXCEPT ![Slot(p)] = Nobody]
    /\ Goes(p, "unrecord")
    /\ UNCHANGED <<slotOf, after, id, req, placeVars, netVars, record, view, minted,
                   sandboxVars, queryVars, failures, failed, shared>>

Unrecord(p) ==
    /\ stage[p] = "unrecord"
    /\ record' = [record EXCEPT ![p] = {}]
    /\ Goes(p, "unview")
    /\ UNCHANGED <<slotOf, after, id, req, placeVars, netVars, binding, view, minted,
                   sandboxVars, queryVars, failures, failed, shared>>

Unview(p) ==
    /\ stage[p] = "unview"
    /\ view' = [view EXCEPT ![id[p]] = Nobody]
    /\ IF Netted(p) THEN TearDown(p, "end") ELSE Goes(p, "done") /\ UNCHANGED after
    /\ UNCHANGED <<slotOf, id, req, placeVars, netVars, binding, record, minted, sandboxVars,
                   queryVars, failures, failed, shared>>

\* gatekeeperd is killed; nothing ties the sandbox to its life
Kill(p) ==
    /\ stage[p] \notin {"idle", "done"} /\ Fails("kill")
    /\ Goes(p, "done")
    /\ after' = [after EXCEPT ![p] = "killed"]
    /\ bound' = [bound EXCEPT ![p] = {}]
    /\ UNCHANGED <<slotOf, failed, id, req, work, leaf, erased, netVars, recordVars, sandboxVars,
                   queryVars, shared>>

---------------------------------------------------------------------------
(* What a sandbox reaches, and swamp-broker with swampd behind it *)

AllEgress == UNION {r.egress : r \in Requests}

\* Every table that names the address must accept; with none nothing is dropped
Allowed(s) == {d \in AllEgress : \A i \in Ids : table[i].slot = s => d \in table[i].allow}
Wired(p)   == sandbox[p] = "runs" /\ veth[Slot(p)] = inside[p]
Reach(p)   == IF Wired(p) THEN Allowed(Slot(p)) ELSE {}

\* A sandbox connects and presents a handle, its own or another; the carve-out
\* that keeps its address is only in the tables of T2
Ask(p) ==
    /\ asks < MaxAsks /\ conn = NoConn
    /\ "swamp" \in Reach(p)
    /\ \E h \in minted :
          conn' = [from |-> p, slot |-> IF Tier(p) = "T2" THEN Slot(p) ELSE Nobody,
                   handle |-> h, at |-> "accepted"]
    /\ asks' = asks + 1
    /\ UNCHANGED <<slotOf, stage, after, id, req, placeVars, netVars, recordVars, sandboxVars,
                   failures, failed, shared>>

\* Mutant: any bound address may present any handle
Authorized_Any(c) == c.slot # Nobody /\ binding[c.slot] # Nobody

\* load_binding and authorize: the handle bound to the peer's address, now
Authorized(c) == c.slot # Nobody /\ binding[c.slot] = c.handle

Authorize ==
    /\ conn.at = "accepted"
    /\ conn' = IF Authorized(conn) THEN [conn EXCEPT !.at = "relay"] ELSE NoConn
    /\ UNCHANGED <<slotOf, stage, after, id, req, placeVars, netVars, recordVars, sandboxVars, asks,
                   failures, failed, shared>>

\* swampd loads the record of the handle and its projection is relayed
Relay ==
    /\ conn.at = "relay"
    /\ conn' = NoConn
    /\ UNCHANGED <<slotOf, stage, after, id, req, placeVars, netVars, recordVars, sandboxVars, asks,
                   failures, failed, shared>>

---------------------------------------------------------------------------

SessionInit ==
    /\ slotOf \in [Ids -> Slots]
    /\ stage = [p \in Procs |-> "idle"]     /\ after = [p \in Procs |-> "none"]
    /\ id = [p \in Procs |-> Nobody]     /\ req = [p \in Procs |-> NoReq]
    /\ bound = [p \in Procs |-> {}]      /\ work = {} /\ leaf = {} /\ erased = {}
    /\ netns = [i \in Ids |-> Nobody]    /\ veth = [s \in Slots |-> Nobody]
    /\ table = [i \in Ids |-> NoTable]   /\ binding = [s \in Slots |-> Nobody]
    /\ record = [p \in Procs |-> {}]     /\ view = [i \in Ids |-> Nobody]
    /\ minted = {}
    /\ sandbox = [p \in Procs |-> "no"]  /\ inside = [p \in Procs |-> Nobody]
    /\ conn = NoConn /\ asks = 0 /\ failures = 0
    /\ failed = {} /\ shared = {}

Step(p) ==
    \/ \E i \in Ids, r \in Requests : Begin(p, i, r)
    \/ Clear(p) \/ Bind(p) \/ Prepare(p)
    \/ Untable(p) \/ Unlink(p) \/ Unname(p)
    \/ Spawn(p) \/ Name(p) \/ Link(p) \/ Nft(p)
    \/ WriteRecord(p) \/ WriteBinding(p) \/ RollBack(p) \/ WriteView(p)
    \/ Start(p) \/ Go(p) \/ Exit(p) \/ Ended(p)
    \/ Unmount(p) \/ Wipe(p) \/ Unbind(p) \/ Unrecord(p) \/ Unview(p)
    \/ Kill(p) \/ Ask(p)

SessionNext == (\E p \in Procs : Step(p)) \/ Authorize \/ Relay

SessionSpec == SessionInit /\ [][SessionNext]_sessionVars

---------------------------------------------------------------------------

Stages == {"idle", "clear", "bind", "prepare", "untable", "unlink", "unname", "spawn", "name",
           "link", "nft", "go", "record", "binding", "rollback", "view", "start", "run", "wait",
           "delete", "wipe", "unbind", "unrecord", "unview", "done"}
Grants == UNION {r.rw : r \in Requests}
Owners == Procs \cup {Nobody}
Tables == {NoTable} \cup [slot : Slots, allow : SUBSET AllEgress]
Conns  == [from : Owners, slot : Slots \cup {Nobody}, handle : Owners,
           at : {"none", "accepted", "relay"}]

\* Types of the state of all sessions and of the broker's query
SessionTypeOK ==
    /\ slotOf \in [Ids -> Slots]
    /\ stage \in [Procs -> Stages]
    /\ after \in [Procs -> {"none", "wire", "abort", "end", "killed"}]
    /\ id \in [Procs -> Ids \cup {Nobody}]
    /\ req \in [Procs -> Requests \cup {NoReq}]
    /\ bound \in [Procs -> SUBSET Grants]
    /\ work \subseteq {"T1", "T2"} \X Ids
    /\ leaf \subseteq Procs /\ minted \subseteq Procs /\ failed \subseteq Procs
    /\ erased \subseteq Grants /\ shared \subseteq Ids
    /\ netns \in [Ids -> Owners] /\ view \in [Ids -> Owners]
    /\ veth \in [Slots -> Owners] /\ binding \in [Slots -> Owners]
    /\ table \in [Ids -> Tables]
    /\ record \in [Procs -> SUBSET Grants]
    /\ sandbox \in [Procs -> {"no", "held", "runs"}]
    /\ inside \in [Procs -> Owners]
    /\ conn \in Conns
    /\ asks \in 0 .. MaxAsks /\ failures \in 0 .. MaxFailures

Namesakes(p) == {q \in Procs \ {p} : id[q] = id[p]}
Mates(p) == {q \in Procs \ {p} : id[q] # Nobody /\ Slot(q) = Slot(p)}

\* Rules before usable: no sandbox that runs reaches a destination its own
\* profiles do not grant, whoever else has the same address and whatever failed
\* on the way (two sessions of one id take each other's table away)
ReachBounded ==
    \A p \in Procs : sandbox[p] = "runs" /\ Namesakes(p) = {} => Reach(p) \subseteq req[p].egress

\* swampd answers a sandbox by the grants of that very session, also when
\* address, handle, record or session changed while its query was on the way,
\* and when gatekeeperd was killed behind it.  Not for a session without the
\* swamp whose gatekeeperd was killed: its rules go with the next session of its
\* id, and the binding of an earlier session that was killed may still be there.
\* Nor for ids in `shared`, which were built while another session had their
\* address: net_binding keeps one file per address, so both write it and the last
\* one is who the address means.
AnswersOwn ==
    LET p == conn.from IN
    conn.at = "relay" /\ id[p] \notin shared /\ Wired(p) /\ (stage[p] # "done" \/ Capable(p))
        => record[conn.handle] \subseteq req[p].rw

\* No sandbox runs with part of an identity: a swamp session that nobody shares
\* an address with has its binding and its record for as long as it runs
IdentityWhole ==
    \A p \in Procs :
        stage[p] = "run" /\ sandbox[p] = "runs" /\ Capable(p) /\ Mates(p) = {}
            => binding[Slot(p)] = p /\ record[p] = req[p].rw /\ "swamp" \in Reach(p)

Over(p) == stage[p] = "done" /\ after[p] # "killed"

\* A session that ended, on whichever path, leaves nothing of its own behind:
\* no record, binding, view, cgroup leaf, namespace, link or table.  The commands
\* that remove them are best effort (`let _ =`) and are taken to do it.
NothingLeft ==
    \A p \in Procs : Over(p) =>
        /\ record[p] = {} /\ p \notin leaf
        /\ \A s \in Slots : binding[s] # p
        /\ \A i \in Ids : view[i] # p /\ netns[i] # p
        /\ (\A q \in Namesakes(p) : Over(q)) => table[id[p]] = NoTable /\ ~Held(p)

\* A session has all of its identity while it runs and nothing of it afterwards.
WholeOrNothing == IdentityWhole /\ NothingLeft

\* The removal of the work directory never goes through a writable bind: once
\* every construction has got as far as its sandbox, no granted file is deleted
SparedOnTheWayOut == failed = {} => erased = {}

\* t2_plane.rs: EVERY writable bind is detached BEFORE the work tree is removed
GrantsSpared == erased = {}
=============================================================================
