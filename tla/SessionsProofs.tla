---------------------------- MODULE SessionsProofs ----------------------------
(***************************************************************************)
(* What sessions that share names and addresses, without a lock, still     *)
(* guarantee each other: theorems about Sessions for any number of         *)
(* processes, ids, addresses, requests, failures and kills.                *)
(***************************************************************************)
EXTENDS Sessions, TLAPS

---------------------------------------------------------------------------
(* Where a session is *)

Begun(p)   == stage[p] # "idle"
Working(p) == stage[p] \notin {"idle", "done"}
Killed(p)  == stage[p] = "done" /\ after[p] = "killed"

Teardown == {"untable", "unlink", "unname"}
UpStages == {"go", "record", "binding", "rollback", "view", "start", "run"}
Cleanup  == {"delete", "unbind", "unrecord", "unview"}
\* The removal of the work directory after a run, not after a failure
Wiping(p) == stage[p] = "wipe" /\ p \notin failed

\* The stage tells how far the session came, and for what request
PathOK(p) ==
    /\ ~Begun(p) => id[p] = Nobody /\ req[p] = NoReq /\ sandbox[p] = "no" /\ after[p] = "none"
    /\ Begun(p) => id[p] \in Ids /\ req[p] \in Requests
    /\ after[p] = "killed" => stage[p] = "done"
    /\ stage[p] \in Teardown => /\ after[p] \in {"wire", "abort", "end"} /\ Netted(p)
                                /\ after[p] = "wire" => Tier(p) = "T2"
                                /\ after[p] = "abort" => p \in failed
    /\ stage[p] \in {"name", "link", "nft", "go", "wait"} => Netted(p)
    /\ stage[p] \in {"spawn", "go", "wait"} => Tier(p) = "T1"
    /\ stage[p] \in {"record", "binding", "rollback", "unbind", "unrecord"} => Capable(p)
    /\ stage[p] \in {"view", "start", "delete", "wipe", "unview"} => Tier(p) = "T2"
    /\ stage[p] = "wait" => p \in failed
    /\ p \in failed => \/ stage[p] \in Teardown /\ after[p] = "abort"
                       \/ stage[p] \in {"wipe", "wait", "done"}

\* A sandbox runs from the end of its construction on; the barrier of T1 holds
\* it before; it is in the namespace of a session of its id
SandboxOK(p) ==
    /\ sandbox[p] = "runs" => stage[p] = "run" \/ Killed(p)
    /\ sandbox[p] = "held" =>
          /\ Tier(p) = "T1" /\ Netted(p)
          /\ \/ stage[p] \in {"name", "link", "nft", "go", "wait"} \/ Killed(p)
             \/ stage[p] \in Teardown /\ after[p] = "abort"
    /\ sandbox[p] = "no" <=> inside[p] = Nobody
    /\ inside[p] # Nobody => /\ id[inside[p]] = id[p]
                             /\ Netted(p) => Netted(inside[p])
                             /\ ~Netted(p) => inside[p] = p

\* Only a session that failed has something bound when its work directory goes
BindsOK(p) == stage[p] = "wipe" => p \in failed \/ bound[p] = {}

---------------------------------------------------------------------------
(* What belongs to whom *)

\* Between its name for the namespace and the removal of it
Named(p) == stage[p] \in {"link", "nft"} \cup UpStages \cup Cleanup \cup Teardown \/ Wiping(p) \/ Killed(p)
\* Between its table and the removal of it
Ruled(p) == stage[p] \in {"untable"} \cup UpStages \cup Cleanup \/ Wiping(p) \/ Killed(p)

\* Between its binding or its view and the removal of it
Served(p) == stage[p] \in {"view", "start", "run", "delete", "unbind"} \/ Wiping(p) \/ Killed(p)
Shown(p)  == stage[p] \in {"start", "run"} \cup Cleanup \/ Wiping(p) \/ Killed(p)

NamesOK == \A i \in Ids : LET o == netns[i] IN
    o # Nobody => id[o] = i /\ Netted(o) /\ Named(o)

LinksOK == \A s \in Slots : LET o == veth[s] IN
    o # Nobody => id[o] \in Ids /\ Slot(o) = s /\ Netted(o)

TablesOK == \A i \in Ids : table[i] # NoTable =>
    /\ table[i].slot = slotOf[i]
    /\ \E q \in Procs : id[q] = i /\ Netted(q) /\ Ruled(q)

BindingsOK == \A s \in Slots : LET h == binding[s] IN
    h # Nobody => id[h] \in Ids /\ Slot(h) = s /\ Capable(h) /\ Served(h)

ViewsOK == \A i \in Ids : LET p == view[i] IN
    p # Nobody => id[p] = i /\ Tier(p) = "T2" /\ Shown(p)

RecordOK(p) ==
    /\ record[p] \subseteq req[p].rw
    /\ stage[p] \in {"binding", "view", "start", "run"} /\ Capable(p) => record[p] = req[p].rw
    /\ record[p] # {} => /\ Capable(p)
                         /\ \/ stage[p] \in {"binding", "rollback", "view", "start", "run", "delete",
                                             "unbind", "unrecord"}
                            \/ Wiping(p) \/ Killed(p)

LeafOK(p) ==
    p \in leaf => /\ Tier(p) = "T2"
                  /\ \/ stage[p] \in {"name", "link", "nft", "wipe", "delete"} \cup UpStages \/ Killed(p)
                     \/ stage[p] \in Teardown /\ after[p] \in {"wire", "abort"}

---------------------------------------------------------------------------
(* What nobody else touches *)

\* Two that are at work on one address know it
Exclusive(p, q) ==
    p # q /\ Working(p) /\ Working(q) /\ Slot(p) = Slot(q) => id[p] \in shared /\ id[q] \in shared

Lonely(p)   == Namesakes(p) = {}
Unshared(p) == id[p] \notin shared
Mine(p)     == [slot |-> Slot(p), allow |-> req[p].egress]

\* Its table is gone and not there yet
Bare(p)  == Tier(p) = "T2" /\ \/ stage[p] \in {"unlink", "unname"} /\ after[p] = "wire"
                              \/ stage[p] \in {"name", "link", "nft"}
\* Its link has not been cut
Early(p) == stage[p] \in {"clear", "bind", "prepare", "untable", "unlink"}

OwnName(p) ==
    /\ stage[p] \in {"link", "nft"} \cup UpStages /\ Netted(p)
    /\ (Lonely(p) \/ (Unshared(p) /\ Working(p)))
    => netns[id[p]] = p

OwnRules(p) ==
    /\ (stage[p] \in UpStages \/ sandbox[p] = "runs") /\ Netted(p)
       /\ (Lonely(p) \/ (Unshared(p) /\ Working(p) /\ Tier(p) = "T2"))
       => table[id[p]] = Mine(p)
    /\ Bare(p) /\ Unshared(p) => table[id[p]] = NoTable

OwnLink(p) ==
    stage[p] \in {"nft"} \cup UpStages /\ Netted(p) /\ Mates(p) = {} => veth[Slot(p)] = p

OwnSpace(p) == sandbox[p] # "no" /\ Unshared(p) => inside[p] = p

\* The binding of a sandbox is its own: while gatekeeperd is at work, and afterwards
\* for as long as it has its link
OwnBinding(p) ==
    Capable(p) =>
        /\ stage[p] \in {"view", "start", "run"} /\ (Mates(p) = {} \/ Unshared(p)) =>
              binding[Slot(p)] = p
        /\ sandbox[p] = "runs" /\ Unshared(p) /\ veth[Slot(p)] = p => binding[Slot(p)] = p

\* Who comes after a killed session has cut its link
Cut(p, q) ==
    /\ p # q /\ sandbox[p] = "runs" /\ Unshared(p) /\ ~Working(p)
    /\ Working(q) /\ Tier(q) = "T2" /\ Netted(q) /\ Slot(p) = Slot(q) /\ ~Early(q)
    => veth[Slot(p)] # p

\* Sandboxes whose questions are answered as theirs
Fit(p) == Unshared(p) /\ Wired(p) /\ Tier(p) = "T2" /\ (Working(p) \/ Capable(p))

\* Its sandbox has been started, and none will be again
Launched(p) == \/ stage[p] \in {"run", "done"} \cup Cleanup \/ Wiping(p)
               \/ stage[p] \in Teardown /\ after[p] = "end"

ConnOK ==
    LET p == conn.from IN
    conn.at # "none" =>
        /\ p \in Procs /\ Launched(p)
        /\ conn.slot # Nobody => Tier(p) = "T2" /\ conn.slot = Slot(p)
        /\ conn.at = "relay" => conn.slot # Nobody
        /\ Fit(p) => Capable(p) /\ (conn.at = "relay" => conn.handle = p)

---------------------------------------------------------------------------

TypeInv  == SessionTypeOK /\ \A p \in Procs : PathOK(p)
OwnerInv == /\ \A p \in Procs : SandboxOK(p) /\ BindsOK(p) /\ RecordOK(p) /\ LeafOK(p)
            /\ NamesOK /\ LinksOK /\ TablesOK /\ BindingsOK /\ ViewsOK
SoleInv  == /\ \A p, q \in Procs : Exclusive(p, q) /\ Cut(p, q)
            /\ \A p \in Procs : /\ OwnName(p) /\ OwnRules(p) /\ OwnLink(p)
                                /\ OwnSpace(p) /\ OwnBinding(p)
            /\ ConnOK
SessionInv == TypeInv /\ OwnerInv /\ SoleInv

---------------------------------------------------------------------------
(* Types *)

LEMMA RequestFacts ==
    ASSUME NEW r \in Requests
    PROVE  r.tier \in {"T1", "T2"} /\ r.rw \in SUBSET Grants /\ r.egress \in SUBSET AllEgress
  BY SessionAssumption DEF Grants, AllEgress

LEMMA NoReqFacts == NoReq.tier = "none" /\ NoReq.rw = {} /\ NoReq.egress = {}
  BY DEF NoReq

LEMMA InitTyped == SessionInit => TypeInv
  BY SessionAssumption DEF SessionInit, TypeInv, SessionTypeOK, PathOK, Begun, Stages, Owners, Tables, NoTable,
     Conns, NoConn, Teardown

LEMMA StepTyped == ASSUME TypeInv, NEW q \in Procs, Step(q) PROVE SessionTypeOK'
<1> USE RequestFacts, NoReqFacts, SessionAssumption DEF TypeInv, SessionTypeOK, Goes, Fails, Stages,
    placeVars, netVars, recordVars, sandboxVars, queryVars
<1>a. \A p \in Procs : Begun(p) => /\ id[p] \in Ids /\ req[p] \in Requests /\ Slot(p) \in Slots
                                 /\ Tier(p) \in {"T1", "T2"} /\ req[p].egress \in SUBSET AllEgress
  BY DEF PathOK, Slot, Tier
<1>b. stage[q] # "idle" => Begun(q)
  BY DEF Begun
<1>1. CASE \E i \in Ids, r \in Requests : Begin(q, i, r)
  <2> PICK i \in Ids, r \in Requests : Begin(q, i, r)
    BY <1>1
  <2>1. \A x \in Rivals(i) : id[x] \in Ids
    BY <1>a DEF Rivals, Begun
  <2>2. shared' \subseteq Ids
    BY <2>1 DEF Begin
  <2> QED  BY <2>2 DEF Begin
<1>2. CASE Clear(q)
  <2>1. Dir(q) \in {"T1", "T2"} \X Ids
    BY <1>2, <1>a, <1>b DEF Clear, Dir
  <2> QED  BY <1>2, <2>1 DEF Clear
<1>3. CASE Bind(q) \/ Prepare(q)
  BY <1>3 DEF Bind, Prepare, TearDown, Capable
<1>4. CASE Untable(q) \/ Unlink(q)
  BY <1>4, <1>a, <1>b DEF Untable, Unlink, Owners, Tables
<1>5. CASE Spawn(q) \/ Name(q) \/ Link(q)
  BY <1>5, <1>a, <1>b DEF Spawn, Name, Link, Abort, TearDown, Owners
<1>6. CASE Nft(q)
  <2>1. [slot |-> Slot(q), allow |-> req[q].egress] \in Tables
    BY <1>6, <1>a, <1>b DEF Nft, Tables
  <2>2. table' \in [Ids -> Tables]
    BY <1>6, <2>1 DEF Nft
  <2> QED  BY <1>6, <2>2 DEF Nft, Abort, TearDown
<1>7. CASE WriteRecord(q) \/ WriteBinding(q) \/ RollBack(q) \/ WriteView(q)
  <2>1. CASE WriteRecord(q) BY <2>1, <1>a, <1>b DEF WriteRecord, Abort, TearDown, Owners
  <2>2. CASE WriteBinding(q) BY <2>2, <1>a, <1>b DEF WriteBinding, Abort, TearDown, Owners
  <2>3. CASE RollBack(q) BY <2>3, <1>a, <1>b DEF RollBack, Abort, TearDown, Owners
  <2>4. CASE WriteView(q) BY <2>4, <1>a, <1>b DEF WriteView, Abort, TearDown, Owners
  <2> QED BY <1>7, <2>1, <2>2, <2>3, <2>4
<1>8. CASE Start(q) \/ Go(q) \/ Exit(q) \/ Ended(q)
  BY <1>8, <1>a, <1>b DEF Start, Go, Exit, Ended, Abort, TearDown, Owners
<1>9. CASE Unmount(q) \/ Wipe(q) \/ Unbind(q) \/ Unrecord(q) \/ Unview(q)
  <2>1. CASE Unmount(q) BY <2>1, <1>a, <1>b DEF Unmount, Dir, TearDown, Owners
  <2>2. CASE Wipe(q) BY <2>2, <1>a, <1>b DEF Wipe, Dir, TearDown, Owners
  <2>3. CASE Unbind(q) BY <2>3, <1>a, <1>b DEF Unbind, TearDown, Owners
  <2>4. CASE Unrecord(q) BY <2>4, <1>a, <1>b DEF Unrecord, TearDown, Owners
  <2>5. CASE Unview(q) BY <2>5, <1>a, <1>b DEF Unview, TearDown, Owners
  <2> QED BY <1>9, <2>1, <2>2, <2>3, <2>4, <2>5
<1>10. CASE Kill(q) \/ Unname(q)
  <2>1. CASE Kill(q) BY <2>1, <1>a, <1>b DEF Kill, PathOK, Teardown, Owners
  <2>2. CASE Unname(q) BY <2>2, <1>a, <1>b DEF Unname, PathOK, Teardown, Owners
  <2> QED BY <1>10, <2>1, <2>2
<1>11. CASE Ask(q)
  <2> PICK h \in minted :
         conn' = [from |-> q, slot |-> IF Tier(q) = "T2" THEN Slot(q) ELSE Nobody,
                  handle |-> h, at |-> "accepted"]
    BY <1>11 DEF Ask
  <2>1. Begun(q)
    BY <1>11 DEF Ask, Reach, Wired, PathOK
  <2>2. h \in Owners /\ q \in Owners /\ Slot(q) \in Slots
    BY <2>1, <1>a DEF Owners
  <2>3. conn' \in Conns
    BY <2>2 DEF Conns
  <2> QED  BY <1>11, <2>3 DEF Ask
<1> QED  BY <1>1, <1>2, <1>3, <1>4, <1>5, <1>6, <1>7, <1>8, <1>9, <1>10, <1>11 DEF Step

---------------------------------------------------------------------------
(* What a step of one session leaves alone *)

\* A session that does not move keeps what is its own
Same(p) ==
    /\ stage'[p] = stage[p] /\ after'[p] = after[p] /\ id'[p] = id[p] /\ req'[p] = req[p]
    /\ sandbox'[p] = sandbox[p] /\ inside'[p] = inside[p] /\ record'[p] = record[p]
    /\ bound'[p] \subseteq bound[p]
    /\ (p \in leaf' <=> p \in leaf) /\ (p \in failed' <=> p \in failed)

\* Who writes what is shared, and what is chosen once
Writers(q) ==
    /\ slotOf' = slotOf /\ failed \subseteq failed' /\ shared \subseteq shared'
    /\ UNCHANGED <<id, req>> \/ \E i \in Ids, r \in Requests : Begin(q, i, r)
    /\ UNCHANGED shared \/ \E i \in Ids, r \in Requests : Begin(q, i, r)
    /\ UNCHANGED netns \/ Name(q) \/ Unname(q)
    /\ UNCHANGED veth \/ Link(q) \/ Unlink(q)
    /\ UNCHANGED table \/ Nft(q) \/ Untable(q)
    /\ UNCHANGED binding \/ WriteBinding(q) \/ Unbind(q)
    /\ UNCHANGED view \/ WriteView(q) \/ Unview(q)
    /\ UNCHANGED conn \/ Ask(q)
    /\ UNCHANGED erased \/ Wipe(q)

LEMMA StepFrame ==
    ASSUME TypeInv, NEW q \in Procs, Step(q)
    PROVE  (\A p \in Procs \ {q} : Same(p)) /\ Writers(q)
<1> USE DEF TypeInv, SessionTypeOK, Goes, Abort, TearDown, placeVars, netVars, recordVars, sandboxVars,
    queryVars, Same, Writers
<1>1. CASE \E i \in Ids, r \in Requests : Begin(q, i, r)
  BY <1>1 DEF Begin
<1>2. CASE Clear(q) \/ Bind(q) \/ Prepare(q)
  BY <1>2 DEF Clear, Bind, Prepare
<1>3. CASE Untable(q) \/ Unlink(q) \/ Unname(q)
  BY <1>3 DEF Untable, Unlink, Unname
<1>4. CASE Spawn(q) \/ Name(q)
  BY <1>4 DEF Spawn, Name
<1>5. CASE Link(q) \/ Nft(q)
  BY <1>5 DEF Link, Nft
<1>6. CASE WriteRecord(q) \/ WriteBinding(q) \/ RollBack(q) \/ WriteView(q)
  BY <1>6 DEF WriteRecord, WriteBinding, RollBack, WriteView
<1>7. CASE Start(q) \/ Go(q) \/ Exit(q) \/ Ended(q)
  BY <1>7 DEF Start, Go, Exit, Ended
<1>8. CASE Unmount(q) \/ Wipe(q) \/ Unbind(q) \/ Unrecord(q) \/ Unview(q)
  BY <1>8 DEF Unmount, Wipe, Unbind, Unrecord, Unview
<1>9. CASE Kill(q) \/ Ask(q)
  BY <1>9 DEF Kill, Ask
<1> QED  BY <1>1, <1>2, <1>3, <1>4, <1>5, <1>6, <1>7, <1>8, <1>9 DEF Step
---------------------------------------------------------------------------
(* Where a step takes a session *)

LEMMA StepPath == ASSUME TypeInv, NEW q \in Procs, Step(q) PROVE \A p \in Procs : PathOK(p)'
<1>0. ASSUME NEW p \in Procs, Same(p), slotOf' = slotOf PROVE PathOK(p)'
  BY <1>0 DEF TypeInv, Same, PathOK, Begun, Netted, Tier, Capable
<1>1. \A r \in Requests : r.tier \in {"T1", "T2"}
  BY RequestFacts
<1>2. stage \in [Procs -> Stages] /\ after \in [Procs -> {"none", "wire", "abort", "end", "killed"}]
      /\ id \in [Procs -> Ids \cup {Nobody}] /\ req \in [Procs -> Requests \cup {NoReq}]
      /\ sandbox \in [Procs -> {"no", "held", "runs"}] /\ PathOK(q) /\ NoReq.tier = "none"
      /\ NoReq.egress = {}
  BY NoReqFacts DEF TypeInv, SessionTypeOK
<1>3. PathOK(q)'
  <2> USE <1>1, <1>2 DEF PathOK, Begun, Netted, Tier, Capable, Goes, Abort, TearDown, Teardown,
      placeVars, netVars, recordVars, sandboxVars, queryVars
  <2>1. CASE \E i \in Ids, r \in Requests : Begin(q, i, r)
    BY <2>1 DEF Begin
  <2>2. CASE Clear(q) \/ Bind(q) \/ Prepare(q)
    BY <2>2 DEF Clear, Bind, Prepare
  <2>3. CASE Untable(q) \/ Unlink(q) \/ Unname(q)
    BY <2>3 DEF Untable, Unlink, Unname
  <2>4. CASE Spawn(q) \/ Name(q) \/ Link(q) \/ Nft(q)
    BY <2>4 DEF Spawn, Name, Link, Nft
  <2>5. CASE WriteRecord(q) \/ WriteBinding(q) \/ RollBack(q) \/ WriteView(q)
    BY <2>5 DEF WriteRecord, WriteBinding, RollBack, WriteView
  <2>6. CASE Start(q) \/ Go(q) \/ Exit(q) \/ Ended(q)
    BY <2>6 DEF Start, Go, Exit, Ended
  <2>7. CASE Unmount(q) \/ Wipe(q) \/ Unbind(q) \/ Unrecord(q) \/ Unview(q)
    BY <2>7 DEF Unmount, Wipe, Unbind, Unrecord, Unview
  <2>8. CASE Kill(q) \/ Ask(q)
    BY <2>8 DEF Kill, Ask
  <2> QED  BY <2>1, <2>2, <2>3, <2>4, <2>5, <2>6, <2>7, <2>8 DEF Step
<1> QED  BY <1>0, <1>3, StepFrame DEF Writers
\* Who has begun keeps its id and its request
LEMMA Settled ==
    ASSUME TypeInv, NEW q \in Procs, Step(q), NEW p \in Procs, Begun(p)
    PROVE  id'[p] = id[p] /\ req'[p] = req[p] /\ Begun(p)' /\ Slot(p)' = Slot(p) /\ id[p] \in Ids
           /\ Slot(p) \in Slots /\ Slot(p) # Nobody /\ id[p] # Nobody
<1>1. CASE p # q
  BY <1>1, StepFrame, SessionAssumption DEF Same, Writers, Begun, Slot, TypeInv, SessionTypeOK, PathOK
<1>2. CASE p = q
  <2>1. UNCHANGED <<id, req>>
    BY <1>2, StepFrame DEF Writers, Begin, Begun
  <2>2. PathOK(p) /\ PathOK(p)'
    BY StepPath DEF TypeInv
  <2> QED  BY <2>1, <2>2, <1>2, StepFrame, SessionAssumption DEF PathOK, Begun, Slot, Writers, TypeInv, SessionTypeOK
<1> QED  BY <1>1, <1>2

---------------------------------------------------------------------------
(* Each session by itself *)

LEMMA StepSandbox ==
    ASSUME TypeInv, NamesOK, \A p \in Procs : SandboxOK(p), NEW q \in Procs, Step(q)
    PROVE  \A p \in Procs : SandboxOK(p)'
<1> USE DEF TypeInv, SessionTypeOK
<1>1. ASSUME NEW p \in Procs, inside[p] # Nobody
      PROVE  /\ inside[p] \in Procs /\ Begun(inside[p]) /\ Begun(p)
             /\ id'[p] = id[p] /\ req'[p] = req[p]
             /\ id'[inside[p]] = id[inside[p]] /\ req'[inside[p]] = req[inside[p]]
  <2>1. Begun(p) /\ inside[p] \in Procs /\ id[inside[p]] = id[p]
    BY <1>1 DEF SandboxOK, PathOK, Owners
  <2>2. Begun(inside[p])
    BY <2>1, SessionAssumption DEF PathOK
  <2> QED  BY <2>1, <2>2, Settled
<1>2. ASSUME NEW p \in Procs, p # q PROVE SandboxOK(p)'
  <2>1. Same(p) /\ SandboxOK(p)
    BY <1>2, StepFrame
  <2>2. Netted(p)' = Netted(p) /\ Tier(p)' = Tier(p) /\ Killed(p)' = Killed(p)
    BY <2>1 DEF Same, Netted, Tier, Killed
  <2>3. inside[p] # Nobody => Netted(inside[p])' = Netted(inside[p])
    BY <1>1, <2>1 DEF Netted, Same
  <2> HIDE DEF TypeInv, SessionTypeOK
  <2> QED  BY <1>1, <1>2, <2>1, <2>2, <2>3 DEF Same, SandboxOK
<1>3. SandboxOK(q)'
  <2> USE <1>1, SessionAssumption DEF PathOK, Begun, Netted, Tier, Capable, Goes, Abort, TearDown, Teardown, SandboxOK,
      placeVars, netVars, recordVars, sandboxVars, queryVars, Killed, Owners, Stages
  <2>1. CASE \E i \in Ids, r \in Requests : Begin(q, i, r)
    BY <2>1 DEF Begin
  <2>2. CASE Clear(q) \/ Bind(q) \/ Prepare(q)
    BY <2>2 DEF Clear, Bind, Prepare
  <2>3. CASE Untable(q) \/ Unlink(q) \/ Unname(q)
    BY <2>3 DEF Untable, Unlink, Unname
  <2>4. CASE Spawn(q) \/ Name(q) \/ Link(q) \/ Nft(q)
    BY <2>4 DEF Spawn, Name, Link, Nft
  <2>5. CASE WriteRecord(q) \/ WriteBinding(q) \/ RollBack(q) \/ WriteView(q)
    BY <2>5 DEF WriteRecord, WriteBinding, RollBack, WriteView
  <2>6. CASE Start(q)
    BY <2>6 DEF Start, NamesOK
  <2>7. CASE Go(q) \/ Exit(q) \/ Ended(q)
    BY <2>7 DEF Go, Exit, Ended
  <2>8. CASE Unmount(q) \/ Wipe(q) \/ Unbind(q) \/ Unrecord(q) \/ Unview(q)
    BY <2>8 DEF Unmount, Wipe, Unbind, Unrecord, Unview
  <2>9. CASE Kill(q) \/ Ask(q)
    BY <2>9 DEF Kill, Ask
  <2> QED  BY <2>1, <2>2, <2>3, <2>4, <2>5, <2>6, <2>7, <2>8, <2>9 DEF Step
<1> QED  BY <1>2, <1>3
LEMMA StepPlace ==
    ASSUME TypeInv, \A p \in Procs : BindsOK(p) /\ LeafOK(p) /\ RecordOK(p), NEW q \in Procs, Step(q)
    PROVE  \A p \in Procs : BindsOK(p)' /\ LeafOK(p)' /\ RecordOK(p)'
<1>1. ASSUME NEW p \in Procs, p # q PROVE BindsOK(p)' /\ LeafOK(p)' /\ RecordOK(p)'
  <2>1. Same(p) /\ BindsOK(p) /\ LeafOK(p) /\ RecordOK(p)
    BY <1>1, StepFrame
  <2> QED  BY <2>1 DEF Same, BindsOK, LeafOK, RecordOK, Wiping, Killed, Tier, Capable
<1>2. BindsOK(q)' /\ LeafOK(q)' /\ RecordOK(q)'
  <2>1. /\ stage \in [Procs -> Stages] /\ after \in [Procs -> {"none", "wire", "abort", "end", "killed"}]
        /\ bound \in [Procs -> SUBSET Grants] /\ record \in [Procs -> SUBSET Grants]
        /\ req \in [Procs -> Requests \cup {NoReq}] /\ failed \subseteq Procs
        /\ PathOK(q) /\ BindsOK(q) /\ LeafOK(q) /\ RecordOK(q)
    BY DEF TypeInv, SessionTypeOK
  <2> USE <2>1 DEF PathOK, Begun, Netted, Tier, Capable, Goes, Abort, TearDown, Teardown, Wiping, Killed,
      BindsOK, LeafOK, RecordOK, UpStages, placeVars, netVars, recordVars, sandboxVars, queryVars
  <2>2. CASE \E i \in Ids, r \in Requests : Begin(q, i, r)
    BY <2>2 DEF Begin, NoReq
  <2>3. CASE Clear(q) \/ Bind(q) \/ Prepare(q)
    BY <2>3 DEF Clear, Bind, Prepare
  <2>4. CASE Untable(q) \/ Unlink(q) \/ Unname(q)
    BY <2>4 DEF Untable, Unlink, Unname
  <2>5. CASE Spawn(q) \/ Name(q) \/ Link(q) \/ Nft(q)
    BY <2>5 DEF Spawn, Name, Link, Nft
  <2>6. CASE WriteRecord(q) \/ WriteBinding(q) \/ RollBack(q) \/ WriteView(q)
    BY <2>6 DEF WriteRecord, WriteBinding, RollBack, WriteView
  <2>7. CASE Start(q) \/ Go(q) \/ Exit(q) \/ Ended(q)
    BY <2>7 DEF Start, Go, Exit, Ended
  <2>8. CASE Unmount(q) \/ Wipe(q)
    BY <2>8 DEF Unmount, Wipe
  <2>9. CASE Unbind(q) \/ Unrecord(q) \/ Unview(q)
    BY <2>9 DEF Unbind, Unrecord, Unview
  <2>10. CASE Kill(q) \/ Ask(q)
    BY <2>10 DEF Kill, Ask
  <2> QED  BY <2>2, <2>3, <2>4, <2>5, <2>6, <2>7, <2>8, <2>9, <2>10 DEF Step
<1> QED  BY <1>1, <1>2
---------------------------------------------------------------------------
(* What belongs to whom *)

\* Nobody leaves the stages in which something is there without removing it
LEMMA StepStays ==
    ASSUME TypeInv, NEW q \in Procs, Step(q)
    PROVE  /\ Named(q) /\ Netted(q) => Named(q)' \/ Unname(q)
           /\ Ruled(q) /\ Netted(q) => Ruled(q)' \/ Untable(q)
           /\ Served(q) /\ Capable(q) => Served(q)' \/ Unbind(q)
           /\ Shown(q) /\ Tier(q) = "T2" => Shown(q)' \/ Unview(q)
           /\ Launched(q) => Launched(q)'
           /\ stage[q] = "done" => stage'[q] = "done"
           /\ ~Begun(q) => \E i \in Ids, r \in Requests : Begin(q, i, r)
<1>1. /\ stage \in [Procs -> Stages] /\ after \in [Procs -> {"none", "wire", "abort", "end", "killed"}]
      /\ failed \subseteq Procs /\ PathOK(q)
  BY DEF TypeInv, SessionTypeOK
<1> USE <1>1 DEF PathOK, Begun, Netted, Tier, Capable, Goes, Abort, TearDown, Teardown, Wiping, Killed,
    Named, Ruled, Served, Shown, Launched, UpStages, Cleanup
<1>2. CASE \E i \in Ids, r \in Requests : Begin(q, i, r)
  BY <1>2 DEF Begin
<1>3. CASE Clear(q) \/ Bind(q) \/ Prepare(q)
  BY <1>3 DEF Clear, Bind, Prepare
<1>4. CASE Untable(q) \/ Unlink(q) \/ Unname(q)
  BY <1>4 DEF Untable, Unlink, Unname
<1>5. CASE Spawn(q) \/ Name(q) \/ Link(q) \/ Nft(q)
  BY <1>5 DEF Spawn, Name, Link, Nft
<1>6. CASE WriteRecord(q) \/ WriteBinding(q) \/ RollBack(q) \/ WriteView(q)
  BY <1>6 DEF WriteRecord, WriteBinding, RollBack, WriteView
<1>7. CASE Start(q) \/ Go(q) \/ Exit(q) \/ Ended(q)
  BY <1>7 DEF Start, Go, Exit, Ended
<1>8. CASE Unmount(q) \/ Wipe(q) \/ Unbind(q) \/ Unrecord(q) \/ Unview(q)
  BY <1>8 DEF Unmount, Wipe, Unbind, Unrecord, Unview
<1>9. CASE Kill(q) \/ Ask(q)
  BY <1>9 DEF Kill, Ask, Reach, Wired
<1> QED  BY <1>2, <1>3, <1>4, <1>5, <1>6, <1>7, <1>8, <1>9 DEF Step

LEMMA StepNames == ASSUME TypeInv, NamesOK, NEW q \in Procs, Step(q) PROVE NamesOK'
<1> SUFFICES ASSUME NEW i \in Ids, NEW o \in Procs, netns'[i] = o
             PROVE  id'[o] = i /\ Netted(o)' /\ Named(o)'
  BY StepTyped DEF NamesOK, SessionTypeOK, Owners
<1>0. netns \in [Ids -> Owners] /\ stage \in [Procs -> Stages]
  BY DEF TypeInv, SessionTypeOK
<1>1. CASE netns[i] = o
  <2>1. id[o] = i /\ Netted(o) /\ Named(o)
    BY <1>1, SessionAssumption DEF NamesOK
  <2>2. Begun(o)
    BY <2>1, SessionAssumption DEF TypeInv, PathOK
  <2>3. id'[o] = i /\ Netted(o)'
    BY <2>1, <2>2, Settled DEF Netted
  <2>4. ~(o = q /\ Unname(q))
    BY <1>0, <1>1, <2>1, SessionAssumption DEF Unname
  <2>5. Named(o)'
    <3>1. CASE o = q
      BY <2>1, <2>4, <3>1, StepStays
    <3>2. CASE o # q
      BY <2>1, <3>2, StepFrame DEF Same, Named, Wiping, Killed
    <3> QED  BY <3>1, <3>2
  <2> QED  BY <2>3, <2>5
<1>2. CASE netns[i] # o
  <2>1. Name(q) \/ Unname(q)
    BY <1>2, StepFrame DEF Writers
  <2>2. Name(q) /\ i = id[q] /\ o = q /\ stage'[q] = "link" /\ id' = id /\ req' = req
    BY <1>0, <1>2, <2>1, SessionAssumption DEF Name, Unname, Goes, Abort, TearDown
  <2>3. Netted(q)
    BY <2>2 DEF Name, TypeInv, PathOK
  <2> QED  BY <2>2, <2>3 DEF Named, Netted
<1> QED  BY <1>1, <1>2
LEMMA StepLinks == ASSUME TypeInv, NamesOK, LinksOK, NEW q \in Procs, Step(q) PROVE LinksOK'
<1> SUFFICES ASSUME NEW s \in Slots, NEW o \in Procs, veth'[s] = o
             PROVE  id'[o] \in Ids /\ Slot(o)' = s /\ Netted(o)'
  BY StepTyped DEF LinksOK, SessionTypeOK, Owners
<1>0. /\ veth \in [Slots -> Owners] /\ netns \in [Ids -> Owners]
      /\ \A p \in Procs : id[p] \in Ids => Begun(p)
  BY SessionAssumption DEF TypeInv, SessionTypeOK, PathOK
<1>1. id[o] \in Ids /\ Slot(o) = s /\ Netted(o)
  <2>1. CASE veth[s] = o
    BY <2>1, SessionAssumption DEF LinksOK
  <2>2. CASE veth[s] # o
    <3>1. Link(q) \/ Unlink(q)
      BY <2>2, StepFrame DEF Writers
    <3>2. Link(q) /\ s = Slot(q) /\ o = netns[id[q]] /\ Begun(q)
      BY <1>0, <2>2, <3>1, SessionAssumption DEF Link, Unlink, Begun
    <3>3. id[q] \in Ids
      BY <3>2 DEF TypeInv, PathOK
    <3> QED  BY <3>2, <3>3, SessionAssumption DEF NamesOK, Slot
  <2> QED  BY <2>1, <2>2
<1> QED  BY <1>0, <1>1, Settled DEF Netted

LEMMA StepTables == ASSUME TypeInv, TablesOK, NEW q \in Procs, Step(q) PROVE TablesOK'
<1> SUFFICES ASSUME NEW i \in Ids, table'[i] # NoTable
             PROVE  /\ table'[i].slot = slotOf'[i]
                    /\ \E o \in Procs : id'[o] = i /\ Netted(o)' /\ Ruled(o)'
  BY DEF TablesOK
<1>0. table \in [Ids -> Tables] /\ stage \in [Procs -> Stages] /\ slotOf' = slotOf
      /\ \A p \in Procs : id[p] \in Ids <=> Begun(p)
  BY SessionAssumption, StepFrame DEF TypeInv, SessionTypeOK, PathOK, Writers
<1>1. CASE table'[i] = table[i]
  <2> PICK o \in Procs : id[o] = i /\ Netted(o) /\ Ruled(o)
    BY <1>1 DEF TablesOK
  <2>1. id'[o] = i /\ Netted(o)'
    BY <1>0, Settled DEF Netted
  <2>2. Ruled(o)'
    <3>1. CASE o = q
      BY <1>0, <1>1, <3>1, StepStays DEF Untable
    <3>2. CASE o # q
      BY <3>2, StepFrame DEF Same, Ruled, Wiping, Killed
    <3> QED  BY <3>1, <3>2
  <2> QED  BY <1>0, <1>1, <2>1, <2>2 DEF TablesOK
<1>2. CASE table'[i] # table[i]
  <2>1. Nft(q) \/ Untable(q)
    BY <1>2, StepFrame DEF Writers
  <2>2. /\ Nft(q) /\ i = id[q] /\ table'[i] = [slot |-> Slot(q), allow |-> req[q].egress]
        /\ stage'[q] \in {"go", "record", "view"} /\ id' = id /\ req' = req
    BY <1>0, <1>2, <2>1 DEF Nft, Untable, Goes, Abort, TearDown
  <2>3. Netted(q)
    BY <2>2 DEF Nft, TypeInv, PathOK
  <2> QED  BY <1>0, <2>2, <2>3 DEF Ruled, Netted, Slot, UpStages
<1> QED  BY <1>1, <1>2

LEMMA StepBindings == ASSUME TypeInv, BindingsOK, NEW q \in Procs, Step(q) PROVE BindingsOK'
<1> SUFFICES ASSUME NEW s \in Slots, NEW h \in Procs, binding'[s] = h
             PROVE  id'[h] \in Ids /\ Slot(h)' = s /\ Capable(h)' /\ Served(h)'
  BY StepTyped DEF BindingsOK, SessionTypeOK, Owners
<1>0. /\ binding \in [Slots -> Owners] /\ stage \in [Procs -> Stages]
      /\ \A p \in Procs : id[p] \in Ids <=> Begun(p)
  BY SessionAssumption DEF TypeInv, SessionTypeOK, PathOK
<1>1. id[h] \in Ids /\ Slot(h) = s /\ Capable(h) /\ Served(h)'
  <2>1. CASE binding[s] = h
    <3>1. id[h] \in Ids /\ Slot(h) = s /\ Capable(h) /\ Served(h)
      BY <2>1, SessionAssumption DEF BindingsOK
    <3>2. CASE h = q
      <4>1. ~Unbind(q)
        BY <1>0, <2>1, <3>1, <3>2, SessionAssumption DEF Unbind
      <4> QED  BY <3>1, <3>2, <4>1, StepStays
    <3>3. CASE h # q
      BY <3>1, <3>3, StepFrame DEF Same, Served, Wiping, Killed
    <3> QED  BY <3>1, <3>2, <3>3
  <2>2. CASE binding[s] # h
    <3>1. WriteBinding(q) \/ Unbind(q)
      BY <2>2, StepFrame DEF Writers
    <3>2. WriteBinding(q) /\ s = Slot(q) /\ h = q /\ stage'[q] = "view" /\ Begun(q)
      BY <1>0, <2>2, <3>1, SessionAssumption DEF WriteBinding, Unbind, Goes, Begun
    <3>3. Capable(q)
      BY <3>2 DEF WriteBinding, TypeInv, PathOK
    <3> QED  BY <1>0, <3>2, <3>3 DEF Served
  <2> QED  BY <2>1, <2>2
<1> QED  BY <1>0, <1>1, Settled DEF Capable, Tier

LEMMA StepViews == ASSUME TypeInv, ViewsOK, NEW q \in Procs, Step(q) PROVE ViewsOK'
<1> SUFFICES ASSUME NEW i \in Ids, NEW p \in Procs, view'[i] = p
             PROVE  id'[p] = i /\ (Tier(p) = "T2")' /\ Shown(p)'
  BY StepTyped DEF ViewsOK, SessionTypeOK, Owners
<1>0. /\ view \in [Ids -> Owners] /\ stage \in [Procs -> Stages]
      /\ \A o \in Procs : id[o] \in Ids <=> Begun(o)
  BY SessionAssumption DEF TypeInv, SessionTypeOK, PathOK
<1>1. id[p] = i /\ Tier(p) = "T2" /\ Shown(p)'
  <2>1. CASE view[i] = p
    <3>1. id[p] = i /\ Tier(p) = "T2" /\ Shown(p)
      BY <2>1, SessionAssumption DEF ViewsOK
    <3>2. CASE p = q
      <4>1. ~Unview(q)
        BY <1>0, <2>1, <3>1, <3>2, SessionAssumption DEF Unview
      <4> QED  BY <3>1, <3>2, <4>1, StepStays
    <3>3. CASE p # q
      BY <3>1, <3>3, StepFrame DEF Same, Shown, Wiping, Killed
    <3> QED  BY <3>1, <3>2, <3>3
  <2>2. CASE view[i] # p
    <3>1. WriteView(q) \/ Unview(q)
      BY <2>2, StepFrame DEF Writers
    <3>2. WriteView(q) /\ i = id[q] /\ p = q /\ stage'[q] = "start" /\ Begun(q)
      BY <1>0, <2>2, <3>1, SessionAssumption DEF WriteView, Unview, Goes, Begun
    <3>3. Tier(q) = "T2"
      BY <3>2 DEF WriteView, TypeInv, PathOK
    <3> QED  BY <1>0, <3>2, <3>3 DEF Shown
  <2> QED  BY <2>1, <2>2
<1> QED  BY <1>0, <1>1, Settled DEF Tier
---------------------------------------------------------------------------
(* What nobody else touches *)

\* Who has an id or an address to itself now had it before
LEMMA StepAlone ==
    ASSUME TypeInv, NEW q \in Procs, Step(q), NEW p \in Procs, Begun(p)
    PROVE  /\ Lonely(p)' => Lonely(p)
           /\ (Mates(p) = {})' => Mates(p) = {}
           /\ Unshared(p)' => Unshared(p)
           /\ Working(p)' => Working(p)
<1>1. id'[p] = id[p] /\ Slot(p)' = Slot(p) /\ id[p] # Nobody
  BY Settled
<1>2. \A o \in Procs : id[o] # Nobody => id'[o] = id[o] /\ Slot(o)' = Slot(o)
  BY Settled DEF TypeInv, PathOK
<1>3. stage[p] = "done" => stage'[p] = "done"
  <2>1. CASE p = q
    BY <2>1, StepStays
  <2>2. CASE p # q
    BY <2>2, StepFrame DEF Same
  <2> QED  BY <2>1, <2>2
<1> QED  BY <1>1, <1>2, <1>3, StepFrame DEF Lonely, Namesakes, Mates, Unshared, Working, Begun, Writers

\* Two sessions at work: neither has what the other has to itself
LEMMA Apart ==
    ASSUME TypeInv, \A p, q \in Procs : Exclusive(p, q),
           NEW p \in Procs, NEW q \in Procs, p # q, Begun(p), Working(q)
    PROVE  /\ Lonely(p) => id[q] # id[p]
           /\ Mates(p) = {} => Slot(q) # Slot(p) /\ id[q] # id[p]
           /\ Unshared(p) /\ Working(p) => Slot(q) # Slot(p) /\ id[q] # id[p]
<1>1. id[p] # Nobody /\ id[q] # Nobody
  BY SessionAssumption DEF TypeInv, PathOK, Begun, Working
<1> QED  BY <1>1 DEF Lonely, Namesakes, Mates, Unshared, Working, Exclusive, Slot

LEMMA StepExclusive ==
    ASSUME TypeInv, \A p, o \in Procs : Exclusive(p, o), NEW q \in Procs, Step(q)
    PROVE  \A p, o \in Procs : Exclusive(p, o)'
<1> SUFFICES ASSUME NEW p \in Procs, NEW o \in Procs, p # o, Working(p)', Working(o)', Slot(p)' = Slot(o)'
             PROVE  (id[p] \in shared)'
  BY DEF Exclusive
<1>1. CASE Begun(p) /\ Begun(o)
  BY <1>1, StepAlone, StepFrame, Settled DEF Exclusive, Writers
<1>2. CASE ~Begun(p) \/ ~Begun(o)
  <2>1. ~Begun(q) /\ (p = q \/ o = q)
    BY <1>2, StepFrame DEF Same, Begun, Working
  <2>2. PICK i \in Ids, r \in Requests : Begin(q, i, r)
    BY <2>1, StepStays
  <2>3. \A x \in Procs \ {q} : Working(x)' /\ Slot(x)' = Slot(q)' => id'[q] \in shared' /\ id'[x] \in shared'
    <3> SUFFICES ASSUME NEW x \in Procs \ {q}, Working(x)', Slot(x)' = Slot(q)'
                 PROVE  id'[q] \in shared' /\ id'[x] \in shared'
      OBVIOUS
    <3>1. stage[x] \notin {"idle", "done"} /\ id'[x] = id[x] /\ id'[q] = i /\ slotOf' = slotOf
      BY <2>2, StepFrame DEF Same, Working, Begin, Writers, TypeInv, SessionTypeOK
    <3>2. x \in Rivals(i)
      BY <3>1 DEF Rivals, Slot
    <3> QED  BY <2>2, <3>1, <3>2 DEF Begin
  <2> QED  BY <2>1, <2>3
<1> QED  BY <1>1, <1>2

\* What a session has, it has made
LEMMA StepEnters ==
    ASSUME TypeInv, \A p \in Procs : SandboxOK(p), NEW q \in Procs, Step(q)
    PROVE  /\ stage'[q] \in {"link", "nft"} \cup UpStages /\ Netted(q) /\ ~Name(q)
              => stage[q] \in {"link", "nft"} \cup UpStages
           /\ stage'[q] \in {"nft"} \cup UpStages /\ Netted(q) /\ ~Link(q) => stage[q] \in {"nft"} \cup UpStages
           /\ stage'[q] \in UpStages /\ Netted(q) /\ ~Nft(q) => stage[q] \in UpStages
           /\ stage'[q] \in {"view", "start", "run"} /\ Capable(q) /\ ~WriteBinding(q)
              => stage[q] \in {"view", "start", "run"}
           /\ sandbox'[q] = "runs" => sandbox[q] = "runs" \/ stage'[q] = "run"
           /\ Bare(q)' => Bare(q) \/ Untable(q)
           /\ Working(q)' /\ ~Early(q)' /\ Tier(q) = "T2" /\ Netted(q) => ~Early(q) \/ Unlink(q)
<1>1. /\ stage \in [Procs -> Stages] /\ after \in [Procs -> {"none", "wire", "abort", "end", "killed"}]
      /\ sandbox \in [Procs -> {"no", "held", "runs"}] /\ req \in [Procs -> Requests \cup {NoReq}]
      /\ PathOK(q) /\ SandboxOK(q)
  BY DEF TypeInv, SessionTypeOK
<1> USE <1>1 DEF PathOK, Begun, Working, Netted, Tier, Capable, Goes, Abort, TearDown, Teardown, UpStages,
    Bare, Early, sandboxVars
<1>2. CASE \E i \in Ids, r \in Requests : Begin(q, i, r)
  BY <1>2 DEF Begin
<1>3. CASE Clear(q) \/ Bind(q) \/ Prepare(q)
  BY <1>3 DEF Clear, Bind, Prepare
<1>4. CASE Untable(q) \/ Unlink(q) \/ Unname(q)
  BY <1>4 DEF Untable, Unlink, Unname
<1>5. CASE Spawn(q) \/ Name(q) \/ Link(q) \/ Nft(q)
  BY <1>5 DEF Spawn, Name, Link, Nft
<1>6. CASE WriteRecord(q) \/ WriteBinding(q) \/ RollBack(q) \/ WriteView(q)
  BY <1>6 DEF WriteRecord, WriteBinding, RollBack, WriteView
<1>7. CASE Start(q) \/ Go(q) \/ Exit(q) \/ Ended(q)
  BY <1>7 DEF Start, Go, Exit, Ended
<1>8. CASE Unmount(q) \/ Wipe(q) \/ Unbind(q) \/ Unrecord(q) \/ Unview(q)
  BY <1>8 DEF Unmount, Wipe, Unbind, Unrecord, Unview
<1>9. CASE Kill(q) \/ Ask(q)
  BY <1>9 DEF Kill, Ask
<1> QED  BY <1>2, <1>3, <1>4, <1>5, <1>6, <1>7, <1>8, <1>9 DEF Step

LEMMA StepOwnName == ASSUME SessionInv, NEW q \in Procs, Step(q), NEW p \in Procs PROVE OwnName(p)'
<1> USE DEF SessionInv, SoleInv, OwnerInv
<1> SUFFICES ASSUME stage'[p] \in {"link", "nft"} \cup UpStages, Netted(p)',
                    Lonely(p)' \/ (Unshared(p)' /\ Working(p)')
             PROVE  netns'[id'[p]] = p
  BY DEF OwnName
<1>0. netns \in [Ids -> Owners] /\ stage \in [Procs -> Stages]
  BY DEF TypeInv, SessionTypeOK
<1>1. Begun(p)
  <2> SUFFICES ASSUME ~Begun(p) PROVE FALSE
    OBVIOUS
  <2> QED  BY StepFrame, StepStays DEF Same, Begun, Begin, Goes, UpStages, TypeInv, SessionTypeOK
<1>2. /\ id'[p] = id[p] /\ id[p] \in Ids /\ Netted(p)
      /\ Lonely(p) \/ (Unshared(p) /\ Working(p))
  BY <1>1, Settled, StepAlone DEF Netted
<1>3. CASE p = q
  <2>1. CASE Name(q)
    BY <1>0, <1>2, <1>3, <2>1 DEF Name, Goes, Abort, TearDown, UpStages
  <2>2. CASE ~Name(q)
    <3>1. netns[id[p]] = p
      BY <1>2, <1>3, <2>2, StepEnters DEF OwnName
    <3>2. ~Unname(q)
      BY <1>0, <1>3 DEF Unname, Goes, UpStages, TypeInv, PathOK, Teardown
    <3> QED  BY <1>2, <2>2, <3>1, <3>2, StepFrame DEF Writers
  <2> QED  BY <2>1, <2>2
<1>4. CASE p # q
  <2>1. netns[id[p]] = p
    BY <1>2, <1>4, StepFrame DEF Same, OwnName
  <2>2. Name(q) \/ Unname(q) => id[q] # id[p]
    BY <1>1, <1>2, <1>4, Apart DEF Name, Unname, Working
  <2>3. UNCHANGED netns \/ Name(q) \/ Unname(q)
    BY StepFrame DEF Writers
  <2> HIDE DEF SessionInv
  <2>4. netns'[id[p]] = netns[id[p]]
    BY <1>0, <1>2, <2>2, <2>3 DEF Name, Unname
  <2> QED  BY <1>2, <2>1, <2>4
<1> QED  BY <1>3, <1>4
\* The table of a session is changed by nobody else
LEMMA TableAlone ==
    ASSUME SessionInv, NEW q \in Procs, Step(q), NEW p \in Procs, p # q, Begun(p),
           Lonely(p) \/ (Unshared(p) /\ Working(p))
    PROVE  table'[id[p]] = table[id[p]]
<1>1. UNCHANGED table \/ Nft(q) \/ Untable(q)
  BY StepFrame DEF Writers, SessionInv
<1>2. Nft(q) \/ Untable(q) => id[q] # id[p]
  BY Apart DEF Nft, Untable, Working, SessionInv, SoleInv
<1>3. table \in [Ids -> Tables] /\ id[p] \in Ids
  BY DEF SessionInv, TypeInv, SessionTypeOK, PathOK
<1> QED  BY <1>1, <1>2, <1>3 DEF Nft, Untable

LEMMA StepOwnRules == ASSUME SessionInv, NEW q \in Procs, Step(q), NEW p \in Procs PROVE OwnRules(p)'
<1>0. /\ table \in [Ids -> Tables] /\ stage \in [Procs -> Stages] /\ TypeInv
      /\ sandbox \in [Procs -> {"no", "held", "runs"}] /\ OwnRules(p) /\ PathOK(p)
      /\ \A o \in Procs : SandboxOK(o) /\ SandboxOK(o)'
  BY StepSandbox DEF SessionInv, TypeInv, SessionTypeOK, SoleInv, OwnerInv
<1>1. ASSUME Begun(p)
      PROVE  /\ id'[p] = id[p] /\ id[p] \in Ids /\ Netted(p)' = Netted(p) /\ Tier(p)' = Tier(p)
             /\ Mine(p)' = Mine(p)
             /\ Lonely(p)' => Lonely(p)
             /\ Unshared(p)' => Unshared(p)
             /\ Working(p)' => Working(p)
  BY <1>0, <1>1, Settled, StepAlone DEF Netted, Tier, Mine
<1>2. CASE ~Begun(p)
  <2>1. stage'[p] \in {"idle", "clear"} /\ sandbox'[p] = "no"
    BY <1>0, <1>2, StepFrame, StepStays DEF Same, Begun, Begin, Goes, PathOK, sandboxVars
  <2> QED  BY <2>1 DEF OwnRules, UpStages, Bare
<1>3. ASSUME Begun(p), (stage[p] \in UpStages \/ sandbox[p] = "runs")', Netted(p)',
             (Lonely(p) \/ (Unshared(p) /\ Working(p) /\ Tier(p) = "T2"))'
      PROVE  (table[id[p]] = Mine(p))'
  <2>0. Netted(p) /\ (Lonely(p) \/ (Unshared(p) /\ Working(p) /\ Tier(p) = "T2"))
    BY <1>1, <1>3
  <2>1. CASE p = q /\ Nft(q) /\ stage'[q] \in UpStages
    <3>1. table[id[p]] = NoTable
      <4>1. CASE Lonely(p)
        <5>1. stage[p] = "nft"
          BY <2>1 DEF Nft
        <5>2. ~Ruled(p)
          BY <5>1 DEF Ruled, UpStages, Cleanup, Wiping, Killed
        <5> QED  BY <1>1, <1>3, <4>1, <5>2 DEF SessionInv, OwnerInv, TablesOK, Lonely, Namesakes
      <4>2. CASE Unshared(p) /\ Tier(p) = "T2"
        BY <1>0, <2>1, <4>2 DEF OwnRules, Bare, Nft
      <4> QED  BY <2>0, <4>1, <4>2
    <3> QED  BY <1>0, <1>1, <1>3, <2>1, <3>1 DEF Nft, Mine, Goes, Abort, TearDown, UpStages
  <2>2. CASE p = q /\ ~(Nft(q) /\ stage'[q] \in UpStages)
    <3>1. stage'[p] \in UpStages \/ stage'[p] = "run" \/ sandbox[p] = "runs"
      BY <1>0, <1>3, <2>2, StepEnters
    <3>2. stage[p] \in UpStages \/ sandbox[p] = "runs"
      BY <1>0, <2>0, <2>2, <3>1, StepEnters DEF UpStages
    <3>3. table[id[p]] = Mine(p)
      BY <1>0, <2>0, <3>2 DEF OwnRules
    <3>4. ~Nft(q) /\ ~Untable(q)
      BY <1>0, <2>2, <3>2 DEF Nft, Untable, UpStages, SandboxOK, Killed
    <3> QED  BY <1>0, <1>1, <1>3, <3>3, <3>4, StepFrame DEF Writers
  <2>3. CASE p # q
    <3>1. table[id[p]] = Mine(p)
      BY <1>0, <1>3, <2>0, <2>3, StepFrame DEF OwnRules, Same
    <3> QED  BY <1>1, <1>3, <2>0, <2>3, <3>1, TableAlone
  <2> QED  BY <2>1, <2>2, <2>3
<1>4. ASSUME Begun(p), Bare(p)', Unshared(p)' PROVE (table[id[p]] = NoTable)'
  <2>0. Unshared(p)
    BY <1>1, <1>4
  <2>1. CASE p = q /\ Untable(q)
    BY <1>0, <1>1, <1>4, <2>1 DEF Untable
  <2>2. CASE p = q /\ ~Untable(q)
    <3>1. Bare(p) /\ table[id[p]] = NoTable
      BY <1>0, <1>4, <2>0, <2>2, StepEnters DEF OwnRules
    <3>2. ~(Nft(q) /\ stage'[q] \in UpStages)
      BY <1>4, <2>2 DEF Bare, UpStages
    <3>3. Nft(q) => UNCHANGED table
      BY <1>0, <2>2, <3>1, <3>2 DEF Nft, Goes, UpStages
    <3> QED  BY <1>0, <1>1, <1>4, <2>2, <3>1, <3>3, StepFrame DEF Writers
  <2>3. CASE p # q
    <3>1. Bare(p) /\ Working(p)
      BY <1>4, <2>3, StepFrame, <1>0 DEF Bare, Working, Same, Tier
    <3> QED  BY <1>0, <1>1, <1>4, <2>0, <2>3, <3>1, TableAlone DEF OwnRules
  <2> QED  BY <2>1, <2>2, <2>3
<1> QED  BY <1>2, <1>3, <1>4 DEF OwnRules
LEMMA StepOwnLink == ASSUME SessionInv, NEW q \in Procs, Step(q), NEW p \in Procs PROVE OwnLink(p)'
<1> SUFFICES ASSUME stage'[p] \in {"nft"} \cup UpStages, Netted(p)', (Mates(p) = {})'
             PROVE  (veth[Slot(p)] = p)'
  BY DEF OwnLink
<1>0. /\ veth \in [Slots -> Owners] /\ stage \in [Procs -> Stages] /\ TypeInv /\ PathOK(q) /\ PathOK(p)
      /\ \A x, y \in Procs : Exclusive(x, y)
      /\ \A o \in Procs : SandboxOK(o) /\ OwnLink(o) /\ OwnName(o)
  BY DEF SessionInv, TypeInv, SessionTypeOK, SoleInv, OwnerInv
<1>1. Begun(p)
  <2> SUFFICES ASSUME ~Begun(p) PROVE FALSE
    OBVIOUS
  <2> QED  BY <1>0, StepFrame, StepStays DEF Same, Begun, Begin, Goes, UpStages
<1>2. Slot(p)' = Slot(p) /\ Slot(p) \in Slots /\ Netted(p) /\ Mates(p) = {} /\ id[p] # Nobody
  BY <1>0, <1>1, Settled, StepAlone DEF Netted
<1>3. CASE p = q /\ Link(q)
  <2>1. Lonely(p)
    BY <1>2 DEF Lonely, Namesakes, Mates, Slot
  <2>2. netns[id[p]] = p
    BY <1>0, <1>2, <1>3, <2>1 DEF OwnName, Link
  <2> QED  BY <1>0, <1>2, <1>3, <2>2 DEF Link, Goes, Abort, TearDown, UpStages
<1>4. CASE p = q /\ ~Link(q)
  <2>1. stage[p] \in {"nft"} \cup UpStages
    BY <1>0, <1>2, <1>4, StepEnters
  <2>2. ~Unlink(q)
    BY <1>4, <2>1 DEF Unlink, UpStages
  <2> QED  BY <1>0, <1>2, <1>4, <2>1, <2>2, StepFrame DEF Writers, OwnLink
<1>5. CASE p # q
  <2>1. veth[Slot(p)] = p
    BY <1>0, <1>2, <1>5, StepFrame DEF Same, OwnLink
  <2>2. Link(q) \/ Unlink(q) => Slot(q) # Slot(p)
    BY <1>0, <1>1, <1>2, <1>5, Apart DEF Link, Unlink, Working
  <2>3. UNCHANGED veth \/ Link(q) \/ Unlink(q)
    BY <1>0, StepFrame DEF Writers
  <2>4. veth'[Slot(p)] = veth[Slot(p)]
    BY <1>0, <1>2, <2>2, <2>3 DEF Link, Unlink
  <2> QED  BY <1>2, <2>1, <2>4
<1> QED  BY <1>3, <1>4, <1>5

LEMMA StepOwnSpace == ASSUME SessionInv, NEW q \in Procs, Step(q), NEW p \in Procs PROVE OwnSpace(p)'
<1> SUFFICES ASSUME sandbox'[p] # "no", Unshared(p)' PROVE inside'[p] = p
  BY DEF OwnSpace
<1>0. /\ inside \in [Procs -> Owners] /\ sandbox \in [Procs -> {"no", "held", "runs"}] /\ TypeInv /\ PathOK(p)
      /\ \A o \in Procs : OwnSpace(o) /\ OwnName(o)
  BY DEF SessionInv, TypeInv, SessionTypeOK, SoleInv
<1>1. Begun(p)
  <2> SUFFICES ASSUME ~Begun(p) PROVE FALSE
    OBVIOUS
  <2> QED  BY <1>0, StepFrame, StepStays DEF Same, Begun, Begin, sandboxVars, PathOK
<1>2. Unshared(p)
  BY <1>0, <1>1, StepAlone
<1>3. CASE p = q /\ (Spawn(q) \/ Start(q))
  BY <1>0, <1>2, <1>3 DEF Spawn, Start, OwnName, OwnSpace, Working, UpStages, sandboxVars
<1>4. CASE p = q /\ ~(Spawn(q) \/ Start(q))
  <2>1. sandbox[p] # "no" /\ inside'[p] = inside[p]
    BY <1>0, <1>4 DEF Step, Begin, Clear, Bind, Prepare, Untable, Unlink, Unname, Name, Link, Nft, WriteRecord,
       WriteBinding, RollBack, WriteView, Go, Exit, Ended, Unmount, Wipe, Unbind, Unrecord, Unview, Kill, Ask,
       sandboxVars
  <2> QED  BY <1>0, <1>2, <2>1 DEF OwnSpace
<1>5. CASE p # q
  BY <1>0, <1>2, <1>5, StepFrame DEF Same, OwnSpace
<1> QED  BY <1>3, <1>4, <1>5
\* Nobody links a session to its address but itself
LEMMA LinkAlone ==
    ASSUME SessionInv, NEW q \in Procs, Step(q), NEW p \in Procs, Begun(p), Unshared(p), veth'[Slot(p)] = p
    PROVE  veth[Slot(p)] = p \/ (p = q /\ Link(q))
<1>0. /\ veth \in [Slots -> Owners] /\ TypeInv /\ NamesOK /\ OwnName(q) /\ PathOK(q)
      /\ Slot(p) \in Slots /\ p # Nobody
  BY Settled, SessionAssumption DEF SessionInv, TypeInv, SessionTypeOK, SoleInv, OwnerInv
<1> SUFFICES ASSUME veth[Slot(p)] # p PROVE p = q /\ Link(q)
  OBVIOUS
<1>1. Link(q) \/ Unlink(q)
  BY <1>0, StepFrame DEF Writers
<1>2. Link(q) /\ p = netns[id[q]]
  BY <1>0, <1>1 DEF Link, Unlink
<1>3. id[q] = id[p] /\ Netted(q) /\ stage[q] = "link"
  BY <1>0, <1>2 DEF NamesOK, Link, PathOK, Begun
<1>4. netns[id[q]] = q
  BY <1>0, <1>3 DEF OwnName, Unshared, Working
<1> QED  BY <1>2, <1>4

LEMMA StepOwnBinding == ASSUME SessionInv, NEW q \in Procs, Step(q), NEW p \in Procs PROVE OwnBinding(p)'
<1>0. /\ binding \in [Slots -> Owners] /\ stage \in [Procs -> Stages] /\ TypeInv /\ PathOK(q) /\ PathOK(p)
      /\ \A x, y \in Procs : Exclusive(x, y) /\ Cut(x, y)
      /\ \A o \in Procs : SandboxOK(o) /\ SandboxOK(o)' /\ OwnBinding(o)
  BY StepSandbox DEF SessionInv, TypeInv, SessionTypeOK, SoleInv, OwnerInv
<1>1. ASSUME Begun(p)
      PROVE  /\ Slot(p)' = Slot(p) /\ Slot(p) \in Slots /\ Capable(p)' = Capable(p)
             /\ (Mates(p) = {})' => Mates(p) = {}
             /\ Unshared(p)' => Unshared(p)
  BY <1>0, <1>1, Settled, StepAlone DEF Capable, Tier
<1>2. CASE ~Begun(p)
  <2>1. stage'[p] \in {"idle", "clear"} /\ sandbox'[p] = "no"
    BY <1>0, <1>2, StepFrame, StepStays DEF Same, Begun, Begin, Goes, PathOK, sandboxVars
  <2> QED  BY <2>1 DEF OwnBinding
<1>a. UNCHANGED binding \/ WriteBinding(q) \/ Unbind(q)
  BY <1>0, StepFrame DEF Writers
<1>3. ASSUME Begun(p), Capable(p)', stage'[p] \in {"view", "start", "run"}, (Mates(p) = {} \/ Unshared(p))'
      PROVE  (binding[Slot(p)] = p)'
  <2>0. Capable(p) /\ (Mates(p) = {} \/ Unshared(p))
    BY <1>1, <1>3
  <2>1. CASE p = q /\ WriteBinding(q)
    BY <1>0, <1>1, <1>3, <2>1 DEF WriteBinding, Goes
  <2>2. CASE p = q /\ ~WriteBinding(q)
    <3>1. stage[p] \in {"view", "start", "run"}
      BY <1>0, <1>3, <2>0, <2>2, StepEnters
    <3> QED  BY <1>0, <1>1, <1>3, <1>a, <2>0, <2>2, <3>1 DEF OwnBinding, Unbind
  <2>3. CASE p # q
    <3>1. stage[p] \in {"view", "start", "run"} /\ Working(p)
      BY <1>0, <1>3, <2>3, StepFrame DEF Same, Working
    <3>2. WriteBinding(q) \/ Unbind(q) => Slot(q) # Slot(p)
      BY <1>0, <1>3, <2>0, <2>3, <3>1, Apart DEF WriteBinding, Unbind, Working
    <3> QED  BY <1>0, <1>1, <1>3, <1>a, <2>0, <3>1, <3>2 DEF OwnBinding, WriteBinding, Unbind
  <2> QED  BY <2>1, <2>2, <2>3
<1>4. ASSUME Begun(p), Capable(p)', sandbox'[p] = "runs", Unshared(p)', (veth[Slot(p)] = p)'
      PROVE  (binding[Slot(p)] = p)'
  <2>0. Capable(p) /\ Unshared(p)
    BY <1>1, <1>4
  <2>1. CASE stage'[p] = "run"
    BY <1>3, <1>4, <2>1
  <2>2. CASE stage'[p] # "run"
    <3>1. sandbox[p] = "runs"
      BY <1>0, <1>4, <2>2, StepEnters, StepFrame DEF Same
    <3>2. veth[Slot(p)] = p
      BY <1>0, <1>1, <1>4, <2>0, <3>1, LinkAlone DEF Link, SandboxOK, Killed
    <3>3. binding[Slot(p)] = p
      BY <1>0, <2>0, <3>1, <3>2 DEF OwnBinding
    <3>4. ASSUME WriteBinding(q) \/ Unbind(q), Slot(q) = Slot(p) PROVE FALSE
      <4>1. stage[q] \in {"binding", "unbind"} /\ Capable(q) /\ Working(q) /\ ~Early(q)
        BY <1>0, <3>4 DEF WriteBinding, Unbind, PathOK, Working, Early
      <4>2. Netted(q) /\ Tier(q) = "T2"
        BY <4>1 DEF Capable, Netted
      <4>3. p # q
        BY <1>0, <3>1, <4>1 DEF SandboxOK, Killed
      <4>4. ~Working(p)
        BY <1>0, <1>4, <2>0, <3>4, <4>1, <4>3, Apart
      <4> QED  BY <1>0, <2>0, <3>1, <3>2, <3>4, <4>1, <4>2, <4>3, <4>4 DEF Cut
    <3> QED  BY <1>0, <1>1, <1>4, <1>a, <3>3, <3>4 DEF WriteBinding, Unbind
  <2> QED  BY <2>1, <2>2
<1> QED  BY <1>2, <1>3, <1>4 DEF OwnBinding

LEMMA StepCut == ASSUME SessionInv, NEW q \in Procs, Step(q) PROVE \A p, o \in Procs : Cut(p, o)'
<1> SUFFICES ASSUME NEW p \in Procs, NEW o \in Procs, p # o, sandbox'[p] = "runs", Unshared(p)', ~Working(p)',
                    Working(o)', (Tier(o) = "T2")', Netted(o)', Slot(p)' = Slot(o)', ~Early(o)'
             PROVE  (veth[Slot(p)] # p)'
  BY DEF Cut
<1>0. /\ veth \in [Slots -> Owners] /\ stage \in [Procs -> Stages] /\ TypeInv
      /\ \A x, y \in Procs : Exclusive(x, y) /\ Cut(x, y)
      /\ \A x \in Procs : SandboxOK(x) /\ SandboxOK(x)' /\ PathOK(x) /\ PathOK(x)'
  BY StepSandbox, StepPath DEF SessionInv, TypeInv, SessionTypeOK, SoleInv, OwnerInv
<1>1. Begun(p) /\ Begun(o)
  <2>1. ASSUME NEW x \in Procs, ~Begun(x) PROVE stage'[x] \in {"idle", "clear"} /\ sandbox'[x] = "no"
    BY <1>0, <2>1, StepFrame, StepStays DEF Same, Begun, Begin, Goes, PathOK, sandboxVars
  <2> QED  BY <2>1 DEF Early, Working
<1>2. /\ Slot(p)' = Slot(p) /\ Slot(p) \in Slots /\ Slot(o) = Slot(p) /\ Working(o) /\ Unshared(p)
      /\ Tier(o) = "T2" /\ Netted(o) /\ p # Nobody
  BY <1>0, <1>1, Settled, StepAlone, SessionAssumption DEF Tier, Netted
<1>3. ~Working(p)
  BY <1>0, <1>1, <1>2, Apart
<1>4. sandbox[p] = "runs"
  <2>1. CASE p = q
    BY <1>0, <1>3, <2>1, StepEnters DEF Working
  <2>2. CASE p # q
    BY <1>0, <2>2, StepFrame DEF Same
  <2> QED  BY <2>1, <2>2
<1>5. CASE o = q /\ Unlink(q)
  BY <1>0, <1>2, <1>5 DEF Unlink
<1>6. CASE ~(o = q /\ Unlink(q))
  <2>1. ~Early(o)
    <3>1. CASE o = q
      BY <1>0, <1>2, <1>6, <3>1, StepEnters
    <3>2. CASE o # q
      BY <1>0, <3>2, StepFrame DEF Same, Early
    <3> QED  BY <3>1, <3>2
  <2>2. veth[Slot(p)] # p
    BY <1>0, <1>2, <1>3, <1>4, <2>1 DEF Cut
  <2> QED  BY <1>0, <1>1, <1>2, <1>3, <2>2, LinkAlone DEF Link, Working
<1> QED  BY <1>5, <1>6
---------------------------------------------------------------------------
(* The query on its way *)

\* A sandbox that can ask, from an address of its own, may
LEMMA AskerCapable ==
    ASSUME SessionInv, NEW p \in Procs, Fit(p), "swamp" \in Reach(p)
    PROVE  Capable(p)
<1>0. /\ TypeInv /\ PathOK(p) /\ SandboxOK(p) /\ OwnSpace(p) /\ OwnRules(p) /\ LinksOK
  BY DEF SessionInv, SoleInv, OwnerInv, TypeInv
<1>1. sandbox[p] = "runs" /\ Unshared(p) /\ veth[Slot(p)] = inside[p] /\ Tier(p) = "T2"
  BY DEF Fit, Wired
<1>2. Begun(p) /\ inside[p] = p
  BY <1>0, <1>1 DEF OwnSpace, PathOK
<1>3. id[p] \in Ids /\ Slot(p) \in Slots /\ p # Nobody
  BY <1>0, <1>2, SessionAssumption DEF PathOK, Slot, TypeInv, SessionTypeOK
<1>4. Netted(p)
  BY <1>0, <1>1, <1>2, <1>3 DEF LinksOK
<1> SUFFICES ASSUME Working(p) PROVE Capable(p)
  BY DEF Fit
<1>5. table[id[p]] = Mine(p)
  BY <1>0, <1>1, <1>4 DEF OwnRules
<1>6. "swamp" \in Allowed(Slot(p))
  BY DEF Reach, Fit
<1>7. "swamp" \in table[id[p]].allow
  BY <1>3, <1>5, <1>6 DEF Allowed, Mine
<1> QED  BY <1>1, <1>5, <1>7 DEF Mine, Capable

\* Whose questions are answered as its own was so before
LEMMA StepFit ==
    ASSUME SessionInv, NEW q \in Procs, Step(q), NEW p \in Procs, Launched(p), Fit(p)'
    PROVE  Fit(p)
<1>0. /\ TypeInv /\ stage \in [Procs -> Stages]
      /\ \A x \in Procs : SandboxOK(x) /\ SandboxOK(x)' /\ PathOK(x) /\ PathOK(x)' /\ OwnSpace(x)
      /\ OwnSpace(p)' /\ inside \in [Procs -> Owners]
  BY StepSandbox, StepPath, StepOwnSpace DEF SessionInv, TypeInv, SessionTypeOK, SoleInv, OwnerInv
<1>1. Begun(p)
  BY DEF Launched, Begun, Cleanup, Wiping, Teardown
<1>2. /\ Slot(p)' = Slot(p) /\ Unshared(p) /\ Tier(p) = "T2" /\ Capable(p)' = Capable(p)
      /\ Working(p)' => Working(p)
  BY <1>0, <1>1, Settled, StepAlone DEF Fit, Tier, Capable
<1>3. sandbox'[p] = "runs" /\ inside'[p] = p /\ veth'[Slot(p)] = p
  BY <1>0, <1>2 DEF Fit, Wired, OwnSpace
<1>4. sandbox[p] = "runs"
  <2>1. CASE p = q
    <3>1. ~(Spawn(q) \/ Start(q) \/ Go(q))
      BY <2>1 DEF Spawn, Start, Go, Launched, Cleanup, Wiping, Teardown
    <3> QED  BY <1>0, <1>3, <2>1, <3>1 DEF Step, Begin, Clear, Bind, Prepare, Untable, Unlink, Unname, Name,
       Link, Nft, WriteRecord, WriteBinding, RollBack, WriteView, Exit, Ended, Unmount, Wipe, Unbind, Unrecord,
       Unview, Kill, Ask, sandboxVars, TypeInv, SessionTypeOK
  <2>2. CASE p # q
    BY <1>3, <1>0, <2>2, StepFrame DEF Same
  <2> QED  BY <2>1, <2>2
<1>5. inside[p] = p /\ veth[Slot(p)] = p
  BY <1>0, <1>1, <1>2, <1>3, <1>4, LinkAlone DEF OwnSpace, Link, SandboxOK, Killed
<1> QED  BY <1>2, <1>4, <1>5 DEF Fit, Wired
LEMMA StepConn == ASSUME SessionInv, NEW q \in Procs, Step(q) PROVE ConnOK'
<1>0. TypeInv /\ ConnOK /\ \A x \in Procs : PathOK(x) /\ PathOK(x)' /\ SandboxOK(x)
  BY StepPath DEF SessionInv, SoleInv, OwnerInv, TypeInv
<1>1. CASE UNCHANGED conn
  <2> SUFFICES ASSUME NEW p \in Procs, conn.from = p, conn.at # "none"
               PROVE  /\ Launched(p)'
                      /\ conn.slot # Nobody => (Tier(p) = "T2" /\ conn.slot = Slot(p))'
                      /\ conn.at = "relay" => conn.slot # Nobody
                      /\ Fit(p)' => Capable(p)' /\ (conn.at = "relay" => conn.handle = p)
    BY <1>0, <1>1 DEF ConnOK
  <2>1. Launched(p) /\ Begun(p)
    BY <1>0 DEF ConnOK, Launched, Begun, Cleanup, Wiping, Teardown
  <2>2. Launched(p)'
    <3>1. CASE p = q
      BY <1>0, <2>1, <3>1, StepStays
    <3>2. CASE p # q
      BY <1>0, <2>1, <3>2, StepFrame DEF Same, Launched, Wiping
    <3> QED  BY <3>1, <3>2
  <2>3. Slot(p)' = Slot(p) /\ Tier(p)' = Tier(p) /\ Capable(p)' = Capable(p)
    BY <1>0, <2>1, Settled DEF Tier, Capable
  <2>4. Fit(p)' => Fit(p)
    BY <2>1, StepFit
  <2> QED  BY <1>0, <1>1, <2>2, <2>3, <2>4 DEF ConnOK
<1>2. CASE Ask(q)
  <2>1. sandbox[q] = "runs" /\ "swamp" \in Reach(q) /\ Begun(q)
    BY <1>0, <1>2 DEF Ask, Reach, Wired, PathOK
  <2>2. Launched(q)
    BY <1>0, <2>1 DEF SandboxOK, Launched, Killed
  <2>3. PICK h \in minted :
           conn' = [from |-> q, slot |-> IF Tier(q) = "T2" THEN Slot(q) ELSE Nobody,
                    handle |-> h, at |-> "accepted"]
    BY <1>2 DEF Ask
  <2>4. Fit(q) => Capable(q)
    BY <2>1, AskerCapable
  <2>5. Launched(q)' = Launched(q) /\ Fit(q)' = Fit(q) /\ Capable(q)' = Capable(q) /\ Tier(q)' = Tier(q)
        /\ Slot(q)' = Slot(q)
    BY <1>2 DEF Ask, Launched, Wiping, Fit, Unshared, Wired, Tier, Working, Capable, Slot, netVars, sandboxVars
  <2> QED  BY <2>2, <2>3, <2>4, <2>5 DEF ConnOK
<1> QED  BY <1>0, <1>1, <1>2, StepFrame DEF Writers

LEMMA BrokerKeeps == ASSUME SessionInv, Authorize \/ Relay \/ UNCHANGED sessionVars PROVE SessionInv'
<1> USE DEF Authorize, Relay, sessionVars, placeVars, netVars, recordVars, sandboxVars
<1>1. UNCHANGED <<slotOf, stage, after, id, req, bound, work, leaf, erased, netns, veth, table, binding, record,
                  view, minted, sandbox, inside, failures, failed, shared>>
  OBVIOUS
<1>2. conn' \in Conns /\ asks' \in 0 .. MaxAsks
  <2>1. NoConn \in Conns
    BY DEF NoConn, Conns, Owners
  <2> QED  BY <2>1 DEF SessionInv, TypeInv, SessionTypeOK, Conns, queryVars
<1>3. TypeInv'
  BY <1>1, <1>2 DEF SessionInv, TypeInv, SessionTypeOK, PathOK, Begun, Netted, Tier, Capable
<1>4. OwnerInv'
  BY <1>1 DEF SessionInv, OwnerInv, SandboxOK, BindsOK, RecordOK, LeafOK, NamesOK, LinksOK, TablesOK, BindingsOK,
     ViewsOK, Killed, Wiping, Named, Ruled, Served, Shown, Tier, Capable, Netted, Slot
<1>5. (\A p, q \in Procs : Exclusive(p, q) /\ Cut(p, q))'
  BY <1>1 DEF SessionInv, SoleInv, Exclusive, Cut, Working, Slot, Unshared, Tier, Netted, Early
<1>6. (\A p \in Procs : OwnName(p) /\ OwnRules(p) /\ OwnLink(p) /\ OwnSpace(p) /\ OwnBinding(p))'
  BY <1>1 DEF SessionInv, SoleInv, OwnName, OwnRules, OwnLink, OwnSpace, OwnBinding, Working, Slot, Unshared, Tier,
     Netted, Capable, Bare, Mine, Lonely, Namesakes, Mates
<1>7. ConnOK'
  <2>1. \A p \in Procs : /\ Launched(p)' = Launched(p) /\ Tier(p)' = Tier(p) /\ Slot(p)' = Slot(p)
                         /\ Fit(p)' = Fit(p) /\ Capable(p)' = Capable(p)
    BY <1>1 DEF Launched, Wiping, Tier, Slot, Fit, Unshared, Wired, Working, Capable
  <2>2. CASE conn' = conn
    BY <2>1, <2>2 DEF SessionInv, SoleInv, ConnOK
  <2>3. CASE conn' = NoConn
    BY <2>3 DEF ConnOK, NoConn
  <2>4. CASE conn.at = "accepted" /\ Authorized(conn) /\ conn' = [conn EXCEPT !.at = "relay"]
    <3> DEFINE p == conn.from
    <3>1. p \in Procs /\ Launched(p) /\ conn.slot # Nobody /\ conn.slot = Slot(p) /\ binding[Slot(p)] = conn.handle
          /\ Tier(p) = "T2" /\ (Fit(p) => Capable(p))
      BY <2>4 DEF SessionInv, SoleInv, ConnOK, Authorized
    <3>2. Fit(p) => conn.handle = p
      BY <3>1 DEF SessionInv, SoleInv, OwnerInv, OwnBinding, OwnSpace, Fit, Wired
    <3>3. conn' = [from |-> p, slot |-> conn.slot, handle |-> conn.handle, at |-> "relay"]
      BY <2>4 DEF SessionInv, TypeInv, SessionTypeOK, Conns
    <3>4. conn'.from = p /\ conn'.slot = conn.slot /\ conn'.handle = conn.handle
      BY <3>3
    <3> HIDE DEF p
    <3> QED  BY <2>1, <3>1, <3>2, <3>4 DEF ConnOK
  <2> QED  BY <2>2, <2>3, <2>4 DEF queryVars
<1> QED  BY <1>3, <1>4, <1>5, <1>6, <1>7 DEF SessionInv, SoleInv
---------------------------------------------------------------------------
(* The invariant *)

LEMMA InitHolds == SessionInit => SessionInv
<1> SUFFICES ASSUME SessionInit PROVE SessionInv
  OBVIOUS
<1> USE DEF SessionInit
<1>1. OwnerInv
  BY NoReqFacts, SessionAssumption DEF OwnerInv, SandboxOK, BindsOK, RecordOK, LeafOK, NamesOK, LinksOK, TablesOK,
     BindingsOK, ViewsOK, Teardown
<1>2. SoleInv
  BY DEF SoleInv, Exclusive, Cut, Working, OwnName, OwnRules, OwnLink, OwnSpace, OwnBinding, Bare, UpStages, ConnOK,
     NoConn
<1> QED  BY <1>1, <1>2, InitTyped DEF SessionInv

LEMMA NextKeeps == SessionInv /\ [SessionNext]_sessionVars => SessionInv'
<1> SUFFICES ASSUME SessionInv, [SessionNext]_sessionVars PROVE SessionInv'
  OBVIOUS
<1>1. CASE Authorize \/ Relay \/ UNCHANGED sessionVars
  BY <1>1, BrokerKeeps
<1>2. ASSUME NEW q \in Procs, Step(q) PROVE SessionInv'
  <2>1. TypeInv'
    BY <1>2, StepTyped, StepPath DEF SessionInv, TypeInv
  <2>2. OwnerInv'
    BY <1>2, StepSandbox, StepPlace, StepNames, StepLinks, StepTables, StepBindings, StepViews
    DEF SessionInv, OwnerInv
  <2>3. SoleInv'
    <3>1. \A p, o \in Procs : Exclusive(p, o)' /\ Cut(p, o)'
      BY <1>2, StepExclusive, StepCut DEF SessionInv, SoleInv
    <3> QED
      BY <1>2, <3>1, StepOwnName, StepOwnRules, StepOwnLink, StepOwnSpace, StepOwnBinding, StepConn DEF SoleInv
  <2> QED  BY <2>1, <2>2, <2>3 DEF SessionInv
<1> QED  BY <1>1, <1>2 DEF SessionNext

LEMMA AlwaysInv == SessionSpec => []SessionInv
  BY InitHolds, NextKeeps, PTL DEF SessionSpec

---------------------------------------------------------------------------
(* What follows for the sessions *)

\* Every session stays within its types, and no more queries, failures and kills
\* happen than the bounds say.
THEOREM SessionsTyped == SessionSpec => []SessionTypeOK
<1>1. SessionInv => SessionTypeOK
  BY DEF SessionInv, TypeInv
<1> QED  BY <1>1, AlwaysInv, PTL

\* t2_plane.rs and main.rs put the rules in place before the sandbox is usable
\* and take them away after it: whatever fails and whoever is killed, a sandbox
\* reaches what its own profiles grant and no more, unless another session has
\* its very id.
THEOREM ReachIsBounded == SessionSpec => []ReachBounded
<1>1. ASSUME SessionInv, NEW p \in Procs, sandbox[p] = "runs", Namesakes(p) = {}
      PROVE  Reach(p) \subseteq req[p].egress
  <2>0. /\ TypeInv /\ PathOK(p) /\ SandboxOK(p) /\ OwnRules(p) /\ LinksOK
        /\ inside \in [Procs -> Owners] /\ slotOf \in [Ids -> Slots]
    BY <1>1 DEF SessionInv, SoleInv, OwnerInv, TypeInv, SessionTypeOK
  <2>1. Begun(p) /\ id[p] \in Ids
    BY <1>1, <2>0 DEF PathOK
  <2>2. inside[p] = p
    BY <1>1, <2>0 DEF SandboxOK, Owners, Namesakes
  <2> SUFFICES ASSUME Wired(p) PROVE Allowed(Slot(p)) \subseteq req[p].egress
    BY <1>1 DEF Reach
  <2>3. Netted(p)
    BY <1>1, <2>0, <2>1, <2>2, SessionAssumption DEF Wired, LinksOK, Slot
  <2>4. table[id[p]] = Mine(p)
    BY <1>1, <2>0, <2>3 DEF OwnRules, Lonely
  <2> QED  BY <2>1, <2>4 DEF Allowed, Mine
<1>2. SessionInv => ReachBounded
  BY <1>1 DEF ReachBounded
<1> QED  BY <1>2, AlwaysInv, PTL

\* swamp-broker authorizes by the binding of the peer's address at the time it
\* looks, swampd by the record of the handle: together they answer a sandbox by
\* the grants of its own session, however the sessions came and went meanwhile.
THEOREM AnswersAreOwn == SessionSpec => []AnswersOwn
<1>1. ASSUME SessionInv, conn.at = "relay", id[conn.from] \notin shared, Wired(conn.from),
             stage[conn.from] # "done" \/ Capable(conn.from)
      PROVE  record[conn.handle] \subseteq req[conn.from].rw
  <2> DEFINE p == conn.from
  <2>1. p \in Procs /\ Launched(p) /\ conn.slot # Nobody /\ Tier(p) = "T2" /\ (Fit(p) => conn.handle = p)
    BY <1>1 DEF SessionInv, SoleInv, ConnOK
  <2>2. Fit(p)
    BY <1>1, <2>1 DEF Fit, Unshared, Working, Launched, Cleanup, Wiping, Teardown
  <2>3. record[p] \subseteq req[p].rw
    BY <1>1, <2>1 DEF SessionInv, OwnerInv, RecordOK
  <2> QED  BY <2>1, <2>2, <2>3
<1>2. SessionInv => AnswersOwn
  BY <1>1 DEF AnswersOwn
<1> QED  BY <1>2, AlwaysInv, PTL
LEMMA WholeWhile ==
    ASSUME SessionInv, NEW p \in Procs, stage[p] = "run", sandbox[p] = "runs", Capable(p), Mates(p) = {}
    PROVE  binding[Slot(p)] = p /\ record[p] = req[p].rw /\ "swamp" \in Reach(p)
<1>0. /\ TypeInv /\ PathOK(p) /\ SandboxOK(p) /\ OwnRules(p) /\ OwnLink(p) /\ OwnBinding(p) /\ RecordOK(p)
      /\ TablesOK /\ inside \in [Procs -> Owners] /\ slotOf \in [Ids -> Slots] /\ req \in [Procs -> Requests \cup {NoReq}]
  BY DEF SessionInv, SoleInv, OwnerInv, TypeInv, SessionTypeOK
<1>1. /\ id[p] \in Ids /\ id[p] # Nobody /\ Netted(p) /\ Slot(p) \in Slots /\ Slot(p) # Nobody
      /\ req[p] \in Requests /\ "swamp" \in req[p].egress
  BY <1>0, SessionAssumption DEF PathOK, Begun, Capable, Netted, Slot
<1>2. Lonely(p)
  BY <1>1 DEF Lonely, Namesakes, Mates, Slot
<1>3. inside[p] = p
  BY <1>0, <1>2 DEF SandboxOK, Owners, Lonely, Namesakes
<1>4. Wired(p)
  BY <1>0, <1>1, <1>3 DEF OwnLink, Wired, UpStages
<1>5. table[id[p]] = Mine(p)
  BY <1>0, <1>1, <1>2 DEF OwnRules
<1>6. ASSUME NEW i \in Ids, table[i].slot = Slot(p) PROVE "swamp" \in table[i].allow
  <2>1. table[i] # NoTable
    BY <1>1, <1>6 DEF NoTable
  <2>2. PICK o \in Procs : id[o] = i /\ slotOf[i] = Slot(p)
    BY <1>0, <1>6, <2>1 DEF TablesOK
  <2>3. o = p
    BY <2>2, SessionAssumption DEF Mates, Slot
  <2> QED  BY <1>1, <1>5, <2>2, <2>3 DEF Mine
<1>7. "swamp" \in AllEgress
  BY <1>1 DEF AllEgress
<1> QED  BY <1>0, <1>4, <1>6, <1>7 DEF OwnBinding, RecordOK, Reach, Allowed

LEMMA NothingAfter ==
    ASSUME SessionInv, NEW p \in Procs, Over(p)
    PROVE  /\ record[p] = {} /\ p \notin leaf
           /\ \A s \in Slots : binding[s] # p
           /\ \A i \in Ids : view[i] # p /\ netns[i] # p
           /\ (\A q \in Namesakes(p) : Over(q)) => table[id[p]] = NoTable /\ ~Held(p)
<1>0. /\ TypeInv /\ BindingsOK /\ ViewsOK /\ NamesOK /\ TablesOK /\ p # Nobody
      /\ \A o \in Procs : PathOK(o) /\ SandboxOK(o) /\ RecordOK(o) /\ LeafOK(o)
  BY SessionAssumption DEF SessionInv, OwnerInv, TypeInv
<1>1. ASSUME NEW o \in Procs, Over(o)
      PROVE  /\ ~Named(o) /\ ~Ruled(o) /\ ~Served(o) /\ ~Shown(o) /\ sandbox[o] \notin {"runs", "held"}
             /\ record[o] = {} /\ o \notin leaf
  BY <1>0, <1>1 DEF Over, Named, Ruled, Served, Shown, SandboxOK, RecordOK, LeafOK, Killed, Wiping, UpStages,
     Cleanup, Teardown
<1>2. /\ \A s \in Slots : binding[s] # p
      /\ \A i \in Ids : view[i] # p /\ netns[i] # p
  BY <1>0, <1>1 DEF BindingsOK, ViewsOK, NamesOK
<1>3. ASSUME \A q \in Namesakes(p) : Over(q) PROVE table[id[p]] = NoTable /\ ~Held(p)
  <2>1. \A o \in Procs : id[o] = id[p] => Over(o)
    BY <1>3 DEF Namesakes
  <2>2. id[p] \in Ids
    BY <1>0 DEF PathOK, Begun, Over
  <2>3. table[id[p]] = NoTable
    BY <1>0, <1>1, <2>1, <2>2 DEF TablesOK
  <2>4. ASSUME NEW o \in Procs, sandbox[o] # "no", inside[o] = p PROVE FALSE
    <3>1. id[o] = id[p]
      BY <1>0, <2>4 DEF SandboxOK
    <3> QED  BY <1>1, <2>1, <2>4, <3>1 DEF SessionInv, TypeInv, SessionTypeOK
  <2> QED  BY <1>2, <2>3, <2>4 DEF Held
<1> QED  BY <1>1, <1>2, <1>3

\* A session has all of its identity while it runs, its record, its binding and
\* the way to the swamp, and leaves nothing of it behind when it ended, on
\* whichever path of create_and_inject, of the rollback and of the teardown.
THEOREM IdentityIsWhole == SessionSpec => []WholeOrNothing
<1>1. SessionInv => IdentityWhole
  BY WholeWhile DEF IdentityWhole
<1>2. SessionInv => NothingLeft
  BY NothingAfter DEF NothingLeft
<1> QED  BY <1>1, <1>2, AlwaysInv, PTL DEF WholeOrNothing

LEMMA StepSpares ==
    ASSUME SessionInv, SparedOnTheWayOut, [SessionNext]_sessionVars
    PROVE  SparedOnTheWayOut'
<1>1. CASE Authorize \/ Relay \/ UNCHANGED sessionVars
  BY <1>1 DEF Authorize, Relay, sessionVars, placeVars, SparedOnTheWayOut
<1>2. ASSUME NEW q \in Procs, Step(q) PROVE SparedOnTheWayOut'
  <2>1. failed \subseteq failed' /\ (UNCHANGED erased \/ Wipe(q))
    BY <1>2, StepFrame DEF Writers, SessionInv
  <2>2. CASE UNCHANGED erased
    BY <2>1, <2>2 DEF SparedOnTheWayOut
  <2>3. CASE Wipe(q) /\ failed = {}
    BY <2>3 DEF SparedOnTheWayOut, Wipe, SessionInv, OwnerInv, BindsOK
  <2> QED  BY <2>1, <2>2, <2>3 DEF SparedOnTheWayOut
<1> QED  BY <1>1, <1>2 DEF SessionNext

\* Every writable bind is detached before remove_dir_all of the work directory:
\* no file of a grant is deleted, except behind a construction that failed on its
\* way, where the directory goes with the binds still in it.
THEOREM FilesAreSpared == SessionSpec => []SparedOnTheWayOut
<1>1. SessionInit => SparedOnTheWayOut
  BY DEF SessionInit, SparedOnTheWayOut
<1> QED  BY <1>1, AlwaysInv, StepSpares, PTL DEF SessionSpec
=============================================================================
