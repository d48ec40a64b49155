------------------------------- MODULE Island -------------------------------
(***************************************************************************)
(* How `gatekeeperd sandbox` decides what wall a workload gets, and how it *)
(* builds the innermost one.  The trust band is measured, never asserted;  *)
(* the tier is decided from it; a pinned artifact runs at T0 from an exec  *)
(* island, bind mounts of exactly the files the sealed manifest lists,     *)
(* while whoever owns the directory it came from may rename other files    *)
(* over the names.  T1 and T2 go on in Sessions.                           *)
(***************************************************************************)
EXTENDS Naturals, Sequences, FiniteSets, Functions

CONSTANTS
    Artifacts,  \* files that can stand in the directory of the entrypoint
    DigestOf,   \* their fs-verity digests
    InterpOf,   \* the PT_INTERP of each, or NoName
    NeededOf,   \* the DT_NEEDED of each
    NoFile, NoName, NoDigest,
    Manifests,  \* what /usr/lib/shrek/pin-manifest may say
    Asked,      \* requests on the command line
    Worlds,     \* [sealed, landlock, harness]: the machine
    SealedProfiles,
    Placed,  \* what the names may refer to at first
    MaxSwaps    \* bound: renames over a name

EntryName == "entry"
FileNamesOf(m) == {m.lines[i].name : i \in DOMAIN m.lines}
Places == {EntryName} \cup UNION {FileNamesOf(m) : m \in Manifests}
Lines  == [kind : STRING, digest : STRING, closed : BOOLEAN, name : STRING]

ASSUME IslandAssumption ==
    /\ NoFile \notin Artifacts
    /\ DigestOf \in [Artifacts -> STRING] /\ NoDigest \in STRING
    /\ Placed \subseteq [Places -> Artifacts]
    /\ MaxSwaps \in Nat
    /\ \A m \in Manifests : m.lines \in Seq(Lines)
    \* parse_member_fields: the loader has an absolute path, a library a bare name
    /\ \A m \in Manifests : \A i, j \in DOMAIN m.lines :
          /\ m.lines[i].kind \in {"interp", "lib"} => m.lines[i].name # EntryName
          /\ m.lines[i].kind = "interp" /\ m.lines[j].kind = "lib" =>
                m.lines[i].name # m.lines[j].name

VARIABLES
    world, manifest, ask,
    names,     \* the directory: what each name refers to
    swaps,
    step,      \* where the construction is
    band,      \* the derived trust band
    fd,        \* the file measured, held open
    pin,       \* what the manifest says of it
    noexec,    \* what can no longer be mapped as code: "grants", "usr", "root"
    island,    \* what is mounted on the island, executable, by name
    bound,     \* members bound so far
    wall,      \* the tier built at
    ran,       \* the file executing
    rc         \* exit code of the command, 0 while there is none

islandVars == <<world, manifest, ask, names, swaps, step, band, fd, pin, noexec, island,
                bound, wall, ran, rc>>
fixedVars  == <<world, manifest, ask>>

---------------------------------------------------------------------------
(* The sealed manifest: all of it is well formed or none of it counts *)

NoBlock == [digest |-> NoDigest, closed |-> FALSE, closure |-> FALSE,
            interp |-> <<>>, libs |-> <<>>]
Block(l, closure) == [digest |-> l.digest, closed |-> l.closed, closure |-> closure,
                      interp |-> <<>>, libs |-> <<>>]
Poison(acc) == [acc EXCEPT !.ok = FALSE]
MembersOf(b) == b.interp \o b.libs

\* one interp, and no two members of one digest
Complete(b) ==
    /\ Len(b.interp) = 1
    /\ \A i, j \in DOMAIN MembersOf(b) :
          MembersOf(b)[i].digest = MembersOf(b)[j].digest => i = j

Flush(acc) ==
    IF ~acc.open THEN acc
    ELSE IF Complete(acc.cur) THEN [acc EXCEPT !.pins = Append(@, acc.cur), !.open = FALSE]
    ELSE Poison(acc)

ReadLine(acc, l) ==
    CASE l.kind = "pin" -> LET f == Flush(acc)
                           IN [f EXCEPT !.pins = Append(@, Block(l, FALSE))]
      [] l.kind = "entry" -> [Flush(acc) EXCEPT !.cur = Block(l, TRUE), !.open = TRUE]
      [] l.kind = "interp" /\ acc.open -> [acc EXCEPT !.cur.interp = Append(@, l)]
      [] l.kind = "lib" /\ acc.open -> [acc EXCEPT !.cur.libs = Append(@, l)]
      [] OTHER -> Poison(acc)

Empty == [pins |-> <<>>, cur |-> NoBlock, open |-> FALSE, ok |-> TRUE]

\* v1 has no closure records; two readings of one digest are no reading
Pins(m) ==
    LET acc[k \in 0..Len(m.lines)] == IF k = 0 THEN Empty ELSE ReadLine(acc[k-1], m.lines[k])
        got   == Flush(acc[Len(m.lines)])
        sound == /\ got.ok /\ m.header \in {"v1", "v2"}
                 /\ m.header = "v1" => \A i \in DOMAIN m.lines : m.lines[i].kind = "pin"
                 /\ \A i, j \in DOMAIN got.pins : got.pins[i].digest = got.pins[j].digest => i = j
    IN IF sound THEN {got.pins[i] : i \in DOMAIN got.pins} ELSE {}

PinsOf(f) == {p \in Pins(manifest) : DigestOf[f] # NoDigest /\ p.digest = DigestOf[f]}

---------------------------------------------------------------------------
(* Band and tier *)

CapsOrder == [ro |-> 1, proj |-> 2, net |-> 3, broad |-> 4]
TierOrder == [T0 |-> 0, T1 |-> 1, T2 |-> 2, T3 |-> 3]
CapsOf(l) == IF l \in DOMAIN CapsOrder THEN CapsOrder[l] ELSE CapsOrder.broad
Profile(r) == IF r.profile = "unset" THEN CapsOf(r.caps) ELSE CapsOf(r.profile)

Matrix == [first   |-> <<0, 0, 1, 1>>, pinned  |-> <<0, 1, 1, 2>>,
           untrust |-> <<2, 2, 2, 3>>, hostile |-> <<2, 3, 3, 3>>]
Floor  == [first |-> 0, pinned |-> 0, untrust |-> 2, hostile |-> 2]
EffectiveTier(b, c) == IF Matrix[b][c] > Floor[b] THEN Matrix[b][c] ELSE Floor[b]

\* measure: a regular file of the sealed root, and one enrolled as closed-world
Sealed(r) == world.sealed /\ r.entry \in {"enrolled", "shell"}
Enrolled(r) == world.sealed /\ r.entry = "enrolled"

\* derive_session: a harness on the sealed admit list still is no first party
SessionBand == IF world.harness THEN "untrust" ELSE "hostile"

\* derive_band, over the facts of the entrypoint or of the harness
DeriveBand(r, p) ==
    IF r.harness THEN SessionBand
    ELSE IF Sealed(r) /\ Enrolled(r) THEN "first"
    ELSE IF \E q \in p : q.closed THEN "pinned" ELSE "hostile"

\* recheck, in the order of its codes
Refusals(r, b) ==
    {c \in 10..13 :
        \/ c = 10 /\ TierOrder[r.tier] < EffectiveTier(b, CapsOf(r.caps))
        \/ c = 11 /\ CapsOf(r.caps) > Profile(r)
        \/ c = 12 /\ r.tier = "T3"
        \/ c = 13 /\ CapsOf(r.caps) = CapsOrder.broad
        \/ /\ c = 13 /\ CapsOf(r.caps) = CapsOrder.net
           /\ r.egress = {} \/ ~(r.egress \subseteq SealedProfiles)}

---------------------------------------------------------------------------

Leaves(code) == step' = "done" /\ rc' = code
\* P1 exits 125; the cgroup leaf is removed and the code returned
Aborts == Leaves(125) /\ UNCHANGED <<island, bound>>

\* The owner of the directory renames a file over a name
Swap(n, f) ==
    /\ ask.entry = "home" /\ step \notin {"done", "handed", "runs"}
    /\ swaps < MaxSwaps /\ names[n] # f
    /\ names' = [names EXCEPT ![n] = f]
    /\ swaps' = swaps + 1
    /\ UNCHANGED <<fixedVars, step, band, fd, pin, noexec, island, bound, wall, ran, rc>>

\* Without --tier there is no decision: the slice-1 path, at T1
Cli ==
    /\ step = "cli"
    /\ \/ /\ ask.tier = "unset" /\ step' = "handed" /\ wall' = "T1" /\ UNCHANGED rc
       \/ /\ ask.tier \in DOMAIN TierOrder /\ step' = "derive" /\ UNCHANGED <<wall, rc>>
       \/ /\ ask.tier \notin {"unset"} \cup DOMAIN TierOrder /\ Leaves(14) /\ UNCHANGED wall
    /\ UNCHANGED <<fixedVars, names, swaps, band, fd, pin, noexec, island, bound, ran>>

\* derive or derive_session: the file is opened once, measured and kept open.  Only a
\* file of the owner's directory is looked up: those of the sealed root are taken to
\* have no listed digest, which could make a shell of it T-first and nothing worse.
Derive ==
    LET file == names[EntryName]
        hit  == IF ask.entry = "home" /\ ~ask.harness THEN PinsOf(file) ELSE {}
    IN /\ step = "derive" /\ step' = "decide"
       /\ band' = DeriveBand(ask, hit)
       /\ IF band' = "pinned" THEN fd' = file /\ pin' = CHOOSE p \in hit : TRUE
          ELSE UNCHANGED <<fd, pin>>
       /\ UNCHANGED <<fixedVars, names, swaps, noexec, island, bound, wall, ran, rc>>

\* The tier of what was cleared, before the preflight of Landlock
Cleared(t) == step = "decide" /\ Refusals(ask, band) = {} /\ ask.tier = t

Refuse ==
    /\ step = "decide" /\ Refusals(ask, band) # {}
    /\ Leaves(CHOOSE c \in Refusals(ask, band) : \A d \in Refusals(ask, band) : c <= d)
    /\ UNCHANGED <<fixedVars, names, swaps, band, fd, pin, noexec, island, bound, wall, ran>>

\* A pinned workload has a home at T0 or nowhere
PinnedHomeless ==
    /\ band = "pinned" /\ (ask.tier # "T0" \/ ~world.landlock)
    /\ Cleared(ask.tier) /\ Leaves(15)
    /\ UNCHANGED <<fixedVars, names, swaps, band, fd, pin, noexec, island, bound, wall, ran>>

\* Mutant: a pinned workload falls up like any other
HandOn_Any ==
    /\ \/ Cleared("T2") /\ wall' = "T2"
       \/ Cleared("T1") /\ wall' = "T1"
       \/ Cleared("T0") /\ ~world.landlock /\ wall' = "T1"
    /\ step' = "handed"
    /\ UNCHANGED <<fixedVars, names, swaps, band, fd, pin, noexec, island, bound, ran, rc>>

\* T1, T2, and a T0 cell without Landlock, which falls up
HandOn ==
    /\ band # "pinned"
    /\ \/ Cleared("T2") /\ wall' = "T2"
       \/ Cleared("T1") /\ wall' = "T1"
       \/ Cleared("T0") /\ ~world.landlock /\ wall' = "T1"
    /\ step' = "handed"
    /\ UNCHANGED <<fixedVars, names, swaps, band, fd, pin, noexec, island, bound, ran, rc>>

\* proc_plane::construct: the leaf and its limits, then P1 joins it, unshares,
\* maps ids and makes its mounts private
Enter ==
    /\ Cleared("T0") /\ world.landlock
    /\ \/ step' = (IF band = "pinned" THEN "seal" ELSE "walls") /\ wall' = "T0" /\ UNCHANGED rc
       \/ \E code \in {3, 125} : Leaves(code) /\ UNCHANGED wall
    /\ UNCHANGED <<fixedVars, names, swaps, band, fd, pin, noexec, island, bound, ran>>

\* The three seals, before any bind that may execute
SealStep(from, at, next) ==
    /\ step = from
    /\ \/ step' = next /\ noexec' = noexec \cup {at} /\ UNCHANGED <<island, bound, rc>>
       \/ Aborts /\ UNCHANGED noexec
    /\ UNCHANGED <<fixedVars, names, swaps, band, fd, pin, wall, ran>>

SealGrants == SealStep("seal", "grants", IF pin.closure THEN "usr" ELSE "root")
\* and the configuration of the loader masked
SealUsr    == SealStep("usr", "usr", "root")
SealRoot   == SealStep("root", "root", "entry")

\* Mutant: what the name refers to now is bound without comparing it
BindEntry_ByName ==
    /\ step = "entry"
    /\ \/ /\ island' = [island EXCEPT ![EntryName] = names[EntryName]]
          /\ step' = "members" /\ UNCHANGED <<bound, rc>>
       \/ Aborts
    /\ UNCHANGED <<fixedVars, names, swaps, band, fd, pin, noexec, wall, ran>>

\* relocate_exec_island: opened again by name in the private namespace, and
\* bound only if it is the inode that was measured
BindEntry ==
    /\ step = "entry"
    /\ \/ /\ names[EntryName] = fd
          /\ island' = [island EXCEPT ![EntryName] = fd]
          /\ step' = "members" /\ UNCHANGED <<bound, rc>>
       \/ Aborts
    /\ UNCHANGED <<fixedVars, names, swaps, band, fd, pin, noexec, wall, ran>>

Members == MembersOf(pin)

\* relocate_member: whatever has the name must have the digest of the manifest
BindMember ==
    /\ step = "members" /\ bound < Len(Members)
    /\ LET m == Members[bound + 1] IN
       \/ /\ DigestOf[names[m.name]] = m.digest
          /\ island' = [island EXCEPT ![m.name] = names[m.name]]
          /\ bound' = bound + 1 /\ UNCHANGED <<step, rc>>
       \/ Aborts
    /\ UNCHANGED <<fixedVars, names, swaps, band, fd, pin, noexec, wall, ran>>

\* authenticate_closure of the entrypoint: its loader and what it needs are members
InClosure(e) ==
    /\ \E m \in Range(pin.interp) : m.name = InterpOf[e]
    /\ \A n \in NeededOf[e] : \E m \in Range(pin.libs) : m.name = n
\* reject_if_dynamic
LoaderFree(e) == InterpOf[e] = NoName

Authenticate ==
    /\ step = "members" /\ bound = Len(Members)
    /\ LET e == island[EntryName] IN
       \/ /\ IF pin.closure THEN InClosure(e) ELSE LoaderFree(e)
          /\ step' = "flags" /\ UNCHANGED <<island, bound, rc>>
       \/ Aborts
    /\ UNCHANGED <<fixedVars, names, swaps, band, fd, pin, noexec, wall, ran>>

\* verify_island_exec_flags
VerifyFlags ==
    /\ step = "flags"
    /\ \/ "root" \in noexec /\ step' = "walls" /\ UNCHANGED <<island, bound, rc>>
       \/ Aborts
    /\ UNCHANGED <<fixedVars, names, swaps, band, fd, pin, noexec, wall, ran>>

\* P2: descriptors closed, Landlock, seccomp
Walls ==
    /\ step = "walls"
    /\ \/ step' = "exec" /\ UNCHANGED rc
       \/ Leaves(126)
    /\ UNCHANGED <<fixedVars, names, swaps, band, fd, pin, noexec, island, bound, wall, ran>>

\* execve of the island, or of the enrolled program on the sealed root
Exec ==
    /\ step = "exec"
    /\ \/ step' = "runs" /\ ran' = island[EntryName] /\ UNCHANGED rc
       \/ Leaves(127) /\ UNCHANGED ran
    /\ UNCHANGED <<fixedVars, names, swaps, band, fd, pin, noexec, island, bound, wall>>

IslandInit ==
    /\ world \in Worlds /\ manifest \in Manifests /\ ask \in Asked
    /\ names \in Placed
    /\ swaps = 0 /\ step = "cli" /\ band = "hostile"
    /\ fd = NoFile /\ pin = NoBlock /\ noexec = {}
    /\ island = [n \in Places |-> NoFile]
    /\ bound = 0 /\ wall = "none" /\ ran = NoFile /\ rc = 0

IslandNext ==
    \/ \E n \in Places, f \in Artifacts : Swap(n, f)
    \/ Cli \/ Derive \/ Refuse \/ PinnedHomeless \/ HandOn
    \/ Enter \/ SealGrants \/ SealUsr \/ SealRoot
    \/ BindEntry \/ BindMember \/ Authenticate \/ VerifyFlags \/ Walls \/ Exec

IslandSpec == IslandInit /\ [][IslandNext]_islandVars

---------------------------------------------------------------------------

IslandTypeOK ==
    /\ names \in [Places -> Artifacts] /\ island \in [Places -> Artifacts \cup {NoFile}]
    /\ fd \in Artifacts \cup {NoFile} /\ ran \in Artifacts \cup {NoFile}
    /\ swaps \in 0..MaxSwaps /\ bound \in Nat
    /\ band \in DOMAIN Floor /\ wall \in DOMAIN TierOrder \cup {"none"}
    /\ step \in {"cli", "derive", "decide", "handed", "seal", "usr", "root", "entry",
                 "members", "flags", "walls", "exec", "runs", "done"}
    /\ noexec \subseteq {"grants", "usr", "root"} /\ rc \in Nat

\* The lines of the manifest that speak of a digest as something to run
LinesOf(d) == {i \in DOMAIN manifest.lines : /\ manifest.lines[i].digest = d
                                             /\ manifest.lines[i].kind \in {"pin", "entry"}}

\* A line of the block that line i opens, which names n for kind k
Lists(i, k, n, d) ==
    \E j \in DOMAIN manifest.lines :
        /\ j > i /\ manifest.lines[j].kind = k /\ manifest.lines[j].name = n
        /\ manifest.lines[j].digest = d
        /\ \A l \in (i + 1)..j : manifest.lines[l].kind \notin {"pin", "entry"}

\* sandbox::cli, provenance_plane, mount_plane and proc_plane together: what a pinned
\* construction executes is the very file it measured, whatever was renamed
\* over its name since; one line of the manifest, and only one, speaks of its
\* digest; the interpreter it asks for and the libraries it needs are mapped from
\* files whose digests the same block lists under those names; and nothing else
\* that the loader could be pointed to can be mapped as code.
MeasuredRuns ==
    ran # NoFile =>
        /\ ran = fd /\ band = "pinned" /\ wall = "T0"
        /\ {"grants", "root"} \subseteq noexec
        /\ InterpOf[ran] # NoName => "usr" \in noexec
        /\ \E i \in LinesOf(DigestOf[ran]) :
              /\ LinesOf(DigestOf[ran]) = {i} /\ manifest.lines[i].closed
              /\ InterpOf[ran] # NoName =>
                    /\ Lists(i, "interp", InterpOf[ran], DigestOf[island[InterpOf[ran]]])
                    /\ \A n \in NeededOf[ran] : Lists(i, "lib", n, DigestOf[island[n]])

\* The wall fits what was measured: below T2 only an enrolled program of the sealed
\* root or, at T0 alone, a file pinned as closed-world; and no wall is built
\* for authority beyond the profile or for a network outside the sealed table.
WallFits ==
    wall # "none" /\ ask.tier # "unset" =>
        /\ \/ wall = "T2"
           \/ Enrolled(ask) /\ ~ask.harness
           \/ wall = "T0" /\ fd # NoFile /\ \E i \in LinesOf(DigestOf[fd]) : manifest.lines[i].closed
        /\ CapsOf(ask.caps) <= Profile(ask)
        /\ CapsOf(ask.caps) < CapsOrder.broad
        /\ CapsOf(ask.caps) = CapsOrder.net =>
              ask.egress # {} /\ ask.egress \subseteq SealedProfiles

\* What the exec island of gatekeeperd is for: what runs behind the weakest wall is
\* what was measured, with the libraries listed for it, and nothing that was not
\* measured gets a weaker wall, or more authority, than the policy has for it.
IslandHolds == MeasuredRuns /\ WallFits
=============================================================================
