----------------------------- MODULE SwampIndex -----------------------------
(***************************************************************************)
(* swampd's map of one indexable member tree: the durable index (objects,  *)
(* full text, vectors), the crawl that fills it, the inotify watcher that  *)
(* repairs it, and the reactor that serves it with a freshness mark.       *)
(* The user changes the tree between any two steps of the daemon.          *)
(*                                                                         *)
(* A path is <<>> (the member root), <<d>> (a directory in it) or <<d, f>> *)
(* (a file of that directory).  Files belong to the directory's inode, so  *)
(* a renamed directory takes them along; a watch belongs to the inode too. *)
(***************************************************************************)
EXTENDS Naturals, Sequences, FiniteSets

CONSTANTS
    DirNames,    \* names a directory of the root can have
    NeverNames,  \* those among them that are never indexable (or pruned)
    FileNames,   \* names of files
    Inos,        \* inode numbers of directories, the root's apart
    Texts,       \* contents that are UTF-8 text, all of one size
    Odd,         \* contents of the same size that are not text
    Huge,        \* contents over MAX_FTS_BYTES
    MaxClock,    \* bound: seconds of the clock that stamps a write
    QueueLimit,  \* events the inotify queue holds
    MaxOps,      \* bound: changes the user makes
    MaxFaults,   \* bound: crashes, failed watches, failed writes, embed failures
    Faults,      \* subset of {"crash", "watch", "write", "embed"}
    MoveDirs     \* BOOLEAN: does the user rename directories?

ASSUME SwampAssumption ==
    /\ NeverNames \subseteq DirNames
    /\ {MaxClock, QueueLimit, MaxOps, MaxFaults} \subseteq Nat
    /\ MoveDirs \in BOOLEAN
    /\ "root" \notin Inos /\ "none" \notin Inos
    /\ "none" \notin Texts \cup Odd \cup Huge
    /\ {"none", "out"} \cap DirNames = {}
    /\ Texts \cap (Odd \cup Huge) = {} /\ Odd \cap Huge = {}

VARIABLES
    at,       \* tree: the inode of each directory name, of "out" outside the tree
    file,     \* tree: per inode and file name, its content and mtime or "none"
    clock,    \* seconds
    watched,  \* kernel: the inodes with a watch
    queue,    \* kernel: pending inotify events
    row,      \* index: (mtime, content size) of every mapped path or "none"
    fts,      \* index: the searchable text of a mapped file or "none"
    vec,      \* index: the text its vectors were made of, "part" or "none"
    up,       \* daemon: "down", "boot" (first reconcile) or "serving"
    sem,      \* daemon: is an embedding provider configured?
    wds,      \* daemon: the path it believes each watched inode has
    fresh, degraded, \* daemon: Freshness and the watcher's health
    batch,    \* daemon: "no", "yes" or "overflow": the drain it is in
    full,     \* daemon: is a full reconcile under way?
    live,     \* daemon: paths the full reconcile has met
    frames,   \* daemon: entries still to visit, per directory being walked
    cur,      \* daemon: the step inside index_object or walk it is at
    ops, faults, \* bounds
    moved,    \* ghost: a directory was renamed since the last full reconcile began
    lost,     \* ghost: watches left, by a full reconcile, under a path that is not
              \* their directory's
    owed,     \* ghost: paths whose row or text a crash, a failed write or a read
              \* that found another file than the stat left behind
    lag       \* ghost: paths whose vectors a failed or absent provider left behind

treeVars   == <<at, file, clock, ops, moved>>
kernelVars == <<watched, queue>>
indexVars  == <<row, fts, vec>>
wdVars     == <<wds, lost>>
daemonVars == <<up, sem, wdVars, fresh, degraded, batch, full, live, frames, cur>>
ghostVars  == <<owed, lag>>
swampVars  == <<treeVars, kernelVars, indexVars, daemonVars, faults, ghostVars>>

---------------------------------------------------------------------------
(* The tree and its paths *)

Contents == Texts \cup Odd \cup Huge
AllInos  == Inos \cup {"root"}
Places   == DirNames \cup {"out"}
Root     == <<>>
DirPaths == {Root} \cup {<<d>> : d \in DirNames}
NoPath   == <<"none">>
NoFile   == [content |-> "none", mtime |-> 0]
NoRow    == <<>>
Files    == DirNames \X FileNames
Paths    == DirPaths \cup Files
Beneath(p, q) == Len(q) <= Len(p) /\ \A k \in 1..Len(q) : p[k] = q[k]

DirIno(p) == IF p = Root THEN "root" ELSE at[p[1]]
Stat(p)   == IF at[p[1]] = "none" THEN NoFile ELSE file[at[p[1]]][p[2]]
Exists(p) == IF Len(p) = 2 THEN Stat(p) # NoFile ELSE DirIno(p) # "none"

\* is_never_indexable and domain_for over the components of a path
Indexable(p) == p = Root \/ p[1] \notin NeverNames
TextOf(c) == IF c \in Texts THEN c ELSE "none"
SizeOf(c) == IF c \in Huge THEN 1 ELSE 0
Meta(s)   == <<s.mtime, SizeOf(s.content)>>
\* What is read now is the file the row was made of
Read(p)   == Exists(p) /\ row[p] = Meta(Stat(p))

---------------------------------------------------------------------------
(* inotify, as the kernel delivers it: events of one change are queued     *)
(* together, those of unwatched inodes not at all, and a full queue holds  *)
(* one overflow mark in place of everything it drops.                      *)

Ev(i, what, name) == [wd |-> i, what |-> what, name |-> name]
Overflow == Ev("none", "overflow", "none")

Queued(q, e) == IF Len(q) < QueueLimit THEN Append(q, e)
                ELSE IF q # <<>> /\ q[Len(q)] = Overflow THEN q
                ELSE Append(q, Overflow)

Told(q, e) == IF e.wd \in watched THEN Queued(q, e) ELSE q

NoFiles == [f \in FileNames |-> NoFile]
Change  == ops < MaxOps /\ ops' = ops + 1

\* An inode number nothing refers to any more
FreeIno(i) ==
    /\ \A d \in Places : at[d] # i
    /\ i \notin watched /\ wds[i] = NoPath
    /\ \A n \in 1..Len(queue) : queue[n].wd # i

MkDir(d) ==
    /\ Change /\ at[d] = "none"
    /\ \E i \in Inos : FreeIno(i) /\ at' = [at EXCEPT ![d] = i]
    /\ queue' = Told(queue, Ev("root", "create_dir", d))
    /\ UNCHANGED <<file, clock, watched, moved>>

RmDir(d) ==
    LET i == at[d] IN
    /\ Change /\ i # "none" /\ file[i] = NoFiles
    /\ at' = [at EXCEPT ![d] = "none"]
    /\ watched' = watched \ {i}
    /\ queue' = Told(Told(Told(queue, Ev("root", "delete_dir", d)),
                          Ev(i, "delete_self", "none")), Ev(i, "ignored", "none"))
    /\ UNCHANGED <<file, clock, moved>>

\* rename(2) of a directory, also into and out of the tree
MvDir(d, e) ==
    LET i == at[d]
        From == IF d = "out" THEN queue ELSE Told(queue, Ev("root", "from_dir", d))
        To   == IF e = "out" THEN From ELSE Told(From, Ev("root", "to_dir", e)) IN
    /\ MoveDirs /\ Change /\ i # "none" /\ at[e] = "none"
    /\ at' = [at EXCEPT ![d] = "none", ![e] = i]
    /\ moved' = TRUE
    /\ queue' = Told(To, Ev(i, "move_self", "none"))
    /\ UNCHANGED <<file, clock, watched>>

\* open(O_TRUNC), write, close of new or old file: a second of its own stamps it
Save(d, f, c) ==
    LET i == at[d]
        New == IF file[i][f] = NoFile THEN Told(queue, Ev(i, "create", f)) ELSE queue IN
    /\ Change /\ clock < MaxClock /\ i # "none"
    /\ clock' = clock + 1
    /\ file' = [file EXCEPT ![i][f] = [content |-> c, mtime |-> clock]]
    /\ queue' = Told(New, Ev(i, "close_write", f))
    /\ UNCHANGED <<at, watched, moved>>

RmFile(d, f) ==
    LET i == at[d] IN
    /\ Change /\ i # "none" /\ file[i][f] # NoFile
    /\ file' = [file EXCEPT ![i][f] = NoFile]
    /\ queue' = Told(queue, Ev(i, "delete", f))
    /\ UNCHANGED <<at, clock, watched, moved>>

\* rename(2) of a file over whatever is there
MvFile(d, e, f) ==
    LET i == at[d]
        j == at[e] IN
    /\ Change /\ i # j /\ i # "none" /\ j # "none" /\ file[i][f] # NoFile
    /\ file' = [file EXCEPT ![i][f] = NoFile, ![j][f] = file[i][f]]
    /\ queue' = Told(Told(queue, Ev(i, "from", f)), Ev(j, "to", f))
    /\ UNCHANGED <<at, clock, watched, moved>>

User ==
    /\ \/ \E d \in DirNames : MkDir(d) \/ RmDir(d)
       \/ \E d, e \in Places : MvDir(d, e)
       \/ \E d \in Places, f \in FileNames :
             \/ \E c \in Contents : Save(d, f, c)
             \/ RmFile(d, f)
             \/ \E e \in Places : MvFile(d, e, f)
    /\ UNCHANGED <<indexVars, daemonVars, faults, ghostVars>>

---------------------------------------------------------------------------
(* Statements on the index, each a commit of its own; a failed one is      *)
(* ignored by its caller.                                                  *)

Fault(kind) == kind \in Faults /\ faults < MaxFaults /\ faults' = faults + 1
Without(g, S) == [p \in Paths |-> IF p \in S THEN "none" ELSE g[p]]

\* The debt of a directory covers what is under it: it may be without a watch
Repay(S) == owed \ {p \in S : \A q \in owed : Beneath(p, q) => q = p}

\* Mutant: foreign_keys is off, so nothing cascades to the vectors
Retract_Orphans(S) ==
    /\ row' = [p \in Paths |-> IF p \in S THEN NoRow ELSE row[p]]
    /\ fts' = Without(fts, S)
    /\ UNCHANGED <<vec, faults, ghostVars>>

\* delete_path and delete_subtree; vectors go by the cascade
Retract(S) ==
    \/ /\ row' = [p \in Paths |-> IF p \in S THEN NoRow ELSE row[p]]
       /\ fts' = Without(fts, S) /\ vec' = Without(vec, S)
       /\ owed' = Repay({p \in S : ~Exists(p) \/ ~Indexable(p)})
       /\ lag' = lag \ S
       /\ UNCHANGED faults
    \/ /\ Fault("write") /\ (\E p \in S : row[p] # NoRow)
       /\ owed' = owed \cup S
       /\ UNCHANGED <<indexVars, lag>>

KeepIndex == UNCHANGED <<indexVars, faults, ghostVars>>

Idle  == [op |-> "none"]
At(op, p) == [op |-> op, path |-> p]

---------------------------------------------------------------------------
(* index_object and walk *)

\* index_object on a directory; walk arms and reads it only if it was mapped
MapDir(p) ==
    IF ~Exists(p) \/ ~Indexable(p)
    THEN Retract({p}) /\ cur' = Idle /\ UNCHANGED live
    ELSE \/ /\ row' = [row EXCEPT ![p] = <<0, 0>>]
            /\ cur' = At("arm", p)
            /\ live' = IF full THEN live \cup {p} ELSE live
            /\ owed' = Repay({p})
            /\ UNCHANGED <<fts, vec, faults, lag>>
         \/ /\ Fault("write")
            /\ owed' = owed \cup {q \in Paths : Beneath(q, p)}
            /\ cur' = Idle
            /\ UNCHANGED <<indexVars, lag, live>>

\* index_object on a file: stat, policy gate, upsert, then what its text needs
MapFile(p) ==
    LET s == Stat(p)
        unchanged == row[p] = Meta(s)
        big == SizeOf(s.content) > 0 IN
    IF s = NoFile \/ ~Indexable(p)
    THEN Retract({p}) /\ cur' = Idle /\ UNCHANGED live
    ELSE \/ /\ row' = [row EXCEPT ![p] = Meta(s)]
            /\ live' = IF full THEN live \cup {p} ELSE live
            /\ cur' = IF big THEN Idle
                      ELSE At(IF unchanged THEN "revec" ELSE "text", p)
            /\ fts' = IF big THEN Without(fts, {p}) ELSE fts
            /\ vec' = IF big THEN Without(vec, {p}) ELSE vec
            /\ owed' = IF big THEN Repay({p}) ELSE owed
            /\ lag' = IF big THEN lag \ {p} ELSE lag
            /\ UNCHANGED faults
         \/ /\ Fault("write")
            /\ owed' = owed \cup {p} /\ cur' = Idle
            /\ UNCHANGED <<indexVars, lag, live>>

\* arm_dir: add_watch resolves the path again and answers the inode's one wd
ArmDir ==
    LET p == cur.path
        i == DirIno(p) IN
    /\ cur.op = "arm"
    /\ cur' = At("read", p)
    /\ \/ /\ i # "none"
          /\ watched' = watched \cup {i}
          /\ wds' = [wds EXCEPT ![i] = p]
          /\ lost' = IF full THEN lost \ {i} ELSE lost
          /\ UNCHANGED <<degraded, faults>>
       \/ /\ \/ i = "none" /\ UNCHANGED faults
             \/ i # "none" /\ Fault("watch")
          /\ degraded' = TRUE
          /\ UNCHANGED <<watched, wdVars>>
    /\ UNCHANGED <<treeVars, queue, indexVars, ghostVars, up, sem, fresh, batch, full,
                   live, frames>>

Entries(p) == IF p = Root THEN {<<d>> : d \in {d \in DirNames : at[d] # "none"}}
              ELSE {<<p[1], f>> : f \in {f \in FileNames : Stat(<<p[1], f>>) # NoFile}}

ReadDir ==
    /\ cur.op = "read"
    /\ cur' = Idle
    /\ frames' = IF Entries(cur.path) = {} THEN frames ELSE <<Entries(cur.path)>> \o frames
    /\ KeepIndex
    /\ UNCHANGED <<treeVars, kernelVars, up, sem, wdVars, fresh, degraded, batch, full, live>>

\* the next entry of the innermost directory; one that is gone is passed over
Visit(p) ==
    LET Rest == Head(frames) \ {p} IN
    /\ up # "down" /\ cur = Idle /\ frames # <<>> /\ p \in Head(frames)
    /\ frames' = IF Rest = {} THEN Tail(frames) ELSE <<Rest>> \o Tail(frames)
    /\ IF ~Exists(p) THEN KeepIndex /\ UNCHANGED <<live, cur>>
       ELSE IF Len(p) = 1 THEN MapDir(p) ELSE MapFile(p)
    /\ UNCHANGED <<treeVars, kernelVars, up, sem, wdVars, fresh, degraded, batch, full>>

\* Mutant: a file that is no text any more keeps the text it had
SetText_Keeps ==
    LET p == cur.path
        t == TextOf(Stat(p).content) IN
    /\ cur.op = "text"
    /\ fts' = IF t = "none" THEN fts ELSE [fts EXCEPT ![p] = t]
    /\ cur' = IF t # "none" /\ sem THEN [op |-> "embed", path |-> p, text |-> t] ELSE Idle
    /\ UNCHANGED <<row, vec, faults, ghostVars>>
    /\ UNCHANGED <<treeVars, kernelVars, up, sem, wdVars, fresh, degraded, batch, full, live, frames>>

\* extract_text and set_fts, or clear_fts and clear_object_vectors
SetText ==
    LET p == cur.path
        t == TextOf(Stat(p).content) IN
    /\ cur.op = "text"
    /\ \/ /\ fts' = [fts EXCEPT ![p] = t]
          /\ vec' = IF t = "none" THEN Without(vec, {p}) ELSE vec
          /\ cur' = IF t # "none" /\ sem THEN [op |-> "embed", path |-> p, text |-> t] ELSE Idle
          /\ owed' = IF Read(p) THEN Repay({p}) ELSE owed \cup {p}
          /\ lag' = IF t = "none" THEN lag \ {p}
                    ELSE IF sem \/ vec[p] \in {"none", t} THEN lag ELSE lag \cup {p}
          /\ UNCHANGED <<row, faults>>
       \/ /\ Fault("write")
          /\ owed' = owed \cup {p} /\ cur' = Idle
          /\ lag' = lag \cup {p}
          /\ UNCHANGED indexVars
    /\ UNCHANGED <<treeVars, kernelVars, up, sem, wdVars, fresh, degraded, batch, full, live, frames>>

\* reembed_if_vectors_missing: only an object with no chunk at all is read again
ReVec ==
    LET p == cur.path
        t == TextOf(Stat(p).content) IN
    /\ cur.op = "revec"
    /\ IF sem /\ vec[p] = "none" /\ t # "none"
       THEN /\ cur' = [op |-> "embed", path |-> p, text |-> t]
            /\ owed' = IF Read(p) THEN owed ELSE owed \cup {p}
       ELSE cur' = Idle /\ UNCHANGED owed
    /\ UNCHANGED <<indexVars, faults, lag>>
    /\ UNCHANGED <<treeVars, kernelVars, up, sem, wdVars, fresh, degraded, batch, full, live, frames>>

\* enrich_semantic: skip equal chunks, embed, replace; a failure leaves the old ones
Embed ==
    LET p == cur.path IN
    /\ cur.op = "embed"
    /\ cur' = Idle
    /\ \/ /\ vec' = [vec EXCEPT ![p] = cur.text]
          /\ lag' = lag \ {p}
          /\ UNCHANGED faults
       \/ /\ vec[p] # cur.text /\ Fault("embed")
          /\ lag' = lag \cup {p}
          /\ UNCHANGED vec
    /\ UNCHANGED <<row, fts, owed>>
    /\ UNCHANGED <<treeVars, kernelVars, up, sem, wdVars, fresh, degraded, batch, full, live, frames>>

---------------------------------------------------------------------------
(* The watcher: process drains the queue, apply_event acts on one event *)

Forget(p) == [i \in AllInos |-> IF wds[i] # NoPath /\ Beneath(wds[i], p) THEN NoPath ELSE wds[i]]
Sub(p) == {q \in Paths : Beneath(q, p)}

ApplyEvent ==
    LET e == Head(queue)
        dir == IF e.wd = "none" THEN NoPath ELSE wds[e.wd]
        p == Append(dir, e.name)
        Keep == KeepIndex /\ UNCHANGED <<wds, live, cur>> IN
    /\ up = "serving" /\ ~full /\ cur = Idle /\ frames = <<>> /\ queue # <<>>
    /\ queue' = Tail(queue)
    /\ batch' = IF e.what = "overflow" \/ batch = "overflow" THEN "overflow" ELSE "yes"
    /\ IF e.what = "overflow" THEN Keep
       ELSE IF e.what = "ignored"
       THEN wds' = [wds EXCEPT ![e.wd] = NoPath] /\ KeepIndex /\ UNCHANGED <<live, cur>>
       ELSE IF dir = NoPath THEN Keep
       ELSE CASE e.what \in {"delete_self", "move_self"} ->
                   Retract(Sub(dir)) /\ wds' = Forget(dir) /\ UNCHANGED <<live, cur>>
              [] e.what \in {"delete_dir", "from_dir"} ->
                   Retract(Sub(p)) /\ wds' = Forget(p) /\ UNCHANGED <<live, cur>>
              [] e.what \in {"delete", "from"} ->
                   Retract({p}) /\ UNCHANGED <<wds, live, cur>>
              [] e.what \in {"create_dir", "to_dir"} -> MapDir(p) /\ UNCHANGED wds
              [] e.what \in {"create", "to", "close_write"} -> MapFile(p) /\ UNCHANGED wds
    /\ UNCHANGED <<treeVars, watched, lost, up, sem, fresh, degraded, full, frames>>

\* reconcile_full starts at the member root
Reconcile == full' = TRUE /\ live' = {} /\ frames' = <<{Root}>>

\* It forgets no watch: one that an overflow left under the path of another
\* directory, or that nobody will report as moved, stays there
Lost == {i \in watched \ {"root"} : wds[i] # NoPath /\ (DirIno(wds[i]) # i \/ "root" \notin watched)}

\* Mutant: the overflow mark of a drain is not reset, so every drain reconciles again
Drained_Again ==
    /\ up = "serving" /\ ~full /\ cur = Idle /\ frames = <<>> /\ queue = <<>> /\ batch # "no"
    /\ IF batch = "overflow"
       THEN degraded' = FALSE /\ Reconcile /\ moved' = FALSE /\ lost' = Lost /\ UNCHANGED <<fresh, batch>>
       ELSE /\ fresh' = (fresh /\ ~degraded) /\ batch' = "no"
            /\ UNCHANGED <<degraded, full, live, frames, moved, lost>>
    /\ KeepIndex
    /\ UNCHANGED <<at, file, clock, ops, kernelVars, up, sem, wds, cur>>

\* the read answers EAGAIN: an overflow asks for a full reconcile and re-arm
Drained ==
    /\ up = "serving" /\ ~full /\ cur = Idle /\ frames = <<>> /\ queue = <<>> /\ batch # "no"
    /\ batch' = "no"
    /\ IF batch = "overflow"
       THEN degraded' = FALSE /\ Reconcile /\ moved' = FALSE /\ lost' = Lost /\ UNCHANGED fresh
       ELSE /\ fresh' = (fresh /\ ~degraded)
            /\ UNCHANGED <<degraded, full, live, frames, moved, lost>>
    /\ KeepIndex
    /\ UNCHANGED <<at, file, clock, ops, kernelVars, up, sem, wds, cur>>

\* the member root is mapped and armed like any directory
WalkRoot ==
    /\ up # "down" /\ cur = Idle /\ frames = <<{Root}>>
    /\ frames' = <<>>
    /\ MapDir(Root)
    /\ UNCHANGED <<treeVars, kernelVars, up, sem, wdVars, fresh, degraded, batch, full>>

\* prune_absent over the paths met, then the freshness of this pass
Prune ==
    LET Stale == {p \in Paths : row[p] # NoRow /\ p \notin live} IN
    /\ full /\ cur = Idle /\ frames = <<>>
    /\ Retract(Stale)
    /\ full' = FALSE /\ live' = {}
    /\ fresh' = ~degraded
    /\ up' = "serving"
    /\ UNCHANGED <<treeVars, kernelVars, sem, wdVars, degraded, batch, frames, cur>>

---------------------------------------------------------------------------
(* The daemon's life *)

\* main serve: open the durable index, a new inotify instance, reconcile.
\* A changed semantic_version drops every vector.
Boot ==
    /\ up = "down"
    /\ up' = "boot" /\ sem' \in BOOLEAN
    /\ watched' = {} /\ queue' = <<>>
    /\ wds' = [i \in AllInos |-> NoPath] /\ lost' = {}
    /\ fresh' = FALSE /\ degraded' = FALSE /\ batch' = "no"
    /\ Reconcile /\ cur' = Idle
    /\ moved' = FALSE
    /\ \/ UNCHANGED <<vec, lag>>
       \/ sem' /\ vec' = Without(vec, Paths) /\ lag' = {}
    /\ UNCHANGED <<at, file, clock, ops, row, fts, owed, faults>>

\* A kill or power loss between two commits of the enrichment under way
Crash ==
    /\ up # "down" /\ Fault("crash")
    /\ up' = "down" /\ cur' = Idle /\ frames' = <<>> /\ full' = FALSE /\ live' = {}
    /\ batch' = "no" /\ fresh' = FALSE /\ degraded' = FALSE
    /\ watched' = {} /\ queue' = <<>>
    /\ wds' = [i \in AllInos |-> NoPath] /\ lost' = {}
    /\ IF cur.op = "text"
       THEN fts' \in {fts, Without(fts, {cur.path})} /\ owed' = owed \cup {cur.path}
       ELSE UNCHANGED <<fts, owed>>
    /\ IF cur.op \in {"embed", "text"}
       THEN /\ vec' \in IF cur.op = "embed"
                        THEN {vec, [vec EXCEPT ![cur.path] = "part"], Without(vec, {cur.path})}
                        ELSE {vec}
            /\ lag' = lag \cup {cur.path}
       ELSE UNCHANGED <<vec, lag>>
    /\ UNCHANGED <<treeVars, row, sem>>

Daemon == \/ Boot \/ WalkRoot \/ ArmDir \/ ReadDir
          \/ \E p \in Paths \ {Root} : Visit(p)
          \/ SetText \/ ReVec \/ Embed
          \/ ApplyEvent \/ Drained \/ Prune

SwampInit ==
    /\ at = [d \in Places |-> "none"]
    /\ file = [i \in Inos |-> NoFiles]
    /\ clock = 0 /\ ops = 0 /\ faults = 0
    /\ watched = {} /\ queue = <<>>
    /\ row = [p \in Paths |-> NoRow]
    /\ fts = [p \in Paths |-> "none"] /\ vec = fts
    /\ up = "down" /\ sem = FALSE
    /\ wds = [i \in AllInos |-> NoPath] /\ lost = {}
    /\ fresh = FALSE /\ degraded = FALSE /\ batch = "no"
    /\ full = FALSE /\ live = {} /\ frames = <<>> /\ cur = Idle
    /\ moved = FALSE /\ owed = {} /\ lag = {}

SwampNext == User \/ Daemon \/ Crash
SwampSpec == SwampInit /\ [][SwampNext]_swampVars

\* The reactor keeps running: poll returns whenever there is something to do
SwampFairness == WF_swampVars(Daemon)
SwampFairSpec == SwampSpec /\ SwampFairness

---------------------------------------------------------------------------
(* What the index owes its readers *)

\* The types of the tree, the kernel's queue, the index and the daemon.
SwampTypeOK ==
    /\ at \in [Places -> Inos \cup {"none"}]
    /\ \A i \in Inos, f \in FileNames :
          \/ file[i][f] = NoFile
          \/ file[i][f] \in [content : Contents, mtime : Nat]
    /\ watched \subseteq AllInos
    /\ \A n \in 1..Len(queue) : queue[n].wd \in AllInos \cup {"none"}
    /\ \A p \in Paths : row[p] = NoRow \/ row[p] \in Nat \X {0, 1}
    /\ fts \in [Paths -> Texts \cup {"none"}]
    /\ vec \in [Paths -> Texts \cup {"none", "part"}]
    /\ up \in {"down", "boot", "serving"} /\ batch \in {"no", "yes", "overflow"}
    /\ {sem, fresh, degraded, full, moved} \subseteq BOOLEAN
    /\ wds \in [AllInos -> DirPaths \cup {NoPath}]
    /\ live \cup owed \cup lag \subseteq Paths
    /\ cur.op \in {"none", "arm", "read", "text", "revec", "embed"}
    /\ cur # Idle => cur.path \in Paths

\* The reactor at rest: every event applied, no walk under way.
Quiet == /\ up = "serving" /\ ~full /\ cur = Idle /\ frames = <<>>
         /\ queue = <<>> /\ batch = "no"

\* At rest and FRESH, with every watch at the path of its directory
AtRest == Quiet /\ fresh /\ lost = {}

\* FRESH says the map is current: at rest, everything indexable of the tree is
\* mapped with the metadata it has, whatever raced the walk, was lost by the
\* queue or happened while the daemon was down - a renamed directory since the
\* last full reconcile, and what a failed commit left behind, apart.
FreshMapsAll ==
    AtRest /\ ~moved =>
        \A p \in Paths \ owed : Exists(p) /\ Indexable(p) =>
            /\ row[p] # NoRow
            /\ Len(p) = 2 => row[p] = Meta(Stat(p))

\* Deletion really removes: at rest and FRESH nothing gone, moved away or under a
\* never-indexable name is still mapped, searchable or embedded, renames included.
NothingGone ==
    AtRest =>
        \A p \in Paths \ owed :
            row[p] # NoRow \/ fts[p] # "none" \/ vec[p] # "none" => Exists(p) /\ Indexable(p)

\* At rest and FRESH the searchable text of a mapped file is the text it has, and
\* a file that turned binary or huge has none.
TextCurrent ==
    AtRest /\ ~moved =>
        \A p \in Files \ owed : row[p] # NoRow => fts[p] = TextOf(Stat(p).content)

\* At rest and FRESH vectors, whose chunks are what a semantic hit quotes, were
\* made of the text the file has, unless an embed failed or was cut short.
VectorsCurrent ==
    AtRest /\ ~moved =>
        \A p \in Files \ (owed \cup lag) : vec[p] \in {"none", TextOf(Stat(p).content)}

\* What FRESH promises a reader: the map is the tree, texts and vectors included.
FreshIsCurrent == FreshMapsAll /\ NothingGone /\ TextCurrent /\ VectorsCurrent

\* Text and vectors hang off an object row at every moment, crashes included: a
\* search cannot quote a path that discover does not know.
HangOff == \A p \in Paths : fts[p] # "none" \/ vec[p] # "none" => row[p] # NoRow

\* The map at rest is the tree, and at every moment in itself consistent (crawl,
\* apply_one, retract_path).
MapSound == FreshIsCurrent /\ HangOff

\* When the user stops, the daemon comes to rest: no drain or overflow starts the
\* next one for ever.
Settles == <>[]Quiet

\* The claim of slice 3 without exceptions: a rename leaves the state that
\* delete-old and add-new would.
RenameFollowed ==
    AtRest =>
        \A p \in Paths \ owed : Exists(p) /\ Indexable(p) => row[p] # NoRow
=============================================================================
