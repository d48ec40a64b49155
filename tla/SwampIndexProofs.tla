-------------------------- MODULE SwampIndexProofs --------------------------
(***************************************************************************)
(* What swampd serves as FRESH is the tree: for any directories, files and *)
(* contents, any length of the kernel's queue, any number of changes in    *)
(* any order beside the daemon's steps, crashes, failed writes, watches    *)
(* that could not be added and queues that overflowed.                     *)
(*                                                                         *)
(* The argument.  While nothing was lost (Good) the queue accounts for     *)
(* every difference between tree and map: what is mapped is there or the   *)
(* event that retracts it is pending (RowOK), and what is there is mapped  *)
(* as it is, owed, still to be visited by the walk, or the event that maps *)
(* it is pending (CoverOK).  That takes that events come in the order of   *)
(* their changes (QueueOK), that a watch has the path of its directory     *)
(* until the event that ends it (WatchOK), and that the walk arms a        *)
(* directory before it reads it (FrameOK).  At rest queue and walk are     *)
(* empty, so what is left is that the map is the tree.                     *)
(***************************************************************************)
EXTENDS SwampIndex, SequenceTheorems, TLAPS

---------------------------------------------------------------------------
(* Types *)

Dirs1 == {<<d>> : d \in DirNames}
DirGone   == {"delete_dir", "from_dir"}
DirThere  == {"create_dir", "to_dir"}
FileGone  == {"delete", "from"}
FileThere == {"create", "to", "close_write"}
Events == {Overflow}
    \cup {Ev("root", k, d) : k \in DirGone \cup DirThere, d \in DirNames}
    \cup {Ev(i, k, "none") : i \in Inos, k \in {"delete_self", "move_self", "ignored"}}
    \cup {Ev(i, k, f) : i \in Inos, k \in FileGone \cup FileThere, f \in FileNames}
Stats == [content : Contents, mtime : Nat]
Metas == Nat \X {0, 1}
Steps == {Idle} \cup {At(k, p) : k \in {"arm", "read"}, p \in DirPaths}
    \cup {At(k, p) : k \in {"text", "revec"}, p \in Files}
    \cup {[op |-> "embed", path |-> p, text |-> t] : p \in Files, t \in Texts}

TreeTyped ==
    /\ at \in [Places -> Inos \cup {"none"}]
    /\ file \in [Inos -> [FileNames -> Stats \cup {NoFile}]]
    /\ clock \in Nat /\ moved \in BOOLEAN
KernelTyped == watched \subseteq AllInos /\ queue \in Seq(Events)
IndexTyped ==
    /\ row \in [Paths -> Metas \cup {NoRow}]
    /\ fts \in [Paths -> Texts \cup {"none"}]
    /\ vec \in [Paths -> Texts \cup {"none", "part"}]
    /\ owed \subseteq Paths /\ lag \subseteq Paths
DaemonTyped ==
    /\ up \in {"down", "boot", "serving"} /\ batch \in {"no", "yes", "overflow"}
    /\ sem \in BOOLEAN /\ fresh \in BOOLEAN /\ degraded \in BOOLEAN /\ full \in BOOLEAN
    /\ wds \in [AllInos -> DirPaths \cup {NoPath}]
    /\ wds["root"] \in {Root, NoPath} /\ \A i \in Inos : wds[i] # Root
    /\ lost \subseteq Inos
    /\ live \subseteq Paths /\ frames \in Seq(SUBSET Paths) /\ cur \in Steps
Typed == TreeTyped /\ KernelTyped /\ IndexTyped /\ DaemonTyped

---------------------------------------------------------------------------
(* Paths *)

\* A path is the root, a directory of it or a file of one of those.
LEMMA PathKinds ==
    /\ Root \in Paths /\ Root \in DirPaths /\ Root \notin Files /\ Len(Root) = 0
    /\ \A d \in DirNames : <<d>> \in Paths /\ <<d>> \in DirPaths /\ <<d>> \notin Files
                           /\ Len(<<d>>) = 1 /\ <<d>> # Root
    /\ \A d \in DirNames, f \in FileNames : <<d, f>> \in Paths /\ <<d, f>> \in Files
                           /\ <<d, f>> \notin DirPaths /\ Len(<<d, f>>) = 2
    /\ \A p \in Paths : p = Root \/ p \in Dirs1 \/ p \in Files
    /\ \A p \in Files : p[1] \in DirNames /\ p[2] \in FileNames /\ p = <<p[1], p[2]>> /\ Len(p) = 2
  BY DEF Root, Paths, DirPaths, Files, Dirs1

\* What lies beneath the root, a directory and a file.
LEMMA BeneathFacts ==
    /\ \A p \in Paths : Beneath(p, Root)
    /\ \A d \in DirNames : ~Beneath(Root, <<d>>)
    /\ \A d, e \in DirNames : Beneath(<<d>>, <<e>>) <=> d = e
    /\ \A p \in Files, d \in DirNames : Beneath(p, <<d>>) <=> p[1] = d
    /\ \A p, q \in Files : Beneath(p, q) <=> p = q
    /\ \A p \in Files, d \in DirNames : ~Beneath(<<d>>, p)
    /\ \A p \in Files : ~Beneath(Root, p)
  <1>1. \A p \in Paths : Beneath(p, Root)
    BY DEF Beneath, Root, Paths, DirPaths, Files
  <1>2. \A d \in DirNames : ~Beneath(Root, <<d>>)
    BY DEF Beneath, Root
  <1>3. \A d, e \in DirNames : Beneath(<<d>>, <<e>>) <=> d = e
    BY DEF Beneath
  <1>4. \A p \in Files, d \in DirNames : Beneath(p, <<d>>) <=> p[1] = d
    BY DEF Beneath, Files
  <1>5. \A p, q \in Files : Beneath(p, q) <=> p = q
    BY DEF Beneath, Files
  <1>6. \A p \in Files, d \in DirNames : ~Beneath(<<d>>, p)
    <2> SUFFICES ASSUME NEW p \in Files, NEW d \in DirNames PROVE ~Beneath(<<d>>, p)
      OBVIOUS
    <2>1. Len(p) = 2
      BY DEF Files
    <2>2. Len(<<d>>) = 1
      OBVIOUS
    <2> QED BY <2>1, <2>2 DEF Beneath
  <1>7. \A p \in Files : ~Beneath(Root, p)
    BY DEF Beneath, Root, Files
  <1> QED BY <1>1, <1>2, <1>3, <1>4, <1>5, <1>6, <1>7

\* The path an event names: that of its watch and a name.
LEMMA AppendFacts ==
    /\ \A x : Append(Root, x) = <<x>>
    /\ \A d \in DirNames, x \in FileNames : Append(<<d>>, x) = <<d, x>>
  <1>1. \A x : Append(Root, x) = <<x>>
    BY DEF Root
  <1>2. ASSUME NEW d \in DirNames, NEW x \in FileNames PROVE Append(<<d>>, x) = <<d, x>>
    <2> DEFINE S == DirNames \cup FileNames
    <2>1. <<d>> \in Seq(S) /\ x \in S /\ <<d, x>> \in Seq(S)
      OBVIOUS
    <2>2. Len(<<d>>) = 1 /\ Len(<<d, x>>) = 2 /\ <<d>>[1] = d /\ <<d, x>>[1] = d /\ <<d, x>>[2] = x
      OBVIOUS
    <2> HIDE DEF S
    <2>3. /\ Append(<<d>>, x) \in Seq(S) /\ Len(Append(<<d>>, x)) = 2
          /\ Append(<<d>>, x)[1] = d /\ Append(<<d>>, x)[2] = x
      BY <2>1, <2>2
    <2>4. \A n \in 1..2 : Append(<<d>>, x)[n] = <<d, x>>[n]
      BY <2>2, <2>3
    <2> QED BY <2>1, <2>2, <2>3, <2>4, SeqEqual
  <1> QED BY <1>1, <1>2

\* No path is taken for a directory, and nothing is beneath it but the root.
LEMMA NoPathFacts == NoPath \notin DirPaths /\ \A p \in Paths : ~Beneath(NoPath, p) \/ p = Root
  BY SwampAssumption DEF NoPath, DirPaths, Root, Paths, Files, Beneath

\* Which paths the steps inside index_object and walk are at.
LEMMA StepKinds ==
    ASSUME cur \in Steps
    PROVE  /\ cur.op = "none" <=> cur = Idle
           /\ cur.op \in {"none", "arm", "read", "text", "revec", "embed"}
           /\ cur.op \in {"arm", "read"} => cur.path \in DirPaths /\ cur = At(cur.op, cur.path)
           /\ cur.op \in {"text", "revec"} => cur.path \in Files /\ cur = At(cur.op, cur.path)
           /\ cur.op = "embed" => /\ cur.path \in Files /\ cur.text \in Texts
                                  /\ cur = [op |-> "embed", path |-> cur.path, text |-> cur.text]
  BY DEF Steps, Idle, At

---------------------------------------------------------------------------
(* What an event makes the daemon do *)

Applied(e) ==
    /\ up = "serving" /\ ~full /\ cur = Idle /\ frames = <<>> /\ queue # <<>>
    /\ e \in Events /\ e = Head(queue) /\ queue' = Tail(queue) /\ queue' \in Seq(Events)
    /\ batch' = IF e.what = "overflow" \/ batch = "overflow" THEN "overflow" ELSE "yes"
    /\ UNCHANGED <<treeVars, watched, lost, up, sem, fresh, degraded, full, frames>>
OnNothing == KeepIndex /\ UNCHANGED <<wds, live, cur>>
OnIgnored(e) ==
    /\ e.wd \in Inos /\ e = Ev(e.wd, "ignored", "none")
    /\ wds' = [wds EXCEPT ![e.wd] = NoPath] /\ KeepIndex /\ UNCHANGED <<live, cur>>
OnSelfGone(e, d) ==
    /\ e.wd \in Inos /\ d \in DirNames /\ wds[e.wd] = <<d>>
    /\ e.what \in {"delete_self", "move_self"} /\ e = Ev(e.wd, e.what, "none")
    /\ Retract(Sub(<<d>>)) /\ wds' = Forget(<<d>>) /\ UNCHANGED <<live, cur>>
OnDirGone(e, d) ==
    /\ d \in DirNames /\ wds["root"] = Root
    /\ e.what \in DirGone /\ e = Ev("root", e.what, d)
    /\ Retract(Sub(<<d>>)) /\ wds' = Forget(<<d>>) /\ UNCHANGED <<live, cur>>
OnFileGone(e, d, f) ==
    /\ e.wd \in Inos /\ d \in DirNames /\ f \in FileNames /\ wds[e.wd] = <<d>>
    /\ e.what \in FileGone /\ e = Ev(e.wd, e.what, f)
    /\ Retract({<<d, f>>}) /\ UNCHANGED <<wds, live, cur>>
OnDirThere(e, d) ==
    /\ d \in DirNames /\ wds["root"] = Root
    /\ e.what \in DirThere /\ e = Ev("root", e.what, d)
    /\ MapDir(<<d>>) /\ UNCHANGED wds
OnFileThere(e, d, f) ==
    /\ e.wd \in Inos /\ d \in DirNames /\ f \in FileNames /\ wds[e.wd] = <<d>>
    /\ e.what \in FileThere /\ e = Ev(e.wd, e.what, f)
    /\ MapFile(<<d, f>>) /\ UNCHANGED wds

\* Events of names in the root, of an end or move of a directory, and of its
\* files.
LEMMA EventKinds ==
    ASSUME NEW e \in Events
    PROVE  \/ e = Overflow
           \/ e.wd = "root" /\ e.what \in DirGone \cup DirThere /\ e.name \in DirNames
                /\ e = Ev("root", e.what, e.name)
           \/ e.wd \in Inos /\ e.what \in {"delete_self", "move_self", "ignored"}
                /\ e = Ev(e.wd, e.what, "none")
           \/ e.wd \in Inos /\ e.what \in FileGone \cup FileThere /\ e.name \in FileNames
                /\ e = Ev(e.wd, e.what, e.name)
  BY DEF Events, Ev

\* An event has the fields it was made with.
LEMMA EvFields ==
    \A w, k, x : Ev(w, k, x).wd = w /\ Ev(w, k, x).what = k /\ Ev(w, k, x).name = x
  BY DEF Ev

\* The eight things apply_event does with the head of the queue.
LEMMA ApplyCases ==
    ASSUME Typed, ApplyEvent
    PROVE  /\ Applied(Head(queue))
           /\ \/ Head(queue) = Overflow /\ OnNothing
              \/ OnIgnored(Head(queue))
              \/ Head(queue).wd \in AllInos /\ wds[Head(queue).wd] = NoPath /\ OnNothing
              \/ \E d \in DirNames : OnSelfGone(Head(queue), d)
              \/ \E d \in DirNames : OnDirGone(Head(queue), d)
              \/ \E d \in DirNames, f \in FileNames : OnFileGone(Head(queue), d, f)
              \/ \E d \in DirNames : OnDirThere(Head(queue), d)
              \/ \E d \in DirNames, f \in FileNames : OnFileThere(Head(queue), d, f)
  <1> DEFINE e == Head(queue)
  <1>q. queue \in Seq(Events) /\ queue # <<>>
    BY DEF Typed, KernelTyped, ApplyEvent
  <1>e. e \in Events /\ Tail(queue) \in Seq(Events)
    BY <1>q
  <1>1. Applied(e)
    BY <1>q, <1>e DEF ApplyEvent, Applied
  <1> DEFINE dir == IF e.wd = "none" THEN NoPath ELSE wds[e.wd]
             p == Append(dir, e.name)
             Act == IF e.what = "overflow" THEN OnNothing
                    ELSE IF e.what = "ignored"
                    THEN wds' = [wds EXCEPT ![e.wd] = NoPath] /\ KeepIndex /\ UNCHANGED <<live, cur>>
                    ELSE IF dir = NoPath THEN OnNothing
                    ELSE CASE e.what \in {"delete_self", "move_self"} ->
                                Retract(Sub(dir)) /\ wds' = Forget(dir) /\ UNCHANGED <<live, cur>>
                           [] e.what \in {"delete_dir", "from_dir"} ->
                                Retract(Sub(p)) /\ wds' = Forget(p) /\ UNCHANGED <<live, cur>>
                           [] e.what \in {"delete", "from"} ->
                                Retract({p}) /\ UNCHANGED <<wds, live, cur>>
                           [] e.what \in {"create_dir", "to_dir"} -> MapDir(p) /\ UNCHANGED wds
                           [] e.what \in {"create", "to", "close_write"} -> MapFile(p) /\ UNCHANGED wds
  <1>2. Act
    BY DEF ApplyEvent, OnNothing
  <1>w. /\ wds["root"] \in {Root, NoPath}
        /\ \A i \in Inos : wds[i] = NoPath \/ \E d \in DirNames : wds[i] = <<d>>
    BY DEF Typed, DaemonTyped, AllInos, DirPaths
  <1>n. "none" \notin Inos /\ "root" \notin Inos /\ "root" # "none"
    BY SwampAssumption
  <1>a. CASE e = Overflow
    <2>1. e.what = "overflow"
      BY <1>a, EvFields DEF Overflow
    <2> QED BY <1>1, <1>2, <1>a, <2>1
  <1>b. CASE e.wd = "root" /\ e.what \in DirGone \cup DirThere /\ e.name \in DirNames
               /\ e = Ev("root", e.what, e.name)
    <2>1. CASE wds["root"] = NoPath
      <3>1. OnNothing
        BY <1>b, <1>2, <2>1 DEF DirGone, DirThere
      <3> QED BY <1>1, <1>b, <2>1, <3>1 DEF AllInos
    <2>2. CASE wds["root"] = Root
      <3>a. dir = Root
        BY <1>b, <1>n, <2>2
      <3>b. Root # NoPath
        BY DEF Root, NoPath
      <3>0. dir = Root /\ dir # NoPath /\ p = <<e.name>>
        BY <3>a, <3>b, AppendFacts
      <3> HIDE DEF dir, p
      <3>1. CASE e.what \in DirGone
        <4>1. Retract(Sub(p)) /\ wds' = Forget(p) /\ UNCHANGED <<live, cur>>
          BY <1>2, <3>0, <3>1 DEF DirGone
        <4> QED BY <1>1, <1>b, <2>2, <3>0, <3>1, <4>1 DEF OnDirGone
      <3>2. CASE e.what \in DirThere
        <4>1. MapDir(p) /\ UNCHANGED wds
          BY <1>2, <3>0, <3>2 DEF DirThere
        <4> QED BY <1>1, <1>b, <2>2, <3>0, <3>2, <4>1 DEF OnDirThere
      <3> QED BY <1>b, <3>1, <3>2
    <2> QED BY <1>w, <2>1, <2>2
  <1>c. CASE e.wd \in Inos /\ e.what \in {"delete_self", "move_self", "ignored"}
               /\ e = Ev(e.wd, e.what, "none")
    <2>1. CASE e.what = "ignored"
      BY <1>1, <1>2, <1>c, <2>1 DEF OnIgnored
    <2>2. CASE e.what # "ignored" /\ wds[e.wd] = NoPath
      <3>1. dir = NoPath
        BY <1>c, <1>n, <2>2
      <3>2. OnNothing
        BY <1>c, <1>2, <2>2, <3>1
      <3> QED BY <1>1, <1>c, <2>2, <3>2 DEF AllInos
    <2>3. CASE e.what # "ignored" /\ wds[e.wd] # NoPath
      <3>1. PICK d \in DirNames : wds[e.wd] = <<d>>
        BY <1>w, <1>c, <2>3
      <3>2. dir = <<d>> /\ dir # NoPath
        BY <1>c, <1>n, <2>3, <3>1
      <3> HIDE DEF dir, p
      <3>3. Retract(Sub(dir)) /\ wds' = Forget(dir) /\ UNCHANGED <<live, cur>>
        BY <1>2, <1>c, <2>3, <3>2
      <3>4. OnSelfGone(e, d)
        BY <1>c, <2>3, <3>1, <3>2, <3>3 DEF OnSelfGone
      <3> QED BY <1>1, <3>4
    <2> QED BY <2>1, <2>2, <2>3
  <1>d. CASE e.wd \in Inos /\ e.what \in FileGone \cup FileThere /\ e.name \in FileNames
               /\ e = Ev(e.wd, e.what, e.name)
    <2>2. CASE wds[e.wd] = NoPath
      <3>1. dir = NoPath
        BY <1>d, <1>n, <2>2
      <3>2. OnNothing
        BY <1>d, <1>2, <2>2, <3>1 DEF FileGone, FileThere
      <3> QED BY <1>1, <1>d, <2>2, <3>2 DEF AllInos
    <2>3. CASE wds[e.wd] # NoPath
      <3>1. PICK d \in DirNames : wds[e.wd] = <<d>>
        BY <1>w, <1>d, <2>3
      <3>a. dir = <<d>> /\ dir # NoPath
        BY <1>d, <1>n, <2>3, <3>1
      <3>2. dir = <<d>> /\ dir # NoPath /\ p = <<d, e.name>>
        BY <1>d, <3>a, AppendFacts
      <3> HIDE DEF dir, p
      <3>3. CASE e.what \in FileGone
        <4>1. Retract({p}) /\ UNCHANGED <<wds, live, cur>>
          BY <1>2, <3>2, <3>3 DEF FileGone
        <4>2. OnFileGone(e, d, e.name)
          BY <1>d, <3>1, <3>2, <3>3, <4>1 DEF OnFileGone
        <4> QED BY <1>1, <1>d, <4>2
      <3>4. CASE e.what \in FileThere
        <4>1. MapFile(p) /\ UNCHANGED wds
          BY <1>2, <3>2, <3>4 DEF FileThere
        <4>2. OnFileThere(e, d, e.name)
          BY <1>d, <3>1, <3>2, <3>4, <4>1 DEF OnFileThere
        <4> QED BY <1>1, <1>d, <4>2
      <3> QED BY <1>d, <3>3, <3>4
    <2> QED BY <2>2, <2>3
  <1> QED BY <1>e, EventKinds, <1>a, <1>b, <1>c, <1>d

---------------------------------------------------------------------------
(* Types hold *)

\* The kernel queues events, and one mark for those it drops.
LEMMA QueuedTyped ==
    ASSUME NEW q \in Seq(Events), NEW e \in Events
    PROVE  Queued(q, e) \in Seq(Events) /\ Told(q, e) \in Seq(Events)
  <1>1. Overflow \in Events
    BY DEF Events
  <1>2. Append(q, e) \in Seq(Events) /\ Append(q, Overflow) \in Seq(Events)
    BY <1>1, AppendProperties
  <1> QED BY <1>2 DEF Queued, Told

\* The events that the changes of the user make.
LEMMA EventsMade ==
    /\ \A d \in DirNames, k \in DirGone \cup DirThere : Ev("root", k, d) \in Events
    /\ \A i \in Inos, k \in {"delete_self", "move_self", "ignored"} : Ev(i, k, "none") \in Events
    /\ \A i \in Inos, k \in FileGone \cup FileThere, f \in FileNames : Ev(i, k, f) \in Events
  BY DEF Events

\* Changes of the user keep the types of the tree and the queue.
LEMMA UserTyped ==
    ASSUME Typed, User
    PROVE  TreeTyped' /\ KernelTyped'
  <1> USE DEF TreeTyped, KernelTyped
  <1>p. \A d \in Places : d \in DirNames \/ d = "out"
    BY DEF Places
  <1>c. /\ at \in [Places -> Inos \cup {"none"}]
        /\ file \in [Inos -> [FileNames -> Stats \cup {NoFile}]]
        /\ clock \in Nat /\ moved \in BOOLEAN
        /\ watched \subseteq AllInos /\ queue \in Seq(Events)
        /\ \A d \in DirNames : d \in Places
    BY DEF Typed, Places
  <1>t. \A q \in Seq(Events), e \in Events : Told(q, e) \in Seq(Events)
    BY QueuedTyped
  <1>1. ASSUME NEW d \in DirNames, MkDir(d) PROVE TreeTyped' /\ KernelTyped'
    <2>1. Ev("root", "create_dir", d) \in Events
      BY EventsMade DEF DirThere
    <2> QED BY <1>1, <1>c, <1>t, <2>1 DEF MkDir
  <1>2. ASSUME NEW d \in DirNames, RmDir(d) PROVE TreeTyped' /\ KernelTyped'
    <2>0. at[d] \in Inos
      BY <1>2, <1>c DEF RmDir
    <2>1. /\ Ev("root", "delete_dir", d) \in Events /\ Ev(at[d], "delete_self", "none") \in Events
          /\ Ev(at[d], "ignored", "none") \in Events
      BY EventsMade, <2>0 DEF DirGone
    <2>2. queue' \in Seq(Events)
      BY <1>2, <1>c, <1>t, <2>1 DEF RmDir
    <2> QED BY <1>2, <1>c, <2>2 DEF RmDir
  <1>3. ASSUME NEW d \in Places, NEW e \in Places, MvDir(d, e) PROVE TreeTyped' /\ KernelTyped'
    <2>0. at[d] \in Inos
      BY <1>3, <1>c DEF MvDir
    <2>1. /\ d # "out" => Ev("root", "from_dir", d) \in Events
          /\ e # "out" => Ev("root", "to_dir", e) \in Events
          /\ Ev(at[d], "move_self", "none") \in Events
      BY EventsMade, <2>0, <1>p DEF DirGone, DirThere
    <2> DEFINE From == IF d = "out" THEN queue ELSE Told(queue, Ev("root", "from_dir", d))
               To   == IF e = "out" THEN From ELSE Told(From, Ev("root", "to_dir", e))
    <2>2. From \in Seq(Events)
      BY <1>c, <1>t, <2>1
    <2>3. To \in Seq(Events)
      BY <1>t, <2>1, <2>2
    <2>4. queue' = Told(To, Ev(at[d], "move_self", "none"))
      BY <1>3 DEF MvDir
    <2>5. queue' \in Seq(Events)
      BY <1>t, <2>1, <2>3, <2>4
    <2> QED BY <1>3, <1>c, <2>0, <2>5 DEF MvDir
  <1>4. ASSUME NEW d \in Places, NEW f \in FileNames, NEW c \in Contents, Save(d, f, c)
        PROVE TreeTyped' /\ KernelTyped'
    <2>0. at[d] \in Inos
      BY <1>4, <1>c DEF Save
    <2>1. Ev(at[d], "create", f) \in Events /\ Ev(at[d], "close_write", f) \in Events
      BY EventsMade, <2>0 DEF FileThere
    <2>2. queue' \in Seq(Events)
      BY <1>4, <1>c, <1>t, <2>1 DEF Save
    <2>3. [content |-> c, mtime |-> clock] \in Stats
      BY <1>c DEF Stats
    <2>4. file' \in [Inos -> [FileNames -> Stats \cup {NoFile}]]
      BY <1>4, <1>c, <2>0, <2>3 DEF Save
    <2> QED BY <1>4, <1>c, <2>2, <2>4 DEF Save
  <1>5. ASSUME NEW d \in Places, NEW f \in FileNames, RmFile(d, f) PROVE TreeTyped' /\ KernelTyped'
    <2>0. at[d] \in Inos
      BY <1>5, <1>c DEF RmFile
    <2>1. Ev(at[d], "delete", f) \in Events
      BY EventsMade, <2>0 DEF FileGone
    <2>2. queue' \in Seq(Events)
      BY <1>5, <1>c, <1>t, <2>1 DEF RmFile
    <2>4. file' \in [Inos -> [FileNames -> Stats \cup {NoFile}]]
      BY <1>5, <1>c, <2>0 DEF RmFile
    <2> QED BY <1>5, <1>c, <2>2, <2>4 DEF RmFile
  <1>6. ASSUME NEW d \in Places, NEW e \in Places, NEW f \in FileNames, MvFile(d, e, f)
        PROVE TreeTyped' /\ KernelTyped'
    <2>0. at[d] \in Inos /\ at[e] \in Inos
      BY <1>6, <1>c DEF MvFile
    <2>1. Ev(at[d], "from", f) \in Events /\ Ev(at[e], "to", f) \in Events
      BY EventsMade, <2>0 DEF FileGone, FileThere
    <2>2. queue' \in Seq(Events)
      BY <1>6, <1>c, <1>t, <2>1 DEF MvFile
    <2> DEFINE F == [file EXCEPT ![at[d]][f] = NoFile]
    <2>3. F \in [Inos -> [FileNames -> Stats \cup {NoFile}]] /\ file[at[d]][f] \in Stats \cup {NoFile}
      BY <1>c, <2>0
    <2>5. file' = [F EXCEPT ![at[e]][f] = file[at[d]][f]]
      BY <1>6 DEF MvFile
    <2>4. file' \in [Inos -> [FileNames -> Stats \cup {NoFile}]]
      <3> HIDE DEF F
      <3> QED BY <2>0, <2>3, <2>5
    <2> QED BY <1>6, <1>c, <2>2, <2>4 DEF MvFile
  <1> HIDE DEF TreeTyped, KernelTyped
  <1> QED BY <1>1, <1>2, <1>3, <1>4, <1>5, <1>6 DEF User

\* delete_path and delete_subtree keep the types of the index.
LEMMA RetractTyped ==
    ASSUME Typed, NEW S \in SUBSET Paths, Retract(S)
    PROVE  IndexTyped'
  BY DEF Typed, IndexTyped, Retract, Without, Repay, indexVars, ghostVars

\* What leaves the index alone keeps its types.
LEMMA KeepTyped ==
    ASSUME Typed, KeepIndex
    PROVE  IndexTyped'
  BY DEF Typed, IndexTyped, KeepIndex, indexVars, ghostVars

\* The steps the daemon comes to.
LEMMA StepsMade ==
    /\ Idle \in Steps
    /\ \A p \in DirPaths : At("arm", p) \in Steps /\ At("read", p) \in Steps
    /\ \A p \in Files : At("text", p) \in Steps /\ At("revec", p) \in Steps
    /\ \A p \in Files, t \in Texts : [op |-> "embed", path |-> p, text |-> t] \in Steps
  BY DEF Steps

\* Extracted text is a text or none.
LEMMA TextOfTyped ==
    \A c : TextOf(c) = "none" \/ TextOf(c) \in Texts
  BY DEF TextOf

\* stat finds metadata or no file.
LEMMA StatTyped ==
    ASSUME Typed, NEW p \in Files
    PROVE  /\ Stat(p) \in Stats \cup {NoFile}
           /\ Stat(p) # NoFile => Meta(Stat(p)) \in Metas
  BY PathKinds DEF Typed, TreeTyped, Stat, Places, Stats, NoFile, Meta, Metas, SizeOf

\* index_object of a directory keeps the types.
LEMMA MapDirTyped ==
    ASSUME Typed, NEW p \in DirPaths, MapDir(p)
    PROVE  IndexTyped' /\ cur' \in Steps /\ live' \subseteq Paths
  <1>0. live \subseteq Paths /\ p \in Paths /\ {p} \in SUBSET Paths
    BY DEF Typed, DaemonTyped, Paths
  <1>1. CASE ~Exists(p) \/ ~Indexable(p)
    BY <1>0, <1>1, RetractTyped, StepsMade DEF MapDir
  <1>2. CASE Exists(p) /\ Indexable(p)
    <2>1. <<0, 0>> \in Metas
      BY DEF Metas
    <2> QED BY <1>0, <1>2, <2>1, StepsMade DEF MapDir, Typed, IndexTyped, Repay, indexVars, ghostVars
  <1> QED BY <1>1, <1>2

\* index_object of a file keeps the types.
LEMMA MapFileTyped ==
    ASSUME Typed, NEW p \in Files, MapFile(p)
    PROVE  IndexTyped' /\ cur' \in Steps /\ live' \subseteq Paths
  <1>0. live \subseteq Paths /\ p \in Paths /\ {p} \in SUBSET Paths
    BY DEF Typed, DaemonTyped, Paths
  <1>1. CASE Stat(p) = NoFile \/ ~Indexable(p)
    BY <1>0, <1>1, RetractTyped, StepsMade DEF MapFile
  <1>2. CASE Stat(p) # NoFile /\ Indexable(p)
    <2>1. Meta(Stat(p)) \in Metas
      BY <1>2, StatTyped
    <2> QED BY <1>0, <1>2, <2>1, StepsMade DEF MapFile, Typed, IndexTyped, Repay, Without, indexVars, ghostVars
  <1> QED BY <1>1, <1>2

---------------------------------------------------------------------------
(* The walk's frames *)

InFrames(fr, p) == \E n \in 1..Len(fr) : p \in fr[n]

\* read_dir pushes the entries of one directory.
LEMMA FramePush ==
    ASSUME NEW fr \in Seq(SUBSET Paths), NEW S \in SUBSET Paths
    PROVE  /\ <<S>> \o fr \in Seq(SUBSET Paths) /\ <<S>> \o fr # <<>>
           /\ \A p : InFrames(<<S>> \o fr, p) <=> p \in S \/ InFrames(fr, p)
  <1>1. <<S>> \in Seq(SUBSET Paths) /\ Len(<<S>>) = 1 /\ <<S>>[1] = S
    OBVIOUS
  <1>2. /\ <<S>> \o fr \in Seq(SUBSET Paths)
        /\ Len(<<S>> \o fr) = 1 + Len(fr)
        /\ \A i \in 1..1 + Len(fr) : (<<S>> \o fr)[i] = IF i <= 1 THEN <<S>>[i] ELSE fr[i - 1]
    BY <1>1, ConcatProperties
  <1>n. Len(fr) \in Nat
    BY LenProperties
  <1>3. \A p : InFrames(<<S>> \o fr, p) => p \in S \/ InFrames(fr, p)
    BY <1>1, <1>2, <1>n DEF InFrames
  <1>4. \A p : p \in S => InFrames(<<S>> \o fr, p)
    BY <1>1, <1>2, <1>n DEF InFrames
  <1>5. ASSUME NEW p, InFrames(fr, p) PROVE InFrames(<<S>> \o fr, p)
    <2>1. PICK n \in 1..Len(fr) : p \in fr[n]
      BY <1>5 DEF InFrames
    <2>2. n + 1 \in 1..1 + Len(fr) /\ (<<S>> \o fr)[n + 1] = fr[n]
      BY <1>2, <1>n
    <2> QED BY <1>2, <2>1, <2>2 DEF InFrames
  <1>6. <<S>> \o fr # <<>>
    BY <1>2, <1>n
  <1> QED BY <1>2, <1>3, <1>4, <1>5, <1>6

Popped(fr, p) == LET Rest == Head(fr) \ {p} IN
                 IF Rest = {} THEN Tail(fr) ELSE <<Rest>> \o Tail(fr)

\* walk takes one entry of the innermost directory.
LEMMA FramePop ==
    ASSUME NEW fr \in Seq(SUBSET Paths), fr # <<>>, NEW p \in Head(fr)
    PROVE  /\ Popped(fr, p) \in Seq(SUBSET Paths)
           /\ \A q : InFrames(Popped(fr, p), q) => InFrames(fr, q)
           /\ \A q : InFrames(fr, q) => q = p \/ InFrames(Popped(fr, p), q)
           /\ InFrames(fr, p)
  <1>1. /\ Head(fr) \in SUBSET Paths /\ Head(fr) = fr[1] /\ Tail(fr) \in Seq(SUBSET Paths)
        /\ Len(Tail(fr)) = Len(fr) - 1 /\ \A i \in 1..Len(Tail(fr)) : Tail(fr)[i] = fr[i + 1]
        /\ Len(fr) \in Nat \ {0}
    BY HeadTailProperties, EmptySeq
  <1> DEFINE Rest == Head(fr) \ {p}
  <1>2. Rest \in SUBSET Paths
    BY <1>1
  <1>3. /\ Popped(fr, p) \in Seq(SUBSET Paths)
        /\ \A q : InFrames(Popped(fr, p), q) <=> q \in Rest \/ InFrames(Tail(fr), q)
    <2>1. CASE Rest = {}
      BY <1>1, <2>1 DEF Popped
    <2>2. CASE Rest # {}
      <3>1. Popped(fr, p) = <<Rest>> \o Tail(fr)
        BY <2>2 DEF Popped
      <3> HIDE DEF Rest
      <3>2. Tail(fr) \in Seq(SUBSET Paths)
        BY <1>1
      <3>3. /\ <<Rest>> \o Tail(fr) \in Seq(SUBSET Paths)
            /\ \A q : InFrames(<<Rest>> \o Tail(fr), q) <=> q \in Rest \/ InFrames(Tail(fr), q)
        BY <1>2, <3>2, FramePush
      <3> QED BY <3>1, <3>3
    <2> QED BY <2>1, <2>2
  <1>4. \A q : InFrames(Tail(fr), q) => InFrames(fr, q)
    BY <1>1 DEF InFrames
  <1>5. \A q : InFrames(fr, q) => q \in Head(fr) \/ InFrames(Tail(fr), q)
    <2> SUFFICES ASSUME NEW q, NEW n \in 1..Len(fr), q \in fr[n], n # 1
                 PROVE  InFrames(Tail(fr), q)
      BY <1>1 DEF InFrames
    <2>1. n - 1 \in 1..Len(Tail(fr)) /\ Tail(fr)[n - 1] = fr[n]
      BY <1>1
    <2> QED BY <2>1 DEF InFrames
  <1>6. \A q \in Head(fr) : InFrames(fr, q)
    BY <1>1 DEF InFrames
  <1> QED BY <1>3, <1>4, <1>5, <1>6

\* Nothing is left to visit in an empty stack.
LEMMA NoFrames == \A p : ~InFrames(<<>>, p)
  BY DEF InFrames

\* read_dir of the root answers its directories, of a directory its files.
LEMMA EntriesTyped ==
    /\ \A p \in Entries(Root) : p \in Dirs1 /\ p \in Paths /\ p # Root
    /\ \A d \in DirNames : at[d] # "none" => <<d>> \in Entries(Root)
    /\ \A d \in DirNames : \A p \in Entries(<<d>>) : p \in Files /\ p[1] = d /\ p \in Paths /\ p # Root
    /\ \A d \in DirNames, f \in FileNames : Stat(<<d, f>>) # NoFile => <<d, f>> \in Entries(<<d>>)
    /\ \A p \in DirPaths : Entries(p) \in SUBSET Paths /\ Root \notin Entries(p)
  <1>1. Entries(Root) = {<<d>> : d \in {d \in DirNames : at[d] # "none"}}
    BY DEF Entries
  <1>2. ASSUME NEW d \in DirNames
        PROVE  Entries(<<d>>) = {<<d, f>> : f \in {f \in FileNames : Stat(<<d, f>>) # NoFile}}
    <2>1. <<d>> # Root /\ <<d>>[1] = d
      BY PathKinds
    <2> QED BY <2>1 DEF Entries
  <1>3. \A p \in Entries(Root) : p \in Dirs1 /\ p \in Paths /\ p # Root
    BY <1>1, PathKinds DEF Dirs1
  <1>4. \A d \in DirNames : at[d] # "none" => <<d>> \in Entries(Root)
    BY <1>1
  <1>5. \A d \in DirNames : \A p \in Entries(<<d>>) : p \in Files /\ p[1] = d /\ p \in Paths /\ p # Root
    <2> SUFFICES ASSUME NEW d \in DirNames, NEW p \in Entries(<<d>>)
                 PROVE  p \in Files /\ p[1] = d /\ p \in Paths /\ p # Root
      OBVIOUS
    <2>1. PICK f \in FileNames : p = <<d, f>>
      BY <1>2
    <2>2. p \in Files /\ p \in Paths /\ p # Root
      BY <2>1, PathKinds
    <2> QED BY <2>1, <2>2
  <1>6. \A d \in DirNames, f \in FileNames : Stat(<<d, f>>) # NoFile => <<d, f>> \in Entries(<<d>>)
    BY <1>2
  <1>7. \A p \in DirPaths : p = Root \/ \E d \in DirNames : p = <<d>>
    BY DEF DirPaths
  <1> QED BY <1>3, <1>4, <1>5, <1>6, <1>7

---------------------------------------------------------------------------

\* Forgetting a directory unsets the watches that had its path, and no other.
LEMMA ForgetTyped ==
    ASSUME DaemonTyped, NEW d \in DirNames
    PROVE  /\ Forget(<<d>>) \in [AllInos -> DirPaths \cup {NoPath}]
           /\ Forget(<<d>>)["root"] = wds["root"]
           /\ \A i \in Inos : Forget(<<d>>)[i] = IF wds[i] = <<d>> THEN NoPath ELSE wds[i]
  <1>1. Forget(<<d>>) = [i \in AllInos |-> IF wds[i] = <<d>> THEN NoPath ELSE wds[i]]
    <2>1. ASSUME NEW i \in AllInos
          PROVE  wds[i] # NoPath /\ Beneath(wds[i], <<d>>) <=> wds[i] = <<d>>
      <3>1. wds[i] = NoPath \/ wds[i] = Root \/ \E e \in DirNames : wds[i] = <<e>>
        BY DEF DaemonTyped, DirPaths
      <3>2. <<d>> # NoPath
        BY SwampAssumption DEF NoPath
      <3>3. <<d>> # Root
        BY DEF Root
      <3> QED BY <3>1, <3>2, <3>3, BeneathFacts
    <2> QED BY <2>1 DEF Forget
  <1>2. "root" \in AllInos /\ \A i \in Inos : i \in AllInos
    BY DEF AllInos
  <1>3. <<d>> # Root /\ <<d>> # NoPath
    BY SwampAssumption DEF Root, NoPath
  <1> QED BY <1>1, <1>2, <1>3 DEF DaemonTyped

\* set_fts and clear_fts keep the types.
LEMMA SetTextTyped ==
    ASSUME Typed, SetText
    PROVE  IndexTyped' /\ cur' \in Steps
  <1>1. cur \in Steps /\ cur.op = "text"
    BY DEF Typed, DaemonTyped, SetText
  <1>2. cur.path \in Files /\ cur.path \in Paths
    BY <1>1, StepKinds DEF Paths
  <1> DEFINE t == TextOf(Stat(cur.path).content)
  <1>3. t \in Texts \cup {"none"}
    BY TextOfTyped
  <1>4. \A q \in Files, x \in Texts : [op |-> "embed", path |-> q, text |-> x] \in Steps
    BY StepsMade
  <1>5. Idle \in Steps
    BY StepsMade
  <1>6. /\ \/ /\ fts' = [fts EXCEPT ![cur.path] = t]
              /\ vec' = IF t = "none" THEN Without(vec, {cur.path}) ELSE vec
              /\ cur' = IF t # "none" /\ sem THEN [op |-> "embed", path |-> cur.path, text |-> t] ELSE Idle
              /\ owed' \in SUBSET (owed \cup {cur.path})
              /\ lag' \in SUBSET (lag \cup {cur.path})
              /\ row' = row
           \/ /\ owed' = owed \cup {cur.path} /\ cur' = Idle /\ lag' = lag \cup {cur.path}
              /\ UNCHANGED indexVars
    BY DEF SetText, Repay
  <1> HIDE DEF t
  <1>7. cur' \in Steps
    BY <1>2, <1>3, <1>4, <1>5, <1>6
  <1>8. IndexTyped'
    BY <1>2, <1>3, <1>6 DEF Typed, IndexTyped, Without, indexVars
  <1> QED BY <1>7, <1>8

\* The daemon leaves the tree alone.
LEMMA TreeKept == ASSUME Typed, UNCHANGED treeVars PROVE TreeTyped'
  BY DEF Typed, TreeTyped, treeVars
\* So does a step that writes no row.
LEMMA IndexKept == ASSUME Typed, UNCHANGED indexVars, UNCHANGED ghostVars PROVE IndexTyped'
  BY DEF Typed, IndexTyped, indexVars, ghostVars
\* And one that reads no event.
LEMMA KernelKept == ASSUME Typed, UNCHANGED kernelVars PROVE KernelTyped'
  BY DEF Typed, KernelTyped, kernelVars

\* The types at first start.
LEMMA TypedInit == SwampInit => Typed
  <1> SUFFICES ASSUME SwampInit PROVE Typed
    OBVIOUS
  <1>1. TreeTyped
    BY DEF SwampInit, TreeTyped, NoFiles
  <1>2. KernelTyped
    BY DEF SwampInit, KernelTyped
  <1>3. IndexTyped
    BY DEF SwampInit, IndexTyped
  <1>4. DaemonTyped
    <2>1. /\ up = "down" /\ sem = FALSE /\ fresh = FALSE /\ degraded = FALSE /\ batch = "no"
          /\ full = FALSE /\ live = {} /\ frames = <<>> /\ cur = Idle /\ lost = {}
          /\ wds = [i \in AllInos |-> NoPath]
      BY DEF SwampInit
    <2>2. wds \in [AllInos -> DirPaths \cup {NoPath}] /\ \A i \in AllInos : wds[i] = NoPath
      BY <2>1
    <2>3. frames \in Seq(SUBSET Paths)
      BY <2>1, EmptySeq
    <2>4. NoPath # Root /\ "root" \in AllInos /\ \A i \in Inos : i \in AllInos
      BY DEF NoPath, Root, AllInos
    <2> QED BY <2>1, <2>2, <2>3, <2>4, StepsMade DEF DaemonTyped
  <1> QED BY <1>1, <1>2, <1>3, <1>4 DEF Typed

\* The types after a change of the user.
LEMMA UserStepTyped == ASSUME Typed, User PROVE Typed'
  <1>1. TreeTyped' /\ KernelTyped'
    BY UserTyped
  <1>2. UNCHANGED <<indexVars, daemonVars, ghostVars>>
    BY DEF User
  <1>3. IndexTyped'
    BY <1>2, IndexKept
  <1>4. DaemonTyped'
    BY <1>2 DEF Typed, DaemonTyped, daemonVars, wdVars
  <1> QED BY <1>1, <1>3, <1>4 DEF Typed

\* After a start of the daemon (main serve).
LEMMA BootTyped == ASSUME Typed, Boot PROVE Typed'
  <1>1. TreeTyped'
    BY DEF Boot, Typed, TreeTyped
  <1>2. KernelTyped'
    BY DEF Boot, KernelTyped
  <1>3. IndexTyped'
    BY DEF Boot, Typed, IndexTyped, Without
  <1>4. DaemonTyped'
    <2>1. /\ up' = "boot" /\ sem' \in BOOLEAN /\ fresh' = FALSE /\ degraded' = FALSE /\ batch' = "no"
          /\ full' = TRUE /\ live' = {} /\ frames' = <<{Root}>> /\ cur' = Idle /\ lost' = {}
          /\ wds' = [i \in AllInos |-> NoPath]
      BY DEF Boot, Reconcile
    <2>2. wds' \in [AllInos -> DirPaths \cup {NoPath}] /\ \A i \in AllInos : wds'[i] = NoPath
      BY <2>1
    <2>3. frames' \in Seq(SUBSET Paths)
      BY <2>1, PathKinds
    <2>4. NoPath # Root /\ "root" \in AllInos /\ \A i \in Inos : i \in AllInos
      BY DEF NoPath, Root, AllInos
    <2> QED BY <2>1, <2>2, <2>3, <2>4, StepsMade DEF DaemonTyped
  <1> QED BY <1>1, <1>2, <1>3, <1>4 DEF Typed

\* After a kill or loss of power.
LEMMA CrashTyped == ASSUME Typed, Crash PROVE Typed'
  <1>1. TreeTyped'
    BY TreeKept DEF Crash
  <1>2. KernelTyped'
    BY DEF Crash, KernelTyped
  <1>3. IndexTyped'
    <2>0. cur.op \in {"text", "embed"} => cur.path \in Paths
      BY StepKinds DEF Typed, DaemonTyped, Paths
    <2>1. fts' \in [Paths -> Texts \cup {"none"}]
      BY DEF Crash, Typed, IndexTyped, Without
    <2>2. vec' \in [Paths -> Texts \cup {"none", "part"}]
      BY <2>0 DEF Crash, Typed, IndexTyped, Without
    <2>3. owed' \subseteq Paths /\ lag' \subseteq Paths
      BY <2>0 DEF Crash, Typed, IndexTyped
    <2>4. row' = row
      BY DEF Crash
    <2> QED BY <2>1, <2>2, <2>3, <2>4 DEF Typed, IndexTyped
  <1>4. DaemonTyped'
    <2>1. /\ up' = "down" /\ sem' = sem /\ fresh' = FALSE /\ degraded' = FALSE /\ batch' = "no"
          /\ full' = FALSE /\ live' = {} /\ frames' = <<>> /\ cur' = Idle /\ lost' = {}
          /\ wds' = [i \in AllInos |-> NoPath]
      BY DEF Crash
    <2>2. wds' \in [AllInos -> DirPaths \cup {NoPath}] /\ \A i \in AllInos : wds'[i] = NoPath
      BY <2>1
    <2>4. NoPath # Root /\ "root" \in AllInos /\ \A i \in Inos : i \in AllInos
      BY DEF NoPath, Root, AllInos
    <2>5. frames' \in Seq(SUBSET Paths) /\ sem' \in BOOLEAN
      BY <2>1, EmptySeq DEF Typed, DaemonTyped
    <2> QED BY <2>1, <2>2, <2>4, <2>5, StepsMade DEF DaemonTyped
  <1> QED BY <1>1, <1>2, <1>3, <1>4 DEF Typed

\* After the root is mapped (reconcile_full).
LEMMA WalkRootTyped == ASSUME Typed, WalkRoot PROVE Typed'
  <1>1. TreeTyped' /\ KernelTyped'
    BY TreeKept, KernelKept DEF WalkRoot
  <1>2. IndexTyped' /\ cur' \in Steps /\ live' \subseteq Paths
    BY PathKinds, MapDirTyped DEF WalkRoot
  <1>3. DaemonTyped'
    <2>1. frames' \in Seq(SUBSET Paths)
      BY DEF WalkRoot
    <2> QED BY <1>2, <2>1 DEF WalkRoot, Typed, DaemonTyped, wdVars
  <1> QED BY <1>1, <1>2, <1>3 DEF Typed

\* After add_watch (arm_dir).
LEMMA ArmDirTyped == ASSUME Typed, ArmDir PROVE Typed'
  <1>c. cur \in Steps /\ cur.op = "arm"
    BY DEF Typed, DaemonTyped, ArmDir
  <1>p. cur.path \in DirPaths
    BY <1>c, StepKinds
  <1>i. DirIno(cur.path) # "none" => /\ DirIno(cur.path) \in AllInos
                                     /\ DirIno(cur.path) = "root" <=> cur.path = Root
    <2>1. CASE cur.path = Root
      BY <2>1 DEF DirIno, AllInos
    <2>2. ASSUME NEW d \in DirNames, cur.path = <<d>> PROVE DirIno(cur.path) = at[d] /\ at[d] \in Inos \cup {"none"}
      BY <2>2 DEF DirIno, Typed, TreeTyped, Places, Root
    <2>3. \A d \in DirNames : <<d>> # Root
      BY PathKinds
    <2> QED BY <1>p, <2>1, <2>2, <2>3, SwampAssumption DEF DirPaths, AllInos
  <1>1. TreeTyped' /\ IndexTyped'
    BY TreeKept, IndexKept DEF ArmDir
  <1>2. KernelTyped'
    BY <1>i DEF ArmDir, Typed, KernelTyped
  <1>3. DaemonTyped'
    <2>1. cur' \in Steps
      BY <1>p, StepsMade DEF ArmDir
    <2>2. /\ up' = up /\ batch' = batch /\ sem' = sem /\ fresh' = fresh /\ full' = full
          /\ degraded' \in {degraded, TRUE} /\ lost' \subseteq lost /\ live' = live /\ frames' = frames
          /\ \/ wds' = wds
             \/ DirIno(cur.path) # "none" /\ wds' = [wds EXCEPT ![DirIno(cur.path)] = cur.path]
      BY DEF ArmDir, wdVars
    <2>3. wds' \in [AllInos -> DirPaths \cup {NoPath}]
      BY <1>p, <2>2 DEF Typed, DaemonTyped
    <2>4. wds'["root"] \in {Root, NoPath} /\ \A i \in Inos : wds'[i] # Root
      <3>1. wds["root"] \in {Root, NoPath} /\ \A i \in Inos : wds[i] # Root
        BY DEF Typed, DaemonTyped
      <3>2. "root" \in AllInos /\ "root" \notin Inos /\ \A i \in Inos : i \in AllInos
        BY SwampAssumption DEF AllInos
      <3> QED BY <1>i, <2>2, <3>1, <3>2 DEF Typed, DaemonTyped
    <2> QED BY <2>1, <2>2, <2>3, <2>4 DEF Typed, DaemonTyped
  <1> QED BY <1>1, <1>2, <1>3 DEF Typed

\* After read_dir (walk).
LEMMA ReadDirTyped == ASSUME Typed, ReadDir PROVE Typed'
  <1>c. cur \in Steps /\ cur.op = "read"
    BY DEF Typed, DaemonTyped, ReadDir
  <1>p. cur.path \in DirPaths
    BY <1>c, StepKinds
  <1>1. TreeTyped' /\ KernelTyped' /\ IndexTyped'
    BY TreeKept, KernelKept, KeepTyped DEF ReadDir
  <1>2. frames' \in Seq(SUBSET Paths)
    <2>1. Entries(cur.path) \in SUBSET Paths
      BY <1>p, EntriesTyped
    <2>2. frames \in Seq(SUBSET Paths)
      BY DEF Typed, DaemonTyped
    <2>3. <<Entries(cur.path)>> \o frames \in Seq(SUBSET Paths)
      BY <2>1, <2>2, FramePush
    <2> QED BY <2>2, <2>3 DEF ReadDir
  <1>3. DaemonTyped'
    BY <1>2, StepsMade DEF ReadDir, Typed, DaemonTyped, wdVars
  <1> QED BY <1>1, <1>3 DEF Typed

\* After an entry is visited (walk).
LEMMA VisitTyped == ASSUME Typed, NEW p \in Paths \ {Root}, Visit(p) PROVE Typed'
  <1>1. TreeTyped' /\ KernelTyped'
    BY TreeKept, KernelKept DEF Visit
  <1>2. IndexTyped' /\ cur' \in Steps /\ live' \subseteq Paths
    <2>0. cur \in Steps /\ live \subseteq Paths
      BY DEF Typed, DaemonTyped
    <2>1. CASE ~Exists(p)
      BY <2>0, <2>1, KeepTyped DEF Visit
    <2>2. CASE Exists(p) /\ Len(p) = 1
      <3>1. p \in DirPaths
        BY <2>2, PathKinds DEF Dirs1, DirPaths
      <3> QED BY <2>2, <3>1, MapDirTyped DEF Visit
    <2>3. CASE Exists(p) /\ Len(p) # 1
      <3>1. p \in Files
        BY <2>3, PathKinds DEF Dirs1
      <3> QED BY <2>3, <3>1, MapFileTyped DEF Visit
    <2> QED BY <2>1, <2>2, <2>3
  <1>3. frames' \in Seq(SUBSET Paths)
    <2>1. frames \in Seq(SUBSET Paths) /\ frames # <<>> /\ p \in Head(frames)
      BY DEF Typed, DaemonTyped, Visit
    <2>2. frames' = Popped(frames, p)
      BY DEF Visit, Popped
    <2> QED BY <2>1, <2>2, FramePop
  <1>4. DaemonTyped'
    BY <1>2, <1>3 DEF Visit, Typed, DaemonTyped, wdVars
  <1> QED BY <1>1, <1>2, <1>4 DEF Typed

\* After a step inside the text of a file (enrich_text, enrich_semantic).
LEMMA TextTyped == ASSUME Typed, SetText \/ ReVec \/ Embed PROVE Typed'
  <1>1. TreeTyped' /\ KernelTyped'
    BY TreeKept, KernelKept DEF SetText, ReVec, Embed
  <1>2. UNCHANGED <<up, sem, wdVars, fresh, degraded, batch, full, live, frames>>
    BY DEF SetText, ReVec, Embed
  <1>3. IndexTyped' /\ cur' \in Steps
    <2>c. cur \in Steps
      BY DEF Typed, DaemonTyped
    <2>1. CASE SetText
      BY <2>1, SetTextTyped
    <2>2. CASE ReVec
      <3>1. cur.path \in Files /\ cur.path \in Paths
        BY <2>c, <2>2, StepKinds DEF ReVec, Paths
      <3>2. cur' \in Steps
        BY <2>2, <3>1, StepsMade, TextOfTyped DEF ReVec
      <3>3. owed' \subseteq owed \cup {cur.path} /\ UNCHANGED <<indexVars, lag>>
        BY <2>2 DEF ReVec
      <3> QED BY <3>1, <3>2, <3>3 DEF Typed, IndexTyped, indexVars
    <2>3. CASE Embed
      <3>1. cur.path \in Files /\ cur.path \in Paths /\ cur.text \in Texts
        BY <2>c, <2>3, StepKinds DEF Embed, Paths
      <3>2. cur' \in Steps
        BY <2>3, StepsMade DEF Embed
      <3> QED BY <2>3, <3>1, <3>2 DEF Typed, IndexTyped, Embed
    <2> QED BY <2>1, <2>2, <2>3
  <1>4. DaemonTyped'
    BY <1>2, <1>3 DEF Typed, DaemonTyped, wdVars
  <1> QED BY <1>1, <1>3, <1>4 DEF Typed

\* After an event (apply_event).
LEMMA ApplyTyped == ASSUME Typed, ApplyEvent PROVE Typed'
  <1> DEFINE e == Head(queue)
  <1>0. Applied(e)
    BY ApplyCases
  <1>1. TreeTyped' /\ KernelTyped'
    BY <1>0, TreeKept DEF Applied, Typed, KernelTyped
  <1>t. /\ wds \in [AllInos -> DirPaths \cup {NoPath}] /\ wds["root"] \in {Root, NoPath}
        /\ \A i \in Inos : wds[i] # Root
        /\ live \subseteq Paths /\ cur \in Steps
        /\ "root" \in AllInos /\ "root" \notin Inos /\ \A i \in Inos : i \in AllInos
        /\ NoPath # Root
    BY SwampAssumption DEF Typed, DaemonTyped, AllInos, NoPath, Root
  <1>2. /\ IndexTyped' /\ cur' \in Steps /\ live' \subseteq Paths
        /\ wds' \in [AllInos -> DirPaths \cup {NoPath}] /\ wds'["root"] \in {Root, NoPath}
        /\ \A i \in Inos : wds'[i] # Root
    <2> HIDE DEF e
    <2>1. CASE OnNothing
      BY <2>1, <1>t, KeepTyped DEF OnNothing
    <2>2. CASE OnIgnored(e)
      BY <2>2, <1>t, KeepTyped DEF OnIgnored
    <2>3. ASSUME NEW d \in DirNames, Retract(Sub(<<d>>)), wds' = Forget(<<d>>), UNCHANGED <<live, cur>>
          PROVE  /\ IndexTyped' /\ cur' \in Steps /\ live' \subseteq Paths
                 /\ wds' \in [AllInos -> DirPaths \cup {NoPath}] /\ wds'["root"] \in {Root, NoPath}
                 /\ \A i \in Inos : wds'[i] # Root
      <3>1. IndexTyped'
        BY <2>3, RetractTyped DEF Sub
      <3> QED BY <2>3, <3>1, <1>t, ForgetTyped DEF Typed
    <2>4. ASSUME NEW d \in DirNames, NEW f \in FileNames, OnFileGone(e, d, f)
          PROVE  IndexTyped' /\ UNCHANGED <<wds, live, cur>>
      BY <2>4, RetractTyped, PathKinds DEF OnFileGone
    <2>5. ASSUME NEW d \in DirNames, OnDirThere(e, d)
          PROVE  IndexTyped' /\ cur' \in Steps /\ live' \subseteq Paths /\ UNCHANGED wds
      BY <2>5, MapDirTyped, PathKinds DEF OnDirThere
    <2>6. ASSUME NEW d \in DirNames, NEW f \in FileNames, OnFileThere(e, d, f)
          PROVE  IndexTyped' /\ cur' \in Steps /\ live' \subseteq Paths /\ UNCHANGED wds
      BY <2>6, MapFileTyped, PathKinds DEF OnFileThere
    <2>7. \/ OnNothing \/ OnIgnored(e)
          \/ \E d \in DirNames : OnSelfGone(e, d) \/ OnDirGone(e, d) \/ OnDirThere(e, d)
          \/ \E d \in DirNames, f \in FileNames : OnFileGone(e, d, f) \/ OnFileThere(e, d, f)
      BY ApplyCases DEF e
    <2>8. ASSUME NEW d \in DirNames, OnSelfGone(e, d) \/ OnDirGone(e, d)
          PROVE  Retract(Sub(<<d>>)) /\ wds' = Forget(<<d>>) /\ UNCHANGED <<live, cur>>
      BY <2>8 DEF OnSelfGone, OnDirGone
    <2> QED BY <2>1, <2>2, <2>3, <2>4, <2>5, <2>6, <2>7, <2>8, <1>t
  <1>3. DaemonTyped'
    <2>1. batch' \in {"no", "yes", "overflow"}
      BY <1>0 DEF Applied
    <2>2. UNCHANGED <<lost, up, sem, fresh, degraded, full, frames>>
      BY <1>0 DEF Applied
    <2> QED BY <1>2, <2>1, <2>2 DEF Typed, DaemonTyped
  <1> QED BY <1>1, <1>2, <1>3 DEF Typed

\* After the queue was read empty (process).
LEMMA DrainedTyped == ASSUME Typed, Drained PROVE Typed'
  <1>1. KernelTyped' /\ IndexTyped'
    BY KernelKept, KeepTyped DEF Drained
  <1>2. TreeTyped'
    BY DEF Drained, Typed, TreeTyped
  <1>3. DaemonTyped'
    <2>1. /\ batch' = "no" /\ UNCHANGED <<up, sem, wds, cur>>
          /\ \/ /\ degraded' = FALSE /\ full' = TRUE /\ live' = {} /\ frames' = <<{Root}>>
                /\ lost' = Lost /\ UNCHANGED fresh
             \/ /\ fresh' \in {fresh, FALSE} /\ UNCHANGED <<degraded, full, live, frames, lost>>
      BY DEF Drained, Reconcile, Typed, DaemonTyped
    <2>2. <<{Root}>> \in Seq(SUBSET Paths)
      BY PathKinds
    <2>3. Lost \subseteq Inos
      BY DEF Lost, Typed, KernelTyped, AllInos
    <2> QED BY <2>1, <2>2, <2>3 DEF Typed, DaemonTyped
  <1> QED BY <1>1, <1>2, <1>3 DEF Typed

\* After prune_absent.
LEMMA PruneTyped == ASSUME Typed, Prune PROVE Typed'
  <1>1. TreeTyped' /\ KernelTyped'
    BY TreeKept, KernelKept DEF Prune
  <1>2. IndexTyped'
    BY RetractTyped DEF Prune
  <1>3. DaemonTyped'
    BY DEF Prune, Typed, DaemonTyped, wdVars
  <1> QED BY <1>1, <1>2, <1>3 DEF Typed

\* Every step keeps the types.
LEMMA TypedStep == Typed /\ [SwampNext]_swampVars => Typed'
  <1> SUFFICES ASSUME Typed, [SwampNext]_swampVars PROVE Typed'
    OBVIOUS
  <1>1. CASE Daemon
    BY <1>1, BootTyped, WalkRootTyped, ArmDirTyped, ReadDirTyped, VisitTyped, TextTyped, ApplyTyped,
       DrainedTyped, PruneTyped DEF Daemon
  <1>2. CASE UNCHANGED swampVars
    BY <1>2, TreeKept, IndexKept, KernelKept DEF swampVars, Typed, DaemonTyped, daemonVars, wdVars
  <1> QED BY <1>1, <1>2, UserStepTyped, CrashTyped DEF SwampNext

---------------------------------------------------------------------------
(* Rows, texts and vectors *)

\* A second stamps one write
Stamped ==
    /\ \A i \in Inos, f \in FileNames : file[i][f] # NoFile => file[i][f].mtime < clock
    /\ \A i, j \in Inos, f, g \in FileNames :
          file[i][f] # NoFile /\ file[j][g] # NoFile /\ file[i][f].mtime = file[j][g].mtime
             => file[i][f].content = file[j][g].content
    /\ \A p \in Files : row[p] # NoRow => row[p][1] < clock

\* What the daemon works on has its row
Hung == HangOff /\ (cur.op \in {"text", "revec", "embed"} => row[cur.path] # NoRow)

\* The text of a row that is not owed is that of the file it was made of
TextOK ==
    \A p \in Files \ owed : row[p] # NoRow /\ ~(cur.op = "text" /\ cur.path = p) =>
        \A i \in Inos, g \in FileNames :
            file[i][g] # NoFile /\ Meta(file[i][g]) = row[p] => fts[p] = TextOf(file[i][g].content)

\* and so are its vectors, if they do not lag
VecOK ==
    /\ \A p \in Files \ (owed \cup lag) :
          ~(cur.op \in {"text", "embed"} /\ cur.path = p) => vec[p] \in {"none", fts[p]}
    /\ cur.op = "embed" /\ cur.path \notin owed => cur.text = fts[cur.path]

TextsOK == Stamped /\ Hung /\ TextOK /\ VecOK

FileCells(g) == \A i \in Inos, f \in FileNames : g[i][f] # NoFile =>
    \/ \E j \in Inos, h \in FileNames : g[i][f] = file[j][h]
    \/ /\ clock' = clock + 1
       /\ g[i][f].mtime = clock
       /\ \A j \in Inos, h \in FileNames :
            g[j][h] # NoFile /\ g[j][h].mtime = clock => g[j][h].content = g[i][f].content

\* A change leaves the stat of a file, moves it, or stamps one of its own
\* second.
LEMMA UserCells ==
    ASSUME Typed, Stamped, User
    PROVE  FileCells(file') /\ clock' >= clock
  <1>t. /\ at \in [Places -> Inos \cup {"none"}]
        /\ file \in [Inos -> [FileNames -> Stats \cup {NoFile}]]
        /\ clock \in Nat
        /\ \A d \in DirNames : d \in Places
    BY DEF Typed, TreeTyped, Places
  <1>1. CASE UNCHANGED <<file, clock>>
    BY <1>t, <1>1 DEF FileCells
  <1>2. ASSUME NEW d \in Places, NEW f \in FileNames, NEW c \in Contents, Save(d, f, c)
        PROVE FileCells(file') /\ clock' >= clock
    <2>0. at[d] \in Inos
      BY <1>2, <1>t DEF Save
    <2>1. clock' = clock + 1 /\ file' = [file EXCEPT ![at[d]][f] = [content |-> c, mtime |-> clock]]
      BY <1>2 DEF Save
    <2>2. /\ file'[at[d]][f] = [content |-> c, mtime |-> clock]
          /\ \A j \in Inos, h \in FileNames : <<j, h>> # <<at[d], f>> => file'[j][h] = file[j][h]
      BY <1>t, <2>0, <2>1
    <2>3. \A j \in Inos, h \in FileNames : file'[j][h] # NoFile /\ file'[j][h].mtime = clock => <<j, h>> = <<at[d], f>>
      BY <1>t, <2>2 DEF Stamped, Stats
    <2>4. ASSUME NEW i \in Inos, NEW g \in FileNames, file'[i][g] # NoFile
          PROVE  \/ \E j \in Inos, h \in FileNames : file'[i][g] = file[j][h]
                 \/ /\ clock' = clock + 1
                    /\ file'[i][g].mtime = clock
                    /\ \A j \in Inos, h \in FileNames :
                         file'[j][h] # NoFile /\ file'[j][h].mtime = clock
                            => file'[j][h].content = file'[i][g].content
      <3>1. CASE <<i, g>> = <<at[d], f>>
        BY <2>1, <2>2, <2>3, <3>1
      <3>2. CASE <<i, g>> # <<at[d], f>>
        BY <2>2, <3>2
      <3> QED BY <3>1, <3>2
    <2> QED BY <1>t, <2>1, <2>4 DEF FileCells
  <1>3. ASSUME NEW d \in Places, NEW f \in FileNames, RmFile(d, f)
        PROVE FileCells(file') /\ clock' >= clock
    <2>0. at[d] \in Inos
      BY <1>3, <1>t DEF RmFile
    <2>1. clock' = clock /\ \A j \in Inos, h \in FileNames : file'[j][h] \in {file[j][h], NoFile}
      BY <1>3, <1>t, <2>0 DEF RmFile
    <2> QED BY <1>t, <2>1 DEF FileCells
  <1>4. ASSUME NEW d \in Places, NEW e \in Places, NEW f \in FileNames, MvFile(d, e, f)
        PROVE FileCells(file') /\ clock' >= clock
    <2>0. at[d] \in Inos /\ at[e] \in Inos
      BY <1>4, <1>t DEF MvFile
    <2> DEFINE F == [file EXCEPT ![at[d]][f] = NoFile]
    <2>1. F \in [Inos -> [FileNames -> Stats \cup {NoFile}]] /\ file[at[d]][f] \in Stats \cup {NoFile}
      BY <1>t, <2>0
    <2>2. file' = [F EXCEPT ![at[e]][f] = file[at[d]][f]]
      BY <1>4 DEF MvFile
    <2>3. \A j \in Inos, h \in FileNames : F[j][h] \in {file[j][h], NoFile}
      BY <1>t, <2>0
    <2>4. \A j \in Inos, h \in FileNames : file'[j][h] \in {F[j][h], file[at[d]][f]}
      <3> HIDE DEF F
      <3> QED BY <2>0, <2>1, <2>2
    <2>5. \A j \in Inos, h \in FileNames : file'[j][h] # NoFile =>
             file'[j][h] = file[j][h] \/ file'[j][h] = file[at[d]][f]
      BY <2>3, <2>4
    <2>6. clock' = clock
      BY <1>4 DEF MvFile
    <2>7. FileCells(file')
      BY <2>0, <2>5 DEF FileCells
    <2> QED BY <1>t, <2>6, <2>7
  <1> QED BY <1>1, <1>2, <1>3, <1>4 DEF User, MkDir, RmDir, MvDir

\* Then no two contents share a second, whatever is renamed over what.
LEMMA CellsStamped ==
    ASSUME Typed, Typed', Stamped, FileCells(file'), clock' >= clock, UNCHANGED row
    PROVE  Stamped'
  <1>t. /\ file \in [Inos -> [FileNames -> Stats \cup {NoFile}]] /\ clock \in Nat
        /\ file' \in [Inos -> [FileNames -> Stats \cup {NoFile}]] /\ clock' \in Nat
        /\ \A p \in Files : row[p] # NoRow => row[p] \in Metas
    BY DEF Typed, TreeTyped, IndexTyped, Paths
  <1>1. ASSUME NEW i \in Inos, NEW f \in FileNames, file'[i][f] # NoFile
        PROVE  file'[i][f].mtime < clock'
    <2>1. CASE \E j \in Inos, h \in FileNames : file'[i][f] = file[j][h]
      BY <1>t, <1>1, <2>1 DEF Stamped, Stats
    <2>2. CASE clock' = clock + 1 /\ file'[i][f].mtime = clock
      BY <1>t, <2>2
    <2> QED BY <1>1, <2>1, <2>2 DEF FileCells
  <1>2. ASSUME NEW i \in Inos, NEW j \in Inos, NEW f \in FileNames, NEW g \in FileNames,
               file'[i][f] # NoFile, file'[j][g] # NoFile, file'[i][f].mtime = file'[j][g].mtime
        PROVE  file'[i][f].content = file'[j][g].content
    <2>1. CASE file'[i][f].mtime = clock
      <3>1. ~\E k \in Inos, h \in FileNames : file'[i][f] = file[k][h]
        BY <1>t, <1>2, <2>1 DEF Stamped
      <3> QED BY <1>2, <2>1, <3>1 DEF FileCells
    <2>2. CASE file'[i][f].mtime # clock
      <3>1. /\ \E k \in Inos, h \in FileNames : file'[i][f] = file[k][h]
            /\ \E k \in Inos, h \in FileNames : file'[j][g] = file[k][h]
        BY <1>2, <2>2 DEF FileCells
      <3> QED BY <1>2, <3>1 DEF Stamped
    <2> QED BY <2>1, <2>2
  <1>3. \A p \in Files : row'[p] # NoRow => row'[p][1] < clock'
    BY <1>t DEF Stamped, Metas
  <1> QED BY <1>1, <1>2, <1>3 DEF Stamped

\* A row has mtime and size, and is not the absence of one.
LEMMA MetaFields ==
    \A s : Meta(s)[1] = s.mtime /\ Meta(s)[2] = SizeOf(s.content) /\ Meta(s) # NoRow
  BY DEF Meta, NoRow

\* Changes of the user leave rows, texts and vectors as they are.
LEMMA UserTexts ==
    ASSUME Typed, Typed', TextsOK, User
    PROVE  TextsOK'
  <1>u. UNCHANGED <<row, fts, vec, owed, lag, cur>>
    BY DEF User, indexVars, ghostVars, daemonVars
  <1>c. FileCells(file') /\ clock' >= clock
    BY UserCells DEF TextsOK
  <1>1. Stamped'
    BY <1>u, <1>c, CellsStamped DEF TextsOK
  <1>2. Hung' /\ VecOK'
    BY <1>u DEF TextsOK, Hung, HangOff, VecOK
  <1>3. TextOK'
    <2> SUFFICES ASSUME NEW p \in Files \ owed, row[p] # NoRow, ~(cur.op = "text" /\ cur.path = p),
                        NEW i \in Inos, NEW g \in FileNames, file'[i][g] # NoFile, Meta(file'[i][g]) = row[p]
                 PROVE  fts[p] = TextOf(file'[i][g].content)
      BY <1>u DEF TextOK
    <2>1. row[p][1] < clock /\ row[p][1] = file'[i][g].mtime
      BY MetaFields DEF TextsOK, Stamped
    <2>2. clock \in Nat
      BY DEF Typed, TreeTyped
    <2>3. \E j \in Inos, h \in FileNames : file'[i][g] = file[j][h]
      BY <1>c, <2>1, <2>2 DEF FileCells
    <2> QED BY <2>3 DEF TextsOK, TextOK
  <1> QED BY <1>1, <1>2, <1>3 DEF TextsOK

\* A retracted row takes its text and vectors along (delete_path, the cascade).
LEMMA RetractTexts ==
    ASSUME Typed, TextsOK, NEW S \in SUBSET Paths, Retract(S), UNCHANGED <<file, clock>>,
           cur = Idle, cur' = Idle
    PROVE  TextsOK'
  <1>i. cur.op = "none"
    BY DEF Idle
  <1>t. /\ row \in [Paths -> Metas \cup {NoRow}] /\ fts \in [Paths -> Texts \cup {"none"}]
        /\ vec \in [Paths -> Texts \cup {"none", "part"}] /\ \A p \in Files : p \in Paths
    BY DEF Typed, IndexTyped, Paths
  <1>1. CASE UNCHANGED indexVars /\ owed \subseteq owed' /\ lag' = lag
    BY <1>1, <1>i DEF indexVars, TextsOK, Stamped, Hung, HangOff, TextOK, VecOK
  <1>2. CASE /\ row' = [p \in Paths |-> IF p \in S THEN NoRow ELSE row[p]]
             /\ fts' = Without(fts, S) /\ vec' = Without(vec, S)
             /\ \A p \in Paths \ S : p \in owed => p \in owed'
             /\ lag' = lag \ S
    <2>1. /\ \A p \in Paths : p \in S => row'[p] = NoRow /\ fts'[p] = "none" /\ vec'[p] = "none"
          /\ \A p \in Paths : p \notin S => row'[p] = row[p] /\ fts'[p] = fts[p] /\ vec'[p] = vec[p]
      BY <1>2, <1>t DEF Without
    <2>2. Stamped'
      BY <1>t, <2>1 DEF TextsOK, Stamped
    <2>3. Hung'
      BY <1>i, <2>1 DEF TextsOK, Hung, HangOff
    <2>4. TextOK'
      BY <1>t, <1>2, <1>i, <2>1 DEF TextsOK, TextOK
    <2>5. VecOK'
      BY <1>t, <1>2, <1>i, <2>1 DEF TextsOK, VecOK
    <2> QED BY <2>2, <2>3, <2>4, <2>5 DEF TextsOK
  <1> QED BY <1>1, <1>2 DEF Retract, Repay

\* A directory has neither text nor vectors.
LEMMA MapDirTexts ==
    ASSUME Typed, TextsOK, NEW p \in DirPaths, MapDir(p), UNCHANGED <<file, clock>>, cur = Idle
    PROVE  TextsOK'
  <1>i. cur.op = "none" /\ Idle.op = "none" /\ At("arm", p).op = "arm"
    BY DEF Idle, At
  <1>p. p \in Paths /\ p \notin Files
    BY PathKinds DEF DirPaths
  <1>t. /\ row \in [Paths -> Metas \cup {NoRow}] /\ \A q \in Files : q \in Paths
    BY DEF Typed, IndexTyped, Paths
  <1>1. CASE Retract({p}) /\ cur' = Idle
    BY <1>1, <1>p, RetractTexts
  <1>2. CASE /\ row' = [row EXCEPT ![p] = <<0, 0>>] /\ cur' = At("arm", p)
             /\ owed' = Repay({p}) /\ UNCHANGED <<fts, vec, lag>>
    <2>1. /\ row'[p] # NoRow /\ \A q \in Paths : q # p => row'[q] = row[q]
          /\ \A q \in Files : q \in owed => q \in owed'
      BY <1>2, <1>t, <1>p DEF NoRow, Repay
    <2>2. Stamped'
      BY <1>t, <1>p, <2>1 DEF TextsOK, Stamped
    <2>3. Hung'
      BY <1>2, <1>p, <1>i, <2>1 DEF TextsOK, Hung, HangOff
    <2>4. TextOK'
      <3>1. ASSUME NEW q \in Files, q \notin owed'
            PROVE  row'[q] = row[q] /\ fts'[q] = fts[q] /\ q \notin owed /\ file' = file
        BY <3>1, <1>t, <1>p, <1>2, <2>1
      <3> QED BY <3>1, <1>i DEF TextsOK, TextOK
    <2>5. VecOK'
      BY <1>t, <1>i, <1>2, <2>1 DEF TextsOK, VecOK
    <2> QED BY <2>2, <2>3, <2>4, <2>5 DEF TextsOK
  <1>3. CASE UNCHANGED indexVars /\ owed \subseteq owed' /\ lag' = lag /\ cur' = Idle
    BY <1>3, <1>i DEF indexVars, TextsOK, Stamped, Hung, HangOff, TextOK, VecOK
  <1> QED BY <1>1, <1>2, <1>3 DEF MapDir, indexVars

\* A row whose file changed is followed by its text (index_object).
LEMMA MapFileTexts ==
    ASSUME Typed, TextsOK, NEW p \in Files, MapFile(p), UNCHANGED <<file, clock, at>>, cur = Idle
    PROVE  TextsOK'
  <1>i. cur.op = "none" /\ Idle.op = "none"
    BY DEF Idle
  <1>p. p \in Paths
    BY DEF Paths
  <1>t. /\ row \in [Paths -> Metas \cup {NoRow}] /\ fts \in [Paths -> Texts \cup {"none"}]
        /\ vec \in [Paths -> Texts \cup {"none", "part"}] /\ \A q \in Files : q \in Paths
    BY DEF Typed, IndexTyped, Paths
  <1> DEFINE s == Stat(p)
             big == SizeOf(s.content) > 0
  <1>1. CASE Retract({p}) /\ cur' = Idle
    BY <1>1, <1>p, RetractTexts
  <1>2. CASE UNCHANGED indexVars /\ owed \subseteq owed' /\ lag' = lag /\ cur' = Idle
    BY <1>2, <1>i DEF indexVars, TextsOK, Stamped, Hung, HangOff, TextOK, VecOK
  <1>3. CASE /\ s # NoFile
             /\ row' = [row EXCEPT ![p] = Meta(s)]
             /\ cur' = IF big THEN Idle ELSE At(IF row[p] = Meta(s) THEN "revec" ELSE "text", p)
             /\ fts' = IF big THEN Without(fts, {p}) ELSE fts
             /\ vec' = IF big THEN Without(vec, {p}) ELSE vec
             /\ owed' = IF big THEN Repay({p}) ELSE owed
             /\ lag' = IF big THEN lag \ {p} ELSE lag
    <2>0. PICK i \in Inos, g \in FileNames : s = file[i][g]
      <3>1. at[p[1]] \in Inos \cup {"none"} /\ p[2] \in FileNames
        BY PathKinds DEF Typed, TreeTyped, Places
      <3>2. at[p[1]] # "none" /\ s = file[at[p[1]]][p[2]]
        BY <1>3 DEF Stat
      <3> QED BY <3>1, <3>2
    <2>c. clock \in Nat
      BY DEF Typed, TreeTyped
    <2>1. /\ row'[p] = Meta(s) /\ row'[p] # NoRow /\ \A q \in Paths : q # p => row'[q] = row[q]
          /\ \A q \in Files : q # p => /\ fts'[q] = fts[q] /\ vec'[q] = vec[q]
                                       /\ (q \in owed => q \in owed') /\ (q \in lag => q \in lag')
      BY <1>3, <1>t, <1>p, MetaFields DEF Repay, Without
    <2>2. Stamped'
      <3>1. row'[p][1] < clock
        BY <1>3, <2>0, <2>1, MetaFields DEF TextsOK, Stamped
      <3> QED BY <3>1, <2>1, <1>t DEF TextsOK, Stamped
    <2>3. Hung'
      <3>1. cur'.op = "none" \/ cur'.path = p
        BY <1>3, <1>i DEF At
      <3>2. HangOff'
        BY <1>3, <1>p, <1>t, <2>1 DEF TextsOK, Hung, HangOff, Without
      <3> QED BY <3>1, <3>2, <2>1 DEF Hung
    <2>f. cur'.op # "embed" /\ (cur'.op = "text" => cur'.path = p)
      BY <1>3, <1>i DEF At
    <2>4. CASE big
      <3>1. cur'.op = "none" /\ fts'[p] = "none" /\ vec'[p] = "none"
        BY <1>3, <1>i, <1>p, <2>4 DEF Without
      <3>2. ASSUME NEW j \in Inos, NEW h \in FileNames, file[j][h] # NoFile, Meta(file[j][h]) = Meta(s)
            PROVE  TextOf(file[j][h].content) = "none"
        <4>1. file[j][h].content = s.content
          BY <1>3, <2>0, <3>2, MetaFields DEF TextsOK, Stamped
        <4>2. s.content \in Huge
          BY <2>4 DEF SizeOf
        <4> QED BY <4>1, <4>2, SwampAssumption DEF TextOf
      <3>5. ASSUME NEW q \in Files, q \notin owed', q # p
            PROVE  row'[q] = row[q] /\ fts'[q] = fts[q] /\ q \notin owed
        BY <3>5, <1>t, <2>1
      <3>6. file' = file /\ row'[p] = Meta(s) /\ fts'[p] = "none"
        BY <2>1, <3>1
      <3> HIDE DEF s, big
      <3>3. TextOK'
        BY <1>i, <3>2, <3>5, <3>6 DEF TextsOK, TextOK
      <3>4. VecOK'
        BY <1>i, <1>t, <2>1, <3>1 DEF TextsOK, VecOK
      <3> QED BY <2>2, <2>3, <3>3, <3>4 DEF TextsOK
    <2>5. CASE ~big
      <3>0. UNCHANGED <<fts, vec, owed, lag>>
        BY <1>3, <2>5
      <3>1. row'[p] = row[p] \/ (cur'.op = "text" /\ cur'.path = p)
        BY <1>3, <2>1, <2>5 DEF At
      <3>3. TextOK'
        BY <1>3, <1>i, <1>t, <2>1, <2>f, <3>0, <3>1 DEF TextsOK, TextOK
      <3>4. VecOK'
        BY <1>i, <1>t, <2>1, <2>f, <3>0 DEF TextsOK, VecOK
      <3> QED BY <2>2, <2>3, <3>3, <3>4 DEF TextsOK
    <2> QED BY <2>4, <2>5
  <1> QED BY <1>1, <1>2, <1>3 DEF MapFile, indexVars

\* A step of the daemon that leaves the index alone
LEMMA KeptTexts ==
    ASSUME Typed, TextsOK, UNCHANGED <<file, clock, row, fts, vec>>, owed \subseteq owed', lag \subseteq lag',
           cur.op \notin {"text", "embed"}, cur'.op \notin {"text", "revec", "embed"}
    PROVE  TextsOK'
  BY DEF TextsOK, Stamped, Hung, HangOff, TextOK, VecOK

\* Text read now of the file the row was made of
LEMMA ReadIsCurrent ==
    ASSUME Typed, Stamped, NEW p \in Files, Read(p),
           NEW i \in Inos, NEW g \in FileNames, file[i][g] # NoFile, Meta(file[i][g]) = row[p]
    PROVE  Stat(p).content = file[i][g].content
  <1>1. Stat(p) # NoFile /\ row[p] = Meta(Stat(p))
    BY PathKinds DEF Read, Exists
  <1>2. at[p[1]] \in Inos \cup {"none"} /\ p[2] \in FileNames
    BY PathKinds DEF Typed, TreeTyped, Places
  <1>3. at[p[1]] # "none" /\ Stat(p) = file[at[p[1]]][p[2]]
    BY <1>1 DEF Stat
  <1>4. Stat(p).mtime = file[i][g].mtime
    BY <1>1, MetaFields
  <1> QED BY <1>1, <1>2, <1>3, <1>4 DEF Stamped

\* What was read is a file of some directory.
LEMMA ReadIsSome ==
    ASSUME Typed, NEW p \in Files, Read(p)
    PROVE  \E i \in Inos, g \in FileNames :
              file[i][g] # NoFile /\ Meta(file[i][g]) = row[p] /\ Stat(p) = file[i][g]
  <1>1. Stat(p) # NoFile /\ row[p] = Meta(Stat(p))
    BY PathKinds DEF Read, Exists
  <1>2. at[p[1]] \in Inos \cup {"none"} /\ p[2] \in FileNames
    BY PathKinds DEF Typed, TreeTyped, Places
  <1>3. at[p[1]] # "none" /\ Stat(p) = file[at[p[1]]][p[2]]
    BY <1>1 DEF Stat
  <1> QED BY <1>1, <1>2, <1>3

\* set_fts stores the text of the row, unless another file was read; then it is
\* owed.
LEMMA SetTextTexts ==
    ASSUME Typed, Typed', TextsOK, SetText
    PROVE  TextsOK'
  <1> DEFINE p == cur.path
             t == TextOf(Stat(p).content)
  <1>c. cur \in Steps /\ cur.op = "text" /\ Idle.op = "none"
    BY DEF Typed, DaemonTyped, SetText, Idle
  <1>p. p \in Files /\ p \in Paths
    BY <1>c, StepKinds DEF Paths
  <1>u. UNCHANGED <<row, file, clock, at>>
    BY DEF SetText, treeVars, indexVars
  <1>t. /\ fts \in [Paths -> Texts \cup {"none"}] /\ vec \in [Paths -> Texts \cup {"none", "part"}]
        /\ \A q \in Files : q \in Paths /\ t \in Texts \cup {"none"}
    BY TextOfTyped DEF Typed, IndexTyped, Paths
  <1>r. row[p] # NoRow /\ HangOff
    BY <1>c DEF TextsOK, Hung
  <1>1. Stamped'
    BY <1>u DEF TextsOK, Stamped
  <1>2. CASE /\ fts' = [fts EXCEPT ![p] = t]
             /\ vec' = IF t = "none" THEN Without(vec, {p}) ELSE vec
             /\ cur' = IF t # "none" /\ sem THEN [op |-> "embed", path |-> p, text |-> t] ELSE Idle
             /\ owed' = IF Read(p) THEN Repay({p}) ELSE owed \cup {p}
             /\ lag' = IF t = "none" THEN lag \ {p}
                       ELSE IF sem \/ vec[p] \in {"none", t} THEN lag ELSE lag \cup {p}
    <2>1. /\ fts'[p] = t /\ (t = "none" => vec'[p] = "none") /\ (t # "none" => vec' = vec)
          /\ \A q \in Files : q # p =>
                /\ fts'[q] = fts[q] /\ vec'[q] = vec[q]
                /\ (q \in owed => q \in owed') /\ (q \in lag => q \in lag')
      BY <1>2, <1>p, <1>t DEF Without, Repay
    <2>2. /\ cur'.op = "none" \/ (cur'.op = "embed" /\ cur'.path = p /\ cur'.text = t)
          /\ cur'.op = "none" => t = "none" \/ ~sem
      BY <1>2, <1>c
    <2>3. HangOff'
      BY <1>2, <1>p, <1>t, <1>r, <1>u DEF HangOff, Without
    <2>4. Hung'
      BY <2>2, <2>3, <1>r, <1>u DEF Hung
    <2>5. p \notin owed' => Read(p)
      BY <1>2
    <2> HIDE DEF t
    <2>6. TextOK'
      <3>1. ASSUME NEW q \in Files, q # p, q \notin owed'
            PROVE  q \notin owed /\ fts'[q] = fts[q]
        BY <3>1, <2>1
      <3>2. ASSUME p \notin owed', NEW i \in Inos, NEW g \in FileNames,
                   file[i][g] # NoFile, Meta(file[i][g]) = row[p]
            PROVE  fts'[p] = TextOf(file[i][g].content)
        BY <3>2, <2>1, <2>5, <1>p, ReadIsCurrent DEF t, TextsOK
      <3> HIDE DEF p
      <3> QED BY <1>c, <1>u, <3>1, <3>2 DEF TextsOK, TextOK, p
    <2>7. VecOK'
      <3>1. \A q \in Files : q # p /\ q \notin owed' \cup lag' => vec'[q] \in {"none", fts'[q]}
        BY <2>1 DEF TextsOK, VecOK
      <3>2. cur'.op = "none" /\ p \notin lag' => vec'[p] \in {"none", fts'[p]}
        BY <1>2, <2>1, <2>2
      <3> QED BY <2>1, <2>2, <3>1, <3>2 DEF VecOK
    <2> QED BY <1>1, <2>4, <2>6, <2>7 DEF TextsOK
  <1>3. CASE owed' = owed \cup {p} /\ cur' = Idle /\ lag' = lag \cup {p} /\ UNCHANGED indexVars
    <2>1. UNCHANGED <<fts, vec>>
      BY <1>3 DEF indexVars
    <2>2. Hung'
      BY <1>3, <1>c, <1>u, <1>r, <2>1 DEF Hung, HangOff
    <2>3. TextOK'
      BY <1>3, <1>c, <1>u, <2>1 DEF TextsOK, TextOK
    <2>4. VecOK'
      BY <1>3, <1>c, <1>u, <2>1 DEF TextsOK, VecOK
    <2> QED BY <1>1, <2>2, <2>3, <2>4 DEF TextsOK
  <1> QED BY <1>2, <1>3 DEF SetText

\* reembed_if_vectors_missing reads only where no chunk is.
LEMMA ReVecTexts ==
    ASSUME Typed, Typed', TextsOK, ReVec
    PROVE  TextsOK'
  <1> DEFINE p == cur.path
             t == TextOf(Stat(p).content)
  <1>c. cur \in Steps /\ cur.op = "revec" /\ Idle.op = "none"
    BY DEF Typed, DaemonTyped, ReVec, Idle
  <1>p. p \in Files /\ p \in Paths
    BY <1>c, StepKinds DEF Paths
  <1>u. UNCHANGED <<row, fts, vec, lag, file, clock, at>>
    BY DEF ReVec, treeVars, indexVars
  <1>1. CASE cur' = Idle /\ UNCHANGED owed
    BY <1>1, <1>c, <1>u, KeptTexts
  <1>2. CASE /\ cur' = [op |-> "embed", path |-> p, text |-> t]
             /\ owed' = IF Read(p) THEN owed ELSE owed \cup {p}
    <2>1. cur'.op = "embed" /\ cur'.path = p /\ cur'.text = t /\ owed \subseteq owed'
      BY <1>2
    <2>2. Stamped' /\ Hung' /\ TextOK'
      BY <1>c, <1>u, <2>1 DEF TextsOK, Stamped, Hung, HangOff, TextOK
    <2>3. p \notin owed' => t = fts[p]
      <3> SUFFICES ASSUME p \notin owed' PROVE t = fts[p]
        OBVIOUS
      <3>1. Read(p) /\ p \notin owed
        BY <1>2
      <3>2. PICK i \in Inos, g \in FileNames :
              file[i][g] # NoFile /\ Meta(file[i][g]) = row[p] /\ Stat(p) = file[i][g]
        BY <1>p, <3>1, ReadIsSome
      <3>3. row[p] # NoRow /\ cur.op # "text"
        BY <1>c DEF TextsOK, Hung
      <3> QED BY <1>p, <3>1, <3>2, <3>3 DEF TextsOK, TextOK
    <2>4. VecOK'
      BY <1>c, <1>u, <2>1, <2>3 DEF TextsOK, VecOK
    <2> QED BY <2>2, <2>4 DEF TextsOK
  <1> QED BY <1>1, <1>2 DEF ReVec

\* enrich_semantic stores what was read, or leaves the old vectors behind.
LEMMA EmbedTexts ==
    ASSUME Typed, Typed', TextsOK, Embed
    PROVE  TextsOK'
  <1> DEFINE p == cur.path
  <1>c. cur \in Steps /\ cur.op = "embed" /\ cur'.op = "none"
    BY DEF Typed, DaemonTyped, Embed, Idle
  <1>p. p \in Files /\ p \in Paths
    BY <1>c, StepKinds DEF Paths
  <1>u. UNCHANGED <<row, fts, owed, file, clock>>
    BY DEF Embed, treeVars
  <1>t. vec \in [Paths -> Texts \cup {"none", "part"}] /\ \A q \in Files : q \in Paths
    BY DEF Typed, IndexTyped, Paths
  <1>1. Stamped' /\ TextOK'
    BY <1>c, <1>u DEF TextsOK, Stamped, TextOK
  <1>2. /\ \/ vec' = [vec EXCEPT ![p] = cur.text] /\ lag' = lag \ {p}
           \/ vec' = vec /\ lag' = lag \cup {p}
    BY DEF Embed
  <1>3. Hung'
    BY <1>2, <1>c, <1>p, <1>t, <1>u DEF TextsOK, Hung, HangOff
  <1>4. VecOK'
    BY <1>2, <1>c, <1>p, <1>t, <1>u DEF TextsOK, VecOK
  <1> QED BY <1>1, <1>3, <1>4 DEF TextsOK

\* A crash between set_fts and the chunks leaves a debt.
LEMMA CrashTexts ==
    ASSUME Typed, Typed', TextsOK, Crash
    PROVE  TextsOK'
  <1>c. cur \in Steps /\ cur'.op = "none"
    BY DEF Typed, DaemonTyped, Crash, Idle
  <1>p. cur.op \in {"text", "embed"} => cur.path \in Files /\ cur.path \in Paths
    BY <1>c, StepKinds DEF Paths
  <1>u. UNCHANGED <<row, file, clock>>
    BY DEF Crash, treeVars
  <1>t. /\ fts \in [Paths -> Texts \cup {"none"}] /\ vec \in [Paths -> Texts \cup {"none", "part"}]
        /\ \A q \in Files : q \in Paths
    BY DEF Typed, IndexTyped, Paths
  <1>1. /\ \A q \in Paths : fts'[q] # fts[q] => cur.op = "text" /\ q = cur.path /\ fts'[q] = "none"
        /\ owed \subseteq owed' /\ lag \subseteq lag'
        /\ cur.op = "text" => cur.path \in owed'
        /\ cur.op \in {"text", "embed"} => cur.path \in lag'
    BY <1>t DEF Crash, Without
  <1>2. \A q \in Paths : vec'[q] # vec[q] => cur.op = "embed" /\ q = cur.path
    BY <1>t, <1>p DEF Crash, Without
  <1>3. Stamped'
    BY <1>u DEF TextsOK, Stamped
  <1>4. Hung'
    BY <1>1, <1>2, <1>c, <1>u DEF TextsOK, Hung, HangOff
  <1>5. TextOK'
    <2>1. ASSUME NEW q \in Files, q \notin owed'
          PROVE  q \notin owed /\ fts'[q] = fts[q] /\ ~(cur.op = "text" /\ cur.path = q)
      BY <2>1, <1>1, <1>t
    <2> QED BY <2>1, <1>c, <1>u DEF TextsOK, TextOK
  <1>6. VecOK'
    <2>1. ASSUME NEW q \in Files, q \notin owed' \cup lag'
          PROVE  /\ q \notin owed \cup lag /\ fts'[q] = fts[q] /\ vec'[q] = vec[q]
                 /\ ~(cur.op \in {"text", "embed"} /\ cur.path = q)
      BY <2>1, <1>1, <1>2, <1>t
    <2> QED BY <2>1, <1>c DEF TextsOK, VecOK
  <1> QED BY <1>3, <1>4, <1>5, <1>6 DEF TextsOK

---------------------------------------------------------------------------
(* Where a reconcile, a walk and a drain can be *)

\* A failed write of the root owes everything, and nothing is repaid before the root
OwedOK == Root \in owed => owed = Paths
RowsOK == \A p \in Paths : row[p] # NoRow => Indexable(p)

WalkOK ==
    /\ up = "down" => cur = Idle /\ frames = <<>> /\ ~full
    /\ up = "boot" => full
    /\ full => batch = "no"
    /\ ~full /\ batch = "no" => cur = Idle /\ frames = <<>>
    /\ ~full /\ batch = "no" /\ fresh => ~degraded
    /\ InFrames(frames, Root) => frames = <<{Root}>>
    /\ frames = <<{Root}>> => full /\ cur = Idle /\ live = {}
    /\ cur \in {At("arm", Root), At("read", Root)} => full /\ frames = <<>> /\ live = {Root}
    /\ full /\ frames # <<{Root}>> => Root \in live \cup owed

ControlOK == WalkOK /\ OwedOK /\ RowsOK

\* A walk that starts has the root to visit.
LEMMA RootFrame ==
    /\ \A fr : fr = <<{Root}>> => fr # <<>> /\ InFrames(fr, Root)
    /\ Head(<<{Root}>>) = {Root}
  BY DEF InFrames

\* Only mapping the root again pays its debt, which is everybody's.
LEMMA RepayRoot ==
    ASSUME Typed, OwedOK, NEW S \in SUBSET Paths
    PROVE  /\ Repay(S) \subseteq owed /\ owed \ S \subseteq Repay(S)
           /\ Root \notin S => (Root \in Repay(S) => Repay(S) = Paths) /\ (Root \in owed <=> Root \in Repay(S))
           /\ Root \in S => Root \notin Repay(S)
  <1>1. owed \subseteq Paths
    BY DEF Typed, IndexTyped
  <1>2. Repay(S) \subseteq owed /\ owed \ S \subseteq Repay(S)
    BY DEF Repay
  <1>3. ASSUME Root \notin S PROVE (Root \in Repay(S) => Repay(S) = Paths) /\ (Root \in owed <=> Root \in Repay(S))
    <2>1. ASSUME Root \in owed, NEW p \in owed PROVE p \in Repay(S)
      <3>1. p = Root \/ ~(\A q \in owed : Beneath(p, q) => q = p)
        BY <1>1, <2>1, BeneathFacts
      <3> QED BY <1>3, <3>1 DEF Repay
    <2> QED BY <1>2, <2>1 DEF OwedOK
  <1>4. ASSUME Root \in S PROVE Root \notin Repay(S)
    <2>1. \A q \in Paths : Beneath(Root, q) => q = Root
      BY BeneathFacts, PathKinds DEF Dirs1
    <2> QED BY <1>1, <1>4, <2>1 DEF Repay
  <1> QED BY <1>2, <1>3, <1>4

\* The member root is there and indexable.
LEMMA RootExists == Exists(Root) /\ Indexable(Root)
  BY PathKinds DEF Exists, Indexable, DirIno

\* Retracting leaves debts whole and rows indexable.
LEMMA RetractControl ==
    ASSUME Typed, OwedOK, RowsOK, NEW S \in SUBSET Paths, Retract(S), Root \in S => Root \in owed
    PROVE  OwedOK' /\ RowsOK' /\ (Root \in owed' <=> Root \in owed)
  <1> DEFINE T == {p \in S : ~Exists(p) \/ ~Indexable(p)}
  <1>0. T \in SUBSET Paths /\ Root \notin T
    BY RootExists
  <1>t. row \in [Paths -> Metas \cup {NoRow}] /\ owed \subseteq Paths
    BY DEF Typed, IndexTyped
  <1>1. CASE row' = [p \in Paths |-> IF p \in S THEN NoRow ELSE row[p]] /\ owed' = Repay(T)
    <2>1. OwedOK' /\ (Root \in owed' <=> Root \in owed)
      BY <1>0, <1>1, RepayRoot DEF OwedOK
    <2> QED BY <1>1, <1>t, <2>1 DEF RowsOK, Indexable
  <1>2. CASE row' = row /\ owed' = owed \cup S
    BY <1>2, <1>t DEF OwedOK, RowsOK, Indexable
  <1> QED BY <1>1, <1>2 DEF Retract, indexVars

\* So does index_object of a directory; walk arms it if it was mapped.
LEMMA MapDirControl ==
    ASSUME Typed, OwedOK, RowsOK, NEW p \in DirPaths, MapDir(p)
    PROVE  /\ OwedOK' /\ RowsOK'
           /\ cur' = Idle \/ (cur' = At("arm", p) /\ (full => p \in live'))
           /\ live \subseteq live' /\ live' \subseteq live \cup {p}
           /\ p # Root => (Root \in owed' <=> Root \in owed)
           /\ p = Root => cur' = At("arm", Root) \/ Root \in owed'
  <1>p. p \in Paths /\ {p} \in SUBSET Paths
    BY DEF Paths
  <1>t. row \in [Paths -> Metas \cup {NoRow}] /\ owed \subseteq Paths
    BY DEF Typed, IndexTyped
  <1>1. CASE ~Exists(p) \/ ~Indexable(p)
    <2>1. p # Root /\ Retract({p}) /\ cur' = Idle /\ live' = live
      BY <1>1, RootExists DEF MapDir
    <2> QED BY <1>p, <2>1, RetractControl
  <1>2. CASE Exists(p) /\ Indexable(p)
    <2>1. CASE /\ row' = [row EXCEPT ![p] = <<0, 0>>] /\ cur' = At("arm", p)
               /\ live' = (IF full THEN live \cup {p} ELSE live) /\ owed' = Repay({p})
      <3>1. RowsOK'
        BY <1>2, <1>p, <1>t, <2>1 DEF RowsOK, Indexable
      <3>2. /\ p # Root => (Root \in owed' => owed' = Paths) /\ (Root \in owed <=> Root \in owed')
            /\ p = Root => Root \notin owed'
        <4> DEFINE S == {p}
        <4>1. S \in SUBSET Paths /\ owed' = Repay(S) /\ (p = Root <=> Root \in S)
          BY <1>p, <2>1
        <4> HIDE DEF S
        <4> QED BY <4>1, RepayRoot
      <3>3. OwedOK'
        BY <3>2 DEF OwedOK
      <3> QED BY <2>1, <3>1, <3>2, <3>3
    <2>2. CASE /\ owed' = owed \cup {q \in Paths : Beneath(q, p)} /\ cur' = Idle
               /\ UNCHANGED <<row, live>>
      <3>1. p = Root => owed' = Paths
        BY <1>t, <2>2, BeneathFacts
      <3>2. p # Root => ~Beneath(Root, p)
        BY <1>p, PathKinds, BeneathFacts DEF Dirs1
      <3>3. Root \in Paths
        BY PathKinds
      <3> QED BY <1>t, <2>2, <3>1, <3>2, <3>3 DEF OwedOK, RowsOK, Indexable
    <2>3. \/ /\ row' = [row EXCEPT ![p] = <<0, 0>>] /\ cur' = At("arm", p)
             /\ live' = (IF full THEN live \cup {p} ELSE live) /\ owed' = Repay({p})
          \/ /\ owed' = owed \cup {q \in Paths : Beneath(q, p)} /\ cur' = Idle
             /\ UNCHANGED <<row, live>>
      BY <1>2 DEF MapDir, indexVars
    <2> QED BY <2>1, <2>2, <2>3
  <1> QED BY <1>1, <1>2

\* And index_object of a file.
LEMMA MapFileControl ==
    ASSUME Typed, OwedOK, RowsOK, NEW p \in Files, MapFile(p)
    PROVE  /\ OwedOK' /\ RowsOK'
           /\ cur' = Idle \/ cur' \in {At("text", p), At("revec", p)}
           /\ live \subseteq live' /\ live' \subseteq live \cup {p}
           /\ Root \in owed' <=> Root \in owed
  <1>p. p \in Paths /\ {p} \in SUBSET Paths /\ Root \notin {p}
    BY PathKinds DEF Paths
  <1>t. row \in [Paths -> Metas \cup {NoRow}] /\ owed \subseteq Paths
    BY DEF Typed, IndexTyped
  <1>1. CASE Stat(p) = NoFile \/ ~Indexable(p)
    <2>1. Retract({p}) /\ cur' = Idle /\ live' = live
      BY <1>1 DEF MapFile
    <2> QED BY <1>p, <2>1, RetractControl
  <1>2. CASE Stat(p) # NoFile /\ Indexable(p)
    <2>1. CASE /\ row' = [row EXCEPT ![p] = Meta(Stat(p))]
               /\ live' = IF full THEN live \cup {p} ELSE live
               /\ cur' = Idle \/ cur' \in {At("text", p), At("revec", p)}
               /\ owed' \in {Repay({p}), owed}
      <3>1. RowsOK'
        BY <1>2, <1>p, <1>t, <2>1 DEF RowsOK, Indexable
      <3>2. OwedOK' /\ (Root \in owed' <=> Root \in owed)
        BY <1>p, <2>1, RepayRoot DEF OwedOK
      <3> QED BY <2>1, <3>1, <3>2
    <2>2. CASE owed' = owed \cup {p} /\ cur' = Idle /\ UNCHANGED <<row, live>>
      BY <1>t, <1>p, <2>2 DEF OwedOK, RowsOK, Indexable
    <2> QED BY <1>2, <2>1, <2>2 DEF MapFile, indexVars
  <1> QED BY <1>1, <1>2

\* The steps at the root are none of the others.
LEMMA CurKinds ==
    /\ Idle # At("arm", Root) /\ Idle # At("read", Root) /\ At("arm", Root) # At("read", Root)
    /\ \A p \in Paths : p # Root => \A k \in {"arm", "read"} : At(k, p) \notin {At("arm", Root), At("read", Root)}
    /\ \A p \in Files : /\ At("text", p) \notin {At("arm", Root), At("read", Root)}
                        /\ At("revec", p) \notin {At("arm", Root), At("read", Root)}
                        /\ At("text", p) # Idle /\ At("revec", p) # Idle
    /\ \A p \in Paths : At("arm", p) # Idle /\ At("read", p) # Idle
    /\ \A p, t : /\ [op |-> "embed", path |-> p, text |-> t] \notin {At("arm", Root), At("read", Root)}
                 /\ [op |-> "embed", path |-> p, text |-> t] # Idle
  <1>1. Idle.op = "none" /\ \A k, p : At(k, p).op = k /\ At(k, p).path = p
    BY DEF Idle, At
  <1>2. \A p, t : [op |-> "embed", path |-> p, text |-> t].op = "embed"
    OBVIOUS
  <1> QED BY <1>1, <1>2

\* The control at first start.
LEMMA ControlInit == SwampInit => ControlOK
  BY NoFrames, RootFrame, CurKinds DEF SwampInit, ControlOK, WalkOK, OwedOK, RowsOK

\* Steps that leave the daemon's place alone.
LEMMA ControlKept ==
    ASSUME ControlOK, UNCHANGED <<up, full, batch, cur, frames, live, owed, row, fresh, degraded>>
    PROVE  ControlOK'
  BY DEF ControlOK, WalkOK, OwedOK, RowsOK, Indexable

\* A start begins a full reconcile.
LEMMA BootControl == ASSUME Typed, ControlOK, Boot PROVE ControlOK'
  <1>1. /\ up' = "boot" /\ full' = TRUE /\ batch' = "no" /\ cur' = Idle /\ frames' = <<{Root}>> /\ live' = {}
        /\ UNCHANGED <<owed, row>>
    BY DEF Boot, Reconcile
  <1> QED BY <1>1, CurKinds, RootFrame DEF ControlOK, WalkOK, OwedOK, RowsOK, Indexable

\* A crash ends every walk.
LEMMA CrashControl == ASSUME Typed, ControlOK, Crash PROVE ControlOK'
  <1>1. /\ up' = "down" /\ full' = FALSE /\ batch' = "no" /\ cur' = Idle /\ frames' = <<>> /\ live' = {}
        /\ fresh' = FALSE /\ row' = row
    BY DEF Crash
  <1>2. OwedOK'
    <2>1. owed' = owed \/ (owed' = owed \cup {cur.path} /\ cur.path \in Files)
      BY StepKinds DEF Crash, Typed, DaemonTyped
    <2> QED BY <2>1, PathKinds DEF ControlOK, OwedOK, Typed, IndexTyped, Paths
  <1>3. WalkOK'
    BY <1>1, CurKinds, NoFrames, RootFrame DEF WalkOK
  <1> QED BY <1>1, <1>2, <1>3 DEF ControlOK, RowsOK, Indexable

\* The root is mapped, or everything is owed.
LEMMA WalkRootControl == ASSUME Typed, ControlOK, WalkRoot PROVE ControlOK'
  <1>0. /\ up # "down" /\ cur = Idle /\ frames = <<{Root}>> /\ frames' = <<>> /\ full /\ live = {}
        /\ UNCHANGED <<up, fresh, degraded, batch, full>> /\ MapDir(Root)
    BY DEF WalkRoot, ControlOK, WalkOK
  <1>1. /\ OwedOK' /\ RowsOK'
        /\ cur' = Idle \/ (cur' = At("arm", Root) /\ (full => Root \in live'))
        /\ live \subseteq live' /\ live' \subseteq live \cup {Root}
        /\ cur' = At("arm", Root) \/ Root \in owed'
    BY <1>0, MapDirControl, PathKinds DEF ControlOK
  <1>2. WalkOK'
    BY <1>0, <1>1, CurKinds, NoFrames, RootFrame DEF ControlOK, WalkOK
  <1> QED BY <1>1, <1>2 DEF ControlOK

\* Arming the root belongs to a full reconcile.
LEMMA ArmDirControl == ASSUME Typed, ControlOK, ArmDir PROVE ControlOK'
  <1>0. /\ cur.op = "arm" /\ cur' = At("read", cur.path) /\ UNCHANGED <<up, fresh, batch, full, live, frames, row, owed>>
        /\ cur \in Steps
    BY DEF ArmDir, indexVars, ghostVars, Typed, DaemonTyped
  <1>1. cur # Idle /\ cur' # Idle /\ cur.path \in Paths /\ cur = At("arm", cur.path)
    BY <1>0, StepKinds, CurKinds DEF Paths
  <1>2. cur' \in {At("arm", Root), At("read", Root)} => cur = At("arm", Root)
    BY <1>0, <1>1, CurKinds
  <1>3. full \/ batch # "no"
    BY <1>1 DEF ControlOK, WalkOK
  <1> QED BY <1>0, <1>1, <1>2, <1>3 DEF ControlOK, WalkOK, OwedOK, RowsOK, Indexable

\* So does reading it; no directory contains the root.
LEMMA ReadDirControl == ASSUME Typed, ControlOK, ReadDir PROVE ControlOK'
  <1>0. /\ cur.op = "read" /\ cur' = Idle
        /\ frames' = IF Entries(cur.path) = {} THEN frames ELSE <<Entries(cur.path)>> \o frames
        /\ UNCHANGED <<up, fresh, degraded, batch, full, live, row, owed>>
        /\ cur \in Steps /\ frames \in Seq(SUBSET Paths)
    BY DEF ReadDir, KeepIndex, indexVars, ghostVars, Typed, DaemonTyped
  <1>1. cur # Idle /\ cur.path \in DirPaths
    BY <1>0, StepKinds
  <1>2. Entries(cur.path) \in SUBSET Paths /\ Root \notin Entries(cur.path)
    BY <1>1, EntriesTyped
  <1>3. InFrames(frames', Root) <=> InFrames(frames, Root)
    BY <1>0, <1>2, FramePush
  <1>4. ~InFrames(frames, Root) /\ frames' # <<{Root}>> /\ frames # <<{Root}>> /\ up # "down" /\ (full \/ batch # "no")
    BY <1>1, <1>3, RootFrame DEF ControlOK, WalkOK
  <1> QED BY <1>0, <1>3, <1>4, CurKinds DEF ControlOK, WalkOK, OwedOK, RowsOK, Indexable

\* The walk goes on below the root.
LEMMA VisitControl == ASSUME Typed, ControlOK, NEW p \in Paths \ {Root}, Visit(p) PROVE ControlOK'
  <1>0. /\ up # "down" /\ cur = Idle /\ frames # <<>> /\ p \in Head(frames) /\ frames' = Popped(frames, p)
        /\ UNCHANGED <<up, fresh, degraded, batch, full>> /\ frames \in Seq(SUBSET Paths)
    BY DEF Visit, Popped, Typed, DaemonTyped
  <1>1. /\ OwedOK' /\ RowsOK' /\ (Root \in owed' <=> Root \in owed)
        /\ live \subseteq live' /\ (Root \in live' <=> Root \in live)
        /\ cur' \notin {At("arm", Root), At("read", Root)}
    <2>1. CASE ~Exists(p)
      <3>1. UNCHANGED <<row, owed, live, cur>>
        BY <2>1 DEF Visit, KeepIndex, indexVars, ghostVars
      <3> QED BY <1>0, <3>1, CurKinds DEF ControlOK, OwedOK, RowsOK, Indexable
    <2>2. CASE Exists(p) /\ Len(p) = 1
      <3>1. p \in DirPaths /\ p # Root /\ MapDir(p) /\ p \in Paths
        BY <2>2, PathKinds DEF Visit, Dirs1
      <3> QED BY <3>1, MapDirControl, CurKinds DEF ControlOK
    <2>3. CASE Exists(p) /\ Len(p) # 1
      <3>1. p \in Files /\ p # Root /\ MapFile(p)
        BY <2>3, PathKinds DEF Visit, Dirs1
      <3> QED BY <3>1, MapFileControl, CurKinds DEF ControlOK
    <2> QED BY <2>1, <2>2, <2>3
  <1>2. frames # <<{Root}>> /\ ~InFrames(frames, Root) /\ ~InFrames(frames', Root) /\ frames' # <<{Root}>>
    BY <1>0, RootFrame, FramePop DEF ControlOK, WalkOK
  <1>3. WalkOK'
    BY <1>0, <1>1, <1>2 DEF ControlOK, WalkOK
  <1> QED BY <1>1, <1>3 DEF ControlOK

\* Texts are read without leaving the walk.
LEMMA TextControl == ASSUME Typed, ControlOK, SetText \/ ReVec \/ Embed PROVE ControlOK'
  <1>0. /\ cur \in Steps /\ cur.op \in {"text", "revec", "embed"}
        /\ UNCHANGED <<up, fresh, degraded, batch, full, live, frames, row>>
    BY DEF SetText, ReVec, Embed, indexVars, Typed, DaemonTyped
  <1>1. cur # Idle /\ cur.path \in Files /\ cur.path \in Paths /\ cur.path # Root
    BY <1>0, StepKinds, PathKinds DEF Paths
  <1>2. cur' \notin {At("arm", Root), At("read", Root)}
    BY CurKinds DEF SetText, ReVec, Embed
  <1>3. OwedOK' /\ (Root \in owed' <=> Root \in owed)
    <2>1. \/ owed' = owed \/ owed' = owed \cup {cur.path} \/ owed' = Repay({cur.path})
      BY DEF SetText, ReVec, Embed
    <2>2. CASE owed' = Repay({cur.path})
      <3> DEFINE S == {cur.path}
      <3>1. S \in SUBSET Paths /\ Root \notin S /\ owed' = Repay(S)
        BY <1>1, <2>2
      <3> HIDE DEF S
      <3> QED BY <3>1, RepayRoot DEF ControlOK, OwedOK
    <2>3. CASE owed' = owed \/ owed' = owed \cup {cur.path}
      BY <1>1, <2>3 DEF ControlOK, OwedOK, Typed, IndexTyped
    <2> QED BY <2>1, <2>2, <2>3
  <1>4. WalkOK'
    BY <1>0, <1>1, <1>2, <1>3, RootFrame DEF ControlOK, WalkOK
  <1> QED BY <1>0, <1>3, <1>4 DEF ControlOK, RowsOK, Indexable

\* Events are applied outside every walk, one at a time.
LEMMA ApplyControl == ASSUME Typed, ControlOK, ApplyEvent PROVE ControlOK'
  <1> DEFINE e == Head(queue)
  <1>0. Applied(e)
    BY ApplyCases
  <1>1. /\ up = "serving" /\ ~full /\ cur = Idle /\ frames = <<>> /\ batch' # "no"
        /\ UNCHANGED <<up, fresh, degraded, full, frames>>
    BY <1>0 DEF Applied
  <1> HIDE DEF e
  <1>2. OwedOK' /\ RowsOK' /\ cur' \notin {At("arm", Root), At("read", Root)}
    <2>1. CASE UNCHANGED <<row, owed, cur>>
      BY <1>1, <2>1, CurKinds DEF ControlOK, OwedOK, RowsOK, Indexable
    <2>2. ASSUME NEW d \in DirNames, OnSelfGone(e, d) \/ OnDirGone(e, d)
          PROVE OwedOK' /\ RowsOK' /\ cur' \notin {At("arm", Root), At("read", Root)}
      <3>1. Retract(Sub(<<d>>)) /\ cur' = cur
        BY <2>2 DEF OnSelfGone, OnDirGone
      <3>2. Sub(<<d>>) \in SUBSET Paths /\ Root \notin Sub(<<d>>)
        BY BeneathFacts DEF Sub
      <3> QED BY <1>1, <3>1, <3>2, RetractControl, CurKinds DEF ControlOK
    <2>3. ASSUME NEW d \in DirNames, NEW f \in FileNames, OnFileGone(e, d, f)
          PROVE OwedOK' /\ RowsOK' /\ cur' \notin {At("arm", Root), At("read", Root)}
      <3>1. Retract({<<d, f>>}) /\ cur' = cur
        BY <2>3 DEF OnFileGone
      <3>2. {<<d, f>>} \in SUBSET Paths /\ Root \notin {<<d, f>>}
        BY PathKinds
      <3> QED BY <1>1, <3>1, <3>2, RetractControl, CurKinds DEF ControlOK
    <2>4. ASSUME NEW d \in DirNames, OnDirThere(e, d)
          PROVE OwedOK' /\ RowsOK' /\ cur' \notin {At("arm", Root), At("read", Root)}
      <3>1. MapDir(<<d>>) /\ <<d>> \in DirPaths /\ <<d>> \in Paths /\ <<d>> # Root
        BY <2>4, PathKinds DEF OnDirThere
      <3> QED BY <3>1, MapDirControl, CurKinds DEF ControlOK
    <2>5. ASSUME NEW d \in DirNames, NEW f \in FileNames, OnFileThere(e, d, f)
          PROVE OwedOK' /\ RowsOK' /\ cur' \notin {At("arm", Root), At("read", Root)}
      <3>1. MapFile(<<d, f>>) /\ <<d, f>> \in Files
        BY <2>5, PathKinds DEF OnFileThere
      <3> QED BY <3>1, MapFileControl, CurKinds DEF ControlOK
    <2>6. \/ OnNothing \/ OnIgnored(e)
          \/ \E d \in DirNames : OnSelfGone(e, d) \/ OnDirGone(e, d) \/ OnDirThere(e, d)
          \/ \E d \in DirNames, f \in FileNames : OnFileGone(e, d, f) \/ OnFileThere(e, d, f)
      BY ApplyCases DEF e
    <2>7. OnNothing \/ OnIgnored(e) => UNCHANGED <<row, owed, cur>>
      BY DEF OnNothing, OnIgnored, KeepIndex, indexVars, ghostVars
    <2> QED BY <2>1, <2>2, <2>3, <2>4, <2>5, <2>6, <2>7
  <1>3. WalkOK'
    BY <1>1, <1>2, NoFrames, RootFrame DEF ControlOK, WalkOK
  <1> QED BY <1>2, <1>3 DEF ControlOK

\* A drain ends in rest or in a full reconcile.
LEMMA DrainedControl == ASSUME Typed, ControlOK, Drained PROVE ControlOK'
  <1>0. /\ up = "serving" /\ ~full /\ cur = Idle /\ frames = <<>> /\ batch' = "no"
        /\ UNCHANGED <<up, cur, row, owed>>
        /\ \/ full' = TRUE /\ live' = {} /\ frames' = <<{Root}>>
           \/ fresh' = (fresh /\ ~degraded) /\ UNCHANGED <<degraded, full, live, frames>>
    BY DEF Drained, Reconcile, KeepIndex, indexVars, ghostVars
  <1>1. CASE full' = TRUE /\ live' = {} /\ frames' = <<{Root}>>
    BY <1>0, <1>1, CurKinds, RootFrame DEF ControlOK, WalkOK, OwedOK, RowsOK, Indexable
  <1>2. CASE fresh' = (fresh /\ ~degraded) /\ UNCHANGED <<degraded, full, live, frames>>
    <2>1. WalkOK'
      BY <1>0, <1>2, CurKinds, NoFrames, RootFrame DEF WalkOK
    <2> QED BY <1>0, <2>1 DEF ControlOK, OwedOK, RowsOK, Indexable
  <1> QED BY <1>0, <1>1, <1>2

\* A full reconcile ends with the root met, or owed.
LEMMA PruneControl == ASSUME Typed, ControlOK, Prune PROVE ControlOK'
  <1> DEFINE Stale == {p \in Paths : row[p] # NoRow /\ p \notin live}
  <1>0. /\ full /\ cur = Idle /\ frames = <<>> /\ Retract(Stale) /\ full' = FALSE /\ fresh' = ~degraded
        /\ up' = "serving" /\ UNCHANGED <<degraded, batch, frames, cur>>
    BY DEF Prune
  <1>1. Stale \in SUBSET Paths /\ (Root \in Stale => Root \in owed)
    BY <1>0, RootFrame DEF ControlOK, WalkOK
  <1>2. OwedOK' /\ RowsOK'
    <2> HIDE DEF Stale
    <2> QED BY <1>0, <1>1, RetractControl DEF ControlOK
  <1>3. WalkOK'
    BY <1>0, CurKinds, NoFrames, RootFrame DEF WalkOK
  <1> QED BY <1>2, <1>3 DEF ControlOK

\* Every step keeps the control.
LEMMA ControlStep == Typed /\ ControlOK /\ [SwampNext]_swampVars => ControlOK'
  <1> SUFFICES ASSUME Typed, ControlOK, [SwampNext]_swampVars PROVE ControlOK'
    OBVIOUS
  <1>1. CASE User \/ UNCHANGED swampVars
    BY <1>1, ControlKept DEF User, swampVars, daemonVars, indexVars, ghostVars
  <1> QED BY <1>1, BootControl, CrashControl, WalkRootControl, ArmDirControl, ReadDirControl, VisitControl, TextControl,
             ApplyControl, DrainedControl, PruneControl DEF SwampNext, Daemon

\* An empty index has no text to be wrong.
LEMMA TextsInit == SwampInit => TextsOK
  <1> SUFFICES ASSUME SwampInit PROVE TextsOK
    OBVIOUS
  <1>1. /\ \A i \in Inos, f \in FileNames : file[i][f] = NoFile
        /\ \A p \in Paths : row[p] = NoRow /\ fts[p] = "none" /\ vec[p] = "none"
        /\ cur.op = "none" /\ \A p \in Files : p \in Paths
    BY DEF SwampInit, NoFiles, Idle, Paths
  <1> QED BY <1>1 DEF TextsOK, Stamped, Hung, HangOff, TextOK, VecOK

\* A start may drop all vectors, no text.
LEMMA BootTexts == ASSUME Typed, TextsOK, ControlOK, Boot PROVE TextsOK'
  <1>1. UNCHANGED <<file, clock, row, fts, owed>> /\ cur'.op = "none" /\ cur.op = "none"
    BY DEF Boot, Idle, ControlOK, WalkOK
  <1>2. CASE UNCHANGED <<vec, lag>>
    BY <1>1, <1>2, KeptTexts
  <1>3. CASE vec' = Without(vec, Paths) /\ lag' = {}
    <2>1. \A p \in Paths : vec'[p] = "none"
      BY <1>3 DEF Without
    <2>2. \A p \in Files : p \in Paths
      BY DEF Paths
    <2> QED BY <1>1, <2>1, <2>2 DEF TextsOK, Stamped, Hung, HangOff, TextOK, VecOK
  <1> QED BY <1>2, <1>3 DEF Boot

\* An entry that is visited.
LEMMA VisitTexts == ASSUME Typed, TextsOK, NEW p \in Paths \ {Root}, Visit(p) PROVE TextsOK'
  <1>0. cur = Idle /\ cur.op = "none" /\ UNCHANGED <<file, clock, at>>
    BY DEF Visit, Idle, treeVars
  <1>1. CASE ~Exists(p)
    <2>1. KeepIndex /\ UNCHANGED cur
      BY <1>1 DEF Visit
    <2> QED BY <1>0, <2>1, KeptTexts DEF KeepIndex, indexVars, ghostVars
  <1>2. CASE Exists(p) /\ Len(p) = 1
    BY <1>0, <1>2, MapDirTexts, PathKinds DEF Visit, Dirs1
  <1>3. CASE Exists(p) /\ Len(p) # 1
    BY <1>0, <1>3, MapFileTexts, PathKinds DEF Visit, Dirs1
  <1> QED BY <1>1, <1>2, <1>3

\* An event that is applied.
LEMMA ApplyTexts == ASSUME Typed, TextsOK, ApplyEvent PROVE TextsOK'
  <1> DEFINE e == Head(queue)
  <1>0. Applied(e)
    BY ApplyCases
  <1>1. cur = Idle /\ cur.op = "none" /\ UNCHANGED <<file, clock, at>>
    BY <1>0 DEF Applied, Idle, treeVars
  <1> HIDE DEF e
  <1>2. CASE KeepIndex /\ UNCHANGED cur
    BY <1>1, <1>2, KeptTexts DEF KeepIndex, indexVars, ghostVars
  <1>3. ASSUME NEW d \in DirNames, OnSelfGone(e, d) \/ OnDirGone(e, d) PROVE TextsOK'
    <2>1. Retract(Sub(<<d>>)) /\ cur' = cur
      BY <1>3 DEF OnSelfGone, OnDirGone
    <2> QED BY <1>1, <2>1, RetractTexts DEF Sub
  <1>4. ASSUME NEW d \in DirNames, NEW f \in FileNames, OnFileGone(e, d, f) PROVE TextsOK'
    BY <1>1, <1>4, RetractTexts, PathKinds DEF OnFileGone
  <1>5. ASSUME NEW d \in DirNames, OnDirThere(e, d) PROVE TextsOK'
    BY <1>1, <1>5, MapDirTexts, PathKinds DEF OnDirThere
  <1>6. ASSUME NEW d \in DirNames, NEW f \in FileNames, OnFileThere(e, d, f) PROVE TextsOK'
    BY <1>1, <1>6, MapFileTexts, PathKinds DEF OnFileThere
  <1>7. \/ OnNothing \/ OnIgnored(e)
        \/ \E d \in DirNames : OnSelfGone(e, d) \/ OnDirGone(e, d) \/ OnDirThere(e, d)
        \/ \E d \in DirNames, f \in FileNames : OnFileGone(e, d, f) \/ OnFileThere(e, d, f)
    BY ApplyCases DEF e
  <1>8. OnNothing \/ OnIgnored(e) => KeepIndex /\ UNCHANGED cur
    BY DEF OnNothing, OnIgnored
  <1> QED BY <1>2, <1>3, <1>4, <1>5, <1>6, <1>7, <1>8

\* Every step keeps rows, texts and vectors together.
LEMMA TextsStep == Typed /\ Typed' /\ ControlOK /\ TextsOK /\ [SwampNext]_swampVars => TextsOK'
  <1> SUFFICES ASSUME Typed, Typed', ControlOK, TextsOK, [SwampNext]_swampVars PROVE TextsOK'
    OBVIOUS
  <1>1. CASE WalkRoot
    BY <1>1, MapDirTexts, PathKinds DEF WalkRoot, treeVars
  <1>2. CASE ArmDir
    <2>1. cur.op = "arm" /\ cur'.op = "read"
      BY <1>2 DEF ArmDir, At
    <2> QED BY <1>2, <2>1, KeptTexts DEF ArmDir, treeVars, indexVars, ghostVars
  <1>3. CASE ReadDir
    <2>1. cur.op = "read" /\ cur'.op = "none"
      BY <1>3 DEF ReadDir, Idle
    <2> QED BY <1>3, <2>1, KeptTexts DEF ReadDir, KeepIndex, treeVars, indexVars, ghostVars
  <1>4. CASE Drained
    <2>1. cur.op = "none" /\ cur'.op = "none"
      BY <1>4 DEF Drained, Idle
    <2> QED BY <1>4, <2>1, KeptTexts DEF Drained, KeepIndex, indexVars, ghostVars
  <1>5. CASE Prune
    BY <1>5, RetractTexts DEF Prune, treeVars
  <1>6. CASE UNCHANGED swampVars
    BY <1>6 DEF swampVars, treeVars, indexVars, daemonVars, ghostVars,
                TextsOK, Stamped, Hung, HangOff, TextOK, VecOK
  <1> QED BY <1>1, <1>2, <1>3, <1>4, <1>5, <1>6, UserTexts, BootTexts, VisitTexts, ApplyTexts, SetTextTexts,
             ReVecTexts, EmbedTexts, CrashTexts DEF SwampNext, Daemon

---------------------------------------------------------------------------
(* What is pending in the queue *)

Match(e, w, S, x) == e.wd = w /\ e.what \in S /\ e.name = x
Has(q, w, S, x)   == \E n \in 1..Len(q) : Match(q[n], w, S, x)
LastIn(q, w, S, T, x) == \E n \in 1..Len(q) :
    /\ Match(q[n], w, S, x)
    /\ \A m \in 1..Len(q) : m > n => ~Match(q[m], w, T, x)

DropDir(q, d)     == Has(q, "root", DirGone, d)
Born(q, d)        == LastIn(q, "root", DirThere, DirGone, d)
DropFile(q, i, f) == Has(q, i, FileGone, f)
Touched(q, i, f)  == LastIn(q, i, FileThere, FileGone, f)

Ended == {"delete_self", "ignored"}
Renames == {"from_dir", "to_dir", "move_self"}
HeardIn(q, i)  == \E n \in 1..Len(q) : q[n].wd = i
SelfGone(q, i) == \E n \in 1..Len(q) : q[n].wd = i /\ q[n].what \in Ended
Moves(q)       == \E n \in 1..Len(q) : q[n].what \in Renames
OverIn(q)      == \E n \in 1..Len(q) : q[n].what = "overflow"
\* The inode reports its own end before the root reports that d is gone
Bare(q, i, d)  == \E n \in 1..Len(q) :
    /\ q[n].wd = i /\ q[n].what = "delete_self"
    /\ \A m \in 1..Len(q) : m < n => ~Match(q[m], "root", DirGone, d)

\* A queue with one event more.
LEMMA AppendIndex ==
    ASSUME NEW q \in Seq(Events), NEW e \in Events
    PROVE  /\ Append(q, e) \in Seq(Events) /\ Len(q) \in Nat /\ Len(Append(q, e)) = Len(q) + 1
           /\ \A n \in 1..Len(q) : Append(q, e)[n] = q[n]
           /\ Append(q, e)[Len(q) + 1] = e
           /\ \A n \in 1..Len(q) + 1 : n \in 1..Len(q) \/ n = Len(q) + 1
  BY AppendProperties, LenProperties

\* What is pending in it.
LEMMA AppendHas ==
    ASSUME NEW q \in Seq(Events), NEW e \in Events
    PROVE  /\ \A w, S, x : Has(Append(q, e), w, S, x) <=> Has(q, w, S, x) \/ Match(e, w, S, x)
           /\ \A i : HeardIn(Append(q, e), i) <=> HeardIn(q, i) \/ e.wd = i
           /\ \A i : SelfGone(Append(q, e), i) <=> SelfGone(q, i) \/ (e.wd = i /\ e.what \in Ended)
           /\ Moves(Append(q, e)) <=> Moves(q) \/ e.what \in Renames
           /\ OverIn(Append(q, e)) <=> OverIn(q) \/ e.what = "overflow"
  <1> DEFINE r == Append(q, e)
  <1>1. /\ Len(q) \in Nat /\ Len(r) = Len(q) + 1 /\ \A n \in 1..Len(q) : r[n] = q[n] /\ n \in 1..Len(r)
        /\ r[Len(r)] = e /\ Len(r) \in 1..Len(r)
        /\ \A n \in 1..Len(r) : n \in 1..Len(q) \/ n = Len(r)
    BY AppendIndex
  <1> HIDE DEF r
  <1>2. \A w, S, x : Has(r, w, S, x) <=> Has(q, w, S, x) \/ Match(e, w, S, x)
    BY <1>1 DEF Has
  <1>3. \A i : HeardIn(r, i) <=> HeardIn(q, i) \/ e.wd = i
    BY <1>1 DEF HeardIn
  <1>4. \A i : SelfGone(r, i) <=> SelfGone(q, i) \/ (e.wd = i /\ e.what \in Ended)
    BY <1>1 DEF SelfGone
  <1>5. Moves(r) <=> Moves(q) \/ e.what \in Renames
    BY <1>1 DEF Moves
  <1>6. OverIn(r) <=> OverIn(q) \/ e.what = "overflow"
    BY <1>1 DEF OverIn
  <1> QED BY <1>2, <1>3, <1>4, <1>5, <1>6 DEF r

\* And what is pending with nothing against it after.
LEMMA AppendLast ==
    ASSUME NEW q \in Seq(Events), NEW e \in Events
    PROVE  /\ \A w, S, T, x : LastIn(Append(q, e), w, S, T, x) <=>
                  Match(e, w, S, x) \/ (LastIn(q, w, S, T, x) /\ ~Match(e, w, T, x))
           /\ \A i, d : Bare(Append(q, e), i, d) <=>
                  Bare(q, i, d) \/ (e.wd = i /\ e.what = "delete_self" /\ ~DropDir(q, d))
  <1> DEFINE r == Append(q, e)
  <1>1. /\ Len(q) \in Nat /\ Len(r) = Len(q) + 1 /\ \A n \in 1..Len(q) : r[n] = q[n] /\ n \in 1..Len(r) /\ n < Len(r)
        /\ r[Len(r)] = e /\ Len(r) \in 1..Len(r)
        /\ \A n \in 1..Len(r) : n \in 1..Len(q) \/ n = Len(r)
        /\ \A m, n \in 1..Len(r) : n = Len(r) => ~(m > n)
        /\ \A m, n \in 1..Len(r) : n < Len(r) /\ m < n => m < Len(r)
    BY AppendIndex
  <1> HIDE DEF r
  <1>2. ASSUME NEW w, NEW S, NEW T, NEW x
        PROVE  LastIn(r, w, S, T, x) <=> Match(e, w, S, x) \/ (LastIn(q, w, S, T, x) /\ ~Match(e, w, T, x))
    BY <1>1 DEF LastIn
  <1>3. ASSUME NEW i, NEW d
        PROVE  Bare(r, i, d) <=> Bare(q, i, d) \/ (e.wd = i /\ e.what = "delete_self" /\ ~DropDir(q, d))
    BY <1>1 DEF Bare, DropDir, Has
  <1> QED BY <1>2, <1>3 DEF r

\* A queue with its first event read.
LEMMA TailIndex ==
    ASSUME NEW q \in Seq(Events), q # <<>>
    PROVE  /\ Tail(q) \in Seq(Events) /\ Len(q) \in Nat \ {0} /\ Len(Tail(q)) = Len(q) - 1
           /\ Head(q) = q[1] /\ Head(q) \in Events
           /\ \A n \in 1..Len(Tail(q)) : Tail(q)[n] = q[n + 1] /\ n + 1 \in 1..Len(q)
           /\ \A n \in 1..Len(q) : n = 1 \/ (n - 1 \in 1..Len(Tail(q)) /\ Tail(q)[n - 1] = q[n])
  BY HeadTailProperties, EmptySeq

\* What was pending is still, or was that event.
LEMMA TailHas ==
    ASSUME NEW q \in Seq(Events), q # <<>>
    PROVE  /\ \A w, S, x : Has(q, w, S, x) <=> Has(Tail(q), w, S, x) \/ Match(Head(q), w, S, x)
           /\ \A i : HeardIn(q, i) <=> HeardIn(Tail(q), i) \/ Head(q).wd = i
           /\ \A i : SelfGone(q, i) <=> SelfGone(Tail(q), i) \/ (Head(q).wd = i /\ Head(q).what \in Ended)
           /\ Moves(q) <=> Moves(Tail(q)) \/ Head(q).what \in Renames
           /\ OverIn(q) <=> OverIn(Tail(q)) \/ Head(q).what = "overflow"
  <1> DEFINE r == Tail(q)
             e == Head(q)
  <1>1. /\ Len(q) \in Nat \ {0} /\ 1 \in 1..Len(q) /\ e = q[1]
        /\ \A n \in 1..Len(r) : r[n] = q[n + 1] /\ n + 1 \in 1..Len(q)
        /\ \A n \in 1..Len(q) : n = 1 \/ (n - 1 \in 1..Len(r) /\ r[n - 1] = q[n])
    BY TailIndex
  <1> HIDE DEF r, e
  <1>2. \A w, S, x : Has(q, w, S, x) <=> Has(r, w, S, x) \/ Match(e, w, S, x)
    BY <1>1 DEF Has
  <1>3. \A i : HeardIn(q, i) <=> HeardIn(r, i) \/ e.wd = i
    BY <1>1 DEF HeardIn
  <1>4. \A i : SelfGone(q, i) <=> SelfGone(r, i) \/ (e.wd = i /\ e.what \in Ended)
    BY <1>1 DEF SelfGone
  <1>5. Moves(q) <=> Moves(r) \/ e.what \in Renames
    BY <1>1 DEF Moves
  <1>6. OverIn(q) <=> OverIn(r) \/ e.what = "overflow"
    BY <1>1 DEF OverIn
  <1> QED BY <1>2, <1>3, <1>4, <1>5, <1>6 DEF r, e

\* The same of what has nothing against it after.
LEMMA TailLast ==
    ASSUME NEW q \in Seq(Events), q # <<>>
    PROVE  /\ \A w, S, T, x : LastIn(q, w, S, T, x) <=>
                  LastIn(Tail(q), w, S, T, x) \/ (Match(Head(q), w, S, x) /\ ~Has(Tail(q), w, T, x))
           /\ \A i, d : Bare(Tail(q), i, d) => Bare(q, i, d) \/ Match(Head(q), "root", DirGone, d)
           /\ \A i, d : Head(q).wd = i /\ Head(q).what = "delete_self" => Bare(q, i, d)
  <1> DEFINE r == Tail(q)
             e == Head(q)
  <1>1. /\ Len(q) \in Nat \ {0} /\ 1 \in 1..Len(q) /\ e = q[1] /\ Len(r) = Len(q) - 1
        /\ \A n \in 1..Len(r) : r[n] = q[n + 1] /\ n + 1 \in 1..Len(q)
        /\ \A n \in 1..Len(q) : n = 1 \/ (n - 1 \in 1..Len(r) /\ r[n - 1] = q[n])
    BY TailIndex
  <1> HIDE DEF r, e
  <1>2. ASSUME NEW w, NEW S, NEW T, NEW x
        PROVE  LastIn(q, w, S, T, x) <=> LastIn(r, w, S, T, x) \/ (Match(e, w, S, x) /\ ~Has(r, w, T, x))
    <2>1. ASSUME LastIn(q, w, S, T, x)
          PROVE  LastIn(r, w, S, T, x) \/ (Match(e, w, S, x) /\ ~Has(r, w, T, x))
      <3>1. PICK n \in 1..Len(q) : Match(q[n], w, S, x) /\ \A m \in 1..Len(q) : m > n => ~Match(q[m], w, T, x)
        BY <2>1 DEF LastIn
      <3>2. CASE n = 1
        <4>1. \A m \in 1..Len(r) : ~Match(r[m], w, T, x)
          BY <1>1, <3>1, <3>2
        <4> QED BY <1>1, <3>1, <3>2, <4>1 DEF Has
      <3>3. CASE n # 1
        <4>1. n - 1 \in 1..Len(r) /\ Match(r[n - 1], w, S, x)
          BY <1>1, <3>1, <3>3
        <4>2. \A m \in 1..Len(r) : m > n - 1 => ~Match(r[m], w, T, x)
          BY <1>1, <3>1, <3>3
        <4> QED BY <4>1, <4>2 DEF LastIn
      <3> QED BY <3>2, <3>3
    <2>2. ASSUME LastIn(r, w, S, T, x) PROVE LastIn(q, w, S, T, x)
      <3>1. PICK n \in 1..Len(r) : Match(r[n], w, S, x) /\ \A m \in 1..Len(r) : m > n => ~Match(r[m], w, T, x)
        BY <2>2 DEF LastIn
      <3>2. n + 1 \in 1..Len(q) /\ Match(q[n + 1], w, S, x)
        BY <1>1, <3>1
      <3>3. \A m \in 1..Len(q) : m > n + 1 => ~Match(q[m], w, T, x)
        BY <1>1, <3>1
      <3> QED BY <3>2, <3>3 DEF LastIn
    <2>3. ASSUME Match(e, w, S, x), ~Has(r, w, T, x) PROVE LastIn(q, w, S, T, x)
      <3>1. \A m \in 1..Len(q) : m > 1 => ~Match(q[m], w, T, x)
        BY <1>1, <2>3 DEF Has
      <3> QED BY <1>1, <2>3, <3>1 DEF LastIn
    <2> QED BY <2>1, <2>2, <2>3
  <1>3. ASSUME NEW i, NEW d, Bare(r, i, d) PROVE Bare(q, i, d) \/ Match(e, "root", DirGone, d)
    <2>1. PICK n \in 1..Len(r) : /\ r[n].wd = i /\ r[n].what = "delete_self"
                                 /\ \A m \in 1..Len(r) : m < n => ~Match(r[m], "root", DirGone, d)
      BY <1>3 DEF Bare
    <2>2. n + 1 \in 1..Len(q) /\ q[n + 1] = r[n]
      BY <1>1
    <2>3. ASSUME ~Match(e, "root", DirGone, d), NEW m \in 1..Len(q), m < n + 1
          PROVE  ~Match(q[m], "root", DirGone, d)
      BY <1>1, <2>1, <2>3
    <2> QED BY <2>1, <2>2, <2>3 DEF Bare
  <1>4. ASSUME NEW i, NEW d, e.wd = i, e.what = "delete_self" PROVE Bare(q, i, d)
    <2>1. \A m \in 1..Len(q) : ~(m < 1)
      BY <1>1
    <2> QED BY <1>1, <1>4, <2>1 DEF Bare
  <1> QED BY <1>2, <1>3, <1>4 DEF r, e

\* Nothing is pending in an empty queue.
LEMMA EmptyQueue ==
    /\ \A d : ~DropDir(<<>>, d) /\ ~Born(<<>>, d)
    /\ \A i, f : ~DropFile(<<>>, i, f) /\ ~Touched(<<>>, i, f)
    /\ \A i : ~HeardIn(<<>>, i) /\ ~SelfGone(<<>>, i)
    /\ \A i, d : ~Bare(<<>>, i, d)
    /\ ~Moves(<<>>) /\ ~OverIn(<<>>)
  BY DEF DropDir, Born, DropFile, Touched, Has, LastIn, HeardIn, SelfGone, Bare, Moves, OverIn

\* A queue without overflow has exactly the events of watched directories.
LEMMA ToldAdds ==
    ASSUME NEW q \in Seq(Events), NEW e \in Events, ~OverIn(Told(q, e))
    PROVE  ~OverIn(q) /\ Told(q, e) \in Seq(Events) /\ Told(q, e) = IF e.wd \in watched THEN Append(q, e) ELSE q
  <1>1. Overflow \in Events /\ Overflow.what = "overflow"
    BY DEF Events, Overflow, Ev
  <1>2. OverIn(Append(q, Overflow))
    BY <1>1, AppendHas
  <1>3. ~OverIn(Append(q, e)) => ~OverIn(q)
    BY AppendHas
  <1>4. q # <<>> /\ q[Len(q)] = Overflow => OverIn(q)
    <2>1. q # <<>> => Len(q) \in 1..Len(q)
      BY EmptySeq
    <2> QED BY <1>1, <2>1 DEF OverIn
  <1> QED BY <1>2, <1>3, <1>4, QueuedTyped DEF Told, Queued

\* What a queue that dropped nothing says after one more event
LEMMA ToldEffect ==
    ASSUME NEW q \in Seq(Events), NEW e \in Events, ~OverIn(Told(q, e)), NEW t \in BOOLEAN, t = (e.wd \in watched)
    PROVE  /\ ~OverIn(q) /\ Told(q, e) \in Seq(Events)
           /\ \A d : DropDir(Told(q, e), d) <=> DropDir(q, d) \/ (t /\ Match(e, "root", DirGone, d))
           /\ \A d : Born(Told(q, e), d) <=>
                 (t /\ Match(e, "root", DirThere, d)) \/ (Born(q, d) /\ ~(t /\ Match(e, "root", DirGone, d)))
           /\ \A i, f : DropFile(Told(q, e), i, f) <=> DropFile(q, i, f) \/ (t /\ Match(e, i, FileGone, f))
           /\ \A i, f : Touched(Told(q, e), i, f) <=>
                 (t /\ Match(e, i, FileThere, f)) \/ (Touched(q, i, f) /\ ~(t /\ Match(e, i, FileGone, f)))
           /\ \A i : HeardIn(Told(q, e), i) <=> HeardIn(q, i) \/ (t /\ e.wd = i)
           /\ \A i : SelfGone(Told(q, e), i) <=> SelfGone(q, i) \/ (t /\ e.wd = i /\ e.what \in Ended)
           /\ Moves(Told(q, e)) <=> Moves(q) \/ (t /\ e.what \in Renames)
           /\ \A i, d : Bare(Told(q, e), i, d) <=>
                 Bare(q, i, d) \/ (t /\ e.wd = i /\ e.what = "delete_self" /\ ~DropDir(q, d))
  <1>0. ~OverIn(q) /\ Told(q, e) \in Seq(Events)
    BY ToldAdds
  <1>1. CASE t
    <2>1. Told(q, e) = Append(q, e)
      BY <1>1, ToldAdds
    <2> QED BY <1>0, <1>1, <2>1, AppendHas, AppendLast DEF DropDir, Born, DropFile, Touched
  <1>2. CASE ~t
    <2>1. Told(q, e) = q
      BY <1>2, ToldAdds
    <2> QED BY <1>0, <1>2, <2>1
  <1> QED BY <1>1, <1>2

\* The kinds of events are different.
LEMMA KindsApart ==
    /\ \A k \in DirGone : k \notin DirThere \cup FileGone \cup FileThere \cup Ended /\ k # "overflow"
    /\ \A k \in DirThere : k \notin DirGone \cup FileGone \cup FileThere \cup Ended /\ k # "overflow"
    /\ \A k \in FileGone : k \notin DirGone \cup DirThere \cup FileThere \cup Ended \cup Renames /\ k # "overflow"
    /\ \A k \in FileThere : k \notin DirGone \cup DirThere \cup FileGone \cup Ended \cup Renames /\ k # "overflow"
    /\ \A k \in Ended \cup {"move_self"} :
          k \notin DirGone \cup DirThere \cup FileGone \cup FileThere /\ k # "overflow"
    /\ "delete_self" \notin DirGone \cup DirThere \cup FileGone \cup FileThere
    /\ "delete_self" \in Ended /\ "ignored" \in Ended /\ "move_self" \notin Ended
    /\ \A k \in Ended : k \notin Renames
    /\ "move_self" \in Renames /\ "from_dir" \in Renames /\ "to_dir" \in Renames
    /\ "create_dir" \notin Renames /\ "delete_dir" \notin Renames
  BY DEF DirGone, DirThere, FileGone, FileThere, Ended, Renames

\* A directory of the root is deleted or moved away.
LEMMA ToldDirGone ==
    ASSUME NEW q \in Seq(Events), NEW k \in DirGone, NEW x \in DirNames, ~OverIn(Told(q, Ev("root", k, x)))
    PROVE  LET r == Told(q, Ev("root", k, x)) IN
           /\ ~OverIn(q) /\ r \in Seq(Events)
           /\ \A d : DropDir(r, d) <=> DropDir(q, d) \/ ("root" \in watched /\ d = x)
           /\ \A d : Born(r, d) <=> Born(q, d) /\ ~("root" \in watched /\ d = x)
           /\ \A i, f : (DropFile(r, i, f) <=> DropFile(q, i, f)) /\ (Touched(r, i, f) <=> Touched(q, i, f))
           /\ \A i : HeardIn(r, i) <=> HeardIn(q, i) \/ ("root" \in watched /\ i = "root")
           /\ \A i : SelfGone(r, i) <=> SelfGone(q, i)
           /\ k = "delete_dir" => (Moves(r) <=> Moves(q))
           /\ \A i, d : Bare(r, i, d) <=> Bare(q, i, d)
  <1> DEFINE e == Ev("root", k, x)
             t == e.wd \in watched
  <1>1. e \in Events /\ e.wd = "root" /\ e.what = k /\ e.name = x
    BY EvFields, EventsMade
  <1>2. t \in BOOLEAN /\ (t <=> "root" \in watched)
    BY <1>1
  <1> HIDE DEF e
  <1>3. /\ \A d : Match(e, "root", DirGone, d) <=> d = x
        /\ \A d : ~Match(e, "root", DirThere, d)
        /\ \A i, f : ~Match(e, i, FileGone, f) /\ ~Match(e, i, FileThere, f)
        /\ e.what \notin Ended /\ e.what # "delete_self" /\ (k = "delete_dir" => e.what \notin Renames)
    BY <1>1, KindsApart DEF Match
  <1> DEFINE r == Told(q, e)
  <1>4. ~OverIn(r)
    BY DEF e
  <1>5. /\ ~OverIn(q) /\ r \in Seq(Events)
        /\ \A d : DropDir(r, d) <=> DropDir(q, d) \/ (t /\ Match(e, "root", DirGone, d))
        /\ \A d : Born(r, d) <=>
              (t /\ Match(e, "root", DirThere, d)) \/ (Born(q, d) /\ ~(t /\ Match(e, "root", DirGone, d)))
        /\ \A i, f : DropFile(r, i, f) <=> DropFile(q, i, f) \/ (t /\ Match(e, i, FileGone, f))
        /\ \A i, f : Touched(r, i, f) <=>
              (t /\ Match(e, i, FileThere, f)) \/ (Touched(q, i, f) /\ ~(t /\ Match(e, i, FileGone, f)))
        /\ \A i : HeardIn(r, i) <=> HeardIn(q, i) \/ (t /\ e.wd = i)
        /\ \A i : SelfGone(r, i) <=> SelfGone(q, i) \/ (t /\ e.wd = i /\ e.what \in Ended)
        /\ Moves(r) <=> Moves(q) \/ (t /\ e.what \in Renames)
        /\ \A i, d : Bare(r, i, d) <=> Bare(q, i, d) \/ (t /\ e.wd = i /\ e.what = "delete_self" /\ ~DropDir(q, d))
    BY <1>1, <1>2, <1>4, ToldEffect
  <1> HIDE DEF t, r
  <1> QED BY <1>1, <1>2, <1>3, <1>5 DEF e, r

\* One is created or moved there.
LEMMA ToldDirThere ==
    ASSUME NEW q \in Seq(Events), NEW k \in DirThere, NEW x \in DirNames, ~OverIn(Told(q, Ev("root", k, x)))
    PROVE  LET r == Told(q, Ev("root", k, x)) IN
           /\ ~OverIn(q) /\ r \in Seq(Events)
           /\ \A d : DropDir(r, d) <=> DropDir(q, d)
           /\ \A d : Born(r, d) <=> Born(q, d) \/ ("root" \in watched /\ d = x)
           /\ \A i, f : (DropFile(r, i, f) <=> DropFile(q, i, f)) /\ (Touched(r, i, f) <=> Touched(q, i, f))
           /\ \A i : HeardIn(r, i) <=> HeardIn(q, i) \/ ("root" \in watched /\ i = "root")
           /\ \A i : SelfGone(r, i) <=> SelfGone(q, i)
           /\ k = "create_dir" => (Moves(r) <=> Moves(q))
           /\ \A i, d : Bare(r, i, d) <=> Bare(q, i, d)
  <1> DEFINE e == Ev("root", k, x)
             t == e.wd \in watched
  <1>1. e \in Events /\ e.wd = "root" /\ e.what = k /\ e.name = x
    BY EvFields, EventsMade
  <1>2. t \in BOOLEAN
    OBVIOUS
  <1>r. "root" \notin Inos
    BY SwampAssumption
  <1> HIDE DEF e
  <1>3. /\ \A d : Match(e, "root", DirThere, d) <=> d = x
        /\ \A d : ~Match(e, "root", DirGone, d)
        /\ \A i, f : ~Match(e, i, FileGone, f) /\ ~Match(e, i, FileThere, f)
        /\ e.what \notin Ended /\ e.what # "delete_self" /\ (k = "create_dir" => e.what \notin Renames)
    BY <1>1, <1>r, KindsApart DEF Match
  <1> DEFINE r == Told(q, e)
  <1>4. ~OverIn(r)
    BY DEF e
  <1>5. /\ ~OverIn(q) /\ r \in Seq(Events)
        /\ \A d : DropDir(r, d) <=> DropDir(q, d) \/ (t /\ Match(e, "root", DirGone, d))
        /\ \A d : Born(r, d) <=>
              (t /\ Match(e, "root", DirThere, d)) \/ (Born(q, d) /\ ~(t /\ Match(e, "root", DirGone, d)))
        /\ \A i, f : DropFile(r, i, f) <=> DropFile(q, i, f) \/ (t /\ Match(e, i, FileGone, f))
        /\ \A i, f : Touched(r, i, f) <=>
              (t /\ Match(e, i, FileThere, f)) \/ (Touched(q, i, f) /\ ~(t /\ Match(e, i, FileGone, f)))
        /\ \A i : HeardIn(r, i) <=> HeardIn(q, i) \/ (t /\ e.wd = i)
        /\ \A i : SelfGone(r, i) <=> SelfGone(q, i) \/ (t /\ e.wd = i /\ e.what \in Ended)
        /\ Moves(r) <=> Moves(q) \/ (t /\ e.what \in Renames)
        /\ \A i, d : Bare(r, i, d) <=> Bare(q, i, d) \/ (t /\ e.wd = i /\ e.what = "delete_self" /\ ~DropDir(q, d))
    BY <1>1, <1>2, <1>4, ToldEffect
  <1>6. t <=> "root" \in watched
    BY <1>1
  <1> HIDE DEF t, r
  <1> QED BY <1>1, <1>2, <1>3, <1>5, <1>6 DEF e, r

\* A directory ends or moves itself.
LEMMA ToldSelf ==
    ASSUME NEW q \in Seq(Events), NEW i \in Inos, NEW k \in Ended \cup {"move_self"}, ~OverIn(Told(q, Ev(i, k, "none")))
    PROVE  LET r == Told(q, Ev(i, k, "none")) IN
           /\ ~OverIn(q) /\ r \in Seq(Events)
           /\ \A d : (DropDir(r, d) <=> DropDir(q, d)) /\ (Born(r, d) <=> Born(q, d))
           /\ \A j, f : (DropFile(r, j, f) <=> DropFile(q, j, f)) /\ (Touched(r, j, f) <=> Touched(q, j, f))
           /\ \A j : HeardIn(r, j) <=> HeardIn(q, j) \/ (i \in watched /\ i = j)
           /\ \A j : SelfGone(r, j) <=> SelfGone(q, j) \/ (i \in watched /\ i = j /\ k \in Ended)
           /\ k \in Ended => (Moves(r) <=> Moves(q))
           /\ \A j, d : Bare(r, j, d) <=>
                 Bare(q, j, d) \/ (i \in watched /\ i = j /\ k = "delete_self" /\ ~DropDir(q, d))
  <1> DEFINE e == Ev(i, k, "none")
             t == e.wd \in watched
  <1>1. e \in Events /\ e.wd = i /\ e.what = k /\ e.name = "none"
    BY EvFields, EventsMade DEF Ended
  <1>2. t \in BOOLEAN
    OBVIOUS
  <1>r. "root" \notin Inos
    BY SwampAssumption
  <1> HIDE DEF e
  <1>3. /\ \A d : ~Match(e, "root", DirThere, d) /\ ~Match(e, "root", DirGone, d)
        /\ \A j, f : ~Match(e, j, FileGone, f) /\ ~Match(e, j, FileThere, f)
        /\ k \in Ended => e.what \notin Renames
    BY <1>1, <1>r, KindsApart DEF Match
  <1> DEFINE r == Told(q, e)
  <1>4. ~OverIn(r)
    BY DEF e
  <1>5. /\ ~OverIn(q) /\ r \in Seq(Events)
        /\ \A d : DropDir(r, d) <=> DropDir(q, d) \/ (t /\ Match(e, "root", DirGone, d))
        /\ \A d : Born(r, d) <=>
              (t /\ Match(e, "root", DirThere, d)) \/ (Born(q, d) /\ ~(t /\ Match(e, "root", DirGone, d)))
        /\ \A j, f : DropFile(r, j, f) <=> DropFile(q, j, f) \/ (t /\ Match(e, j, FileGone, f))
        /\ \A j, f : Touched(r, j, f) <=>
              (t /\ Match(e, j, FileThere, f)) \/ (Touched(q, j, f) /\ ~(t /\ Match(e, j, FileGone, f)))
        /\ \A j : HeardIn(r, j) <=> HeardIn(q, j) \/ (t /\ e.wd = j)
        /\ \A j : SelfGone(r, j) <=> SelfGone(q, j) \/ (t /\ e.wd = j /\ e.what \in Ended)
        /\ Moves(r) <=> Moves(q) \/ (t /\ e.what \in Renames)
        /\ \A j, d : Bare(r, j, d) <=> Bare(q, j, d) \/ (t /\ e.wd = j /\ e.what = "delete_self" /\ ~DropDir(q, d))
    BY <1>1, <1>2, <1>4, ToldEffect
  <1>6. t <=> i \in watched
    BY <1>1
  <1> HIDE DEF t, r
  <1> QED BY <1>1, <1>2, <1>3, <1>5, <1>6 DEF e, r

\* A file is deleted or moved away.
LEMMA ToldFileGone ==
    ASSUME NEW q \in Seq(Events), NEW i \in Inos, NEW k \in FileGone, NEW x \in FileNames, ~OverIn(Told(q, Ev(i, k, x)))
    PROVE  LET r == Told(q, Ev(i, k, x)) IN
           /\ ~OverIn(q) /\ r \in Seq(Events)
           /\ \A d : (DropDir(r, d) <=> DropDir(q, d)) /\ (Born(r, d) <=> Born(q, d))
           /\ \A j, f : DropFile(r, j, f) <=> DropFile(q, j, f) \/ (i \in watched /\ i = j /\ f = x)
           /\ \A j, f : Touched(r, j, f) <=> Touched(q, j, f) /\ ~(i \in watched /\ i = j /\ f = x)
           /\ \A j : HeardIn(r, j) <=> HeardIn(q, j) \/ (i \in watched /\ i = j)
           /\ \A j : SelfGone(r, j) <=> SelfGone(q, j)
           /\ Moves(r) <=> Moves(q)
           /\ \A j, d : Bare(r, j, d) <=> Bare(q, j, d)
  <1> DEFINE e == Ev(i, k, x)
             t == e.wd \in watched
  <1>1. e \in Events /\ e.wd = i /\ e.what = k /\ e.name = x
    BY EvFields, EventsMade
  <1>2. t \in BOOLEAN
    OBVIOUS
  <1>r. "root" \notin Inos
    BY SwampAssumption
  <1> HIDE DEF e
  <1>3. /\ \A d : ~Match(e, "root", DirThere, d) /\ ~Match(e, "root", DirGone, d)
        /\ \A j, f : Match(e, j, FileGone, f) <=> i = j /\ f = x
        /\ \A j, f : ~Match(e, j, FileThere, f)
        /\ e.what \notin Renames /\ e.what \notin Ended /\ e.what # "delete_self"
    BY <1>1, <1>r, KindsApart DEF Match
  <1> DEFINE r == Told(q, e)
  <1>4. ~OverIn(r)
    BY DEF e
  <1>5. /\ ~OverIn(q) /\ r \in Seq(Events)
        /\ \A d : DropDir(r, d) <=> DropDir(q, d) \/ (t /\ Match(e, "root", DirGone, d))
        /\ \A d : Born(r, d) <=>
              (t /\ Match(e, "root", DirThere, d)) \/ (Born(q, d) /\ ~(t /\ Match(e, "root", DirGone, d)))
        /\ \A j, f : DropFile(r, j, f) <=> DropFile(q, j, f) \/ (t /\ Match(e, j, FileGone, f))
        /\ \A j, f : Touched(r, j, f) <=>
              (t /\ Match(e, j, FileThere, f)) \/ (Touched(q, j, f) /\ ~(t /\ Match(e, j, FileGone, f)))
        /\ \A j : HeardIn(r, j) <=> HeardIn(q, j) \/ (t /\ e.wd = j)
        /\ \A j : SelfGone(r, j) <=> SelfGone(q, j) \/ (t /\ e.wd = j /\ e.what \in Ended)
        /\ Moves(r) <=> Moves(q) \/ (t /\ e.what \in Renames)
        /\ \A j, d : Bare(r, j, d) <=> Bare(q, j, d) \/ (t /\ e.wd = j /\ e.what = "delete_self" /\ ~DropDir(q, d))
    BY <1>1, <1>2, <1>4, ToldEffect, ZenonT(40)
  <1>6. t <=> i \in watched
    BY <1>1
  <1> HIDE DEF t, r
  <1> QED BY <1>1, <1>2, <1>3, <1>5, <1>6 DEF e, r

\* One is created, moved there or written.
LEMMA ToldFileThere ==
    ASSUME NEW q \in Seq(Events), NEW i \in Inos, NEW k \in FileThere, NEW x \in FileNames, ~OverIn(Told(q, Ev(i, k, x)))
    PROVE  LET r == Told(q, Ev(i, k, x)) IN
           /\ ~OverIn(q) /\ r \in Seq(Events)
           /\ \A d : (DropDir(r, d) <=> DropDir(q, d)) /\ (Born(r, d) <=> Born(q, d))
           /\ \A j, f : DropFile(r, j, f) <=> DropFile(q, j, f)
           /\ \A j, f : Touched(r, j, f) <=> Touched(q, j, f) \/ (i \in watched /\ i = j /\ f = x)
           /\ \A j : HeardIn(r, j) <=> HeardIn(q, j) \/ (i \in watched /\ i = j)
           /\ \A j : SelfGone(r, j) <=> SelfGone(q, j)
           /\ Moves(r) <=> Moves(q)
           /\ \A j, d : Bare(r, j, d) <=> Bare(q, j, d)
  <1> DEFINE e == Ev(i, k, x)
             t == e.wd \in watched
  <1>1. e \in Events /\ e.wd = i /\ e.what = k /\ e.name = x
    BY EvFields, EventsMade
  <1>2. t \in BOOLEAN
    OBVIOUS
  <1>r. "root" \notin Inos
    BY SwampAssumption
  <1> HIDE DEF e
  <1>3. /\ \A d : ~Match(e, "root", DirThere, d) /\ ~Match(e, "root", DirGone, d)
        /\ \A j, f : Match(e, j, FileThere, f) <=> i = j /\ f = x
        /\ \A j, f : ~Match(e, j, FileGone, f)
        /\ e.what \notin Renames /\ e.what \notin Ended /\ e.what # "delete_self"
    BY <1>1, <1>r, KindsApart DEF Match
  <1> DEFINE r == Told(q, e)
  <1>4. ~OverIn(r)
    BY DEF e
  <1>5. /\ ~OverIn(q) /\ r \in Seq(Events)
        /\ \A d : DropDir(r, d) <=> DropDir(q, d) \/ (t /\ Match(e, "root", DirGone, d))
        /\ \A d : Born(r, d) <=>
              (t /\ Match(e, "root", DirThere, d)) \/ (Born(q, d) /\ ~(t /\ Match(e, "root", DirGone, d)))
        /\ \A j, f : DropFile(r, j, f) <=> DropFile(q, j, f) \/ (t /\ Match(e, j, FileGone, f))
        /\ \A j, f : Touched(r, j, f) <=>
              (t /\ Match(e, j, FileThere, f)) \/ (Touched(q, j, f) /\ ~(t /\ Match(e, j, FileGone, f)))
        /\ \A j : HeardIn(r, j) <=> HeardIn(q, j) \/ (t /\ e.wd = j)
        /\ \A j : SelfGone(r, j) <=> SelfGone(q, j) \/ (t /\ e.wd = j /\ e.what \in Ended)
        /\ Moves(r) <=> Moves(q) \/ (t /\ e.what \in Renames)
        /\ \A j, d : Bare(r, j, d) <=> Bare(q, j, d) \/ (t /\ e.wd = j /\ e.what = "delete_self" /\ ~DropDir(q, d))
    BY <1>1, <1>2, <1>4, ToldEffect, ZenonT(40)
  <1>6. t <=> i \in watched
    BY <1>1
  <1> HIDE DEF t, r
  <1> QED BY <1>1, <1>2, <1>3, <1>5, <1>6 DEF e, r

---------------------------------------------------------------------------
(* The map is owed to the tree, the watches, the queue and the walk *)

NoOver  == batch # "overflow" /\ ~OverIn(queue)
\* Nothing was lost by the queue or by a watch that could not be added
Good    == up # "down" /\ ~degraded /\ NoOver
\* The map is about to be, or is, FRESH
Claim   == Good /\ (full \/ (fresh /\ lost = {}))
Calm    == Claim /\ ~moved
StartWalk == frames = <<{Root}>> \/ cur = At("arm", Root)
Live(p) == full => p \in live
Placed(i) == \E d \in Places : at[d] = i

AtInj == \A d, e \in Places : at[d] = at[e] /\ at[d] # "none" => d = e
TreeOK ==
    /\ AtInj
    /\ wds["root"] = Root <=> "root" \in watched
    /\ \A i \in Inos : wds[i] # NoPath /\ Placed(i) => i \in watched

\* Events come of watched directories, and an inode's end is its last
HeardOK == \A i \in AllInos : HeardIn(queue, i) /\ (i = "root" \/ Placed(i)) => i \in watched
EndsOK  == \A i \in Inos : SelfGone(queue, i) => ~Placed(i)
\* Without renames, a name that is there again was created after it was deleted,
\* and a directory goes by its parent's event first
StillOK == ~moved =>
    /\ ~Moves(queue)
    /\ \A d \in DirNames : at[d] # "none" /\ DropDir(queue, d) => Born(queue, d)
    /\ \A i \in Inos \ lost, d \in DirNames : wds[i] = <<d>> => ~Bare(queue, i, d)
AgainOK == \A i \in watched \cap Inos, f \in FileNames :
    file[i][f] # NoFile /\ DropFile(queue, i, f) => Touched(queue, i, f)
\* A watch whose path is not its directory's any more is about to be forgotten
WatchOK == \A i \in Inos \ lost : wds[i] # NoPath /\ (i \in watched \/ HeardIn(queue, i)) =>
    /\ "root" \in watched
    /\ \E d \in DirNames : wds[i] = <<d>> /\ (at[d] = i \/ DropDir(queue, d))
QueueOK == Good => HeardOK /\ EndsOK /\ StillOK /\ AgainOK /\ WatchOK

\* The root is watched once a walk has begun
RootOK ==
    /\ Good /\ ~StartWalk /\ (Root \notin owed \/ cur.op \in {"arm", "read"} \/ frames # <<>>)
          => "root" \in watched
    /\ Claim /\ ~StartWalk /\ cur # Idle => "root" \in watched

ArmedAt(d) == DropDir(queue, d) \/ (at[d] # "none" /\ wds[at[d]] = <<d>>)
FrameOK == Good =>
    /\ \A p \in Files : InFrames(frames, p) => ArmedAt(p[1])
    /\ \A d \in DirNames : cur = At("read", <<d>>) => ArmedAt(d)

\* What is mapped is there, or the event that ends it is pending
Backed(p) ==
    \/ p = Root
    \/ p \in Dirs1 /\ (at[p[1]] # "none" \/ DropDir(queue, p[1]))
    \/ p \in Files /\ \/ DropDir(queue, p[1])
                      \/ /\ at[p[1]] # "none" /\ wds[at[p[1]]] = <<p[1]>>
                         /\ Stat(p) # NoFile \/ DropFile(queue, at[p[1]], p[2])
RowOK == Claim =>
    /\ \A p \in Paths \ owed : row[p] # NoRow /\ Live(p) => Backed(p)
    /\ cur.op = "text" => Backed(cur.path) /\ Live(cur.path)

\* What is there is mapped, or the event or the step of the walk that maps it is
\* to come
ToVisit(d) == \/ InFrames(frames, <<d>>) \/ frames = <<{Root}>>
              \/ cur \in {At("arm", Root), At("read", Root)}
Coming(d)  == Born(queue, d) \/ ToVisit(d)
DirHere(d) == d \in DirNames \ NeverNames /\ at[d] # "none"
FileHere(d, f) == DirHere(d) /\ f \in FileNames /\ file[at[d]][f] # NoFile
ArmedOK == \A d : DirHere(d) /\ ~(Sub(<<d>>) \subseteq owed) =>
    Coming(d) \/ cur = At("arm", <<d>>) \/ wds[at[d]] = <<d>>
MappedOK == \A d : DirHere(d) /\ <<d>> \notin owed =>
    Coming(d) \/ (row[<<d>>] # NoRow /\ Live(<<d>>))
FilesOK == \A d, f : FileHere(d, f) /\ <<d, f>> \notin owed =>
    \/ Coming(d) \/ InFrames(frames, <<d, f>>)
    \/ cur \in {At("arm", <<d>>), At("read", <<d>>)}
    \/ /\ wds[at[d]] = <<d>>
       /\ \/ Touched(queue, at[d], f)
          \/ row[<<d, f>>] = Meta(file[at[d]][f]) /\ Live(<<d, f>>)
CoverOK == Calm => ArmedOK /\ MappedOK /\ FilesOK

MapOK == TreeOK /\ QueueOK /\ RootOK /\ FrameOK /\ RowOK /\ CoverOK

---------------------------------------------------------------------------
(* What the user's changes do to the tree and to a queue that drops nothing *)

FileStep ==
    /\ UNCHANGED <<at, watched, moved>> /\ ~OverIn(queue)
    /\ \A d : (DropDir(queue', d) <=> DropDir(queue, d)) /\ (Born(queue', d) <=> Born(queue, d))
    /\ \A i : SelfGone(queue', i) <=> SelfGone(queue, i)
    /\ \A i, d : Bare(queue', i, d) <=> Bare(queue, i, d)
    /\ Moves(queue') <=> Moves(queue)
    /\ \A i : HeardIn(queue', i) => HeardIn(queue, i) \/ i \in watched
    /\ \A i, f : DropFile(queue, i, f) => DropFile(queue', i, f)
    /\ \A i \in Inos, f \in FileNames :
          \/ /\ file'[i][f] = file[i][f]
             /\ DropFile(queue', i, f) <=> DropFile(queue, i, f)
             /\ Touched(queue, i, f) => Touched(queue', i, f)
          \/ file'[i][f] = NoFile /\ (i \in watched => DropFile(queue', i, f))
          \/ file'[i][f] # NoFile /\ (i \in watched => Touched(queue', i, f))

\* The types the rest uses.
LEMMA TreeTypes ==
    ASSUME Typed
    PROVE  /\ queue \in Seq(Events) /\ watched \subseteq AllInos
           /\ at \in [Places -> Inos \cup {"none"}] /\ \A d \in Places : at[d] # "none" => at[d] \in Inos
           /\ file \in [Inos -> [FileNames -> Stats \cup {NoFile}]]
           /\ wds \in [AllInos -> DirPaths \cup {NoPath}] /\ wds["root"] \in {Root, NoPath}
           /\ \A i \in Inos : wds[i] = NoPath \/ \E d \in DirNames : wds[i] = <<d>>
           /\ NoFile \notin Stats /\ "root" \notin Inos /\ "none" \notin Inos /\ "out" \notin DirNames
           /\ \A d \in DirNames : d \in Places /\ d # "none" /\ d # "out"
           /\ Root # NoPath /\ \A d \in DirNames : <<d>> # Root /\ <<d>> # NoPath
           /\ \A d, e : <<d>> = <<e>> => d = e
           /\ frames \in Seq(SUBSET Paths) /\ cur \in Steps /\ owed \subseteq Paths /\ live \subseteq Paths
           /\ row \in [Paths -> Metas \cup {NoRow}] /\ lost \subseteq Inos
           /\ moved \in BOOLEAN /\ full \in BOOLEAN /\ degraded \in BOOLEAN /\ fresh \in BOOLEAN
  <1>1. NoFile \notin Stats
    BY SwampAssumption DEF NoFile, Stats, Contents
  <1>2. \A i \in Inos : wds[i] = NoPath \/ \E d \in DirNames : wds[i] = <<d>>
    BY DEF Typed, DaemonTyped, AllInos, DirPaths
  <1>3. Root # NoPath /\ \A d \in DirNames : <<d>> # Root /\ <<d>> # NoPath
    BY PathKinds, NoPathFacts
  <1>4. \A d, e : <<d>> = <<e>> => d = e
    OBVIOUS
  <1> QED BY <1>1, <1>2, <1>3, <1>4, SwampAssumption
          DEF Typed, TreeTyped, KernelTyped, DaemonTyped, IndexTyped, Places

\* Writing a file is heard of it.
LEMMA SaveStep ==
    ASSUME Typed, NEW d \in Places, NEW f \in FileNames, NEW c \in Contents, Save(d, f, c), ~OverIn(queue')
    PROVE  FileStep
  <1> DEFINE i == at[d]
             new == file[i][f] = NoFile
             Q == IF new THEN Told(queue, Ev(i, "create", f)) ELSE queue
  <1>0. /\ i \in Inos /\ queue \in Seq(Events)
        /\ file' = [file EXCEPT ![i][f] = [content |-> c, mtime |-> clock]]
        /\ queue' = Told(Q, Ev(i, "close_write", f)) /\ UNCHANGED <<at, watched, moved>>
        /\ file \in [Inos -> [FileNames -> Stats \cup {NoFile}]]
    BY TreeTypes DEF Save
  <1>k. "create" \in FileThere /\ "close_write" \in FileThere
    BY DEF FileThere
  <1>n. [content |-> c, mtime |-> clock] # NoFile
    BY SwampAssumption DEF NoFile, Contents
  <1>1. Q \in Seq(Events)
    BY <1>0, <1>k, EventsMade, QueuedTyped
  <1>2. Told(Q, Ev(i, "close_write", f)) = queue'
    BY <1>0
  <1> HIDE DEF Q
  <1>3. /\ ~OverIn(Q)
        /\ \A x : (DropDir(queue', x) <=> DropDir(Q, x)) /\ (Born(queue', x) <=> Born(Q, x))
        /\ \A j, g : DropFile(queue', j, g) <=> DropFile(Q, j, g)
        /\ \A j, g : Touched(queue', j, g) <=> Touched(Q, j, g) \/ (i \in watched /\ i = j /\ g = f)
        /\ \A j : HeardIn(queue', j) <=> HeardIn(Q, j) \/ (i \in watched /\ i = j)
        /\ \A j : SelfGone(queue', j) <=> SelfGone(Q, j)
        /\ Moves(queue') <=> Moves(Q)
        /\ \A j, x : Bare(queue', j, x) <=> Bare(Q, j, x)
    BY <1>0, <1>1, <1>2, <1>k, ToldFileThere
  <1>4. /\ ~OverIn(queue)
        /\ \A x : (DropDir(Q, x) <=> DropDir(queue, x)) /\ (Born(Q, x) <=> Born(queue, x))
        /\ \A j, g : DropFile(Q, j, g) <=> DropFile(queue, j, g)
        /\ \A j, g : Touched(Q, j, g) <=> Touched(queue, j, g) \/ (new /\ i \in watched /\ i = j /\ g = f)
        /\ \A j : HeardIn(Q, j) <=> HeardIn(queue, j) \/ (new /\ i \in watched /\ i = j)
        /\ \A j : SelfGone(Q, j) <=> SelfGone(queue, j)
        /\ Moves(Q) <=> Moves(queue)
        /\ \A j, x : Bare(Q, j, x) <=> Bare(queue, j, x)
    <2>1. CASE new
      <3>1. Q = Told(queue, Ev(i, "create", f))
        BY <2>1 DEF Q
      <3> QED BY <1>0, <1>3, <1>k, <2>1, <3>1, ToldFileThere
    <2>2. CASE ~new
      <3>1. Q = queue
        BY <2>2 DEF Q
      <3> QED BY <1>3, <2>2, <3>1
    <2> QED BY <2>1, <2>2
  <1>5. \A j \in Inos, g \in FileNames : \/ j = i /\ g = f /\ file'[j][g] # NoFile
                                         \/ ~(j = i /\ g = f) /\ file'[j][g] = file[j][g]
    BY <1>0, <1>n
  <1> HIDE DEF new, i
  <1> QED BY <1>0, <1>3, <1>4, <1>5 DEF FileStep

\* Deleting a file is heard of it.
LEMMA RmFileStep ==
    ASSUME Typed, NEW d \in Places, NEW f \in FileNames, RmFile(d, f), ~OverIn(queue')
    PROVE  FileStep
  <1> DEFINE i == at[d]
  <1>0. /\ i \in Inos /\ queue \in Seq(Events)
        /\ file' = [file EXCEPT ![i][f] = NoFile]
        /\ queue' = Told(queue, Ev(i, "delete", f)) /\ UNCHANGED <<at, watched, moved>>
        /\ file \in [Inos -> [FileNames -> Stats \cup {NoFile}]]
    BY TreeTypes DEF RmFile
  <1>k. "delete" \in FileGone
    BY DEF FileGone
  <1>3. /\ ~OverIn(queue)
        /\ \A x : (DropDir(queue', x) <=> DropDir(queue, x)) /\ (Born(queue', x) <=> Born(queue, x))
        /\ \A j, g : DropFile(queue', j, g) <=> DropFile(queue, j, g) \/ (i \in watched /\ i = j /\ g = f)
        /\ \A j, g : Touched(queue', j, g) <=> Touched(queue, j, g) /\ ~(i \in watched /\ i = j /\ g = f)
        /\ \A j : HeardIn(queue', j) <=> HeardIn(queue, j) \/ (i \in watched /\ i = j)
        /\ \A j : SelfGone(queue', j) <=> SelfGone(queue, j)
        /\ Moves(queue') <=> Moves(queue)
        /\ \A j, x : Bare(queue', j, x) <=> Bare(queue, j, x)
    BY <1>0, <1>k, ToldFileGone
  <1>5. \A j \in Inos, g \in FileNames : \/ j = i /\ g = f /\ file'[j][g] = NoFile
                                         \/ ~(j = i /\ g = f) /\ file'[j][g] = file[j][g]
    BY <1>0
  <1> HIDE DEF i
  <1> QED BY <1>0, <1>3, <1>5 DEF FileStep

\* Renaming a file is heard of both ends.
LEMMA MvFileStep ==
    ASSUME Typed, NEW d \in Places, NEW e \in Places, NEW f \in FileNames, MvFile(d, e, f), ~OverIn(queue')
    PROVE  FileStep
  <1> DEFINE i == at[d]
             j == at[e]
             Q == Told(queue, Ev(i, "from", f))
             F == [file EXCEPT ![i][f] = NoFile]
  <1>0. /\ i \in Inos /\ j \in Inos /\ i # j /\ queue \in Seq(Events) /\ file[i][f] # NoFile
        /\ file' = [F EXCEPT ![j][f] = file[i][f]]
        /\ queue' = Told(Q, Ev(j, "to", f)) /\ UNCHANGED <<at, watched, moved>>
        /\ file \in [Inos -> [FileNames -> Stats \cup {NoFile}]]
    BY TreeTypes DEF MvFile
  <1>k. "from" \in FileGone /\ "to" \in FileThere
    BY DEF FileGone, FileThere
  <1>1. Q \in Seq(Events)
    BY <1>0, <1>k, EventsMade, QueuedTyped
  <1>2. Told(Q, Ev(j, "to", f)) = queue' /\ Told(queue, Ev(i, "from", f)) = Q
    BY <1>0
  <1>5. \A k \in Inos, g \in FileNames : \/ k = i /\ g = f /\ file'[k][g] = NoFile
                                         \/ k = j /\ g = f /\ file'[k][g] # NoFile
                                         \/ ~(k \in {i, j} /\ g = f) /\ file'[k][g] = file[k][g]
    <2>1. F \in [Inos -> [FileNames -> Stats \cup {NoFile}]]
      BY <1>0, TreeTypes
    <2>2. \A k \in Inos, g \in FileNames : F[k][g] = IF k = i /\ g = f THEN NoFile ELSE file[k][g]
      BY <1>0
    <2> HIDE DEF F
    <2>3. \A k \in Inos, g \in FileNames : file'[k][g] = IF k = j /\ g = f THEN file[i][f] ELSE F[k][g]
      BY <1>0, <2>1
    <2> QED BY <1>0, <2>2, <2>3
  <1> HIDE DEF Q
  <1>3. /\ ~OverIn(Q)
        /\ \A x : (DropDir(queue', x) <=> DropDir(Q, x)) /\ (Born(queue', x) <=> Born(Q, x))
        /\ \A k, g : DropFile(queue', k, g) <=> DropFile(Q, k, g)
        /\ \A k, g : Touched(queue', k, g) <=> Touched(Q, k, g) \/ (j \in watched /\ j = k /\ g = f)
        /\ \A k : HeardIn(queue', k) <=> HeardIn(Q, k) \/ (j \in watched /\ j = k)
        /\ \A k : SelfGone(queue', k) <=> SelfGone(Q, k)
        /\ Moves(queue') <=> Moves(Q)
        /\ \A k, x : Bare(queue', k, x) <=> Bare(Q, k, x)
    BY <1>0, <1>1, <1>2, <1>k, ToldFileThere
  <1>4. /\ ~OverIn(queue)
        /\ \A x : (DropDir(Q, x) <=> DropDir(queue, x)) /\ (Born(Q, x) <=> Born(queue, x))
        /\ \A k, g : DropFile(Q, k, g) <=> DropFile(queue, k, g) \/ (i \in watched /\ i = k /\ g = f)
        /\ \A k, g : Touched(Q, k, g) <=> Touched(queue, k, g) /\ ~(i \in watched /\ i = k /\ g = f)
        /\ \A k : HeardIn(Q, k) <=> HeardIn(queue, k) \/ (i \in watched /\ i = k)
        /\ \A k : SelfGone(Q, k) <=> SelfGone(queue, k)
        /\ Moves(Q) <=> Moves(queue)
        /\ \A k, x : Bare(Q, k, x) <=> Bare(queue, k, x)
    BY <1>0, <1>2, <1>3, <1>k, ToldFileGone
  <1> HIDE DEF i, j, F
  <1> QED BY <1>0, <1>3, <1>4, <1>5 DEF FileStep

DirStep ==
    /\ UNCHANGED file /\ ~OverIn(queue)
    /\ watched' \subseteq watched /\ ("root" \in watched' <=> "root" \in watched)
    /\ \A d : DropDir(queue, d) => DropDir(queue', d)
    /\ \A d \in DirNames :
          \/ /\ at'[d] = at[d] /\ (Born(queue, d) => Born(queue', d))
             /\ DropDir(queue', d) <=> DropDir(queue, d)
          \/ at[d] # "none" /\ at'[d] = "none" /\ ("root" \in watched => DropDir(queue', d))
          \/ /\ at[d] = "none" /\ at'[d] # "none" /\ ("root" \in watched => Born(queue', d))
             /\ DropDir(queue', d) <=> DropDir(queue, d)
    /\ \A i, f : (DropFile(queue', i, f) <=> DropFile(queue, i, f)) /\ (Touched(queue', i, f) <=> Touched(queue, i, f))
    /\ \A i \in Inos : Placed(i)' =>
          \/ Placed(i) /\ (i \in watched' <=> i \in watched)
          \/ i \notin watched /\ ~HeardIn(queue', i)
    /\ \A i \in Inos : SelfGone(queue', i) => SelfGone(queue, i) \/ ~Placed(i)'
    /\ \A i : HeardIn(queue', i) => HeardIn(queue, i) \/ i \in watched
    /\ ~moved' =>
          /\ ~moved /\ (Moves(queue') <=> Moves(queue))
          /\ \A i \in Inos, d \in DirNames : Bare(queue', i, d) =>
                \/ Bare(queue, i, d)
                \/ i \in watched /\ ~DropDir(queue, d) /\ ~("root" \in watched /\ at[d] = i)

\* An end is heard.
LEMMA SelfGoneHeard == \A q, i : SelfGone(q, i) => HeardIn(q, i)
  BY DEF SelfGone, HeardIn

\* A new directory is heard of the root, and nobody else has its inode.
LEMMA MkDirStep ==
    ASSUME Typed, AtInj, NEW d \in DirNames, MkDir(d), ~OverIn(queue')
    PROVE  DirStep
  <1>1. PICK i \in Inos : FreeIno(i) /\ at' = [at EXCEPT ![d] = i]
    BY DEF MkDir
  <1>0. /\ queue \in Seq(Events) /\ queue' = Told(queue, Ev("root", "create_dir", d))
        /\ UNCHANGED <<file, watched, moved>> /\ at[d] = "none"
        /\ at \in [Places -> Inos \cup {"none"}] /\ d \in Places /\ i # "none" /\ i # "root"
        /\ \A x \in DirNames : x \in Places
    BY TreeTypes DEF MkDir
  <1>k. "create_dir" \in DirThere
    BY DEF DirThere
  <1>2. /\ i \notin watched /\ ~HeardIn(queue, i) /\ \A x \in Places : at[x] # i
    BY <1>1 DEF FreeIno, HeardIn
  <1>3. /\ ~OverIn(queue)
        /\ \A x : DropDir(queue', x) <=> DropDir(queue, x)
        /\ \A x : Born(queue', x) <=> Born(queue, x) \/ ("root" \in watched /\ x = d)
        /\ \A j, g : (DropFile(queue', j, g) <=> DropFile(queue, j, g)) /\ (Touched(queue', j, g) <=> Touched(queue, j, g))
        /\ \A j : HeardIn(queue', j) <=> HeardIn(queue, j) \/ ("root" \in watched /\ j = "root")
        /\ \A j : SelfGone(queue', j) <=> SelfGone(queue, j)
        /\ Moves(queue') <=> Moves(queue)
        /\ \A j, x : Bare(queue', j, x) <=> Bare(queue, j, x)
    BY <1>0, <1>k, ToldDirThere
  <1>4. \A x \in Places : at'[x] = IF x = d THEN i ELSE at[x]
    BY <1>0, <1>1
  <1>5. \A j \in Inos : Placed(j)' => Placed(j) \/ j = i
    BY <1>4 DEF Placed
  <1> QED BY <1>0, <1>2, <1>3, <1>4, <1>5 DEF DirStep

\* A deleted directory is heard of the root first, then of itself.
LEMMA RmDirStep ==
    ASSUME Typed, AtInj, NEW d \in DirNames, RmDir(d), ~OverIn(queue')
    PROVE  DirStep
  <1> DEFINE i == at[d]
             Q == Told(queue, Ev("root", "delete_dir", d))
             R == Told(Q, Ev(i, "delete_self", "none"))
  <1>0. /\ queue \in Seq(Events) /\ queue' = Told(R, Ev(i, "ignored", "none"))
        /\ UNCHANGED <<file, moved>> /\ i \in Inos /\ i # "root" /\ i # "none" /\ watched' = watched \ {i}
        /\ at \in [Places -> Inos \cup {"none"}] /\ d \in Places
        /\ at' = [at EXCEPT ![d] = "none"]
        /\ \A x \in DirNames : x \in Places
    BY TreeTypes DEF RmDir
  <1>k. "delete_dir" \in DirGone /\ "delete_self" \in Ended /\ "ignored" \in Ended /\ "ignored" # "delete_self"
    BY DEF DirGone, Ended
  <1>1. Q \in Seq(Events)
    BY <1>0, <1>k, EventsMade, QueuedTyped
  <1>2. R \in Seq(Events)
    BY <1>0, <1>1, <1>k, EventsMade, QueuedTyped
  <1>d. /\ Told(R, Ev(i, "ignored", "none")) = queue' /\ Told(Q, Ev(i, "delete_self", "none")) = R
        /\ Told(queue, Ev("root", "delete_dir", d)) = Q
    BY <1>0
  <1> HIDE DEF Q, R
  <1>3. /\ ~OverIn(R)
        /\ \A x : (DropDir(queue', x) <=> DropDir(R, x)) /\ (Born(queue', x) <=> Born(R, x))
        /\ \A j, f : (DropFile(queue', j, f) <=> DropFile(R, j, f)) /\ (Touched(queue', j, f) <=> Touched(R, j, f))
        /\ \A j : HeardIn(queue', j) <=> HeardIn(R, j) \/ (i \in watched /\ i = j)
        /\ \A j : SelfGone(queue', j) <=> SelfGone(R, j) \/ (i \in watched /\ i = j)
        /\ Moves(queue') <=> Moves(R)
        /\ \A j, x : Bare(queue', j, x) <=> Bare(R, j, x)
    <2> HIDE DEF i
    <2> QED BY <1>0, <1>2, <1>d, <1>k, ToldSelf
  <1>4. /\ ~OverIn(Q)
        /\ \A x : (DropDir(R, x) <=> DropDir(Q, x)) /\ (Born(R, x) <=> Born(Q, x))
        /\ \A j, f : (DropFile(R, j, f) <=> DropFile(Q, j, f)) /\ (Touched(R, j, f) <=> Touched(Q, j, f))
        /\ \A j : HeardIn(R, j) <=> HeardIn(Q, j) \/ (i \in watched /\ i = j)
        /\ \A j : SelfGone(R, j) <=> SelfGone(Q, j) \/ (i \in watched /\ i = j)
        /\ Moves(R) <=> Moves(Q)
        /\ \A j, x : Bare(R, j, x) <=> Bare(Q, j, x) \/ (i \in watched /\ i = j /\ ~DropDir(Q, x))
    <2> HIDE DEF i
    <2> QED BY <1>0, <1>1, <1>3, <1>d, <1>k, ToldSelf
  <1>5. /\ ~OverIn(queue)
        /\ \A x : DropDir(Q, x) <=> DropDir(queue, x) \/ ("root" \in watched /\ x = d)
        /\ \A x : Born(Q, x) <=> Born(queue, x) /\ ~("root" \in watched /\ x = d)
        /\ \A j, f : (DropFile(Q, j, f) <=> DropFile(queue, j, f)) /\ (Touched(Q, j, f) <=> Touched(queue, j, f))
        /\ \A j : HeardIn(Q, j) <=> HeardIn(queue, j) \/ ("root" \in watched /\ j = "root")
        /\ \A j : SelfGone(Q, j) <=> SelfGone(queue, j)
        /\ Moves(Q) <=> Moves(queue)
        /\ \A j, x : Bare(Q, j, x) <=> Bare(queue, j, x)
    <2> HIDE DEF i
    <2> QED BY <1>0, <1>4, <1>d, <1>k, ToldDirGone
  <1>6. \A x \in Places : at'[x] = IF x = d THEN "none" ELSE at[x]
    BY <1>0
  <1>7. ASSUME NEW j \in Inos, Placed(j)' PROVE Placed(j) /\ j # i
    <2>1. PICK x \in Places : at'[x] = j
      BY <1>7 DEF Placed
    <2>2. x # d /\ at[x] = j /\ j # "none"
      BY <1>0, <1>6, <2>1, SwampAssumption
    <2> QED BY <1>0, <2>1, <2>2 DEF Placed, AtInj
  <1>8. \A x \in DirNames : at[x] = i => x = d
    BY <1>0 DEF AtInj
  <1> HIDE DEF i
  <1>9. i = at[d]
    BY DEF i
  <1>a. \A x \in DirNames :
          \/ at'[x] = at[x] /\ (Born(queue, x) => Born(queue', x)) /\ (DropDir(queue', x) <=> DropDir(queue, x))
          \/ at[x] # "none" /\ at'[x] = "none" /\ ("root" \in watched => DropDir(queue', x))
    BY <1>0, <1>3, <1>4, <1>5, <1>6, <1>9
  <1>b. \A j \in Inos, x \in DirNames : Bare(queue', j, x) =>
          \/ Bare(queue, j, x)
          \/ j \in watched /\ ~DropDir(queue, x) /\ ~("root" \in watched /\ at[x] = j)
    BY <1>3, <1>4, <1>5, <1>8
  <1>c. /\ \A j \in Inos : SelfGone(queue', j) => SelfGone(queue, j) \/ ~Placed(j)'
        /\ \A j : HeardIn(queue', j) => HeardIn(queue, j) \/ j \in watched
        /\ Moves(queue') <=> Moves(queue)
        /\ \A x : DropDir(queue, x) => DropDir(queue', x)
        /\ \A j, f : (DropFile(queue', j, f) <=> DropFile(queue, j, f)) /\ (Touched(queue', j, f) <=> Touched(queue, j, f))
    BY <1>3, <1>4, <1>5, <1>7
  <1> QED BY <1>0, <1>5, <1>7, <1>a, <1>b, <1>c DEF DirStep

\* A renamed directory takes its inode, files and watch along.
LEMMA MvDirStep ==
    ASSUME Typed, AtInj, NEW d \in Places, NEW e \in Places, MvDir(d, e), ~OverIn(queue')
    PROVE  DirStep
  <1> DEFINE i == at[d]
             From == IF d = "out" THEN queue ELSE Told(queue, Ev("root", "from_dir", d))
             To   == IF e = "out" THEN From ELSE Told(From, Ev("root", "to_dir", e))
  <1>0. /\ queue \in Seq(Events) /\ queue' = Told(To, Ev(i, "move_self", "none"))
        /\ UNCHANGED <<file, watched>> /\ moved' /\ i \in Inos /\ i # "root" /\ i # "none"
        /\ at \in [Places -> Inos \cup {"none"}] /\ at[e] = "none" /\ d # e
        /\ at' = [at EXCEPT ![d] = "none", ![e] = i]
        /\ \A x \in DirNames : x \in Places /\ x # "out"
        /\ \A x \in Places : x = "out" \/ x \in DirNames
    BY TreeTypes DEF MvDir, Places
  <1>k. /\ "from_dir" \in DirGone /\ "to_dir" \in DirThere /\ "move_self" \in Ended \cup {"move_self"}
        /\ "move_self" \notin Ended
    BY DEF DirGone, DirThere, Ended
  <1>1. From \in Seq(Events)
    BY <1>0, <1>k, EventsMade, QueuedTyped
  <1>d1. From = IF d = "out" THEN queue ELSE Told(queue, Ev("root", "from_dir", d))
    OBVIOUS
  <1> HIDE DEF From
  <1>2. To \in Seq(Events)
    BY <1>0, <1>1, <1>k, EventsMade, QueuedTyped
  <1>d2. To = (IF e = "out" THEN From ELSE Told(From, Ev("root", "to_dir", e))) /\ Told(To, Ev(i, "move_self", "none")) = queue'
    BY <1>0
  <1> HIDE DEF To
  <1>3. /\ ~OverIn(To)
        /\ \A x : (DropDir(queue', x) <=> DropDir(To, x)) /\ (Born(queue', x) <=> Born(To, x))
        /\ \A j, f : (DropFile(queue', j, f) <=> DropFile(To, j, f)) /\ (Touched(queue', j, f) <=> Touched(To, j, f))
        /\ \A j : HeardIn(queue', j) <=> HeardIn(To, j) \/ (i \in watched /\ i = j)
        /\ \A j : SelfGone(queue', j) <=> SelfGone(To, j)
    <2> HIDE DEF i
    <2> QED BY <1>0, <1>2, <1>d2, <1>k, ToldSelf
  <1>4. /\ ~OverIn(From)
        /\ \A x : DropDir(To, x) <=> DropDir(From, x)
        /\ \A x : Born(To, x) <=> Born(From, x) \/ (e # "out" /\ "root" \in watched /\ x = e)
        /\ \A j, f : (DropFile(To, j, f) <=> DropFile(From, j, f)) /\ (Touched(To, j, f) <=> Touched(From, j, f))
        /\ \A j : HeardIn(To, j) => HeardIn(From, j) \/ j \in watched
        /\ \A j : SelfGone(To, j) <=> SelfGone(From, j)
    <2>1. CASE e = "out"
      <3>1. To = From
        BY <2>1, <1>d2
      <3> QED BY <1>3, <2>1, <3>1
    <2>2. CASE e # "out"
      <3>1. To = Told(From, Ev("root", "to_dir", e)) /\ e \in DirNames
        BY <1>0, <2>2, <1>d2
      <3>2. /\ ~OverIn(From)
            /\ \A x : DropDir(To, x) <=> DropDir(From, x)
            /\ \A x : Born(To, x) <=> Born(From, x) \/ ("root" \in watched /\ x = e)
            /\ \A j, f : (DropFile(To, j, f) <=> DropFile(From, j, f)) /\ (Touched(To, j, f) <=> Touched(From, j, f))
            /\ \A j : HeardIn(To, j) <=> HeardIn(From, j) \/ ("root" \in watched /\ j = "root")
            /\ \A j : SelfGone(To, j) <=> SelfGone(From, j)
        BY <1>1, <1>3, <1>k, <3>1, ToldDirThere
      <3> QED BY <2>2, <3>2
    <2> QED BY <2>1, <2>2
  <1>5. /\ ~OverIn(queue)
        /\ \A x : DropDir(From, x) <=> DropDir(queue, x) \/ (d # "out" /\ "root" \in watched /\ x = d)
        /\ \A x : x # d => (Born(From, x) <=> Born(queue, x))
        /\ \A j, f : (DropFile(From, j, f) <=> DropFile(queue, j, f)) /\ (Touched(From, j, f) <=> Touched(queue, j, f))
        /\ \A j : HeardIn(From, j) => HeardIn(queue, j) \/ j \in watched
        /\ \A j : SelfGone(From, j) <=> SelfGone(queue, j)
    <2>1. CASE d = "out"
      <3>1. From = queue
        BY <2>1, <1>d1
      <3> QED BY <1>4, <2>1, <3>1
    <2>2. CASE d # "out"
      <3>1. From = Told(queue, Ev("root", "from_dir", d)) /\ d \in DirNames
        BY <1>0, <2>2, <1>d1
      <3>2. /\ ~OverIn(queue)
            /\ \A x : DropDir(From, x) <=> DropDir(queue, x) \/ ("root" \in watched /\ x = d)
            /\ \A x : Born(From, x) <=> Born(queue, x) /\ ~("root" \in watched /\ x = d)
            /\ \A j, f : (DropFile(From, j, f) <=> DropFile(queue, j, f)) /\ (Touched(From, j, f) <=> Touched(queue, j, f))
            /\ \A j : HeardIn(From, j) <=> HeardIn(queue, j) \/ ("root" \in watched /\ j = "root")
            /\ \A j : SelfGone(From, j) <=> SelfGone(queue, j)
        BY <1>0, <1>4, <1>k, <3>1, ToldDirGone
      <3> QED BY <2>2, <3>2
    <2> QED BY <2>1, <2>2
  <1>6. \A x \in Places : at'[x] = IF x = e THEN i ELSE IF x = d THEN "none" ELSE at[x]
    BY <1>0
  <1>7. \A j \in Inos : Placed(j)' => Placed(j)
    BY <1>0, <1>6 DEF Placed
  <1>9. i = at[d]
    OBVIOUS
  <1> HIDE DEF i
  <1>a. \A x \in DirNames :
          \/ at'[x] = at[x] /\ (Born(queue, x) => Born(queue', x)) /\ (DropDir(queue', x) <=> DropDir(queue, x))
          \/ at[x] # "none" /\ at'[x] = "none" /\ ("root" \in watched => DropDir(queue', x))
          \/ /\ at[x] = "none" /\ at'[x] # "none" /\ ("root" \in watched => Born(queue', x))
             /\ DropDir(queue', x) <=> DropDir(queue, x)
    <2> TAKE x \in DirNames
    <2>1. CASE x = e
      <3>1. x # "out" /\ x # d /\ at[x] = "none" /\ at'[x] # "none"
        BY <1>0, <1>6, <2>1
      <3> QED BY <1>3, <1>4, <1>5, <2>1, <3>1
    <2>2. CASE x = d /\ x # e
      <3>1. x # "out" /\ at[x] # "none" /\ at'[x] = "none"
        BY <1>0, <1>6, <1>9, <2>2
      <3> QED BY <1>3, <1>4, <1>5, <2>2, <3>1
    <2>3. CASE x # d /\ x # e
      <3>1. at[x] = at'[x]
        BY <1>0, <1>6, <2>3
      <3> QED BY <1>3, <1>4, <1>5, <2>3, <3>1
    <2> QED BY <2>1, <2>2, <2>3
  <1>c. /\ \A j : SelfGone(queue', j) <=> SelfGone(queue, j)
        /\ \A j : HeardIn(queue', j) => HeardIn(queue, j) \/ j \in watched
        /\ \A x : DropDir(queue, x) => DropDir(queue', x)
        /\ \A j, f : (DropFile(queue', j, f) <=> DropFile(queue, j, f)) /\ (Touched(queue', j, f) <=> Touched(queue, j, f))
    BY <1>3, <1>4, <1>5
  <1> QED BY <1>0, <1>5, <1>7, <1>a, <1>c DEF DirStep

---------------------------------------------------------------------------
(* The tree and the watches agree *)

Armed(i, p) ==
    /\ watched' = watched \cup {i} /\ wds' = [wds EXCEPT ![i] = p]
    /\ lost' = (IF full THEN lost \ {i} ELSE lost) /\ degraded' = degraded

\* add_watch of the root, of a directory, or none.
LEMMA ArmCases ==
    ASSUME Typed, ArmDir
    PROVE  /\ UNCHANGED <<treeVars, queue, indexVars, ghostVars, up, batch, fresh, full, live, frames>>
           /\ \/ cur = At("arm", Root) /\ cur' = At("read", Root) /\ Armed("root", Root)
              \/ \E d \in DirNames : /\ cur = At("arm", <<d>>) /\ cur' = At("read", <<d>>)
                                     /\ at[d] \in Inos /\ Armed(at[d], <<d>>)
              \/ /\ degraded' = TRUE /\ UNCHANGED <<watched, wds, lost>>
                 /\ cur.path \in DirPaths /\ cur = At("arm", cur.path) /\ cur' = At("read", cur.path)
  <1>1. cur.op = "arm" /\ cur.path \in DirPaths /\ cur = At("arm", cur.path) /\ cur' = At("read", cur.path)
    BY StepKinds DEF ArmDir, Typed, DaemonTyped
  <1>2. \/ DirIno(cur.path) # "none" /\ Armed(DirIno(cur.path), cur.path)
        \/ degraded' = TRUE /\ UNCHANGED <<watched, wds, lost>>
    BY DEF ArmDir, Armed, wdVars
  <1>3. CASE cur.path = Root
    BY <1>1, <1>2, <1>3 DEF DirIno, ArmDir
  <1>4. ASSUME NEW d \in DirNames, cur.path = <<d>>
        PROVE  DirIno(cur.path) = at[d] /\ at[d] \in Inos \cup {"none"}
    <2>1. <<d>> # Root /\ <<d>>[1] = d
      BY PathKinds
    <2> QED BY <1>4, <2>1, TreeTypes DEF DirIno
  <1> QED BY <1>1, <1>2, <1>3, <1>4 DEF ArmDir, DirPaths

\* An empty tree with nothing watched.
LEMMA TreeInit == SwampInit => TreeOK
  BY NoPathFacts, SwampAssumption DEF SwampInit, TreeOK, AtInj, AllInos, Placed, DirPaths

\* The user gives no inode to two names, and drops the watch of a deleted one.
LEMMA TreeUser == ASSUME Typed, TreeOK, User PROVE TreeOK'
  <1>t. /\ at \in [Places -> Inos \cup {"none"}] /\ \A d \in Places : at[d] # "none" => at[d] \in Inos
        /\ "root" \notin Inos /\ "none" \notin Inos /\ \A d \in DirNames : d \in Places
        /\ wds' = wds
    BY TreeTypes DEF User, daemonVars, wdVars
  <1>1. ASSUME NEW d \in DirNames, MkDir(d) PROVE TreeOK'
    <2>1. PICK i \in Inos : FreeIno(i) /\ at' = [at EXCEPT ![d] = i] /\ watched' = watched
      BY <1>1 DEF MkDir
    <2>2. \A x \in Places : at'[x] = IF x = d THEN i ELSE at[x]
      BY <1>t, <2>1
    <2>3. wds[i] = NoPath /\ \A x \in Places : at[x] # i
      BY <2>1 DEF FreeIno
    <2>4. AtInj'
      BY <2>2, <2>3 DEF TreeOK, AtInj
    <2>5. \A j \in Inos : Placed(j)' => Placed(j) \/ j = i
      BY <2>2 DEF Placed
    <2> QED BY <1>t, <2>1, <2>3, <2>4, <2>5 DEF TreeOK
  <1>2. ASSUME NEW d \in DirNames, RmDir(d) PROVE TreeOK'
    <2>1. /\ at' = [at EXCEPT ![d] = "none"] /\ watched' = watched \ {at[d]} /\ at[d] # "none"
      BY <1>2 DEF RmDir
    <2>2. \A x \in Places : at'[x] = IF x = d THEN "none" ELSE at[x]
      BY <1>t, <2>1
    <2>4. AtInj'
      BY <2>2 DEF TreeOK, AtInj
    <2>5. ASSUME NEW j \in Inos, Placed(j)' PROVE Placed(j) /\ j # at[d]
      <3>1. PICK x \in Places : at'[x] = j
        BY <2>5 DEF Placed
      <3>2. x # d /\ at[x] = j /\ j # "none"
        BY <1>t, <2>2, <3>1
      <3> QED BY <1>t, <3>2 DEF Placed, TreeOK, AtInj
    <2> QED BY <1>t, <2>1, <2>4, <2>5 DEF TreeOK
  <1>3. ASSUME NEW d \in Places, NEW e \in Places, MvDir(d, e) PROVE TreeOK'
    <2>1. /\ at' = [at EXCEPT ![d] = "none", ![e] = at[d]] /\ watched' = watched /\ at[d] # "none" /\ at[e] = "none"
      BY <1>3 DEF MvDir
    <2>2. \A x \in Places : at'[x] = IF x = e THEN at[d] ELSE IF x = d THEN "none" ELSE at[x]
      BY <1>t, <2>1
    <2>4. AtInj'
      BY <2>1, <2>2 DEF TreeOK, AtInj
    <2>5. \A j \in Inos : Placed(j)' => Placed(j)
      BY <1>t, <2>2 DEF Placed
    <2> QED BY <1>t, <2>1, <2>4, <2>5 DEF TreeOK
  <1>4. CASE UNCHANGED <<at, watched>>
    BY <1>t, <1>4 DEF TreeOK, AtInj, Placed
  <1> QED BY <1>1, <1>2, <1>3, <1>4 DEF User, Save, RmFile, MvFile

\* Every step keeps tree and watches together.
LEMMA TreeStep == Typed /\ TreeOK /\ [SwampNext]_swampVars => TreeOK'
  <1> SUFFICES ASSUME Typed, TreeOK, [SwampNext]_swampVars PROVE TreeOK'
    OBVIOUS
  <1>t. /\ wds \in [AllInos -> DirPaths \cup {NoPath}] /\ "root" \notin Inos /\ Root # NoPath
        /\ "root" \in AllInos /\ \A i \in Inos : i \in AllInos
    BY TreeTypes DEF AllInos
  <1>1. CASE Boot \/ Crash
    <2>1. wds' = [i \in AllInos |-> NoPath] /\ watched' = {} /\ at' = at
      BY <1>1 DEF Boot, Crash, treeVars
    <2> QED BY <1>t, <2>1 DEF TreeOK, AtInj, Placed
  <1>2. CASE UNCHANGED <<at, watched, wds>>
    BY <1>2 DEF TreeOK, AtInj, Placed
  <1>3. CASE ArmDir
    <2>1. at' = at
      BY <1>3 DEF ArmDir, treeVars
    <2>2. CASE Armed("root", Root)
      BY <1>t, <2>1, <2>2 DEF Armed, TreeOK, AtInj, Placed
    <2>3. ASSUME NEW d \in DirNames, at[d] \in Inos, Armed(at[d], <<d>>) PROVE TreeOK'
      BY <1>t, <2>1, <2>3 DEF Armed, TreeOK, AtInj, Placed
    <2> QED BY <1>2, <1>3, <2>1, <2>2, <2>3, ArmCases
  <1>4. CASE ApplyEvent
    <2> DEFINE e == Head(queue)
    <2>1. UNCHANGED <<at, watched>>
      BY <1>4 DEF ApplyEvent, treeVars
    <2>2. wds'["root"] = wds["root"] /\ \A i \in Inos : wds'[i] # NoPath => wds[i] # NoPath
      <3>0. \/ UNCHANGED wds \/ OnIgnored(e) \/ \E d \in DirNames : wds' = Forget(<<d>>)
        BY <1>4, ApplyCases DEF OnNothing, OnSelfGone, OnDirGone, OnFileGone, OnDirThere, OnFileThere
      <3> HIDE DEF e
      <3>1. CASE OnIgnored(e)
        BY <1>t, <3>1 DEF OnIgnored
      <3>2. ASSUME NEW d \in DirNames, wds' = Forget(<<d>>)
            PROVE  wds'["root"] = wds["root"] /\ \A i \in Inos : wds'[i] # NoPath => wds[i] # NoPath
        BY <3>2, ForgetTyped DEF Typed
      <3> QED BY <3>0, <3>1, <3>2
    <2> QED BY <2>1, <2>2 DEF TreeOK, AtInj, Placed
  <1>5. CASE \E p \in Paths \ {Root} : Visit(p)
    BY <1>2, <1>5 DEF Visit, treeVars, kernelVars, wdVars
  <1>6. CASE WalkRoot \/ ReadDir \/ Prune
    BY <1>2, <1>6 DEF WalkRoot, ReadDir, Prune, treeVars, kernelVars, wdVars
  <1>7. CASE SetText \/ ReVec \/ Embed
    BY <1>2, <1>7 DEF SetText, ReVec, Embed, treeVars, kernelVars, wdVars
  <1>8. CASE Drained \/ UNCHANGED swampVars
    BY <1>2, <1>8 DEF Drained, swampVars, treeVars, kernelVars, daemonVars, wdVars
  <1> QED BY <1>1, <1>3, <1>4, <1>5, <1>6, <1>7, <1>8, TreeUser DEF SwampNext, Daemon

---------------------------------------------------------------------------
(* The user's changes *)

\* What is pending was heard of the root or of its directory.
LEMMA PendingHeard ==
    /\ \A q, d : DropDir(q, d) \/ Born(q, d) => HeardIn(q, "root")
    /\ \A q, i, f : DropFile(q, i, f) \/ Touched(q, i, f) => HeardIn(q, i)
  BY DEF DropDir, Born, DropFile, Touched, Has, LastIn, Match, HeardIn

\* Without overflow a change of the user is one of files or of directories.
LEMMA UserKinds ==
    ASSUME Typed, TreeOK, User, Good'
    PROVE  /\ FileStep \/ DirStep
           /\ Good /\ (Claim' => Claim) /\ (Calm' => Calm) /\ (~moved' => ~moved)
           /\ UNCHANGED <<row, fts, vec, up, wds, lost, fresh, degraded, batch, full, live, frames, cur, owed, lag>>
  <1>1. ~OverIn(queue') /\ AtInj
    BY DEF Good, NoOver, TreeOK
  <1>2. UNCHANGED <<row, fts, vec, up, wds, lost, fresh, degraded, batch, full, live, frames, cur, owed, lag>>
    BY DEF User, indexVars, daemonVars, wdVars, ghostVars
  <1>3. FileStep \/ DirStep
    BY <1>1, MkDirStep, RmDirStep, MvDirStep, SaveStep, RmFileStep, MvFileStep DEF User
  <1>4. ~OverIn(queue) /\ (~moved' => ~moved)
    BY <1>3 DEF FileStep, DirStep
  <1> QED BY <1>2, <1>3, <1>4 DEF Good, NoOver, Claim, Calm

\* Changes of the user queue their events in order.
LEMMA UserQueue ==
    ASSUME Typed, TreeOK, QueueOK, User
    PROVE  QueueOK'
  <1> SUFFICES ASSUME Good' PROVE (HeardOK /\ EndsOK /\ StillOK /\ AgainOK /\ WatchOK)'
    BY DEF QueueOK
  <1>1. /\ HeardOK /\ EndsOK /\ StillOK /\ AgainOK /\ WatchOK /\ UNCHANGED <<wds, lost>>
        /\ FileStep \/ DirStep
    BY UserKinds DEF QueueOK
  <1>t. /\ "root" \in AllInos /\ \A i \in Inos : i \in AllInos /\ i # "root"
        /\ \A i \in AllInos : i = "root" \/ i \in Inos
        /\ \A d, e : <<d>> = <<e>> => d = e
        /\ \A d \in Places : at[d] # "none" => at[d] \in Inos
        /\ \A d \in DirNames : d \in Places
        /\ "none" \notin Inos
    BY TreeTypes DEF AllInos
  <1>2. CASE FileStep
    <2> USE <1>2 DEF FileStep
    <2>1. HeardOK'
      BY <1>1 DEF HeardOK, Placed
    <2>2. EndsOK'
      BY <1>1 DEF EndsOK, Placed
    <2>3. StillOK'
      BY <1>1 DEF StillOK
    <2>4. AgainOK'
      <3> SUFFICES ASSUME NEW i \in watched' \cap Inos, NEW f \in FileNames, file'[i][f] # NoFile, DropFile(queue', i, f)
                   PROVE  Touched(queue', i, f)
        BY DEF AgainOK
      <3> QED BY <1>1 DEF AgainOK
    <2>5. WatchOK'
      BY <1>1 DEF WatchOK
    <2> QED BY <2>1, <2>2, <2>3, <2>4, <2>5
  <1>3. CASE DirStep
    <2> USE <1>3 DEF DirStep
    <2>1. HeardOK'
      <3> SUFFICES ASSUME NEW i \in AllInos, HeardIn(queue', i), i = "root" \/ Placed(i)' PROVE i \in watched'
        BY DEF HeardOK
      <3>1. CASE i = "root"
        BY <1>1, <1>t, <3>1 DEF HeardOK
      <3>2. CASE i \in Inos /\ Placed(i)'
        BY <1>1, <1>t, <3>2 DEF HeardOK
      <3> QED BY <1>t, <3>1, <3>2
    <2>2. EndsOK'
      <3> SUFFICES ASSUME NEW i \in Inos, SelfGone(queue', i), Placed(i)' PROVE FALSE
        BY DEF EndsOK
      <3> QED BY <1>1, SelfGoneHeard DEF EndsOK
    <2>3. StillOK'
      <3> SUFFICES ASSUME ~moved'
                   PROVE  /\ ~Moves(queue')
                          /\ \A d \in DirNames : at'[d] # "none" /\ DropDir(queue', d) => Born(queue', d)
                          /\ \A i \in Inos \ lost', d \in DirNames : wds'[i] = <<d>> => ~Bare(queue', i, d)
        BY DEF StillOK
      <3>1. ~moved /\ ~Moves(queue')
        BY <1>1 DEF StillOK
      <3>2. ASSUME NEW d \in DirNames, at'[d] # "none", DropDir(queue', d) PROVE Born(queue', d)
        <4>1. DropDir(queue, d) => "root" \in watched
          BY <1>1, <1>t, PendingHeard DEF HeardOK
        <4> QED BY <1>1, <3>1, <3>2, <4>1 DEF StillOK
      <3>3. ASSUME NEW i \in Inos \ lost, NEW d \in DirNames, wds[i] = <<d>>, Bare(queue', i, d) PROVE FALSE
        <4>1. ~Bare(queue, i, d)
          BY <1>1, <3>1, <3>3 DEF StillOK
        <4>2. i \in watched /\ ~DropDir(queue, d) /\ ~("root" \in watched /\ at[d] = i)
          BY <3>3, <3>1, <4>1
        <4>3. wds[i] # NoPath
          BY <3>3, TreeTypes
        <4>4. "root" \in watched /\ \E x \in DirNames : wds[i] = <<x>> /\ (at[x] = i \/ DropDir(queue, x))
          BY <1>1, <3>3, <4>2, <4>3 DEF WatchOK
        <4>5. PICK x \in DirNames : <<d>> = <<x>> /\ (at[x] = i \/ DropDir(queue, x))
          BY <3>3, <4>4
        <4>6. x = d
          BY <1>t, <4>5
        <4> QED BY <4>2, <4>4, <4>5, <4>6
      <3> QED BY <1>1, <3>1, <3>2, <3>3
    <2>4. AgainOK'
      BY <1>1 DEF AgainOK
    <2>5. WatchOK'
      <3> SUFFICES ASSUME NEW i \in Inos \ lost, wds[i] # NoPath, i \in watched' \/ HeardIn(queue', i)
                   PROVE  /\ "root" \in watched'
                          /\ \E d \in DirNames : wds[i] = <<d>> /\ (at'[d] = i \/ DropDir(queue', d))
        BY <1>1 DEF WatchOK
      <3>1. i \in watched \/ HeardIn(queue, i)
        OBVIOUS
      <3>2. "root" \in watched /\ \E d \in DirNames : wds[i] = <<d>> /\ (at[d] = i \/ DropDir(queue, d))
        BY <1>1, <3>1 DEF WatchOK
      <3>3. \A d \in DirNames : at[d] = i => at'[d] = i \/ DropDir(queue', d)
        BY <1>t, <3>2
      <3> QED BY <3>2, <3>3
    <2> QED BY <2>1, <2>2, <2>3, <2>4, <2>5
  <1> QED BY <1>1, <1>2, <1>3

\* They leave the root's watch alone.
LEMMA UserRoot ==
    ASSUME Typed, TreeOK, RootOK, User
    PROVE  RootOK'
  <1>1. Good' => /\ Good /\ (Claim' => Claim) /\ ("root" \in watched' <=> "root" \in watched)
                 /\ UNCHANGED <<owed, cur, frames>>
    BY UserKinds DEF FileStep, DirStep
  <1> QED BY <1>1 DEF RootOK, Claim, StartWalk

\* What was there is there, or its end was just queued.
LEMMA UserBacked ==
    ASSUME Typed, TreeOK, User, Good', "root" \in watched
    PROVE  /\ \A d \in DirNames : ArmedAt(d) => ArmedAt(d)'
           /\ \A p \in Paths : Backed(p) => Backed(p)'
  <1>1. (FileStep \/ DirStep) /\ UNCHANGED wds
    BY UserKinds
  <1>2. \A d : DropDir(queue, d) => DropDir(queue', d)
    BY <1>1 DEF FileStep, DirStep
  <1>t. /\ \A d \in Places : at[d] # "none" => at[d] \in Inos
        /\ \A d \in DirNames : d \in Places /\ <<d>> # NoPath
    BY TreeTypes
  <1>3. \A d \in DirNames :
           \/ at'[d] = at[d]
           \/ at[d] # "none" /\ at'[d] = "none" /\ DropDir(queue', d)
           \/ at[d] = "none" /\ at'[d] # "none"
    BY <1>1 DEF FileStep, DirStep
  <1>4. ASSUME NEW d \in DirNames, ArmedAt(d) PROVE ArmedAt(d)'
    BY <1>1, <1>2, <1>3, <1>4 DEF ArmedAt
  <1>5. ASSUME NEW d \in DirNames, at[d] # "none", at'[d] = at[d], wds[at[d]] = <<d>>, NEW f \in FileNames
        PROVE  file[at[d]][f] # NoFile \/ DropFile(queue, at[d], f) => file'[at[d]][f] # NoFile \/ DropFile(queue', at[d], f)
    <2>1. at[d] \in Inos /\ Placed(at[d]) /\ wds[at[d]] # NoPath
      BY <1>5, <1>t DEF Placed
    <2>2. at[d] \in watched
      BY <2>1 DEF TreeOK
    <2>3. CASE FileStep
      <3>0. \A i \in Inos : DropFile(queue, i, f) => DropFile(queue', i, f)
        BY <2>3 DEF FileStep
      <3>1. \A i \in Inos : \/ file'[i][f] = file[i][f]
                            \/ file'[i][f] = NoFile /\ (i \in watched => DropFile(queue', i, f))
                            \/ file'[i][f] # NoFile
        BY <2>3 DEF FileStep
      <3> QED BY <2>1, <2>2, <3>0, <3>1
    <2>4. CASE DirStep
      BY <2>4 DEF DirStep
    <2> QED BY <1>1, <2>3, <2>4
  <1>6. ASSUME NEW p \in Paths, Backed(p) PROVE Backed(p)'
    <2>1. CASE p = Root
      BY <2>1 DEF Backed
    <2>2. CASE p \in Dirs1
      <3>1. p[1] \in DirNames /\ p # Root /\ p \notin Files
        BY <2>2, PathKinds DEF Dirs1
      <3> QED BY <1>2, <1>3, <1>6, <2>2, <3>1 DEF Backed
    <2>3. CASE p \in Files
      <3>1. p[1] \in DirNames /\ p[2] \in FileNames /\ p # Root /\ p \notin Dirs1
        BY <2>3, PathKinds DEF Dirs1
      <3> DEFINE d == p[1]
                 f == p[2]
      <3>2. DropDir(queue, d) \/ /\ at[d] # "none" /\ wds[at[d]] = <<d>>
                                 /\ file[at[d]][f] # NoFile \/ DropFile(queue, at[d], f)
        BY <1>6, <3>1 DEF Backed, Stat
      <3>3. d \in DirNames /\ f \in FileNames
        BY <3>1
      <3> SUFFICES DropDir(queue', d) \/ /\ at'[d] # "none" /\ wds'[at'[d]] = <<d>>
                                         /\ file'[at'[d]][f] # NoFile \/ DropFile(queue', at'[d], f)
        BY <2>3 DEF Backed, Stat
      <3> HIDE DEF d, f
      <3> QED BY <1>1, <1>2, <1>3, <1>5, <3>2, <3>3
    <2> QED BY PathKinds, <2>1, <2>2, <2>3
  <1> QED BY <1>4, <1>6

\* So what is left to visit is still of an armed directory.
LEMMA UserFrame ==
    ASSUME Typed, TreeOK, ControlOK, RootOK, FrameOK, User
    PROVE  FrameOK'
  <1> SUFFICES ASSUME Good'
               PROVE  /\ \A p \in Files : InFrames(frames', p) => ArmedAt(p[1])'
                      /\ \A d \in DirNames : cur' = At("read", <<d>>) => ArmedAt(d)'
    BY DEF FrameOK
  <1>1. Good /\ UNCHANGED <<frames, cur>>
    BY UserKinds
  <1>2. ASSUME NEW p \in Files, InFrames(frames, p) PROVE ArmedAt(p[1])'
    <2>1. p # Root /\ p[1] \in DirNames /\ frames # <<>> /\ frames # <<{Root}>>
      <3>1. frames # <<{Root}>>
        BY <1>2, PathKinds DEF InFrames
      <3> QED BY <1>2, <3>1, PathKinds, NoFrames
    <2>2. ~StartWalk
      BY <2>1 DEF StartWalk, ControlOK, WalkOK
    <2> QED BY <1>1, <1>2, <2>1, <2>2, UserBacked DEF RootOK, FrameOK
  <1>3. ASSUME NEW d \in DirNames, cur = At("read", <<d>>) PROVE ArmedAt(d)'
    <2>1. cur.op = "read" /\ cur # At("arm", Root) /\ cur # Idle
      BY <1>3 DEF At, Idle
    <2>2. ~StartWalk
      BY <2>1 DEF StartWalk, ControlOK, WalkOK
    <2> QED BY <1>1, <1>3, <2>1, <2>2, UserBacked DEF RootOK, FrameOK
  <1> QED BY <1>1, <1>2, <1>3

\* And what is mapped is still there, or about to be retracted.
LEMMA UserRow ==
    ASSUME Typed, TreeOK, ControlOK, RootOK, RowOK, User
    PROVE  RowOK'
  <1> SUFFICES ASSUME Claim'
               PROVE  /\ \A p \in Paths \ owed' : row'[p] # NoRow /\ Live(p)' => Backed(p)'
                      /\ (cur.op = "text" => Backed(cur.path) /\ Live(cur.path))'
    BY DEF RowOK
  <1>1. Claim /\ Good /\ Good' /\ UNCHANGED <<row, owed, live, full, cur>>
    BY UserKinds DEF Claim
  <1>2. ASSUME NEW p \in Paths \ owed, row[p] # NoRow, Live(p) PROVE Backed(p)'
    <2>1. CASE p = Root
      BY <2>1 DEF Backed
    <2>2. CASE p # Root
      <3>1. ~StartWalk
        <4>1. StartWalk => full /\ live \subseteq {Root}
          BY DEF StartWalk, ControlOK, WalkOK
        <4> QED BY <1>2, <2>2, <4>1 DEF Live
      <3>2. Root \notin owed
        BY <1>2 DEF ControlOK, OwedOK
      <3> QED BY <1>1, <1>2, <3>1, <3>2, UserBacked DEF RootOK, RowOK
    <2> QED BY <2>1, <2>2
  <1>3. ASSUME cur.op = "text" PROVE Backed(cur.path)'
    <2>1. cur # Idle /\ cur # At("arm", Root) /\ cur.path \in Paths
      BY <1>3, StepKinds, TreeTypes DEF Idle, At, Paths
    <2>2. ~StartWalk
      BY <2>1 DEF StartWalk, ControlOK, WalkOK
    <2> QED BY <1>1, <1>3, <2>1, <2>2, UserBacked DEF RootOK, RowOK
  <1> QED BY <1>1, <1>2, <1>3 DEF RowOK, Live

\* A directory that appears is reported, or the walk has not begun, or its root is owed
LEMMA UserComes ==
    ASSUME Typed, TreeOK, ControlOK, RootOK, User, Good', NEW d \in DirNames, at'[d] # "none", owed # Paths
    PROVE  /\ at[d] = "none" => Coming(d)'
           /\ Coming(d) => Coming(d)'
           /\ at[d] # "none" => at'[d] = at[d]
  <1>1. Good /\ (FileStep \/ DirStep) /\ UNCHANGED <<frames, cur, owed>>
    BY UserKinds
  <1>2. Root \notin owed
    BY DEF ControlOK, OwedOK
  <1>3. "root" \in watched \/ StartWalk
    BY <1>1, <1>2 DEF RootOK
  <1>4. StartWalk => ToVisit(d)'
    BY <1>1 DEF StartWalk, ToVisit
  <1>5. ToVisit(d) => ToVisit(d)'
    BY <1>1 DEF ToVisit
  <1>6. CASE FileStep
    BY <1>5, <1>6 DEF FileStep, Coming
  <1>7. CASE DirStep
    <2>1. \/ at'[d] = at[d] /\ (Born(queue, d) => Born(queue', d))
          \/ at[d] = "none" /\ ("root" \in watched => Born(queue', d))
      BY <1>7 DEF DirStep
    <2> QED BY <1>3, <1>4, <1>5, <2>1 DEF Coming
  <1> QED BY <1>1, <1>6, <1>7

\* What a directory has under it.
LEMMA SubFacts ==
    /\ \A d \in DirNames, f \in FileNames : <<d, f>> \in Sub(<<d>>) /\ <<d, f>> \in Paths /\ <<d, f>> \in Files
    /\ \A d \in DirNames : <<d>> \in Sub(<<d>>) /\ Sub(<<d>>) \subseteq Paths /\ <<d>> \in Paths /\ Root \notin Sub(<<d>>)
    /\ \A d, e \in DirNames : <<e>> \in Sub(<<d>>) => d = e
    /\ \A d \in DirNames, p \in Files : p \in Sub(<<d>>) <=> p[1] = d
  <1>1. \A d \in DirNames, f \in FileNames : <<d, f>>[1] = d
    OBVIOUS
  <1>2. \A p \in Files : p \in Paths
    BY DEF Paths
  <1> QED BY <1>1, <1>2, PathKinds, BeneathFacts DEF Sub

\* What the user makes is queued under an armed directory, or to be walked.
LEMMA UserCover ==
    ASSUME Typed, TreeOK, ControlOK, RootOK, CoverOK, User
    PROVE  CoverOK'
  <1> SUFFICES ASSUME Calm' PROVE (ArmedOK /\ MappedOK /\ FilesOK)'
    BY DEF CoverOK
  <1>1. /\ Calm /\ Good' /\ UNCHANGED <<row, wds, full, live, frames, cur, owed>> /\ (FileStep \/ DirStep)
        /\ ArmedOK /\ MappedOK /\ FilesOK
    BY UserKinds DEF Calm, Claim, CoverOK
  <1>t. /\ \A d \in Places : at[d] # "none" => at[d] \in Inos
        /\ \A d \in DirNames : d \in Places /\ <<d>> # NoPath
    BY TreeTypes
  <1>2. ArmedOK'
    <2> SUFFICES ASSUME NEW d, DirHere(d)', ~(Sub(<<d>>) \subseteq owed)
                 PROVE  Coming(d)' \/ cur = At("arm", <<d>>) \/ wds[at'[d]] = <<d>>
      BY <1>1 DEF ArmedOK
    <2>1. d \in DirNames /\ at'[d] # "none" /\ owed # Paths
      BY SubFacts DEF DirHere
    <2>2. at[d] = "none" => Coming(d)'
      BY <1>1, <2>1, UserComes
    <2>3. at[d] # "none" => DirHere(d) /\ at'[d] = at[d] /\ (Coming(d) => Coming(d)')
      BY <1>1, <2>1, UserComes DEF DirHere
    <2> QED BY <1>1, <2>2, <2>3 DEF ArmedOK
  <1>3. MappedOK'
    <2> SUFFICES ASSUME NEW d, DirHere(d)', <<d>> \notin owed
                 PROVE  Coming(d)' \/ (row[<<d>>] # NoRow /\ Live(<<d>>))
      BY <1>1 DEF MappedOK, Live
    <2>1. d \in DirNames /\ at'[d] # "none" /\ owed # Paths
      BY SubFacts DEF DirHere
    <2>2. at[d] = "none" => Coming(d)'
      BY <1>1, <2>1, UserComes
    <2>3. at[d] # "none" => DirHere(d) /\ (Coming(d) => Coming(d)')
      BY <1>1, <2>1, UserComes DEF DirHere
    <2> QED BY <1>1, <2>2, <2>3 DEF MappedOK
  <1>4. FilesOK'
    <2> SUFFICES ASSUME NEW d, NEW f, FileHere(d, f)', <<d, f>> \notin owed
                 PROVE  \/ Coming(d)' \/ InFrames(frames, <<d, f>>)
                        \/ cur \in {At("arm", <<d>>), At("read", <<d>>)}
                        \/ /\ wds[at'[d]] = <<d>>
                           /\ \/ Touched(queue', at'[d], f)
                              \/ row[<<d, f>>] = Meta(file'[at'[d]][f]) /\ Live(<<d, f>>)
      BY <1>1 DEF FilesOK, Live
    <2>1. d \in DirNames /\ f \in FileNames /\ at'[d] # "none" /\ file'[at'[d]][f] # NoFile /\ DirHere(d)'
      BY DEF FileHere, DirHere
    <2>2. owed # Paths /\ ~(Sub(<<d>>) \subseteq owed)
      BY <2>1, SubFacts
    <2>3. CASE at[d] = "none"
      BY <1>1, <2>1, <2>2, <2>3, UserComes
    <2>4. CASE at[d] # "none"
      <3> DEFINE i == at[d]
      <3>1. /\ DirHere(d) /\ at'[d] = i /\ (Coming(d) => Coming(d)') /\ i \in Inos /\ Placed(i)
        BY <1>1, <1>t, <2>1, <2>2, <2>4, UserComes DEF DirHere, Placed
      <3>2. Coming(d) \/ cur = At("arm", <<d>>) \/ wds[i] = <<d>>
        BY <1>1, <2>2, <3>1 DEF ArmedOK
      <3>3. wds[i] = <<d>> => i \in watched
        BY <1>t, <2>1, <3>1 DEF TreeOK
      <3>4. \/ file'[i][f] = file[i][f] /\ (Touched(queue, i, f) => Touched(queue', i, f))
            \/ i \in watched => Touched(queue', i, f)
        <4> HIDE DEF i
        <4>1. CASE FileStep
          BY <2>1, <3>1, <4>1 DEF FileStep
        <4>2. CASE DirStep
          BY <4>2 DEF DirStep
        <4> QED BY <1>1, <4>1, <4>2
      <3>5. CASE file'[i][f] = file[i][f] /\ (Touched(queue, i, f) => Touched(queue', i, f))
        <4>1. FileHere(d, f)
          BY <2>1, <3>1, <3>5 DEF FileHere
        <4> QED BY <1>1, <3>1, <3>5, <4>1 DEF FilesOK
      <3> QED BY <3>1, <3>2, <3>3, <3>4, <3>5
    <2> QED BY <2>3, <2>4
  <1> QED BY <1>2, <1>3, <1>4

\* Changes of the user keep the map owed to the tree.
LEMMA UserMap ==
    ASSUME Typed, ControlOK, MapOK, User
    PROVE  QueueOK' /\ RootOK' /\ FrameOK' /\ RowOK' /\ CoverOK'
  BY UserQueue, UserRoot, UserFrame, UserRow, UserCover DEF MapOK

---------------------------------------------------------------------------
(* The queue and the watches, under the daemon's steps *)

\* Steps that neither read the queue nor arm anything.
LEMMA QueueKept ==
    ASSUME QueueOK, Good, UNCHANGED <<at, file, watched, queue, wds, lost, moved>>
    PROVE  QueueOK'
  BY DEF QueueOK, HeardOK, EndsOK, StillOK, AgainOK, WatchOK, Placed

\* An end that comes before its parent's event is an end.
LEMMA BareSelf == \A q, i, d : Bare(q, i, d) => SelfGone(q, i)
  BY DEF Bare, SelfGone, Ended

\* add_watch gives a directory that is there the path it has.
LEMMA QueueArm ==
    ASSUME Typed, ControlOK, TreeOK, RootOK, QueueOK, ArmDir
    PROVE  QueueOK'
  <1> SUFFICES ASSUME Good' PROVE (HeardOK /\ EndsOK /\ StillOK /\ AgainOK /\ WatchOK)'
    BY DEF QueueOK
  <1>1. UNCHANGED <<at, file, moved, queue, up, batch>>
    BY ArmCases DEF treeVars
  <1>2. degraded' # TRUE
    BY DEF Good
  <1>t. /\ wds \in [AllInos -> DirPaths \cup {NoPath}] /\ "root" \notin Inos
        /\ "root" \in AllInos /\ \A i \in Inos : i \in AllInos
        /\ Root # NoPath /\ \A d \in DirNames : <<d>> # Root /\ <<d>> # NoPath
        /\ \A d, e : <<d>> = <<e>> => d = e
        /\ \A d \in DirNames : d \in Places
        /\ lost \subseteq Inos
    BY TreeTypes DEF AllInos
  <1>3. CASE cur = At("arm", Root) /\ Armed("root", Root)
    <2>1. watched' = watched \cup {"root"} /\ wds' = [wds EXCEPT !["root"] = Root] /\ lost' = lost /\ Good
      BY <1>1, <1>3, <1>t DEF Armed, Good, NoOver
    <2>2. \A j \in Inos : wds'[j] = wds[j]
      BY <1>t, <2>1
    <2>3. watched' \cap Inos = watched \cap Inos
      BY <1>t, <2>1
    <2>4. HeardOK /\ EndsOK /\ StillOK /\ AgainOK /\ WatchOK
      BY <2>1 DEF QueueOK
    <2>5. HeardOK' /\ EndsOK'
      BY <1>1, <2>1, <2>4 DEF HeardOK, EndsOK, Placed
    <2>6. StillOK'
      BY <1>1, <2>1, <2>2, <2>4 DEF StillOK
    <2>7. AgainOK'
      BY <1>1, <2>3, <2>4 DEF AgainOK
    <2>8. WatchOK'
      BY <1>1, <1>t, <2>1, <2>2, <2>4 DEF WatchOK
    <2> QED BY <2>5, <2>6, <2>7, <2>8
  <1>4. ASSUME NEW d \in DirNames, cur = At("arm", <<d>>), at[d] \in Inos, Armed(at[d], <<d>>)
        PROVE  (HeardOK /\ EndsOK /\ StillOK /\ AgainOK /\ WatchOK)'
    <2> DEFINE i == at[d]
    <2>1. /\ watched' = watched \cup {i} /\ wds' = [wds EXCEPT ![i] = <<d>>] /\ lost \ {i} \subseteq lost' /\ Good
          /\ Placed(i) /\ i \in Inos
      BY <1>1, <1>4, <1>t DEF Armed, Good, NoOver, Placed
    <2>2. \A j \in Inos : wds'[j] = IF j = i THEN <<d>> ELSE wds[j]
      BY <1>t, <2>1
    <2>4. HeardOK /\ EndsOK /\ StillOK /\ AgainOK /\ WatchOK
      BY <2>1 DEF QueueOK
    <2>w. "root" \in watched
      <3>1. cur.op = "arm" /\ cur # Idle /\ cur # At("arm", Root)
        BY <1>4, <1>t DEF At, Idle
      <3>2. ~StartWalk
        BY <3>1 DEF StartWalk, ControlOK, WalkOK
      <3> QED BY <2>1, <3>1, <3>2 DEF RootOK
    <2>at. at[d] = i
      OBVIOUS
    <2> HIDE DEF i
    <2>5. HeardOK' /\ EndsOK'
      BY <1>1, <2>1, <2>4 DEF HeardOK, EndsOK, Placed
    <2>6. StillOK'
      <3>1. ASSUME NEW j \in Inos \ lost', NEW x \in DirNames, wds'[j] = <<x>>, ~moved PROVE ~Bare(queue, j, x)
        <4>1. CASE j = i
          BY <2>1, <2>4, <4>1, BareSelf DEF EndsOK
        <4>2. CASE j # i
          BY <2>1, <2>2, <2>4, <3>1, <4>2 DEF StillOK
        <4> QED BY <4>1, <4>2
      <3> QED BY <1>1, <2>4, <3>1 DEF StillOK
    <2>7. AgainOK'
      <3>1. ASSUME NEW f, DropFile(queue, i, f) PROVE i \in watched
        BY <1>t, <2>1, <2>4, <3>1, PendingHeard DEF HeardOK
      <3> QED BY <1>1, <2>1, <2>4, <3>1 DEF AgainOK
    <2>8. WatchOK'
      <3> SUFFICES ASSUME NEW j \in Inos \ lost', wds'[j] # NoPath, j \in watched' \/ HeardIn(queue, j)
                   PROVE  "root" \in watched' /\ \E x \in DirNames : wds'[j] = <<x>> /\ (at[x] = j \/ DropDir(queue, x))
        BY <1>1 DEF WatchOK
      <3>1. CASE j = i
        BY <2>1, <2>2, <2>w, <2>at, <3>1
      <3>2. CASE j # i
        BY <2>1, <2>2, <2>4, <3>2 DEF WatchOK
      <3> QED BY <3>1, <3>2
    <2> QED BY <2>5, <2>6, <2>7, <2>8
  <1> QED BY <1>2, <1>3, <1>4, ArmCases

\* Every event of a name in the root is acted on, and the rest forget no path but
\* that of their own directory
LEMMA ApplyFacts ==
    ASSUME Typed, TreeOK, QueueOK, ApplyEvent, Good'
    PROVE  LET e == Head(queue) IN
           /\ Good /\ e.what # "overflow" /\ e \in Events /\ queue \in Seq(Events) /\ queue # <<>> /\ queue' = Tail(queue)
           /\ up = "serving" /\ ~full /\ ~full' /\ cur = Idle /\ frames = <<>> /\ frames' = <<>>
           /\ (Claim' => Claim) /\ (Calm' => Calm)
           /\ UNCHANGED <<at, file, watched, lost, moved, fresh, degraded>>
           /\ \A i \in Inos : wds'[i] = wds[i] \/ wds'[i] = NoPath
           /\ wds'["root"] = wds["root"]
           /\ \A d \in DirNames : Match(e, "root", DirGone, d) => OnDirGone(e, d)
           /\ \A d \in DirNames : Match(e, "root", DirThere, d) => OnDirThere(e, d)
  <1> DEFINE e == Head(queue)
  <1>1. Applied(e) /\ queue \in Seq(Events)
    BY ApplyCases, TreeTypes
  <1>2. /\ e \in Events /\ queue # <<>> /\ queue' = Tail(queue)
        /\ up = "serving" /\ ~full /\ ~full' /\ cur = Idle /\ frames = <<>> /\ frames' = <<>>
        /\ UNCHANGED <<at, file, watched, lost, moved, fresh, degraded, up>>
        /\ batch' = IF e.what = "overflow" \/ batch = "overflow" THEN "overflow" ELSE "yes"
    BY <1>1 DEF Applied, treeVars
  <1>3. Good /\ e.what # "overflow"
    BY <1>1, <1>2, TailHas DEF Good, NoOver
  <1>4. (Claim' => Claim) /\ (Calm' => Calm)
    BY <1>2, <1>3 DEF Claim, Calm
  <1>t. /\ wds \in [AllInos -> DirPaths \cup {NoPath}] /\ "root" \notin Inos
        /\ "root" \in AllInos /\ \A i \in Inos : i \in AllInos
        /\ Root # NoPath
    BY TreeTypes DEF AllInos
  <1>o. Overflow.what = "overflow"
    BY EvFields DEF Overflow
  <1>c. \/ OnIgnored(e)
        \/ e.wd \in AllInos /\ wds[e.wd] = NoPath /\ OnNothing
        \/ \E d \in DirNames : OnSelfGone(e, d)
        \/ \E d \in DirNames : OnDirGone(e, d)
        \/ \E d \in DirNames, f \in FileNames : OnFileGone(e, d, f)
        \/ \E d \in DirNames : OnDirThere(e, d)
        \/ \E d \in DirNames, f \in FileNames : OnFileThere(e, d, f)
    BY <1>3, <1>o, ApplyCases
  <1>h. HeardIn(queue, e.wd)
    BY <1>1, <1>2, TailHas
  <1> HIDE DEF e
  <1>5. wds'["root"] = wds["root"] /\ \A i \in Inos : wds'[i] = wds[i] \/ wds'[i] = NoPath
    <2>1. CASE OnIgnored(e)
      BY <1>t, <2>1 DEF OnIgnored
    <2>2. ASSUME NEW d \in DirNames, wds' = Forget(<<d>>)
          PROVE  wds'["root"] = wds["root"] /\ \A i \in Inos : wds'[i] = wds[i] \/ wds'[i] = NoPath
      BY <2>2, ForgetTyped DEF Typed
    <2> QED BY <1>c, <2>1, <2>2 DEF OnNothing, OnSelfGone, OnDirGone, OnFileGone, OnDirThere, OnFileThere
  <1>6. ASSUME NEW d \in DirNames, Match(e, "root", DirGone, d) \/ Match(e, "root", DirThere, d)
        PROVE  /\ Match(e, "root", DirGone, d) => OnDirGone(e, d)
               /\ Match(e, "root", DirThere, d) => OnDirThere(e, d)
    <2>1. e.wd = "root" /\ e.name = d /\ e.what \in DirGone \cup DirThere
      BY <1>6 DEF Match
    <2>2. wds["root"] # NoPath
      BY <1>3, <1>h, <1>t, <2>1 DEF QueueOK, HeardOK, TreeOK
    <2>3. \/ \E x \in DirNames : OnDirGone(e, x)
          \/ \E x \in DirNames : OnDirThere(e, x)
      BY <1>c, <1>t, <2>1, <2>2 DEF OnIgnored, OnSelfGone, OnFileGone, OnFileThere
    <2>4. \A x : e = Ev("root", e.what, x) => x = d
      BY <2>1, EvFields
    <2> QED BY <1>6, <2>3, <2>4, KindsApart DEF OnDirGone, OnDirThere, Match
  <1> QED BY <1>1, <1>2, <1>3, <1>4, <1>5, <1>6 DEF e

\* apply_event forgets the path of a directory with the event of its name.
LEMMA QueueApply ==
    ASSUME Typed, TreeOK, QueueOK, ApplyEvent
    PROVE  QueueOK'
  <1> SUFFICES ASSUME Good' PROVE (HeardOK /\ EndsOK /\ StillOK /\ AgainOK /\ WatchOK)'
    BY DEF QueueOK
  <1> DEFINE e == Head(queue)
             q == Tail(queue)
  <1>1. /\ Good /\ e \in Events /\ queue \in Seq(Events) /\ queue # <<>> /\ queue' = q
        /\ UNCHANGED <<at, file, watched, lost, moved>>
        /\ \A i \in Inos : wds'[i] = wds[i] \/ wds'[i] = NoPath
        /\ \A d \in DirNames : Match(e, "root", DirGone, d) => OnDirGone(e, d)
    BY ApplyFacts
  <1>2. HeardOK /\ EndsOK /\ StillOK /\ AgainOK /\ WatchOK
    BY <1>1 DEF QueueOK
  <1>3. /\ \A w, S, x : Has(queue, w, S, x) <=> Has(q, w, S, x) \/ Match(e, w, S, x)
        /\ \A i : HeardIn(q, i) => HeardIn(queue, i)
        /\ \A i : SelfGone(q, i) => SelfGone(queue, i)
        /\ Moves(q) => Moves(queue)
    BY <1>1, TailHas
  <1>4. /\ \A w, S, T, x : LastIn(queue, w, S, T, x) <=>
               LastIn(q, w, S, T, x) \/ (Match(e, w, S, x) /\ ~Has(q, w, T, x))
        /\ \A i, d : Bare(q, i, d) => Bare(queue, i, d) \/ Match(e, "root", DirGone, d)
    BY <1>1, TailLast
  <1> HIDE DEF e, q
  <1>5. ASSUME NEW d \in DirNames, Match(e, "root", DirGone, d), NEW i \in Inos PROVE wds'[i] # <<d>>
    <2>1. wds' = Forget(<<d>>) /\ <<d>> # NoPath
      BY <1>1, <1>5, TreeTypes DEF OnDirGone
    <2> QED BY <2>1, ForgetTyped DEF Typed
  <1>6. HeardOK' /\ EndsOK'
    BY <1>1, <1>2, <1>3 DEF HeardOK, EndsOK, Placed
  <1>7. StillOK'
    <2> SUFFICES ASSUME ~moved
                 PROVE  /\ ~Moves(q)
                        /\ \A d \in DirNames : at[d] # "none" /\ DropDir(q, d) => Born(q, d)
                        /\ \A i \in Inos \ lost, d \in DirNames : wds'[i] = <<d>> => ~Bare(q, i, d)
      BY <1>1 DEF StillOK
    <2>1. ASSUME NEW d \in DirNames, at[d] # "none", DropDir(q, d) PROVE Born(q, d)
      <3>1. Born(queue, d)
        BY <1>2, <1>3, <2>1 DEF StillOK, DropDir
      <3> QED BY <1>4, <2>1, <3>1 DEF Born, DropDir
    <2>2. ASSUME NEW i \in Inos \ lost, NEW d \in DirNames, wds'[i] = <<d>> PROVE ~Bare(q, i, d)
      <3>1. wds[i] = <<d>>
        BY <1>1, <2>2, TreeTypes
      <3>2. ~Bare(queue, i, d)
        BY <1>2, <3>1 DEF StillOK
      <3> QED BY <1>4, <1>5, <2>2, <3>2
    <2> QED BY <1>2, <1>3, <2>1, <2>2 DEF StillOK
  <1>8. AgainOK'
    <2> SUFFICES ASSUME NEW i \in watched \cap Inos, NEW f \in FileNames, file[i][f] # NoFile, DropFile(q, i, f)
                 PROVE  Touched(q, i, f)
      BY <1>1 DEF AgainOK
    <2>1. Touched(queue, i, f)
      BY <1>2, <1>3 DEF AgainOK, DropFile
    <2> QED BY <1>4, <2>1 DEF Touched, DropFile
  <1>9. WatchOK'
    <2> SUFFICES ASSUME NEW i \in Inos \ lost, wds'[i] # NoPath, i \in watched \/ HeardIn(q, i)
                 PROVE  "root" \in watched /\ \E d \in DirNames : wds'[i] = <<d>> /\ (at[d] = i \/ DropDir(q, d))
      BY <1>1 DEF WatchOK
    <2>1. wds'[i] = wds[i]
      BY <1>1
    <2>2. "root" \in watched /\ \E d \in DirNames : wds[i] = <<d>> /\ (at[d] = i \/ DropDir(queue, d))
      BY <1>2, <1>3, <2>1 DEF WatchOK
    <2>3. \A d \in DirNames : wds'[i] = <<d>> /\ DropDir(queue, d) => DropDir(q, d)
      BY <1>3, <1>5 DEF DropDir
    <2> QED BY <2>1, <2>2, <2>3
  <1> QED BY <1>6, <1>7, <1>8, <1>9

\* An empty queue has nothing pending, where the watches are right.
LEMMA QueueFresh ==
    ASSUME Typed, UNCHANGED <<at, file>>, queue' = <<>>,
           \A i \in Inos \ lost' : wds'[i] # NoPath /\ i \in watched' =>
               "root" \in watched' /\ \E d \in DirNames : wds'[i] = <<d>> /\ at[d] = i
    PROVE  QueueOK'
  BY EmptyQueue DEF QueueOK, HeardOK, EndsOK, StillOK, AgainOK, WatchOK

\* A start: nothing watched, nothing queued, the root to walk.
LEMMA BootState ==
    ASSUME Boot
    PROVE  /\ up' = "boot" /\ full' = TRUE /\ live' = {} /\ frames' = <<{Root}>> /\ cur' = Idle /\ batch' = "no"
           /\ watched' = {} /\ queue' = <<>> /\ wds' = [i \in AllInos |-> NoPath] /\ UNCHANGED <<at, file, row, owed>>
  BY DEF Boot, Reconcile

\* So a start has nothing pending.
LEMMA QueueBoot == ASSUME Typed, Boot PROVE QueueOK'
  BY BootState, QueueFresh

\* A daemon that is down claims nothing.
LEMMA QueueCrash == ASSUME Typed, Crash PROVE QueueOK' /\ RootOK' /\ FrameOK' /\ RowOK' /\ CoverOK'
  <1>1. ~Good'
    BY DEF Crash, Good
  <1> QED BY <1>1 DEF QueueOK, RootOK, FrameOK, RowOK, CoverOK, Claim, Calm

\* A drain that lost nothing changes no more than the freshness; one that did begins
\* a full reconcile
Resumed == /\ full' = TRUE /\ live' = {} /\ frames' = <<{Root}>> /\ cur' = Idle
           /\ queue' = <<>> /\ UNCHANGED <<at, file, row, owed>>

\* A drain with an overflow starts a full reconcile, one without ends.
LEMMA DrainedCases ==
    ASSUME Drained
    PROVE  \/ Resumed /\ queue = <<>> /\ lost' = Lost /\ UNCHANGED <<wds, watched>>
           \/ /\ UNCHANGED <<at, file, moved, watched, queue, row, owed, up, wds, lost, degraded, full, live, frames, cur>>
              /\ (Good' => Good) /\ (Claim' => Claim) /\ (Calm' => Calm) /\ queue = <<>>
  <1>0. /\ ~full /\ queue = <<>> /\ cur = Idle
        /\ UNCHANGED <<at, file, watched, queue, row, owed, up, wds, cur>>
    BY DEF Drained, kernelVars, KeepIndex, indexVars, ghostVars
  <1>1. CASE batch = "overflow"
    BY <1>0, <1>1 DEF Drained, Reconcile, Resumed
  <1>2. CASE batch # "overflow"
    <2>1. UNCHANGED <<degraded, full, live, frames, moved, lost>> /\ (fresh' => fresh)
      BY <1>2 DEF Drained
    <2>2. (Good' => Good) /\ (Claim' => Claim) /\ (Calm' => Calm)
      BY <1>0, <1>2, <2>1 DEF Good, NoOver, Claim, Calm
    <2> QED BY <1>0, <2>1, <2>2
  <1> QED BY <1>1, <1>2

\* A full reconcile counts as lost the watches whose path is another's.
LEMMA QueueDrained == ASSUME Typed, QueueOK, Drained PROVE QueueOK'
  <1>1. CASE Resumed /\ lost' = Lost /\ UNCHANGED <<wds, watched>>
    <2>1. ASSUME NEW i \in Inos \ Lost, wds[i] # NoPath, i \in watched
          PROVE  "root" \in watched /\ \E d \in DirNames : wds[i] = <<d>> /\ at[d] = i
      <3>1. i # "root" /\ \E d \in DirNames : wds[i] = <<d>>
        BY <2>1, TreeTypes
      <3>2. DirIno(wds[i]) = i /\ "root" \in watched
        BY <2>1, <3>1 DEF Lost
      <3>3. PICK d \in DirNames : wds[i] = <<d>>
        BY <3>1
      <3>4. <<d>> # Root /\ <<d>>[1] = d
        BY PathKinds
      <3>5. at[d] = i
        BY <3>2, <3>3, <3>4 DEF DirIno
      <3> QED BY <3>2, <3>3, <3>5
    <2> QED BY <1>1, <2>1, QueueFresh DEF Resumed
  <1>2. CASE /\ UNCHANGED <<at, file, moved, watched, queue, wds, lost>> /\ (Good' => Good)
    BY <1>2, QueueKept DEF QueueOK
  <1> QED BY <1>1, <1>2, DrainedCases

\* Steps of the crawl leave the tree, the kernel and the watches alone.
LEMMA Keeps ==
    ASSUME Typed, ControlOK,
           \/ WalkRoot \/ ReadDir \/ (\E p \in Paths \ {Root} : Visit(p))
           \/ SetText \/ ReVec \/ Embed \/ Prune \/ UNCHANGED swampVars
    PROVE  /\ UNCHANGED <<at, file, moved, watched, queue, wds, lost, degraded>> /\ (Good' => Good)
           /\ (Claim' => Claim) /\ (Calm' => Calm)
  <1>1. CASE WalkRoot
    BY <1>1 DEF WalkRoot, treeVars, kernelVars, wdVars, Good, NoOver, Claim, Calm
  <1>2. CASE ReadDir
    BY <1>2 DEF ReadDir, treeVars, kernelVars, wdVars, Good, NoOver, Claim, Calm
  <1>3. CASE \E p \in Paths \ {Root} : Visit(p)
    BY <1>3 DEF Visit, treeVars, kernelVars, wdVars, Good, NoOver, Claim, Calm
  <1>4. CASE SetText
    BY <1>4 DEF SetText, treeVars, kernelVars, wdVars, Good, NoOver, Claim, Calm
  <1>5. CASE ReVec
    BY <1>5 DEF ReVec, treeVars, kernelVars, wdVars, Good, NoOver, Claim, Calm
  <1>6. CASE Embed
    BY <1>6 DEF Embed, treeVars, kernelVars, wdVars, Good, NoOver, Claim, Calm
  <1>7. CASE Prune
    BY <1>7 DEF Prune, treeVars, kernelVars, wdVars, Good, NoOver, Claim, Calm, ControlOK, WalkOK
  <1>8. CASE UNCHANGED swampVars
    BY <1>8 DEF swampVars, treeVars, kernelVars, daemonVars, wdVars, Good, NoOver, Claim, Calm
  <1> QED BY <1>1, <1>2, <1>3, <1>4, <1>5, <1>6, <1>7, <1>8

\* Every step keeps the queue's account of the tree.
LEMMA QueueStep ==
    ASSUME Typed, ControlOK, MapOK, [SwampNext]_swampVars
    PROVE  QueueOK'
  <1>1. ASSUME UNCHANGED <<at, file, moved, watched, queue, wds, lost, degraded>> /\ (Good' => Good)
        PROVE  QueueOK'
    BY <1>1, QueueKept DEF QueueOK, MapOK
  <1> QED BY <1>1, Keeps, QueueBoot, QueueCrash, QueueDrained, QueueArm, QueueApply, UserMap
          DEF SwampNext, Daemon, MapOK

---------------------------------------------------------------------------
(* What indexing does to rows and debts *)

\* The rows of S are gone, or owed
Less(S) ==
    /\ \A p \in Paths \ S : row'[p] = row[p]
    /\ \A p \in S : row'[p] = NoRow \/ p \in owed'
    /\ owed \ S \subseteq owed'
    /\ \A p \in owed : Exists(p) /\ Indexable(p) => p \in owed'
    /\ \A d : DirHere(d) /\ Sub(<<d>>) \subseteq owed => Sub(<<d>>) \subseteq owed'

\* The row of p is made, or owed
Made(p, m) ==
    /\ row' = [row EXCEPT ![p] = m] /\ live' = (IF full THEN live \cup {p} ELSE live)
    /\ owed \ {p} \subseteq owed'
    /\ p # Root => (Root \in owed => Root \in owed')
    /\ \A d \in DirNames : p # <<d>> /\ Sub(<<d>>) \subseteq owed => Sub(<<d>>) \subseteq owed'

\* A debt of a whole directory is paid only by that directory.
LEMMA RepaySub ==
    ASSUME Typed, NEW T \in SUBSET Paths, NEW d \in DirNames, Sub(<<d>>) \subseteq owed, <<d>> \notin T
    PROVE  Sub(<<d>>) \subseteq Repay(T)
  <1>1. <<d>> \in owed /\ owed \subseteq Paths
    BY SubFacts, TreeTypes
  <1>2. ASSUME NEW q \in Sub(<<d>>) PROVE q \in Repay(T)
    <2>1. q \in owed /\ Beneath(q, <<d>>)
      BY <1>2 DEF Sub
    <2>2. q = <<d>> \/ ~(\A r \in owed : Beneath(q, r) => r = q)
      BY <1>1, <2>1
    <2> QED BY <2>1, <2>2 DEF Repay
  <1> QED BY <1>2

\* What is there and indexable passes stat and the policy gate.
LEMMA HereExists ==
    ASSUME Typed
    PROVE  /\ \A d : DirHere(d) => /\ d \in DirNames /\ <<d>> \in Paths /\ <<d>> \in DirPaths /\ Len(<<d>>) = 1
                                   /\ Exists(<<d>>) /\ Indexable(<<d>>)
           /\ \A d, f : FileHere(d, f) => /\ DirHere(d) /\ f \in FileNames /\ <<d, f>> \in Files /\ <<d, f>> \in Paths
                                          /\ Exists(<<d, f>>) /\ Indexable(<<d, f>>)
                                          /\ Stat(<<d, f>>) = file[at[d]][f] /\ Stat(<<d, f>>) # NoFile
                                          /\ at[d] \in Inos
  <1>1. ASSUME NEW d, DirHere(d)
        PROVE  /\ d \in DirNames /\ <<d>> \in Paths /\ <<d>> \in DirPaths /\ Len(<<d>>) = 1
               /\ Exists(<<d>>) /\ Indexable(<<d>>)
    <2>1. d \in DirNames /\ d \notin NeverNames /\ at[d] # "none"
      BY <1>1 DEF DirHere
    <2>2. <<d>> # Root /\ <<d>>[1] = d /\ Len(<<d>>) = 1
      BY <2>1, PathKinds
    <2> QED BY <2>1, <2>2, PathKinds DEF Exists, Indexable, DirIno
  <1>2. ASSUME NEW d, NEW f, FileHere(d, f)
        PROVE  /\ DirHere(d) /\ f \in FileNames /\ <<d, f>> \in Files /\ <<d, f>> \in Paths
               /\ Exists(<<d, f>>) /\ Indexable(<<d, f>>)
               /\ Stat(<<d, f>>) = file[at[d]][f] /\ Stat(<<d, f>>) # NoFile
               /\ at[d] \in Inos
    <2>1. d \in DirNames /\ d \notin NeverNames /\ at[d] # "none" /\ f \in FileNames /\ file[at[d]][f] # NoFile /\ DirHere(d)
      BY <1>2 DEF FileHere, DirHere
    <2>2. <<d, f>>[1] = d /\ <<d, f>>[2] = f /\ Len(<<d, f>>) = 2
      OBVIOUS
    <2>3. Stat(<<d, f>>) = file[at[d]][f]
      BY <2>1, <2>2 DEF Stat
    <2>4. at[d] \in Inos
      BY <2>1, TreeTypes
    <2> QED BY <2>1, <2>2, <2>3, <2>4, PathKinds DEF Exists, Indexable
  <1> QED BY <1>1, <1>2

\* Retracting takes rows, or owes them.
LEMMA RetractLess ==
    ASSUME Typed, NEW S \in SUBSET Paths, Retract(S)
    PROVE  Less(S)
  <1> DEFINE T == {p \in S : ~Exists(p) \/ ~Indexable(p)}
  <1>1. CASE row' = [p \in Paths |-> IF p \in S THEN NoRow ELSE row[p]] /\ owed' = Repay(T)
    <2>0. T \in SUBSET Paths /\ T \subseteq S
      OBVIOUS
    <2>1. \A p \in owed : p \notin T => p \in owed'
      BY <1>1 DEF Repay
    <2>2. ASSUME NEW d, DirHere(d), Sub(<<d>>) \subseteq owed PROVE Sub(<<d>>) \subseteq owed'
      <3>1. <<d>> \notin T /\ d \in DirNames
        BY <2>2, HereExists
      <3> HIDE DEF T
      <3> QED BY <1>1, <2>0, <2>2, <3>1, RepaySub
    <2> QED BY <1>1, <2>0, <2>1, <2>2 DEF Less
  <1>2. CASE row' = row /\ owed' = owed \cup S
    BY <1>2 DEF Less
  <1> QED BY <1>1, <1>2 DEF Retract, indexVars

\* Mapping a path pays at most the debt of that path.
LEMMA RepayMade ==
    ASSUME Typed, OwedOK, NEW p \in Paths
    PROVE  /\ owed \ {p} \subseteq Repay({p})
           /\ p # Root => (Root \in owed => Root \in Repay({p}))
           /\ \A d \in DirNames : p # <<d>> /\ Sub(<<d>>) \subseteq owed => Sub(<<d>>) \subseteq Repay({p})
           /\ \A q \in owed : q \in Repay({p}) \/ q = p
           /\ Repay({p}) \subseteq owed
  <1> DEFINE T == {p}
  <1>1. T \in SUBSET Paths /\ \A q : q \in T <=> q = p
    OBVIOUS
  <1> HIDE DEF T
  <1>2. /\ owed \ T \subseteq Repay(T) /\ Repay(T) \subseteq owed
    BY <1>1, RepayRoot
  <1>3. \A d \in DirNames : <<d>> # p /\ Sub(<<d>>) \subseteq owed => Sub(<<d>>) \subseteq Repay(T)
    BY <1>1, RepaySub
  <1> QED BY <1>1, <1>2, <1>3 DEF T

\* index_object of a directory retracts it, maps it, or owes what is under it.
LEMMA MapDirCases ==
    ASSUME Typed, OwedOK, NEW p \in DirPaths, MapDir(p)
    PROVE  \/ Less({p}) /\ (~Exists(p) \/ ~Indexable(p)) /\ cur' = Idle /\ live' = live
           \/ Made(p, <<0, 0>>) /\ Exists(p) /\ Indexable(p) /\ cur' = At("arm", p)
           \/ /\ owed' = owed \cup Sub(p) /\ cur' = Idle /\ UNCHANGED <<row, live>>
  <1>0. p \in Paths /\ {p} \in SUBSET Paths
    BY DEF Paths
  <1>1. CASE ~Exists(p) \/ ~Indexable(p)
    BY <1>0, <1>1, RetractLess DEF MapDir
  <1>2. CASE Exists(p) /\ Indexable(p)
    <2>1. CASE /\ row' = [row EXCEPT ![p] = <<0, 0>>] /\ live' = (IF full THEN live \cup {p} ELSE live)
               /\ cur' = At("arm", p) /\ owed' = Repay({p})
      BY <1>0, <1>2, <2>1, RepayMade DEF Made
    <2>2. CASE owed' = owed \cup {q \in Paths : Beneath(q, p)} /\ cur' = Idle /\ UNCHANGED <<row, live>>
      BY <2>2 DEF Sub
    <2> QED BY <1>0, <1>2, <2>1, <2>2 DEF MapDir, indexVars
  <1> QED BY <1>1, <1>2

\* index_object of a file retracts it, maps it, or owes it.
LEMMA MapFileCases ==
    ASSUME Typed, OwedOK, NEW p \in Files, MapFile(p)
    PROVE  \/ Less({p}) /\ (~Exists(p) \/ ~Indexable(p)) /\ cur' = Idle /\ live' = live
           \/ Made(p, Meta(Stat(p))) /\ Exists(p) /\ Indexable(p) /\ cur' \in {Idle, At("text", p), At("revec", p)}
           \/ /\ owed' = owed \cup {p} /\ cur' = Idle /\ UNCHANGED <<row, live>>
  <1>0. p \in Paths /\ {p} \in SUBSET Paths /\ (Exists(p) <=> Stat(p) # NoFile)
    BY PathKinds DEF Paths, Exists
  <1>1. CASE ~Exists(p) \/ ~Indexable(p)
    BY <1>0, <1>1, RetractLess DEF MapFile
  <1>2. CASE Exists(p) /\ Indexable(p)
    <2>1. CASE /\ row' = [row EXCEPT ![p] = Meta(Stat(p))] /\ live' = (IF full THEN live \cup {p} ELSE live)
               /\ cur' \in {Idle, At("text", p), At("revec", p)} /\ owed' \in {owed, Repay({p})}
      BY <1>0, <1>2, <2>1, RepayMade DEF Made
    <2>2. CASE owed' = owed \cup {p} /\ cur' = Idle /\ UNCHANGED <<row, live>>
      BY <2>2
    <2> QED BY <1>0, <1>2, <2>1, <2>2 DEF MapFile, indexVars
  <1> QED BY <1>1, <1>2

\* The steps inside the text of one file
Texted(p) ==
    /\ p \in Files /\ UNCHANGED <<row, live, full, frames>>
    /\ cur.path = p /\ cur.op \in {"text", "revec", "embed"}
    /\ cur' = Idle \/ (cur'.op = "embed" /\ cur' # Idle)
    /\ owed \ {p} \subseteq owed'
    /\ p \in owed /\ p \notin owed' => cur.op = "text" /\ Read(p)
    /\ \A d \in DirNames : Sub(<<d>>) \subseteq owed => Sub(<<d>>) \subseteq owed'

\* A step inside the text of a file pays or makes a debt of that file only.
LEMMA TextCases ==
    ASSUME Typed, ControlOK, SetText \/ ReVec \/ Embed
    PROVE  Texted(cur.path)
  <1>0. cur.op \in {"text", "revec", "embed"} /\ cur.path \in Files
    BY StepKinds, TreeTypes DEF SetText, ReVec, Embed
  <1> DEFINE p == cur.path
  <1>1. p \in Paths /\ p # Root /\ \A d \in DirNames : p # <<d>>
    BY <1>0, PathKinds DEF Paths
  <1>2. /\ owed \ {p} \subseteq Repay({p})
        /\ \A d \in DirNames : p # <<d>> /\ Sub(<<d>>) \subseteq owed => Sub(<<d>>) \subseteq Repay({p})
    BY <1>1, RepayMade DEF ControlOK
  <1>3. UNCHANGED <<row, live, full, frames>>
    BY DEF SetText, ReVec, Embed, indexVars
  <1>4. cur' = Idle \/ (cur'.op = "embed" /\ cur' # Idle)
    BY CurKinds DEF SetText, ReVec, Embed
  <1>5. \/ owed' = owed \/ owed' = owed \cup {p}
        \/ SetText /\ cur.op = "text" /\ Read(p) /\ owed' = Repay({p})
    BY DEF SetText, ReVec, Embed
  <1> HIDE DEF p
  <1>6. p = cur.path
    BY DEF p
  <1> QED BY <1>0, <1>1, <1>2, <1>3, <1>4, <1>5, <1>6 DEF Texted

---------------------------------------------------------------------------
(* The root and the frames, under the daemon's steps *)

\* A visit takes one entry and maps it, or passes over what is gone.
LEMMA VisitCases ==
    ASSUME Typed, ControlOK, NEW p \in Paths \ {Root}, Visit(p)
    PROVE  /\ cur = Idle /\ frames # <<>> /\ frames # <<{Root}>> /\ frames' # <<{Root}>> /\ full' = full
           /\ InFrames(frames, p) /\ \A q : InFrames(frames', q) => InFrames(frames, q)
           /\ \A q : InFrames(frames, q) => q = p \/ InFrames(frames', q)
           /\ \/ ~Exists(p) /\ UNCHANGED <<row, owed, live, cur>>
              \/ \E d \in DirNames : p = <<d>> /\ MapDir(p)
              \/ p \in Files /\ MapFile(p)
  <1>0. /\ cur = Idle /\ frames # <<>> /\ p \in Head(frames) /\ frames' = Popped(frames, p)
        /\ full' = full /\ frames \in Seq(SUBSET Paths)
    BY TreeTypes DEF Visit, Popped
  <1>1. /\ InFrames(frames, p) /\ \A q : InFrames(frames', q) => InFrames(frames, q)
        /\ \A q : InFrames(frames, q) => q = p \/ InFrames(frames', q)
    BY <1>0, FramePop
  <1>2. frames # <<{Root}>> /\ ~InFrames(frames, Root) /\ frames' # <<{Root}>>
    BY <1>0, <1>1, RootFrame DEF ControlOK, WalkOK
  <1>3. CASE ~Exists(p)
    BY <1>0, <1>1, <1>2, <1>3 DEF Visit, KeepIndex, indexVars, ghostVars
  <1>4. CASE Exists(p) /\ Len(p) = 1
    <2>1. p \notin Files /\ MapDir(p)
      BY <1>4, PathKinds DEF Visit
    <2>2. \E d \in DirNames : p = <<d>>
      BY <2>1, PathKinds DEF Dirs1
    <2> QED BY <1>0, <1>1, <1>2, <2>1, <2>2
  <1>5. CASE Exists(p) /\ Len(p) # 1
    <2>1. p \notin Dirs1 /\ MapFile(p)
      BY <1>5, PathKinds DEF Visit, Dirs1
    <2>2. p \in Files
      BY <2>1, PathKinds
    <2> QED BY <1>0, <1>1, <1>2, <2>1, <2>2
  <1> QED BY <1>3, <1>4, <1>5

\* The root is mapped and to be armed, or everything is owed.
LEMMA WalkRootCases ==
    ASSUME Typed, ControlOK, WalkRoot
    PROVE  /\ cur = Idle /\ frames = <<{Root}>> /\ frames' = <<>> /\ full /\ full' = full /\ live = {}
           /\ \/ Made(Root, <<0, 0>>) /\ cur' = At("arm", Root)
              \/ owed' = Paths /\ cur' = Idle /\ UNCHANGED <<row, live>>
  <1>0. cur = Idle /\ frames = <<{Root}>> /\ frames' = <<>> /\ full /\ full' = full /\ live = {} /\ MapDir(Root)
    BY DEF WalkRoot, ControlOK, WalkOK
  <1>1. \/ Made(Root, <<0, 0>>) /\ cur' = At("arm", Root)
        \/ owed' = owed \cup Sub(Root) /\ cur' = Idle /\ UNCHANGED <<row, live>>
    BY <1>0, MapDirCases, RootExists, PathKinds DEF ControlOK
  <1>2. owed \cup Sub(Root) = Paths
    BY BeneathFacts, TreeTypes DEF Sub
  <1> QED BY <1>0, <1>1, <1>2

\* read_dir adds the entries to what is to be visited.
LEMMA ReadCases ==
    ASSUME Typed, ControlOK, ReadDir
    PROVE  /\ cur.op = "read" /\ cur.path \in DirPaths /\ cur = At("read", cur.path) /\ cur # Idle /\ cur' = Idle
           /\ UNCHANGED <<row, owed, live, full>> /\ frames # <<{Root}>> /\ cur # At("arm", Root)
           /\ \A q : InFrames(frames', q) <=> q \in Entries(cur.path) \/ InFrames(frames, q)
  <1>0. /\ cur.op = "read" /\ cur' = Idle
        /\ frames' = IF Entries(cur.path) = {} THEN frames ELSE <<Entries(cur.path)>> \o frames
        /\ UNCHANGED <<row, owed, live, full>> /\ cur \in Steps /\ frames \in Seq(SUBSET Paths)
    BY TreeTypes DEF ReadDir, KeepIndex, indexVars, ghostVars
  <1>1. cur.path \in DirPaths /\ cur = At("read", cur.path) /\ cur # Idle /\ cur # At("arm", Root)
    BY <1>0, StepKinds DEF At
  <1>2. Entries(cur.path) \in SUBSET Paths
    BY <1>1, EntriesTyped
  <1>3. \A q : InFrames(frames', q) <=> q \in Entries(cur.path) \/ InFrames(frames, q)
    BY <1>0, <1>2, FramePush
  <1> QED BY <1>0, <1>1, <1>3 DEF ControlOK, WalkOK

\* prune_absent retracts the rows the walk did not meet.
LEMMA PruneCases ==
    ASSUME Typed, ControlOK, Prune
    PROVE  LET Stale == {p \in Paths : row[p] # NoRow /\ p \notin live} IN
           /\ full /\ ~full' /\ cur = Idle /\ cur' = Idle /\ frames = <<>> /\ frames' = <<>>
           /\ Less(Stale) /\ Stale \in SUBSET Paths
  <1> DEFINE Stale == {p \in Paths : row[p] # NoRow /\ p \notin live}
  <1>1. /\ full /\ ~full' /\ cur = Idle /\ cur' = Idle /\ frames = <<>> /\ frames' = <<>> /\ Retract(Stale)
    BY DEF Prune
  <1>2. Stale \in SUBSET Paths
    OBVIOUS
  <1> HIDE DEF Stale
  <1>3. Less(Stale)
    BY <1>1, <1>2, RetractLess
  <1> QED BY <1>1, <1>2, <1>3 DEF Stale

\* What one event makes of the index
LEMMA ApplyKinds ==
    ASSUME Typed, ControlOK, TreeOK, QueueOK, ApplyEvent, Good'
    PROVE  LET e == Head(queue) IN
           \/ OnNothing /\ e.wd \in AllInos /\ wds[e.wd] = NoPath
           \/ OnIgnored(e)
           \/ \E d \in DirNames : Less(Sub(<<d>>)) /\ OnSelfGone(e, d)
           \/ \E d \in DirNames : Less(Sub(<<d>>)) /\ OnDirGone(e, d)
           \/ \E d \in DirNames, f \in FileNames : Less({<<d, f>>}) /\ OnFileGone(e, d, f)
           \/ \E d \in DirNames : MapDir(<<d>>) /\ OnDirThere(e, d)
           \/ \E d \in DirNames, f \in FileNames : MapFile(<<d, f>>) /\ OnFileThere(e, d, f)
  <1> DEFINE e == Head(queue)
  <1>1. e.what # "overflow"
    BY ApplyFacts
  <1>2. Overflow.what = "overflow"
    BY EvFields DEF Overflow
  <1>c. \/ OnIgnored(e)
        \/ e.wd \in AllInos /\ wds[e.wd] = NoPath /\ OnNothing
        \/ \E d \in DirNames : OnSelfGone(e, d)
        \/ \E d \in DirNames : OnDirGone(e, d)
        \/ \E d \in DirNames, f \in FileNames : OnFileGone(e, d, f)
        \/ \E d \in DirNames : OnDirThere(e, d)
        \/ \E d \in DirNames, f \in FileNames : OnFileThere(e, d, f)
    BY <1>1, <1>2, ApplyCases
  <1> HIDE DEF e
  <1>3. \A d \in DirNames : Sub(<<d>>) \in SUBSET Paths /\ \A f \in FileNames : {<<d, f>>} \in SUBSET Paths
    BY SubFacts
  <1>4. \A d \in DirNames : OnSelfGone(e, d) \/ OnDirGone(e, d) => Less(Sub(<<d>>))
    BY <1>3, RetractLess DEF OnSelfGone, OnDirGone
  <1>5. \A d \in DirNames, f \in FileNames : OnFileGone(e, d, f) => Less({<<d, f>>})
    BY <1>3, RetractLess DEF OnFileGone
  <1>6. /\ \A d \in DirNames : OnDirThere(e, d) => MapDir(<<d>>)
        /\ \A d \in DirNames, f \in FileNames : OnFileThere(e, d, f) => MapFile(<<d, f>>)
    BY DEF OnDirThere, OnFileThere
  <1> QED BY <1>c, <1>4, <1>5, <1>6 DEF e

\* An event that maps the root again is of no directory.
LEMMA RootApply ==
    ASSUME Typed, ControlOK, TreeOK, QueueOK, RootOK, ApplyEvent
    PROVE  RootOK'
  <1> SUFFICES ASSUME Good' PROVE RootOK'
    BY DEF RootOK, Claim
  <1> DEFINE e == Head(queue)
  <1>1. /\ Good /\ ~full /\ cur = Idle /\ frames = <<>> /\ frames' = <<>> /\ (Claim' => Claim) /\ watched' = watched
        /\ HeardIn(queue, e.wd)
    BY ApplyFacts, TailHas
  <1>2. ~StartWalk
    BY <1>1, RootFrame, CurKinds DEF StartWalk
  <1>3. Idle.op = "none" /\ \A k, p : At(k, p).op = k
    BY DEF Idle, At
  <1> HIDE DEF e
  <1>4. CASE Root \in owed => Root \in owed' /\ cur' = Idle
    BY <1>1, <1>2, <1>3, <1>4 DEF RootOK
  <1>5. ASSUME NEW d \in DirNames, MapDir(<<d>>), OnDirThere(e, d) PROVE RootOK'
    <2>1. wds["root"] = Root
      BY <1>5 DEF OnDirThere
    <2> QED BY <1>1, <2>1 DEF TreeOK, RootOK
  <1>6. ASSUME NEW d \in DirNames, NEW f \in FileNames, MapFile(<<d, f>>), OnFileThere(e, d, f) PROVE RootOK'
    <2>1. <<d, f>> \in Files /\ <<d, f>> # Root
      BY PathKinds
    <2>2. (Root \in owed => Root \in owed') /\ cur'.op \notin {"arm", "read"}
      <3>1. \/ Less({<<d, f>>}) /\ cur' = Idle
            \/ Made(<<d, f>>, Meta(Stat(<<d, f>>))) /\ cur' \in {Idle, At("text", <<d, f>>), At("revec", <<d, f>>)}
            \/ owed' = owed \cup {<<d, f>>} /\ cur' = Idle
        BY <1>6, <2>1, MapFileCases DEF ControlOK
      <3> QED BY <1>3, <2>1, <3>1, RootExists DEF Less, Made
    <2>3. Claim => "root" \in watched
      <3>1. e.wd \in Inos /\ wds[e.wd] # NoPath
        BY <1>6, TreeTypes DEF OnFileThere
      <3>2. Claim => e.wd \notin lost
        BY <1>1 DEF Claim
      <3> QED BY <1>1, <3>1, <3>2 DEF QueueOK, WatchOK
    <2> QED BY <1>1, <1>2, <2>2, <2>3 DEF RootOK
  <1>7. \/ Root \in owed => Root \in owed' /\ cur' = Idle
        \/ \E d \in DirNames : MapDir(<<d>>) /\ OnDirThere(e, d)
        \/ \E d \in DirNames, f \in FileNames : MapFile(<<d, f>>) /\ OnFileThere(e, d, f)
    <2>1. CASE OnNothing \/ OnIgnored(e)
      BY <1>1, <2>1 DEF OnNothing, OnIgnored, KeepIndex, ghostVars
    <2>2. ASSUME NEW S, Less(S), cur' = cur PROVE Root \in owed => Root \in owed' /\ cur' = Idle
      BY <1>1, <2>2, RootExists DEF Less
    <2> QED BY <2>1, <2>2, ApplyKinds DEF e, OnSelfGone, OnDirGone, OnFileGone
  <1> QED BY <1>4, <1>5, <1>6, <1>7

\* Every step keeps the root watched.
LEMMA RootStep ==
    ASSUME Typed, ControlOK, MapOK, [SwampNext]_swampVars
    PROVE  RootOK'
  <1>m. TreeOK /\ QueueOK /\ RootOK
    BY DEF MapOK
  <1>k. Idle.op = "none" /\ \A k, p : At(k, p).op = k
    BY DEF Idle, At
  <1>1. CASE Boot
    BY <1>1, BootState DEF RootOK, StartWalk
  <1>2. CASE Drained
    <2>1. CASE Resumed
      BY <2>1 DEF Resumed, RootOK, StartWalk
    <2>2. CASE UNCHANGED <<watched, owed, frames, cur>> /\ (Good' => Good) /\ (Claim' => Claim)
      BY <1>m, <2>2 DEF RootOK, StartWalk
    <2> QED BY <1>2, <2>1, <2>2, DrainedCases
  <1>3. CASE WalkRoot
    <2>1. frames' = <<>> /\ (cur' = At("arm", Root) \/ (owed' = Paths /\ cur' = Idle)) /\ Root \in Paths
      BY <1>3, WalkRootCases, PathKinds
    <2> QED BY <1>k, <2>1 DEF RootOK, StartWalk
  <1>4. CASE ArmDir
    <2>1. UNCHANGED <<owed, frames, up, batch, queue, fresh, full, moved>> /\ watched \subseteq watched'
      BY <1>4, ArmCases DEF ghostVars, treeVars, Armed
    <2>2. CASE cur = At("arm", Root) /\ Armed("root", Root)
      BY <2>2 DEF Armed, RootOK
    <2>3. CASE degraded' = TRUE
      BY <2>3 DEF RootOK, Good, Claim
    <2>4. ASSUME NEW d \in DirNames, cur = At("arm", <<d>>), Armed(at[d], <<d>>) PROVE RootOK'
      <3>1. cur.op = "arm" /\ cur # Idle /\ cur # At("arm", Root)
        BY <2>4, PathKinds DEF At, Idle
      <3>2. ~StartWalk
        BY <3>1 DEF StartWalk, ControlOK, WalkOK
      <3>3. Good' => Good
        BY <2>1, <2>4 DEF Good, NoOver, Armed
      <3>4. Good' => "root" \in watched'
        BY <1>m, <2>1, <3>1, <3>2, <3>3 DEF RootOK
      <3> QED BY <3>4 DEF RootOK, Claim
    <2> QED BY <1>4, <2>2, <2>3, <2>4, ArmCases
  <1>5. CASE ReadDir
    <2>1. cur.op = "read" /\ frames # <<{Root}>> /\ cur # At("arm", Root) /\ watched' = watched /\ (Good' => Good)
      BY <1>5, ReadCases, Keeps
    <2> QED BY <1>m, <2>1 DEF RootOK, StartWalk, Claim
  <1>6. ASSUME NEW p \in Paths \ {Root}, Visit(p) PROVE RootOK'
    <2>1. cur = Idle /\ frames # <<>> /\ frames # <<{Root}>>
      BY <1>6, VisitCases
    <2>2. watched' = watched /\ (Good' => Good)
      BY <1>6, Keeps
    <2>3. ~StartWalk
      BY <2>1, CurKinds DEF StartWalk
    <2> QED BY <1>m, <2>1, <2>2, <2>3 DEF RootOK, Claim
  <1>7. CASE SetText \/ ReVec \/ Embed
    <2>1. Texted(cur.path) /\ cur.path # Root
      BY <1>7, TextCases, PathKinds DEF Texted
    <2>2. watched' = watched /\ (Good' => Good) /\ (Claim' => Claim)
      BY <1>7, Keeps
    <2>3. cur # Idle /\ cur # At("arm", Root) /\ cur'.op \notin {"arm", "read"} /\ frames' = frames
          /\ (Root \in owed => Root \in owed')
      BY <1>k, <2>1 DEF Texted
    <2>4. ~StartWalk
      BY <2>3 DEF StartWalk, ControlOK, WalkOK
    <2> QED BY <1>m, <2>2, <2>3, <2>4 DEF RootOK
  <1>8. CASE Prune
    <2>1. full /\ cur = Idle /\ cur' = Idle /\ frames = <<>> /\ frames' = <<>> /\ (Root \in owed => Root \in owed')
      BY <1>8, PruneCases, RootExists DEF Less
    <2>2. watched' = watched /\ (Good' => Good)
      BY <1>8, Keeps
    <2>3. ~StartWalk
      BY <2>1, CurKinds, RootFrame DEF StartWalk
    <2> QED BY <1>k, <1>m, <2>1, <2>2, <2>3 DEF RootOK
  <1>9. CASE UNCHANGED swampVars
    <2>1. UNCHANGED <<watched, owed, frames, cur>> /\ (Good' => Good) /\ (Claim' => Claim)
      BY <1>9, Keeps DEF swampVars, daemonVars, ghostVars
    <2> QED BY <1>m, <2>1 DEF RootOK, StartWalk
  <1> QED BY <1>m, <1>1, <1>2, <1>3, <1>4, <1>5, <1>6, <1>7, <1>8, <1>9, UserRoot, QueueCrash, RootApply
          DEF SwampNext, Daemon

\* Steps at different paths, or of different kinds, are different.
LEMMA OpFacts ==
    /\ Idle.op = "none" /\ \A k, p : At(k, p).op = k /\ At(k, p).path = p
    /\ \A k, p : k # "none" => At(k, p) # Idle
    /\ \A k, l, p, q : At(k, p) = At(l, q) => k = l /\ p = q
  <1>1. Idle.op = "none" /\ \A k, p : At(k, p).op = k /\ At(k, p).path = p
    BY DEF Idle, At
  <1> QED BY <1>1

\* What is left to visit is of an armed directory, or of one about to be
\* retracted.
LEMMA FrameStep ==
    ASSUME Typed, ControlOK, MapOK, [SwampNext]_swampVars
    PROVE  FrameOK'
  <1>m. TreeOK /\ QueueOK /\ RootOK /\ FrameOK
    BY DEF MapOK
  <1>r. ~InFrames(frames, Root) \/ frames = <<{Root}>>
    BY DEF ControlOK, WalkOK
  <1>f. \A p \in Files : ~InFrames(<<{Root}>>, p) /\ ~InFrames(<<>>, p)
    BY PathKinds DEF InFrames
  <1>s. SUFFICES ASSUME Good'
                 PROVE  /\ \A p \in Files : InFrames(frames', p) => ArmedAt(p[1])'
                        /\ \A d \in DirNames : cur' = At("read", <<d>>) => ArmedAt(d)'
    BY DEF FrameOK
  <1> DEFINE Goal == /\ \A p \in Files : InFrames(frames', p) => ArmedAt(p[1])'
                     /\ \A d \in DirNames : cur' = At("read", <<d>>) => ArmedAt(d)'
  <1>e. ASSUME \A p \in Files : ~InFrames(frames', p), cur' = Idle \/ cur'.op # "read" PROVE Goal
    BY <1>e, OpFacts
  <1>k. ASSUME UNCHANGED <<at, wds, queue>>, Good,
               \A p \in Files : InFrames(frames', p) => InFrames(frames, p),
               cur' = Idle \/ cur'.op # "read" \/ cur' = cur
        PROVE  Goal
    <2>1. \A x \in DirNames : ArmedAt(x) => ArmedAt(x)'
      BY <1>k DEF ArmedAt
    <2>2. \A d \in DirNames : cur' = At("read", <<d>>) => cur = At("read", <<d>>)
      BY <1>k, OpFacts
    <2>3. \A p \in Files : p[1] \in DirNames
      BY PathKinds
    <2> QED BY <1>k, <1>m, <2>1, <2>2, <2>3 DEF FrameOK
  <1>1. CASE Boot
    BY <1>1, <1>e, <1>f, BootState
  <1>2. CASE Drained
    <2>1. CASE Resumed
      BY <2>1, <1>e, <1>f DEF Resumed
    <2>2. CASE UNCHANGED <<at, wds, queue, frames, cur>> /\ (Good' => Good)
      BY <1>k, <1>s, <2>2
    <2> QED BY <1>2, <2>1, <2>2, DrainedCases
  <1>3. CASE WalkRoot
    <2>1. frames' = <<>> /\ (cur' = At("arm", Root) \/ cur' = Idle)
      BY <1>3, WalkRootCases
    <2> QED BY <1>e, <1>f, <2>1, OpFacts
  <1>4. CASE ArmDir
    <2>1. UNCHANGED <<at, queue, frames, up, batch>>
      BY <1>4, ArmCases DEF treeVars
    <2>2. CASE cur = At("arm", Root) /\ cur' = At("read", Root)
      <3>1. frames' = <<>>
        BY <2>1, <2>2 DEF ControlOK, WalkOK
      <3>2. ASSUME NEW d \in DirNames, cur' = At("read", <<d>>) PROVE FALSE
        <4>1. At("read", Root) = At("read", <<d>>)
          BY <2>2, <3>2
        <4>2. Root = <<d>>
          BY <4>1, OpFacts
        <4> QED BY <4>2, PathKinds
      <3> QED BY <1>f, <3>1, <3>2
    <2>4. ASSUME NEW d \in DirNames, at[d] \in Inos, cur' = At("read", <<d>>), Armed(at[d], <<d>>) PROVE Goal
      <3>1. Good
        BY <1>s, <2>1, <2>4 DEF Armed, Good, NoOver
      <3>2. wds' = [wds EXCEPT ![at[d]] = <<d>>] /\ wds \in [AllInos -> DirPaths \cup {NoPath}] /\ at[d] \in AllInos
        BY <2>4, TreeTypes DEF Armed, AllInos
      <3>3. ArmedAt(d)'
        BY <2>1, <2>4, <3>2, SwampAssumption DEF ArmedAt
      <3>4. ASSUME NEW x \in DirNames, ArmedAt(x) PROVE ArmedAt(x)'
        <4>1. at[x] = at[d] => x = d
          BY <1>m, <2>4, SwampAssumption DEF TreeOK, AtInj, Places
        <4>2. at[x] # "none" => at[x] \in AllInos
          BY TreeTypes DEF AllInos
        <4> QED BY <2>1, <3>2, <3>3, <3>4, <4>1, <4>2 DEF ArmedAt
      <3>5. \A x \in DirNames : cur' = At("read", <<x>>) => x = d
        BY <2>4, OpFacts, TreeTypes
      <3> QED BY <1>m, <2>1, <3>1, <3>3, <3>4, <3>5, PathKinds DEF FrameOK
    <2> QED BY <1>4, <1>s, <2>2, <2>4, ArmCases DEF Good
  <1>5. CASE ReadDir
    <2>1. /\ cur.op = "read" /\ cur.path \in DirPaths /\ cur = At("read", cur.path) /\ cur' = Idle
          /\ \A q : InFrames(frames', q) <=> q \in Entries(cur.path) \/ InFrames(frames, q)
      BY <1>5, ReadCases
    <2>2. UNCHANGED <<at, wds, queue>> /\ Good
      BY <1>5, <1>s, Keeps
    <2>3. ASSUME NEW p \in Files, p \in Entries(cur.path) PROVE ArmedAt(p[1])
      <3>1. cur.path # Root
        BY <2>3, EntriesTyped, PathKinds DEF Dirs1
      <3>2. PICK d \in DirNames : cur.path = <<d>>
        BY <2>1, <3>1 DEF DirPaths
      <3>3. p[1] = d /\ cur = At("read", <<d>>)
        BY <2>1, <2>3, <3>2, EntriesTyped
      <3> QED BY <1>m, <2>2, <3>3 DEF FrameOK
    <2>4. \A p \in Files : InFrames(frames', p) => ArmedAt(p[1])
      BY <1>m, <2>1, <2>2, <2>3 DEF FrameOK
    <2> QED BY <2>1, <2>2, <2>4, OpFacts DEF ArmedAt
  <1>6. ASSUME NEW p \in Paths \ {Root}, Visit(p) PROVE Goal
    <2>1. UNCHANGED <<at, wds, queue>> /\ Good
      BY <1>6, <1>s, Keeps
    <2>2. /\ cur = Idle /\ \A q : InFrames(frames', q) => InFrames(frames, q)
          /\ \/ cur' = cur
             \/ \E d \in DirNames : p = <<d>> /\ MapDir(p)
             \/ p \in Files /\ MapFile(p)
      BY <1>6, VisitCases
    <2>3. cur' = Idle \/ cur'.op # "read"
      BY <2>2, MapDirControl, MapFileControl, PathKinds, OpFacts DEF ControlOK
    <2> QED BY <1>k, <2>1, <2>2, <2>3
  <1>7. CASE SetText \/ ReVec \/ Embed
    <2>1. UNCHANGED <<at, wds, queue>> /\ Good
      BY <1>7, <1>s, Keeps
    <2>2. frames' = frames /\ (cur' = Idle \/ cur'.op # "read")
      BY <1>7, TextCases DEF Texted
    <2> QED BY <1>k, <2>1, <2>2
  <1>8. CASE Prune
    <2>1. cur' = Idle /\ frames' = <<>>
      BY <1>8, PruneCases
    <2> QED BY <1>e, <1>f, <2>1
  <1>9. CASE UNCHANGED swampVars
    <2>1. UNCHANGED <<at, wds, queue>> /\ Good
      BY <1>9, <1>s, Keeps
    <2>2. frames' = frames /\ cur' = cur
      BY <1>9 DEF swampVars, daemonVars
    <2> QED BY <1>k, <2>1, <2>2
  <1>a. CASE ApplyEvent
    <2>1. frames' = <<>> /\ cur = Idle
      BY <1>a, <1>m, <1>s, ApplyFacts
    <2>2. \/ cur' = cur
          \/ \E d \in DirNames : MapDir(<<d>>)
          \/ \E d \in DirNames, f \in FileNames : MapFile(<<d, f>>)
      BY <1>a, <1>m, <1>s, ApplyKinds DEF OnNothing, OnIgnored, OnSelfGone, OnDirGone, OnFileGone
    <2>c. OwedOK /\ RowsOK
      BY DEF ControlOK
    <2>3. CASE cur' = cur
      BY <1>e, <1>f, <2>1, <2>3
    <2>4. ASSUME NEW d \in DirNames, MapDir(<<d>>) PROVE Goal
      <3>1. cur' = Idle \/ cur' = At("arm", <<d>>)
        BY <2>c, <2>4, MapDirControl, PathKinds
      <3> QED BY <1>e, <1>f, <2>1, <3>1, OpFacts
    <2>5. ASSUME NEW d \in DirNames, NEW f \in FileNames, MapFile(<<d, f>>) PROVE Goal
      <3>1. cur' = Idle \/ cur' \in {At("text", <<d, f>>), At("revec", <<d, f>>)}
        BY <2>c, <2>5, MapFileControl, PathKinds
      <3> QED BY <1>e, <1>f, <2>1, <3>1, OpFacts
    <2> QED BY <2>2, <2>3, <2>4, <2>5
  <1>u. CASE User
    BY <1>u, <1>m, <1>s, UserFrame DEF FrameOK
  <1>c. CASE Crash
    BY <1>c, <1>s DEF Crash, Good
  <1> QED BY <1>1, <1>2, <1>3, <1>4, <1>5, <1>6, <1>7, <1>8, <1>9, <1>a, <1>u, <1>c DEF SwampNext, Daemon

---------------------------------------------------------------------------
(* What is mapped is there, or the event that ends it is pending *)

\* Steps that change neither tree, queue nor watches.
LEMMA BackedKept ==
    ASSUME UNCHANGED <<at, file, queue, wds>>
    PROVE  \A p \in Paths : Backed(p)' <=> Backed(p)
  <1>1. \A p : Stat(p)' = Stat(p)
    BY DEF Stat
  <1> QED BY <1>1 DEF Backed

\* What backs a directory.
LEMMA DirBacked ==
    ASSUME NEW d \in DirNames
    PROVE  /\ Backed(<<d>>) <=> at[d] # "none" \/ DropDir(queue, d)
           /\ Backed(<<d>>)' <=> at'[d] # "none" \/ DropDir(queue', d)
           /\ Exists(<<d>>) => at[d] # "none"
  <1>1. <<d>>[1] = d /\ <<d>> # Root /\ <<d>> \in Dirs1 /\ <<d>> \notin Files /\ Len(<<d>>) = 1
    BY PathKinds DEF Dirs1
  <1> QED BY <1>1 DEF Backed, Exists, DirIno

\* What backs a file: the watch of its directory has that path, too.
LEMMA FileBacked ==
    ASSUME NEW d \in DirNames, NEW f \in FileNames
    PROVE  /\ Backed(<<d, f>>) <=> \/ DropDir(queue, d)
                                   \/ /\ at[d] # "none" /\ wds[at[d]] = <<d>>
                                      /\ file[at[d]][f] # NoFile \/ DropFile(queue, at[d], f)
           /\ Backed(<<d, f>>)' <=> \/ DropDir(queue', d)
                                    \/ /\ at'[d] # "none" /\ wds'[at'[d]] = <<d>>
                                       /\ file'[at'[d]][f] # NoFile \/ DropFile(queue', at'[d], f)
           /\ Exists(<<d, f>>) => at[d] # "none" /\ file[at[d]][f] # NoFile
  <1>1. /\ <<d, f>>[1] = d /\ <<d, f>>[2] = f /\ <<d, f>> # Root /\ <<d, f>> \notin Dirs1
        /\ <<d, f>> \in Files /\ Len(<<d, f>>) = 2
    BY PathKinds DEF Dirs1, DirPaths
  <1>2. Stat(<<d, f>>) = IF at[d] = "none" THEN NoFile ELSE file[at[d]][f]
    BY <1>1 DEF Stat
  <1>3. Stat(<<d, f>>)' = IF at'[d] = "none" THEN NoFile ELSE file'[at'[d]][f]
    BY <1>1 DEF Stat
  <1> QED BY <1>1, <1>2, <1>3 DEF Backed, Exists

\* A row that was not retracted was there.
LEMMA RowLess ==
    ASSUME NEW S, Less(S), NEW p \in Paths, p \notin owed', row'[p] # NoRow
    PROVE  p \notin owed /\ row[p] # NoRow /\ p \notin S
  BY DEF Less

\* A row that was not made was there.
LEMMA RowMade ==
    ASSUME Typed, NEW q, NEW m, Made(q, m), full' = full, NEW p \in Paths, p \notin owed', p # q
    PROVE  p \notin owed /\ row'[p] = row[p] /\ (Live(p)' => Live(p))
  BY TreeTypes DEF Made, Live

\* An event leaves the tracks of a directory or file alone, or is acted on
LEMMA ApplyKeeps ==
    ASSUME Typed, TreeOK, QueueOK, ApplyEvent, Good', NEW d \in DirNames
    PROVE  LET e == Head(queue) IN
           /\ DropDir(queue, d) => DropDir(queue', d) \/ OnDirGone(e, d)
           /\ Born(queue, d) => Born(queue', d) \/ OnDirThere(e, d)
           /\ at[d] # "none" /\ wds[at[d]] = <<d>> =>
                 /\ wds'[at[d]] = <<d>> \/ OnSelfGone(e, d) \/ OnDirGone(e, d)
                 /\ \A f \in FileNames :
                       /\ DropFile(queue, at[d], f) => DropFile(queue', at[d], f) \/ OnFileGone(e, d, f)
                       /\ Touched(queue, at[d], f) => Touched(queue', at[d], f) \/ OnFileThere(e, d, f)
  <1> DEFINE e == Head(queue)
             q == Tail(queue)
  <1>1. /\ Good /\ e.what # "overflow" /\ e \in Events /\ queue \in Seq(Events) /\ queue # <<>> /\ queue' = q
        /\ \A x \in DirNames : Match(e, "root", DirGone, x) => OnDirGone(e, x)
        /\ \A x \in DirNames : Match(e, "root", DirThere, x) => OnDirThere(e, x)
    BY ApplyFacts
  <1>2. /\ \A w, S, x : Has(queue, w, S, x) <=> Has(q, w, S, x) \/ Match(e, w, S, x)
        /\ \A i : SelfGone(queue, i) <=> SelfGone(q, i) \/ (e.wd = i /\ e.what \in Ended)
    BY <1>1, TailHas
  <1>3. /\ \A w, S, T, x : LastIn(queue, w, S, T, x) <=>
               LastIn(q, w, S, T, x) \/ (Match(e, w, S, x) /\ ~Has(q, w, T, x))
    BY <1>1, TailLast
  <1>o. Overflow.what = "overflow"
    BY EvFields DEF Overflow
  <1>c. \/ OnIgnored(e)
        \/ e.wd \in AllInos /\ wds[e.wd] = NoPath /\ OnNothing
        \/ \E x \in DirNames : OnSelfGone(e, x)
        \/ \E x \in DirNames : OnDirGone(e, x)
        \/ \E x \in DirNames, f \in FileNames : OnFileGone(e, x, f)
        \/ \E x \in DirNames : OnDirThere(e, x)
        \/ \E x \in DirNames, f \in FileNames : OnFileThere(e, x, f)
    BY <1>1, <1>o, ApplyCases
  <1> HIDE DEF e, q
  <1>4. DropDir(queue, d) => DropDir(queue', d) \/ OnDirGone(e, d)
    BY <1>1, <1>2 DEF DropDir
  <1>5. Born(queue, d) => Born(queue', d) \/ OnDirThere(e, d)
    BY <1>1, <1>3 DEF Born
  <1>6. ASSUME at[d] # "none", wds[at[d]] = <<d>>
        PROVE  /\ wds'[at[d]] = <<d>> \/ OnSelfGone(e, d) \/ OnDirGone(e, d)
               /\ \A f \in FileNames :
                     /\ DropFile(queue, at[d], f) => DropFile(queue', at[d], f) \/ OnFileGone(e, d, f)
                     /\ Touched(queue, at[d], f) => Touched(queue', at[d], f) \/ OnFileThere(e, d, f)
    <2>1. /\ at[d] \in Inos /\ at[d] \in AllInos /\ Placed(at[d]) /\ <<d>> # NoPath /\ at[d] # "root"
          /\ \A x : <<d>> = <<x>> => x = d
      BY <1>6, TreeTypes DEF Placed, AllInos
    <2>2. ~(e.wd = at[d] /\ e.what \in Ended)
      BY <1>1, <1>2, <2>1 DEF QueueOK, EndsOK
    <2>3. wds'[at[d]] = <<d>> \/ OnSelfGone(e, d) \/ OnDirGone(e, d)
      <3>1. CASE OnIgnored(e)
        <4>1. e.wd # at[d]
          BY <2>2, <3>1, EvFields DEF OnIgnored, Ended
        <4> QED BY <1>6, <2>1, <3>1, <4>1, TreeTypes DEF OnIgnored
      <3>2. ASSUME NEW x \in DirNames, wds' = Forget(<<x>>), x # d PROVE wds'[at[d]] = <<d>>
        BY <1>6, <2>1, <3>2, ForgetTyped DEF Typed
      <3> QED BY <1>6, <1>c, <3>1, <3>2 DEF OnNothing, OnSelfGone, OnDirGone, OnFileGone, OnDirThere, OnFileThere
    <2>4. ASSUME NEW f \in FileNames, Match(e, at[d], FileGone, f) PROVE OnFileGone(e, d, f)
      <3>1. e.wd = at[d] /\ e.what \in FileGone /\ e.name = f /\ e.what \notin Ended \cup DirGone \cup DirThere \cup FileThere
            /\ e.what # "move_self"
        BY <2>4, KindsApart DEF Match
      <3>2. ~OnIgnored(e) /\ \A x \in DirNames : ~OnSelfGone(e, x)
        BY <3>1, EvFields DEF OnIgnored, OnSelfGone, Ended
      <3>3. PICK x \in DirNames, g \in FileNames : OnFileGone(e, x, g)
        BY <1>6, <1>c, <2>1, <3>1, <3>2 DEF OnDirGone, OnDirThere, OnFileThere
      <3>4. x = d /\ g = f
        BY <1>6, <2>1, <3>1, <3>3, EvFields DEF OnFileGone
      <3> QED BY <3>3, <3>4
    <2>5. ASSUME NEW f \in FileNames, Match(e, at[d], FileThere, f) PROVE OnFileThere(e, d, f)
      <3>1. e.wd = at[d] /\ e.what \in FileThere /\ e.name = f /\ e.what \notin Ended \cup DirGone \cup DirThere \cup FileGone
            /\ e.what # "move_self"
        BY <2>5, KindsApart DEF Match
      <3>2. ~OnIgnored(e) /\ \A x \in DirNames : ~OnSelfGone(e, x)
        BY <3>1, EvFields DEF OnIgnored, OnSelfGone, Ended
      <3>3. PICK x \in DirNames, g \in FileNames : OnFileThere(e, x, g)
        BY <1>6, <1>c, <2>1, <3>1, <3>2 DEF OnDirGone, OnDirThere, OnFileGone
      <3>4. x = d /\ g = f
        BY <1>6, <2>1, <3>1, <3>3, EvFields DEF OnFileThere
      <3> QED BY <3>3, <3>4
    <2> QED BY <1>1, <1>2, <1>3, <2>3, <2>4, <2>5 DEF DropFile, Touched
  <1> QED BY <1>4, <1>5, <1>6 DEF e

\* An event takes from a path what backs it only where it takes its row
LEMMA ApplyBacked ==
    ASSUME Typed, TreeOK, QueueOK, ApplyEvent, Good', NEW p \in Paths, Backed(p)
    PROVE  Backed(p)' \/ \E S \in SUBSET Paths : Less(S) /\ p \in S
  <1> DEFINE e == Head(queue)
             Lost1 == \E S \in SUBSET Paths : Less(S) /\ p \in S
  <1>1. UNCHANGED <<at, file>>
    BY ApplyFacts
  <1>2. ASSUME NEW d \in DirNames, p \in Sub(<<d>>), OnDirGone(e, d) \/ OnSelfGone(e, d) PROVE Lost1
    <2>1. Retract(Sub(<<d>>)) /\ Sub(<<d>>) \in SUBSET Paths
      BY <1>2, SubFacts DEF OnDirGone, OnSelfGone
    <2>2. Less(Sub(<<d>>))
      BY <2>1, RetractLess
    <2> QED BY <1>2, <2>1, <2>2
  <1>3. CASE p = Root
    BY <1>3 DEF Backed
  <1>4. ASSUME NEW d \in DirNames, p = <<d>> PROVE Backed(p)' \/ Lost1
    <2>1. DropDir(queue, d) => DropDir(queue', d) \/ OnDirGone(e, d)
      BY ApplyKeeps
    <2>2. at[d] # "none" \/ DropDir(queue, d)
      BY <1>4, DirBacked
    <2>3. at'[d] # "none" \/ DropDir(queue', d) => Backed(<<d>>)'
      BY DirBacked
    <2>4. p \in Sub(<<d>>)
      BY <1>4, SubFacts
    <2> HIDE DEF Lost1, e
    <2> QED BY <1>1, <1>2, <1>4, <2>1, <2>2, <2>3, <2>4
  <1>5. ASSUME NEW d \in DirNames, NEW f \in FileNames, p = <<d, f>> PROVE Backed(p)' \/ Lost1
    <2>1. /\ DropDir(queue, d) => DropDir(queue', d) \/ OnDirGone(e, d)
          /\ at[d] # "none" /\ wds[at[d]] = <<d>> =>
                 /\ wds'[at[d]] = <<d>> \/ OnSelfGone(e, d) \/ OnDirGone(e, d)
                 /\ DropFile(queue, at[d], f) => DropFile(queue', at[d], f) \/ OnFileGone(e, d, f)
      BY ApplyKeeps
    <2>2. \/ DropDir(queue, d)
          \/ at[d] # "none" /\ wds[at[d]] = <<d>> /\ (file[at[d]][f] # NoFile \/ DropFile(queue, at[d], f))
      BY <1>5, FileBacked
    <2>3. Backed(<<d, f>>)' <=>
             \/ DropDir(queue', d)
             \/ at'[d] # "none" /\ wds'[at'[d]] = <<d>> /\ (file'[at'[d]][f] # NoFile \/ DropFile(queue', at'[d], f))
      BY FileBacked
    <2>4. p \in Sub(<<d>>)
      BY <1>5, SubFacts
    <2>5. ASSUME OnFileGone(e, d, f) PROVE Lost1
      <3>1. Retract({p}) /\ {p} \in SUBSET Paths
        BY <1>5, <2>5 DEF OnFileGone
      <3>2. Less({p})
        BY <3>1, RetractLess
      <3> QED BY <3>1, <3>2
    <2> HIDE DEF Lost1, e
    <2> QED BY <1>1, <1>2, <1>5, <2>1, <2>2, <2>3, <2>4, <2>5
  <1>6. p = Root \/ (\E d \in DirNames : p = <<d>>) \/ \E d \in DirNames, f \in FileNames : p = <<d, f>>
    BY PathKinds DEF Dirs1
  <1> QED BY <1>3, <1>4, <1>5, <1>6

\* apply_event retracts what it takes the ground from, and maps only what is
\* watched.
LEMMA RowApply ==
    ASSUME Typed, ControlOK, TreeOK, QueueOK, RowOK, ApplyEvent
    PROVE  RowOK'
  <1> SUFFICES ASSUME Claim'
               PROVE  /\ \A p \in Paths \ owed' : row'[p] # NoRow => Backed(p)'
                      /\ cur'.op = "text" => Backed(cur.path)'
    <2> SUFFICES ASSUME Claim' PROVE RowOK'
      BY DEF RowOK
    <2>1. Good'
      BY DEF Claim
    <2>2. ~full'
      BY <2>1, ApplyFacts
    <2> QED BY <2>2 DEF RowOK, Live
  <1> DEFINE e == Head(queue)
  <1>0. Good' /\ OwedOK
    BY DEF Claim, ControlOK
  <1>1. /\ Claim /\ ~full /\ cur = Idle /\ lost = {} /\ full' = full
        /\ UNCHANGED <<at, file>> /\ e \in Events /\ queue \in Seq(Events) /\ queue # <<>>
    <2>1. /\ ~full /\ ~full' /\ cur = Idle /\ (Claim' => Claim)
          /\ UNCHANGED <<at, file>> /\ e \in Events /\ queue \in Seq(Events) /\ queue # <<>>
      BY <1>0, ApplyFacts
    <2>2. full \in BOOLEAN /\ full' = FALSE
      BY <2>1, ApplyCases, TreeTypes DEF Applied
    <2> QED BY <2>1, <2>2 DEF Claim
  <1>2. \A p \in Paths : Backed(p) => Backed(p)' \/ \E S \in SUBSET Paths : Less(S) /\ p \in S
    BY <1>0, ApplyBacked
  <1>3. \A p \in Paths : p \notin owed' /\ row'[p] # NoRow => ~ \E S \in SUBSET Paths : Less(S) /\ p \in S
    BY RowLess
  <1>4. \A p \in Paths : p \notin owed /\ row[p] # NoRow => Backed(p)
    BY <1>1 DEF RowOK, Live
  <1>k. ASSUME NEW p \in Paths, p \notin owed', row'[p] # NoRow, p \notin owed, row[p] # NoRow PROVE Backed(p)'
    BY <1>k, <1>2, <1>3, <1>4
  <1>l. ASSUME NEW S, Less(S) PROVE \A p \in Paths \ owed' : row'[p] # NoRow => Backed(p)'
    BY <1>k, <1>l, RowLess
  <1>i. Idle.op # "text" /\ \A q : At("arm", q).op # "text"
    BY OpFacts
  <1>5. CASE OnNothing \/ OnIgnored(e)
    <2>1. UNCHANGED <<row, owed, cur>>
      BY <1>5 DEF OnNothing, OnIgnored, KeepIndex, indexVars, ghostVars
    <2> QED BY <1>1, <1>i, <1>k, <2>1
  <1>6. CASE \/ \E d \in DirNames : Less(Sub(<<d>>)) /\ (OnSelfGone(e, d) \/ OnDirGone(e, d))
             \/ \E d \in DirNames, f \in FileNames : Less({<<d, f>>}) /\ OnFileGone(e, d, f)
    <2>1. cur' = cur
      BY <1>6 DEF OnSelfGone, OnDirGone, OnFileGone
    <2> QED BY <1>1, <1>6, <1>i, <1>l, <2>1
  <1>7. ASSUME NEW d \in DirNames, MapDir(<<d>>)
        PROVE  /\ \A p \in Paths \ owed' : row'[p] # NoRow => Backed(p)'
               /\ cur'.op = "text" => Backed(cur.path)'
    <2> DEFINE p == <<d>>
    <2>0. p \in DirPaths
      BY PathKinds
    <2>1. \/ Less({p}) /\ cur' = Idle
          \/ Made(p, <<0, 0>>) /\ Exists(p) /\ cur' = At("arm", p)
          \/ owed' = owed \cup Sub(p) /\ cur' = Idle /\ UNCHANGED <<row, live>>
      BY <1>0, <1>7, <2>0, MapDirCases
    <2>2. Exists(p) => Backed(p)'
      <3>1. Exists(p) => at[d] # "none"
        BY DirBacked
      <3>2. at'[d] # "none" => Backed(p)'
        BY DirBacked
      <3> HIDE DEF p
      <3> QED BY <1>1, <3>1, <3>2
    <2> HIDE DEF p
    <2>3. CASE Made(p, <<0, 0>>) /\ Exists(p)
      <3>1. \A q \in Paths : q \notin owed' /\ q # p => q \notin owed /\ row'[q] = row[q]
        BY <1>1, <2>3, RowMade
      <3> QED BY <1>k, <1>i, <2>1, <2>2, <2>3, <3>1
    <2> QED BY <1>k, <1>i, <1>l, <2>1, <2>3
  <1>8. ASSUME NEW d \in DirNames, NEW f \in FileNames, MapFile(<<d, f>>), OnFileThere(e, d, f)
        PROVE  /\ \A p \in Paths \ owed' : row'[p] # NoRow => Backed(p)'
               /\ cur'.op = "text" => Backed(cur.path)'
    <2> DEFINE p == <<d, f>>
    <2>0. p \in Files
      BY PathKinds
    <2>1. \/ Less({p}) /\ cur' = Idle
          \/ Made(p, Meta(Stat(p))) /\ Exists(p) /\ cur' \in {Idle, At("text", p), At("revec", p)}
          \/ owed' = owed \cup {p} /\ cur' = Idle /\ UNCHANGED <<row, live>>
      BY <1>0, <1>8, <2>0, MapFileCases
    <2>2. Exists(p) => Backed(p)'
      <3>1. Exists(p) => at[d] # "none" /\ file[at[d]][f] # NoFile
        BY FileBacked
      <3>2. \/ DropDir(queue', d)
            \/ at'[d] # "none" /\ wds'[at'[d]] = <<d>> /\ (file'[at'[d]][f] # NoFile \/ DropFile(queue', at'[d], f))
            => Backed(p)'
        BY FileBacked
      <3>3. e.wd \in Inos \ lost /\ wds[e.wd] = <<d>> /\ wds[e.wd] # NoPath /\ HeardIn(queue, e.wd) /\ wds' = wds
            /\ ~OnDirGone(e, d)
        <4>1. HeardIn(queue, e.wd)
          BY <1>1, TailHas
        <4>2. ~OnDirGone(e, d)
          BY <1>8, EvFields, TreeTypes DEF OnDirGone, OnFileThere
        <4> QED BY <1>1, <1>8, <4>1, <4>2, TreeTypes DEF OnFileThere
      <3>4. at[d] = e.wd \/ DropDir(queue, d)
        <4>1. PICK x \in DirNames : wds[e.wd] = <<x>> /\ (at[x] = e.wd \/ DropDir(queue, x))
          BY <1>1, <3>3 DEF QueueOK, WatchOK, Claim
        <4>2. x = d
          BY <3>3, <4>1, TreeTypes
        <4> QED BY <4>1, <4>2
      <3>5. DropDir(queue, d) => DropDir(queue', d)
        BY <1>0, <3>3, ApplyKeeps
      <3> HIDE DEF p, e
      <3> QED BY <1>1, <3>1, <3>2, <3>3, <3>4, <3>5
    <2>i. At("revec", p).op # "text" /\ At("text", p).path = p
      BY OpFacts
    <2> HIDE DEF p
    <2>3. CASE Made(p, Meta(Stat(p))) /\ Exists(p)
      <3>1. \A q \in Paths : q \notin owed' /\ q # p => q \notin owed /\ row'[q] = row[q]
        BY <1>1, <2>3, RowMade
      <3>2. \A q \in Paths \ owed' : row'[q] # NoRow => Backed(q)'
        BY <1>k, <2>2, <2>3, <3>1
      <3>3. cur'.op = "text" => cur'.path = p
        BY <1>i, <2>i, <2>1, <2>3
      <3> QED BY <2>2, <2>3, <3>2, <3>3
    <2>4. CASE Less({p}) /\ cur' = Idle
      BY <1>i, <1>l, <2>4
    <2>5. CASE owed' = owed \cup {p} /\ cur' = Idle /\ UNCHANGED <<row, live>>
      BY <1>i, <1>k, <2>5
    <2> QED BY <2>1, <2>3, <2>4, <2>5
  <1> QED BY <1>0, <1>5, <1>6, <1>7, <1>8, ApplyKinds

\* What a walk or a crash recovery meets has to be met again
LEMMA RowFresh ==
    ASSUME full', live' = {}, cur' = Idle
    PROVE  RowOK'
  BY OpFacts DEF RowOK, Live

\* Arming a directory takes nothing from any other.
LEMMA ArmBacked ==
    ASSUME Typed, TreeOK, NEW p \in Paths, Backed(p), UNCHANGED <<at, file, queue>>,
           wds' = wds \/ (\E d \in DirNames : at[d] \in Inos /\ wds' = [wds EXCEPT ![at[d]] = <<d>>])
                      \/ wds' = [wds EXCEPT !["root"] = Root]
    PROVE  Backed(p)'
  <1>1. CASE p = Root
    BY <1>1 DEF Backed
  <1>2. ASSUME NEW d \in DirNames, p = <<d>> PROVE Backed(p)'
    BY <1>2, DirBacked
  <1>3. ASSUME NEW d \in DirNames, NEW f \in FileNames, p = <<d, f>> PROVE Backed(p)'
    <2>1. ASSUME at[d] # "none", wds[at[d]] = <<d>> PROVE wds'[at[d]] = <<d>>
      <3>1. at[d] \in Inos /\ at[d] \in AllInos /\ at[d] # "root" /\ wds \in [AllInos -> DirPaths \cup {NoPath}]
        BY <2>1, TreeTypes DEF AllInos
      <3>2. ASSUME NEW x \in DirNames, at[x] \in Inos, wds' = [wds EXCEPT ![at[x]] = <<x>>] PROVE wds'[at[d]] = <<d>>
        <4>1. at[x] = at[d] => x = d
          BY <2>1, TreeTypes DEF TreeOK, AtInj
        <4> QED BY <2>1, <3>1, <3>2, <4>1
      <3> QED BY <2>1, <3>1, <3>2
    <2> QED BY <1>3, <2>1, FileBacked
  <1> QED BY <1>1, <1>2, <1>3, PathKinds DEF Dirs1

\* Every row that counts is of something that is there, or about to be
\* retracted.
LEMMA RowStep ==
    ASSUME Typed, ControlOK, MapOK, [SwampNext]_swampVars
    PROVE  RowOK'
  <1>m. TreeOK /\ QueueOK /\ RootOK /\ FrameOK /\ RowOK /\ OwedOK
    BY DEF MapOK, ControlOK
  <1>s. SUFFICES ASSUME Claim' PROVE RowOK'
    BY DEF RowOK
  <1>g. Good'
    BY <1>s DEF Claim
  <1>i. Idle.op # "text" /\ \A q : At("arm", q).op # "text" /\ At("read", q).op # "text" /\ At("revec", q).op # "text"
        /\ At("text", q).path = q
    BY OpFacts
  <1>k. ASSUME UNCHANGED <<row, owed, full, live>>, \A p \in Paths : Backed(p) => Backed(p)', Claim,
               cur'.op # "text" \/ cur' = cur
        PROVE  RowOK'
    <2>1. cur.op = "text" => cur.path \in Paths
      BY StepKinds, TreeTypes DEF Paths
    <2> QED BY <1>k, <1>m, <2>1 DEF RowOK, Live
  <1>1. CASE Boot
    BY <1>1, BootState, RowFresh
  <1>2. CASE Drained
    <2>1. CASE Resumed
      BY <2>1, RowFresh DEF Resumed
    <2>2. CASE UNCHANGED <<at, file, queue, row, owed, wds, full, live, cur>> /\ (Claim' => Claim)
      BY <1>k, <1>s, <2>2, BackedKept
    <2> QED BY <1>2, <2>1, <2>2, DrainedCases
  <1>3. CASE WalkRoot
    <2>1. /\ full /\ full' = full /\ live = {}
          /\ \/ Made(Root, <<0, 0>>) /\ cur' = At("arm", Root)
             \/ owed' = Paths /\ cur' = Idle
      BY <1>3, WalkRootCases
    <2>2. CASE Made(Root, <<0, 0>>) /\ cur' = At("arm", Root)
      BY <1>i, <2>1, <2>2 DEF RowOK, Made, Live, Backed
    <2>3. CASE owed' = Paths /\ cur' = Idle
      BY <1>i, <2>3 DEF RowOK
    <2> QED BY <2>1, <2>2, <2>3
  <1>4. CASE ArmDir
    <2>1. UNCHANGED <<at, file, queue, row, owed, up, batch, fresh, full, live>> /\ cur'.op = "read"
      BY <1>4, <1>i, OpFacts, ArmCases DEF treeVars, indexVars, ghostVars
    <2>2. ASSUME NEW i, NEW p, Armed(i, p) PROVE Claim
      BY <1>s, <2>1, <2>2 DEF Armed, Claim, Good, NoOver
    <2>3. \/ Armed("root", Root)
          \/ \E d \in DirNames : at[d] \in Inos /\ Armed(at[d], <<d>>)
      BY <1>4, <1>g, ArmCases DEF Good
    <2>4. /\ Claim
          /\ wds' = wds \/ (\E d \in DirNames : at[d] \in Inos /\ wds' = [wds EXCEPT ![at[d]] = <<d>>])
                        \/ wds' = [wds EXCEPT !["root"] = Root]
      BY <2>2, <2>3 DEF Armed
    <2>5. \A p \in Paths : Backed(p) => Backed(p)'
      BY <1>m, <2>1, <2>4, ArmBacked
    <2> QED BY <1>k, <2>1, <2>4, <2>5
  <1>5. CASE ReadDir
    <2>1. UNCHANGED <<row, owed, live, full>> /\ cur' = Idle
      BY <1>5, ReadCases
    <2> QED BY <1>5, <1>i, <1>k, <1>s, <2>1, Keeps, BackedKept
  <1>6. ASSUME NEW p \in Paths \ {Root}, Visit(p) PROVE RowOK'
    <2>1. Claim /\ Good /\ UNCHANGED <<at, file, queue, wds>> /\ \A q \in Paths : Backed(q) <=> Backed(q)'
      BY <1>6, <1>s, Keeps, BackedKept DEF Claim
    <2>2. /\ InFrames(frames, p) /\ full' = full /\ cur = Idle
          /\ \/ UNCHANGED <<row, owed, live, cur>>
             \/ \E d \in DirNames : p = <<d>> /\ MapDir(p)
             \/ p \in Files /\ MapFile(p)
      BY <1>6, VisitCases
    <2>3. \A q \in Paths : q \notin owed /\ row[q] # NoRow /\ Live(q) => Backed(q)'
      BY <1>m, <2>1 DEF RowOK
    <2>4. ASSUME Less({p}), cur' = Idle, live' = live PROVE RowOK'
      BY <1>i, <2>2, <2>3, <2>4, RowLess DEF RowOK, Live
    <2>5. ASSUME NEW S, owed' = owed \cup S, cur' = Idle, UNCHANGED <<row, live>> PROVE RowOK'
      BY <1>i, <2>2, <2>3, <2>5 DEF RowOK, Live
    <2>6. ASSUME NEW m, Made(p, m), Exists(p), cur'.op = "text" => cur' = At("text", p) PROVE RowOK'
      <3>1. Backed(p)'
        <4>1. ASSUME NEW d \in DirNames, p = <<d>> PROVE Backed(p)
          BY <2>6, <4>1, DirBacked
        <4>2. ASSUME NEW d \in DirNames, NEW f \in FileNames, p = <<d, f>> PROVE Backed(p)
          <5>1. ArmedAt(d) /\ Exists(<<d, f>>)
            <6>1. p \in Files /\ p[1] = d
              BY <4>2, PathKinds
            <6> QED BY <1>m, <2>1, <2>2, <2>6, <4>2, <6>1 DEF FrameOK
          <5> QED BY <4>2, <5>1, FileBacked DEF ArmedAt
        <4> QED BY <2>1, <4>1, <4>2, PathKinds DEF Dirs1
      <3>2. ASSUME NEW q \in Paths, q \notin owed', row'[q] # NoRow, Live(q)' PROVE Backed(q)'
        <4>1. CASE q # p
          BY <2>2, <2>3, <2>6, <3>2, <4>1, RowMade
        <4> QED BY <3>1, <4>1
      <3>3. Live(p)'
        BY <2>2, <2>6 DEF Made, Live
      <3>4. cur'.op = "text" => cur'.path = p
        BY <1>i, <2>6
      <3> QED BY <3>1, <3>2, <3>3, <3>4 DEF RowOK
    <2>7. ASSUME NEW d \in DirNames, p = <<d>>, MapDir(p) PROVE RowOK'
      <3>1. \/ Less({p}) /\ cur' = Idle /\ live' = live
            \/ Made(p, <<0, 0>>) /\ Exists(p) /\ cur' = At("arm", p)
            \/ owed' = owed \cup Sub(p) /\ cur' = Idle /\ UNCHANGED <<row, live>>
        BY <1>m, <2>7, PathKinds, MapDirCases
      <3> QED BY <1>i, <2>4, <2>5, <2>6, <3>1
    <2>8. ASSUME p \in Files, MapFile(p) PROVE RowOK'
      <3>1. \/ Less({p}) /\ cur' = Idle /\ live' = live
            \/ Made(p, Meta(Stat(p))) /\ Exists(p) /\ cur' \in {Idle, At("text", p), At("revec", p)}
            \/ owed' = owed \cup {p} /\ cur' = Idle /\ UNCHANGED <<row, live>>
        BY <1>m, <2>8, MapFileCases
      <3> QED BY <1>i, <2>4, <2>5, <2>6, <3>1
    <2> QED BY <1>i, <1>k, <2>1, <2>2, <2>7, <2>8
  <1>7. CASE SetText \/ ReVec \/ Embed
    <2>1. Claim /\ \A q \in Paths : Backed(q) <=> Backed(q)'
      BY <1>7, <1>s, Keeps, BackedKept
    <2>2. Texted(cur.path)
      BY <1>7, TextCases
    <2>3. cur'.op # "text"
      BY <1>i, <2>2 DEF Texted
    <2>4. ASSUME NEW q \in Paths, q \notin owed', row'[q] # NoRow, Live(q)' PROVE Backed(q)'
      <3>1. CASE q \in owed
        <4>1. q = cur.path /\ cur.op = "text"
          BY <2>2, <2>4, <3>1 DEF Texted
        <4> QED BY <1>m, <2>1, <4>1 DEF RowOK
      <3>2. CASE q \notin owed
        BY <1>m, <2>1, <2>2, <2>4, <3>2 DEF Texted, RowOK, Live
      <3> QED BY <3>1, <3>2
    <2> QED BY <2>3, <2>4 DEF RowOK
  <1>8. CASE Prune
    <2> DEFINE Stale == {p \in Paths : row[p] # NoRow /\ p \notin live}
    <2>1. Claim /\ \A q \in Paths : Backed(q) <=> Backed(q)'
      BY <1>8, <1>s, Keeps, BackedKept
    <2>2. cur' = Idle /\ Less(Stale)
      BY <1>8, PruneCases
    <2>3. ASSUME NEW q \in Paths, q \notin owed', row'[q] # NoRow PROVE Backed(q)'
      <3>1. q \notin owed /\ row[q] # NoRow /\ q \notin Stale
        BY <2>2, <2>3, RowLess
      <3> QED BY <1>m, <2>1, <3>1 DEF RowOK, Live
    <2> QED BY <1>i, <2>2, <2>3 DEF RowOK
  <1>9. CASE UNCHANGED swampVars
    <2>1. UNCHANGED <<row, owed, full, live, cur>>
      BY <1>9 DEF swampVars, daemonVars, indexVars, ghostVars
    <2> QED BY <1>9, <1>k, <1>s, <2>1, Keeps, BackedKept
  <1>a. CASE ApplyEvent
    BY <1>a, <1>m, RowApply
  <1>u. CASE User
    BY <1>u, <1>m, UserRow
  <1>c. CASE Crash
    BY <1>c, QueueCrash
  <1> QED BY <1>1, <1>2, <1>3, <1>4, <1>5, <1>6, <1>7, <1>8, <1>9, <1>a, <1>u, <1>c DEF SwampNext, Daemon

---------------------------------------------------------------------------
(* What is there is mapped, or is to be *)

ArmC(d) == \/ Sub(<<d>>) \subseteq owed \/ Coming(d) \/ cur = At("arm", <<d>>)
           \/ wds[at[d]] = <<d>>
MapC(d) == <<d>> \in owed \/ Coming(d) \/ (row[<<d>>] # NoRow /\ Live(<<d>>))
FileC(d, f) ==
    \/ <<d, f>> \in owed \/ Coming(d) \/ InFrames(frames, <<d, f>>)
    \/ cur \in {At("arm", <<d>>), At("read", <<d>>)}
    \/ /\ wds[at[d]] = <<d>>
       /\ \/ Touched(queue, at[d], f)
          \/ row[<<d, f>>] = Meta(file[at[d]][f]) /\ Live(<<d, f>>)
DirC(d) == ArmC(d) /\ MapC(d) /\ \A f : FileHere(d, f) => FileC(d, f)

\* The claims directory by directory.
LEMMA CoverParts ==
    /\ CoverOK <=> (Calm => \A d : DirHere(d) => DirC(d))
    /\ CoverOK' <=> (Calm' => \A d : DirHere(d)' => DirC(d)')
  <1>1. \A d, f : FileHere(d, f) => DirHere(d)
    BY DEF FileHere
  <1>2. \A d, f : FileHere(d, f)' => DirHere(d)'
    BY DEF FileHere
  <1>3. ArmedOK /\ MappedOK /\ FilesOK <=> \A d : DirHere(d) => DirC(d)
    <2>1. ArmedOK <=> \A d : DirHere(d) => ArmC(d)
      BY DEF ArmedOK, ArmC
    <2>2. MappedOK <=> \A d : DirHere(d) => MapC(d)
      BY DEF MappedOK, MapC
    <2>3. FilesOK <=> \A d, f : FileHere(d, f) => FileC(d, f)
      BY DEF FilesOK, FileC
    <2> QED BY <1>1, <2>1, <2>2, <2>3 DEF DirC
  <1>4. (ArmedOK /\ MappedOK /\ FilesOK)' <=> \A d : DirHere(d)' => DirC(d)'
    <2>1. ArmedOK' <=> \A d : DirHere(d)' => ArmC(d)'
      BY DEF ArmedOK, ArmC
    <2>2. MappedOK' <=> \A d : DirHere(d)' => MapC(d)'
      BY DEF MappedOK, MapC
    <2>3. FilesOK' <=> \A d, f : FileHere(d, f)' => FileC(d, f)'
      BY DEF FilesOK, FileC
    <2> QED BY <1>2, <2>1, <2>2, <2>3 DEF DirC
  <1> QED BY <1>3, <1>4 DEF CoverOK

\* A walk of the root comes to every directory; a debt of the root owes everything
LEMMA CoverFresh ==
    ASSUME frames' = <<{Root}>> \/ cur' \in {At("arm", Root), At("read", Root)} \/ owed' = Paths
    PROVE  CoverOK'
  <1>1. ASSUME NEW d, DirHere(d)' PROVE DirC(d)'
    <2>1. d \in DirNames
      BY <1>1 DEF DirHere
    <2>2. CASE owed' = Paths
      BY <2>1, <2>2, SubFacts DEF DirC, ArmC, MapC, FileC, FileHere
    <2>3. CASE Coming(d)'
      BY <2>3 DEF DirC, ArmC, MapC, FileC
    <2> QED BY <2>2, <2>3 DEF Coming, ToVisit
  <1> QED BY <1>1, CoverParts

\* Two paths of the tree are one path only if they are of one directory
LEMMA PathsApart ==
    /\ \A d, e : <<d>> = <<e>> => d = e
    /\ \A d, f, e, g : <<d, f>> = <<e, g>> => d = e /\ f = g
    /\ \A d \in DirNames, e \in DirNames, f \in FileNames : <<d>> # <<e, f>>
  BY PathKinds

\* arm_dir: a directory is armed before it is read.
LEMMA CoverArm ==
    ASSUME Typed, ControlOK, MapOK, ArmDir
    PROVE  CoverOK'
  <1>m. TreeOK /\ CoverOK
    BY DEF MapOK
  <1>0. UNCHANGED <<at, file, moved, queue, row, owed, up, batch, fresh, full, live, frames>>
    BY ArmCases DEF treeVars, indexVars, ghostVars
  <1>1. CASE cur' = At("read", Root)
    BY <1>1, CoverFresh
  <1>2. CASE degraded' = TRUE
    BY <1>2, CoverParts DEF Calm, Claim, Good
  <1>3. ASSUME NEW e \in DirNames, cur = At("arm", <<e>>), cur' = At("read", <<e>>), at[e] \in Inos, Armed(at[e], <<e>>)
        PROVE  CoverOK'
    <2> SUFFICES ASSUME Calm', NEW d, DirHere(d)' PROVE DirC(d)'
      BY CoverParts
    <2>1. Calm
      BY <1>0, <1>3 DEF Calm, Claim, Good, NoOver, Armed
    <2>2. d \in DirNames /\ DirHere(d) /\ at[d] \in Inos /\ at[e] \in Inos
      BY <1>0, <1>3, TreeTypes DEF DirHere
    <2>3. wds' = [wds EXCEPT ![at[e]] = <<e>>] /\ wds \in [AllInos -> DirPaths \cup {NoPath}] /\ at[e] \in AllInos
      BY <1>3, TreeTypes DEF Armed, AllInos
    <2>4. at[d] = at[e] => d = e
      BY <1>m, <2>2, TreeTypes DEF TreeOK, AtInj
    <2>5. (d = e \/ wds[at[d]] = <<d>>) => wds'[at[d]] = <<d>>
      <3>1. at[d] \in AllInos
        BY <2>2 DEF AllInos
      <3> QED BY <2>3, <2>4, <3>1
    <2>6. Coming(d) => Coming(d)'
      <3>1. cur # At("arm", Root)
        <4>1. cur.path = <<e>> /\ At("arm", Root).path = Root
          BY <1>3, OpFacts
        <4>2. <<e>> # Root
          BY PathKinds
        <4> QED BY <4>1, <4>2
      <3>2. cur # At("read", Root)
        <4>1. cur.op = "arm" /\ At("read", Root).op = "read"
          BY <1>3, OpFacts
        <4> QED BY <4>1
      <3> QED BY <1>0, <3>1, <3>2 DEF Coming, ToVisit
    <2>7. /\ cur = At("arm", <<d>>) => d = e
          /\ cur = At("read", <<d>>) => d = e
      BY <1>3, OpFacts, PathsApart
    <2>8. DirC(d)
      BY <1>m, <2>1, <2>2, CoverParts
    <2>9. ArmC(d)'
      BY <1>0, <2>5, <2>6, <2>7, <2>8 DEF DirC, ArmC
    <2>10. MapC(d)'
      BY <1>0, <2>6, <2>8 DEF DirC, MapC, Live
    <2>11. ASSUME NEW f, FileHere(d, f)' PROVE FileC(d, f)'
      <3>1. FileC(d, f)
        BY <1>0, <2>8, <2>11 DEF DirC, FileHere, DirHere
      <3> QED BY <1>0, <1>3, <2>5, <2>6, <2>7, <3>1 DEF FileC, Live
    <2> QED BY <2>9, <2>10, <2>11 DEF DirC
  <1> QED BY <1>1, <1>2, <1>3, ArmCases

\* walk: a directory is read before its entries are forgotten.
LEMMA CoverRead ==
    ASSUME Typed, ControlOK, MapOK, ReadDir
    PROVE  CoverOK'
  <1> SUFFICES ASSUME Calm', NEW d, DirHere(d)' PROVE DirC(d)'
    BY CoverParts
  <1>1. Calm /\ UNCHANGED <<at, file, queue, wds>>
    BY Keeps
  <1>2. /\ cur.path \in DirPaths /\ cur = At("read", cur.path) /\ cur' = Idle
        /\ UNCHANGED <<row, owed, live, full>> /\ frames # <<{Root}>> /\ cur # At("arm", Root)
        /\ \A q : InFrames(frames', q) <=> q \in Entries(cur.path) \/ InFrames(frames, q)
    BY ReadCases
  <1>3. d \in DirNames /\ DirHere(d) /\ DirC(d) /\ at[d] # "none"
    BY <1>1, CoverParts DEF DirHere, MapOK
  <1>4. Coming(d) => Coming(d)'
    <2>1. cur = At("read", Root) => <<d>> \in Entries(cur.path)
      BY <1>3, EntriesTyped, OpFacts
    <2> QED BY <1>1, <1>2, <2>1 DEF Coming, ToVisit
  <1>5. \A q : cur # At("arm", q)
    BY <1>2, OpFacts
  <1>6. ArmC(d)'
    BY <1>1, <1>2, <1>3, <1>4, <1>5 DEF DirC, ArmC
  <1>7. MapC(d)'
    BY <1>1, <1>2, <1>3, <1>4 DEF DirC, MapC, Live
  <1>8. ASSUME NEW f, FileHere(d, f)' PROVE FileC(d, f)'
    <2>1. FileHere(d, f)
      BY <1>1, <1>8 DEF FileHere, DirHere
    <2>2. FileC(d, f)
      BY <1>3, <2>1 DEF DirC
    <2>3. cur = At("read", <<d>>) => <<d, f>> \in Entries(cur.path)
      BY <1>3, <2>1, HereExists, EntriesTyped, OpFacts
    <2> QED BY <1>1, <1>2, <1>4, <1>5, <2>2, <2>3 DEF FileC, Live
  <1> QED BY <1>6, <1>7, <1>8 DEF DirC

\* A directory that is there and whose end is pending is created anew
LEMMA ArmedComes ==
    ASSUME Typed, StillOK, ~moved, NEW d \in DirNames, at[d] # "none"
    PROVE  /\ DropDir(queue, d) => Born(queue, d)
           /\ ArmedAt(d) => Coming(d) \/ wds[at[d]] = <<d>>
           /\ \A f \in FileNames : Backed(<<d, f>>) => Coming(d) \/ wds[at[d]] = <<d>>
  <1>1. DropDir(queue, d) => Born(queue, d)
    BY DEF StillOK
  <1> QED BY <1>1, FileBacked DEF Coming, ArmedAt

\* walk: an entry that is taken is mapped or owed.
LEMMA CoverVisit ==
    ASSUME Typed, ControlOK, MapOK, NEW p \in Paths \ {Root}, Visit(p)
    PROVE  CoverOK'
  <1> SUFFICES ASSUME Calm', NEW d, DirHere(d)' PROVE DirC(d)'
    BY CoverParts
  <1>m. FrameOK /\ QueueOK /\ OwedOK
    BY DEF MapOK, ControlOK
  <1>1. Calm /\ Good /\ UNCHANGED <<at, file, queue, wds>>
    BY Keeps DEF Calm, Claim
  <1>2. /\ cur = Idle /\ frames # <<{Root}>> /\ full' = full
        /\ InFrames(frames, p) /\ \A q : InFrames(frames, q) => q = p \/ InFrames(frames', q)
        /\ \/ ~Exists(p) /\ UNCHANGED <<row, owed, live, cur>>
           \/ \E e \in DirNames : p = <<e>> /\ MapDir(p)
           \/ p \in Files /\ MapFile(p)
    BY VisitCases
  <1>3. d \in DirNames /\ DirHere(d) /\ DirC(d) /\ at[d] # "none"
    BY <1>1, CoverParts DEF DirHere, MapOK
  <1>h. /\ \A f : FileHere(d, f)' => FileHere(d, f)
        /\ Exists(<<d>>) /\ Indexable(<<d>>) /\ <<d>> \in Paths
        /\ \A f : FileHere(d, f) => /\ f \in FileNames /\ <<d, f>> \in Files /\ <<d, f>> \in Paths
                                    /\ Exists(<<d, f>>) /\ Indexable(<<d, f>>)
                                    /\ Stat(<<d, f>>) = file[at[d]][f]
    BY <1>1, <1>3, HereExists DEF FileHere, DirHere
  <1>i. \A k \in {"arm", "read"} : \A q : At(k, q) # Idle
    BY OpFacts
  <1>4. <<d>> # p => (Coming(d) => Coming(d)')
    BY <1>1, <1>2, <1>i DEF Coming, ToVisit
  \* p is none of the paths of d, or nothing changes for it
  <1>5. ASSUME <<d>> # p, Sub(<<d>>) \subseteq owed => Sub(<<d>>) \subseteq owed',
               <<d>> \in owed => <<d>> \in owed', row'[<<d>>] = row[<<d>>], Live(<<d>>) => Live(<<d>>)'
        PROVE  ArmC(d)' /\ MapC(d)'
    BY <1>1, <1>2, <1>3, <1>4, <1>5, <1>i DEF DirC, ArmC, MapC
  <1>6. ASSUME <<d>> # p, NEW f, FileHere(d, f), <<d, f>> # p, <<d, f>> \in owed => <<d, f>> \in owed',
               row'[<<d, f>>] = row[<<d, f>>], Live(<<d, f>>) => Live(<<d, f>>)'
        PROVE  FileC(d, f)'
    <2>1. FileC(d, f)
      BY <1>3, <1>6 DEF DirC
    <2> QED BY <1>1, <1>2, <1>4, <1>6, <1>i, <2>1 DEF FileC
  <1>7. ASSUME <<d>> # p, \A f : FileHere(d, f) => <<d, f>> # p,
               Sub(<<d>>) \subseteq owed => Sub(<<d>>) \subseteq owed',
               \A q \in Paths : q # p => row'[q] = row[q] /\ (q \in owed => q \in owed'),
               live \subseteq live'
        PROVE  DirC(d)'
    <2>1. \A q : Live(q) => Live(q)'
      BY <1>2, <1>7 DEF Live
    <2>2. ArmC(d)' /\ MapC(d)'
      BY <1>5, <1>7, <1>h, <2>1
    <2>3. ASSUME NEW f, FileHere(d, f)' PROVE FileC(d, f)'
      BY <1>6, <1>7, <1>h, <2>1, <2>3
    <2> QED BY <2>2, <2>3 DEF DirC
  <1>8. ASSUME ~Exists(p) \/ ~Indexable(p), Less({p}) \/ UNCHANGED <<row, owed>>, live' = live PROVE DirC(d)'
    <2>1. <<d>> # p /\ \A f : FileHere(d, f) => <<d, f>> # p
      BY <1>8, <1>h
    <2>2. Sub(<<d>>) \subseteq owed => Sub(<<d>>) \subseteq owed'
      BY <1>3, <1>8 DEF Less
    <2>3. \A q \in Paths : q # p => row'[q] = row[q] /\ (q \in owed => q \in owed')
      BY <1>8 DEF Less
    <2> QED BY <1>7, <1>8, <2>1, <2>2, <2>3
  <1>t. row \in [Paths -> Metas \cup {NoRow}] /\ live \subseteq Paths
    BY TreeTypes
  <1>9. ASSUME NEW e \in DirNames, p = <<e>>, MapDir(p) PROVE DirC(d)'
    <2>1. \/ Less({p}) /\ (~Exists(p) \/ ~Indexable(p)) /\ live' = live
          \/ Made(p, <<0, 0>>) /\ cur' = At("arm", p)
          \/ owed' = owed \cup Sub(p) /\ UNCHANGED <<row, live>>
      BY <1>9, <1>m, PathKinds, MapDirCases
    <2>2. CASE e = d
      <3>1. CASE Made(p, <<0, 0>>) /\ cur' = At("arm", p)
        <4>1. row'[<<d>>] = <<0, 0>> /\ Live(<<d>>)'
          BY <1>2, <1>9, <1>h, <1>t, <2>2, <3>1 DEF Made, Live
        <4>2. <<0, 0>> # NoRow
          BY DEF NoRow
        <4> QED BY <1>9, <2>2, <3>1, <4>1, <4>2 DEF DirC, ArmC, MapC, FileC
      <3>2. CASE owed' = owed \cup Sub(p)
        BY <1>9, <1>3, <1>h, <2>2, <3>2, SubFacts DEF DirC, ArmC, MapC, FileC
      <3> QED BY <1>8, <2>1, <3>1, <3>2
    <2>3. CASE e # d
      <3>1. <<d>> # p /\ \A f : FileHere(d, f) => <<d, f>> # p
        BY <1>9, <1>h, <2>3, PathsApart
      <3>2. CASE Made(p, <<0, 0>>) /\ cur' = At("arm", p)
        <4>1. \A q \in Paths : q # p => row'[q] = row[q] /\ (q \in owed => q \in owed')
          BY <1>t, <3>2 DEF Made
        <4>2. Sub(<<d>>) \subseteq owed => Sub(<<d>>) \subseteq owed'
          BY <1>3, <3>1, <3>2 DEF Made
        <4>3. live \subseteq live'
          BY <3>2 DEF Made
        <4> QED BY <1>7, <3>1, <4>1, <4>2, <4>3
      <3>3. CASE owed' = owed \cup Sub(p) /\ UNCHANGED <<row, live>>
        BY <1>7, <3>1, <3>3
      <3> QED BY <1>8, <2>1, <3>2, <3>3
    <2> QED BY <2>2, <2>3
  <1>10. ASSUME p \in Files, MapFile(p) PROVE DirC(d)'
    <2>1. \/ Less({p}) /\ (~Exists(p) \/ ~Indexable(p)) /\ live' = live
          \/ Made(p, Meta(Stat(p)))
          \/ owed' = owed \cup {p} /\ UNCHANGED <<row, live>>
      BY <1>10, <1>m, MapFileCases
    <2>2. <<d>> # p
      BY <1>3, <1>10, PathKinds
    <2>3. CASE Made(p, Meta(Stat(p)))
      <3>1. \A q \in Paths : q # p => row'[q] = row[q] /\ (q \in owed => q \in owed')
        BY <1>t, <2>3 DEF Made
      <3>2. Sub(<<d>>) \subseteq owed => Sub(<<d>>) \subseteq owed'
        BY <1>3, <2>2, <2>3 DEF Made
      <3>3. \A q : Live(q) => Live(q)'
        BY <1>2, <2>3 DEF Made, Live
      <3>4. ArmC(d)' /\ MapC(d)'
        BY <1>5, <1>h, <2>2, <3>1, <3>2, <3>3
      <3>5. ASSUME NEW f, FileHere(d, f), <<d, f>> = p PROVE FileC(d, f)'
        <4>1. row'[p] = Meta(Stat(p)) /\ Live(p)' /\ Stat(p) = file[at[d]][f]
          BY <1>2, <1>h, <1>t, <2>3, <3>5 DEF Made, Live
        <4>2. Coming(d) \/ wds[at[d]] = <<d>>
          <5>1. ArmedAt(d)
            <6>1. p[1] = d
              BY <3>5
            <6> QED BY <1>1, <1>2, <1>10, <1>m, <6>1 DEF FrameOK
          <5> QED BY <1>1, <1>3, <1>m, <5>1, ArmedComes DEF QueueOK, Calm
        <4> QED BY <1>1, <1>4, <2>2, <3>5, <4>1, <4>2 DEF FileC
      <3>6. ASSUME NEW f, FileHere(d, f)' PROVE FileC(d, f)'
        BY <1>6, <1>h, <2>2, <3>1, <3>3, <3>5, <3>6
      <3> QED BY <3>4, <3>6 DEF DirC
    <2>4. CASE owed' = owed \cup {p} /\ UNCHANGED <<row, live>>
      <3>1. \A q : Live(q) => Live(q)'
        BY <1>2, <2>4 DEF Live
      <3>2. ArmC(d)' /\ MapC(d)'
        BY <1>5, <1>h, <2>2, <2>4, <3>1
      <3>3. ASSUME NEW f, FileHere(d, f), <<d, f>> = p PROVE FileC(d, f)'
        BY <2>4, <3>3 DEF FileC
      <3>4. ASSUME NEW f, FileHere(d, f)' PROVE FileC(d, f)'
        BY <1>6, <1>h, <2>2, <2>4, <3>1, <3>3, <3>4
      <3> QED BY <3>2, <3>4 DEF DirC
    <2> QED BY <1>8, <2>1, <2>3, <2>4
  <1> QED BY <1>2, <1>8, <1>9, <1>10

\* set_fts pays a debt only where what was read is the row's file, still
\* watched.
LEMMA CoverText ==
    ASSUME Typed, ControlOK, MapOK, SetText \/ ReVec \/ Embed
    PROVE  CoverOK'
  <1> SUFFICES ASSUME Calm', NEW d, DirHere(d)' PROVE DirC(d)'
    BY CoverParts
  <1>1. Calm /\ Claim /\ UNCHANGED <<at, file, queue, wds>>
    BY Keeps DEF Calm
  <1>2. Texted(cur.path)
    BY TextCases
  <1>3. d \in DirNames /\ DirHere(d) /\ DirC(d) /\ at[d] # "none"
    BY <1>1, CoverParts DEF DirHere, MapOK
  <1>4. \A k \in {"arm", "read"} : \A q : cur # At(k, q)
    BY <1>2, OpFacts DEF Texted
  <1>5. Coming(d) => Coming(d)'
    BY <1>1, <1>2, <1>4 DEF Texted, Coming, ToVisit
  <1>6. \A q : (Live(q) => Live(q)') /\ row' = row /\ (InFrames(frames, q) => InFrames(frames', q))
    BY <1>2 DEF Texted, Live
  <1>7. ArmC(d)'
    <2>1. Sub(<<d>>) \subseteq owed => Sub(<<d>>) \subseteq owed'
      BY <1>2, <1>3 DEF Texted
    <2> QED BY <1>1, <1>3, <1>4, <1>5, <2>1 DEF DirC, ArmC
  <1>8. MapC(d)'
    <2>1. <<d>> # cur.path
      BY <1>2, <1>3, PathKinds DEF Texted
    <2>2. <<d>> \in owed => <<d>> \in owed'
      BY <1>2, <2>1 DEF Texted
    <2> QED BY <1>3, <1>5, <1>6, <2>2 DEF DirC, MapC
  <1>9. ASSUME NEW f, FileHere(d, f)' PROVE FileC(d, f)'
    <2>0. FileHere(d, f)
      BY <1>1, <1>9 DEF FileHere, DirHere
    <2>1. FileC(d, f)
      BY <1>3, <2>0 DEF DirC
    <2>2. CASE <<d, f>> \in owed => <<d, f>> \in owed'
      BY <1>1, <1>4, <1>5, <1>6, <2>1, <2>2 DEF FileC
    <2>3. CASE <<d, f>> \in owed /\ <<d, f>> \notin owed'
      <3>1. cur.path = <<d, f>> /\ cur.op = "text" /\ Read(<<d, f>>)
        BY <1>2, <2>3 DEF Texted
      <3>2. Backed(<<d, f>>) /\ Live(<<d, f>>)
        BY <1>1, <3>1 DEF RowOK, MapOK
      <3>3. Coming(d) \/ wds[at[d]] = <<d>>
        BY <1>1, <1>3, <2>0, <3>2, ArmedComes DEF FileHere, QueueOK, MapOK, Calm, Claim
      <3>4. row[<<d, f>>] = Meta(file[at[d]][f])
        BY <2>0, <3>1, HereExists DEF Read
      <3> QED BY <1>1, <1>5, <1>6, <3>2, <3>3, <3>4 DEF FileC
    <2> QED BY <2>2, <2>3
  <1> QED BY <1>7, <1>8, <1>9 DEF DirC

\* prune_absent spares what the walk met.
LEMMA CoverPrune ==
    ASSUME Typed, ControlOK, MapOK, Prune
    PROVE  CoverOK'
  <1> SUFFICES ASSUME Calm', NEW d, DirHere(d)' PROVE DirC(d)'
    BY CoverParts
  <1> DEFINE Stale == {p \in Paths : row[p] # NoRow /\ p \notin live}
  <1>1. Calm /\ UNCHANGED <<at, file, queue, wds>>
    BY Keeps
  <1>2. full /\ ~full' /\ cur = Idle /\ cur' = Idle /\ frames = <<>> /\ frames' = <<>> /\ Less(Stale)
    BY PruneCases
  <1>3. d \in DirNames /\ DirHere(d) /\ DirC(d) /\ <<d>> \in Paths /\ Exists(<<d>>) /\ Indexable(<<d>>)
    BY <1>1, CoverParts, HereExists DEF DirHere, MapOK
  <1>4. Coming(d) => Coming(d)'
    BY <1>1, <1>2 DEF Coming, ToVisit
  <1>5. ASSUME NEW q \in Paths, Exists(q), Indexable(q)
        PROVE  /\ q \in owed => q \in owed'
               /\ row[q] # NoRow /\ Live(q) => row'[q] = row[q] /\ Live(q)'
    BY <1>2, <1>5 DEF Less, Live
  <1> HIDE DEF Stale
  <1>6. ArmC(d)'
    <2>1. Sub(<<d>>) \subseteq owed => Sub(<<d>>) \subseteq owed'
      BY <1>2, <1>3 DEF Less
    <2> QED BY <1>1, <1>2, <1>3, <1>4, <2>1 DEF DirC, ArmC
  <1>7. MapC(d)'
    BY <1>3, <1>4, <1>5 DEF DirC, MapC
  <1>8. ASSUME NEW f, FileHere(d, f)' PROVE FileC(d, f)'
    <2>0. FileHere(d, f)
      BY <1>1, <1>8 DEF FileHere, DirHere
    <2>1. FileC(d, f)
      BY <1>3, <2>0 DEF DirC
    <2>2. <<d, f>> \in Paths /\ Exists(<<d, f>>) /\ Indexable(<<d, f>>)
      BY <2>0, HereExists
    <2>3. Meta(file[at[d]][f]) # NoRow
      BY MetaFields
    <2> QED BY <1>1, <1>2, <1>4, <1>5, <2>1, <2>2, <2>3 DEF FileC
  <1> QED BY <1>6, <1>7, <1>8 DEF DirC

\* Without renames no directory reports its own end before its parent does
LEMMA NoSelfGone ==
    ASSUME Typed, TreeOK, QueueOK, ApplyEvent, Calm'
    PROVE  \A d \in DirNames : ~OnSelfGone(Head(queue), d)
  <1> DEFINE e == Head(queue)
  <1>1. Good' /\ ~full' /\ ~moved'
    <2>1. Good'
      BY DEF Calm, Claim
    <2> QED BY <2>1, ApplyFacts DEF Calm
  <1>2. /\ Calm /\ Good /\ ~full /\ ~moved /\ lost = {}
        /\ queue \in Seq(Events) /\ queue # <<>> /\ e \in Events
    <2>1. (Calm' => Calm) /\ Good /\ ~full /\ queue \in Seq(Events) /\ queue # <<>> /\ e \in Events
      BY <1>1, ApplyFacts
    <2> QED BY <2>1 DEF Calm, Claim
  <1>3. StillOK
    BY <1>2 DEF QueueOK
  <1>4. \A i, d : e.wd = i /\ e.what = "delete_self" => Bare(queue, i, d)
    BY <1>2, TailLast
  <1>5. e.what \notin Renames
    BY <1>2, <1>3, TailHas DEF StillOK
  <1>6. ASSUME NEW d \in DirNames, OnSelfGone(e, d) PROVE FALSE
    <2>1. e.wd \in Inos /\ wds[e.wd] = <<d>> /\ e.what \in {"delete_self", "move_self"}
      BY <1>6 DEF OnSelfGone
    <2>2. e.what = "delete_self"
      BY <1>5, <2>1, KindsApart
    <2>3. ~Bare(queue, e.wd, d)
      BY <1>2, <1>3, <2>1 DEF StillOK
    <2> QED BY <1>4, <2>2, <2>3
  <1> QED BY <1>6

\* apply_event: what an event retracts and is there again has its event to
\* come.
LEMMA CoverApply ==
    ASSUME Typed, ControlOK, MapOK, ApplyEvent
    PROVE  CoverOK'
  <1> SUFFICES ASSUME Calm', NEW d, DirHere(d)' PROVE DirC(d)'
    BY CoverParts
  <1> DEFINE e == Head(queue)
  <1>m. TreeOK /\ QueueOK /\ OwedOK
    BY DEF MapOK, ControlOK
  <1>g. Good'
    BY DEF Calm, Claim
  <1>1. /\ Calm /\ Good /\ ~full /\ ~full' /\ cur = Idle /\ frames = <<>> /\ frames' = <<>> /\ lost = {} /\ ~moved
        /\ UNCHANGED <<at, file, watched>>
        /\ e \in Events /\ queue \in Seq(Events) /\ queue # <<>> /\ queue' = Tail(queue)
    <2>1. /\ (Calm' => Calm) /\ Good /\ ~full /\ ~full' /\ cur = Idle /\ frames = <<>> /\ frames' = <<>>
          /\ UNCHANGED <<at, file, watched>>
          /\ e \in Events /\ queue \in Seq(Events) /\ queue # <<>> /\ queue' = Tail(queue)
      BY <1>g, <1>m, ApplyFacts
    <2> QED BY <2>1 DEF Calm, Claim
  <1>2. HeardOK /\ StillOK /\ AgainOK /\ WatchOK
    BY <1>1, <1>m DEF QueueOK
  <1>3. /\ d \in DirNames /\ DirHere(d) /\ DirC(d) /\ at[d] # "none" /\ at[d] \in Inos /\ Placed(at[d])
        /\ <<d>> \in Paths /\ Exists(<<d>>) /\ Indexable(<<d>>)
    BY <1>1, CoverParts, HereExists, TreeTypes DEF DirHere, MapOK, Placed
  <1>n. \A x \in DirNames : ~OnSelfGone(e, x)
    BY <1>m, NoSelfGone
  <1>4. /\ Coming(d) => Born(queue, d)
        /\ Born(queue', d) => Coming(d)'
    BY <1>1, CurKinds, NoFrames DEF Coming, ToVisit
  <1>t. row \in [Paths -> Metas \cup {NoRow}]
    BY TreeTypes
  <1>l. \A q : Live(q) /\ Live(q)'
    BY <1>1 DEF Live
  <1>i. \A k \in {"arm", "read"} : \A q : At(k, q) # Idle
    BY OpFacts
  <1>e. /\ Born(queue, d) => Born(queue', d) \/ OnDirThere(e, d)
        /\ wds[at[d]] = <<d>> =>
              /\ wds'[at[d]] = <<d>> \/ OnDirGone(e, d)
              /\ \A f \in FileNames :
                    /\ DropFile(queue, at[d], f) => DropFile(queue', at[d], f) \/ OnFileGone(e, d, f)
                    /\ Touched(queue, at[d], f) => Touched(queue', at[d], f) \/ OnFileThere(e, d, f)
    BY <1>3, <1>g, <1>m, <1>n, ApplyKeeps
  <1>h. \A f : FileHere(d, f)' =>
           /\ FileHere(d, f) /\ f \in FileNames /\ <<d, f>> \in Files /\ <<d, f>> \in Paths
           /\ Exists(<<d, f>>) /\ Indexable(<<d, f>>) /\ Stat(<<d, f>>) = file[at[d]][f]
    BY <1>1, HereExists DEF FileHere, DirHere
  <1>q. DropDir(queue, d) => Born(queue, d)
    BY <1>1, <1>2, <1>3 DEF StillOK
  <1>5. CASE OnDirGone(e, d)
    <2>1. Match(e, "root", DirGone, d)
      BY <1>5, EvFields DEF OnDirGone, Match
    <2>2. DropDir(queue, d)
      BY <1>1, <2>1, TailHas DEF DropDir
    <2>3. ~OnDirThere(e, d)
      BY <1>5, KindsApart DEF OnDirGone, OnDirThere
    <2> QED BY <1>4, <1>e, <1>q, <2>2, <2>3 DEF DirC, ArmC, MapC, FileC
  <1>6. CASE OnDirThere(e, d)
    <2>1. MapDir(<<d>>) /\ <<d>> \in DirPaths
      BY <1>6, PathKinds DEF OnDirThere
    <2>2. \/ Made(<<d>>, <<0, 0>>) /\ cur' = At("arm", <<d>>)
          \/ owed' = owed \cup Sub(<<d>>)
      BY <1>3, <1>m, <2>1, MapDirCases
    <2>3. CASE Made(<<d>>, <<0, 0>>) /\ cur' = At("arm", <<d>>)
      <3>1. row'[<<d>>] = <<0, 0>> /\ <<0, 0>> # NoRow
        BY <1>3, <1>t, <2>3 DEF Made, NoRow
      <3> QED BY <1>l, <2>3, <3>1 DEF DirC, ArmC, MapC, FileC
    <2>4. CASE owed' = owed \cup Sub(<<d>>)
      BY <1>3, <1>h, <2>4, SubFacts DEF DirC, ArmC, MapC, FileC
    <2> QED BY <2>2, <2>3, <2>4
  <1>7. ASSUME ~OnDirGone(e, d), ~OnDirThere(e, d) PROVE DirC(d)'
    <2>1. /\ Coming(d) => Coming(d)'
          /\ wds[at[d]] = <<d>> => wds'[at[d]] = <<d>>
      BY <1>4, <1>7, <1>e
    <2>2. \/ UNCHANGED <<row, owed>>
          \/ \E x \in DirNames : x # d /\ Less(Sub(<<x>>))
          \/ \E x \in DirNames, g \in FileNames : Less({<<x, g>>}) /\ OnFileGone(e, x, g)
          \/ \E x \in DirNames : x # d /\ MapDir(<<x>>)
          \/ \E x \in DirNames, g \in FileNames : MapFile(<<x, g>>) /\ OnFileThere(e, x, g)
      BY <1>7, <1>g, <1>m, <1>n, ApplyKinds DEF OnNothing, OnIgnored, KeepIndex, indexVars, ghostVars
    <2> HIDE DEF e
    \* Each event leaves the debts of d, and its rows but that of the file it is of
    <2> DEFINE Kept(p) == (p \in owed => p \in owed') /\ (row'[p] = row[p] \/ p \in owed')
               Rest == /\ Sub(<<d>>) \subseteq owed => Sub(<<d>>) \subseteq owed'
                       /\ Kept(<<d>>)
                       /\ \A f : FileHere(d, f) /\ ~OnFileGone(e, d, f) /\ ~OnFileThere(e, d, f) => Kept(<<d, f>>)
    <2>h. \A f : FileHere(d, f) => /\ f \in FileNames /\ <<d, f>> \in Files /\ <<d, f>> \in Paths
                                   /\ Exists(<<d, f>>) /\ Indexable(<<d, f>>) /\ Stat(<<d, f>>) = file[at[d]][f]
      BY HereExists
    <2>3. Rest
      <3>1. ASSUME NEW S \in SUBSET Paths, Less(S), <<d>> \notin S,
                   \A f : FileHere(d, f) /\ ~OnFileGone(e, d, f) => <<d, f>> \notin S
            PROVE  Rest
        BY <1>3, <2>h, <3>1 DEF Less
      <3>2. ASSUME NEW x \in DirNames, x # d, Less(Sub(<<x>>)) PROVE Rest
        <4>1. Sub(<<x>>) \in SUBSET Paths /\ <<d>> \notin Sub(<<x>>)
          BY <1>3, <3>2, SubFacts
        <4>2. \A f : FileHere(d, f) => <<d, f>> \notin Sub(<<x>>)
          <5>1. \A f : <<d, f>>[1] = d
            OBVIOUS
          <5> QED BY <2>h, <3>2, <5>1, SubFacts
        <4> QED BY <3>1, <3>2, <4>1, <4>2
      <3>3. ASSUME NEW x \in DirNames, NEW g \in FileNames, Less({<<x, g>>}), OnFileGone(e, x, g) PROVE Rest
        <4>1. {<<x, g>>} \in SUBSET Paths /\ <<d>> \notin {<<x, g>>}
          BY <1>3, PathsApart, PathKinds
        <4>2. \A f : FileHere(d, f) /\ ~OnFileGone(e, d, f) => <<d, f>> \notin {<<x, g>>}
          BY <3>3, PathsApart
        <4> HIDE DEF Rest
        <4> QED BY <3>1, <3>3, <4>1, <4>2
      <3>4. ASSUME NEW p, NEW m, Made(p, m), <<d>> # p,
                   \A f : FileHere(d, f) /\ ~OnFileThere(e, d, f) => <<d, f>> # p
            PROVE  Rest
        BY <1>3, <1>t, <2>h, <3>4 DEF Made
      <3>5. ASSUME owed \subseteq owed', row' = row PROVE Rest
        BY <3>5
      <3>6. ASSUME NEW x \in DirNames, x # d, MapDir(<<x>>) PROVE Rest
        <4>0. <<x>> \in DirPaths /\ <<d>> # <<x>> /\ {<<x>>} \in SUBSET Paths
              /\ \A f : FileHere(d, f) => <<d, f>> # <<x>>
          BY <3>6, <2>h, PathsApart, PathKinds
        <4>1. \/ Less({<<x>>}) \/ Made(<<x>>, <<0, 0>>)
              \/ owed' = owed \cup Sub(<<x>>) /\ UNCHANGED <<row, live>>
          BY <1>m, <3>6, <4>0, MapDirCases
        <4> HIDE DEF Rest
        <4> QED BY <3>1, <3>4, <3>5, <4>0, <4>1
      <3>7. ASSUME NEW x \in DirNames, NEW g \in FileNames, MapFile(<<x, g>>), OnFileThere(e, x, g) PROVE Rest
        <4>0. <<x, g>> \in Files /\ <<d>> # <<x, g>> /\ {<<x, g>>} \in SUBSET Paths
              /\ \A f : FileHere(d, f) /\ ~OnFileThere(e, d, f) => <<d, f>> # <<x, g>>
          BY <1>3, <3>7, PathsApart, PathKinds
        <4>1. \/ Less({<<x, g>>}) /\ (~Exists(<<x, g>>) \/ ~Indexable(<<x, g>>))
              \/ Made(<<x, g>>, Meta(Stat(<<x, g>>)))
              \/ owed' = owed \cup {<<x, g>>} /\ UNCHANGED <<row, live>>
          BY <1>m, <3>7, <4>0, MapFileCases
        <4>2. ~Exists(<<x, g>>) \/ ~Indexable(<<x, g>>) => \A f : FileHere(d, f) => <<d, f>> # <<x, g>>
          BY <2>h
        <4> HIDE DEF Rest
        <4> QED BY <3>1, <3>4, <3>5, <4>0, <4>1, <4>2
      <3> HIDE DEF Rest
      <3> QED BY <2>2, <3>2, <3>3, <3>5, <3>6, <3>7
    <2>4. ArmC(d)'
      BY <1>1, <1>3, <1>i, <2>1, <2>3 DEF DirC, ArmC
    <2>5. MapC(d)'
      BY <1>3, <1>l, <2>1, <2>3 DEF DirC, MapC
    <2>6. ASSUME NEW f, FileHere(d, f)' PROVE FileC(d, f)'
      <3>0. FileHere(d, f)
        BY <1>h, <2>6
      <3>1. FileC(d, f)
        BY <1>3, <3>0 DEF DirC
      <3>n. ~InFrames(frames, <<d, f>>) /\ cur \notin {At("arm", <<d>>), At("read", <<d>>)}
        BY <1>1, <1>i, NoFrames
      \* A file's event comes of its directory, or of one that made way for it
      <3>w. ASSUME NEW g, e = Ev(e.wd, e.what, g), e.wd \in Inos, wds[e.wd] = <<d>>
            PROVE  Coming(d)' \/ (e.wd = at[d] /\ e.wd \in watched)
        <4>1. HeardIn(queue, e.wd)
          BY <1>1, TailHas DEF e
        <4>2. wds[e.wd] # NoPath
          BY <1>3, <3>w, TreeTypes
        <4>3. PICK x \in DirNames : wds[e.wd] = <<x>> /\ (at[x] = e.wd \/ DropDir(queue, x))
          BY <1>1, <1>2, <3>w, <4>1, <4>2 DEF WatchOK
        <4>4. x = d
          BY <3>w, <4>3, TreeTypes
        <4>5. CASE at[d] = e.wd
          BY <1>2, <1>3, <3>w, <4>1, <4>5 DEF HeardOK, AllInos
        <4>6. CASE DropDir(queue, d)
          <5>1. Born(queue', d) \/ OnDirThere(e, d)
            BY <1>e, <1>q, <4>6 DEF e
          <5> QED BY <1>4, <1>7, <5>1
        <4> QED BY <4>3, <4>4, <4>5, <4>6
      <3>2. CASE OnFileThere(e, d, f)
        <4>1. MapFile(<<d, f>>) /\ <<d, f>> \in Files
          BY <1>h, <2>6, <3>2 DEF OnFileThere
        <4>2. \/ Made(<<d, f>>, Meta(Stat(<<d, f>>)))
              \/ owed' = owed \cup {<<d, f>>}
          BY <1>h, <1>m, <2>6, <4>1, MapFileCases
        <4>3. ASSUME Made(<<d, f>>, Meta(Stat(<<d, f>>)))
              PROVE  row'[<<d, f>>] = Meta(file[at[d]][f])
          BY <1>h, <1>t, <2>6, <4>3 DEF Made
        <4>4. Coming(d)' \/ wds'[at[d]] = <<d>>
          BY <2>1, <3>2, <3>w DEF OnFileThere
        <4> QED BY <1>1, <1>l, <4>2, <4>3, <4>4 DEF FileC
      <3>3. CASE OnFileGone(e, d, f)
        <4>1. Coming(d)' \/ (e.wd = at[d] /\ e.wd \in watched)
          BY <3>3, <3>w DEF OnFileGone
        <4>2. ASSUME e.wd = at[d], e.wd \in watched PROVE wds'[at[d]] = <<d>> /\ Touched(queue', at[d], f)
          <5>1. wds[at[d]] = <<d>> /\ Match(e, at[d], FileGone, f) /\ f \in FileNames
            BY <3>3, <4>2, EvFields DEF OnFileGone, Match
          <5>2. DropFile(queue, at[d], f)
            BY <1>1, <5>1, TailHas DEF DropFile, e
          <5>3. Touched(queue, at[d], f)
            BY <1>2, <1>3, <3>0, <4>2, <5>1, <5>2 DEF AgainOK, FileHere
          <5>4. ~OnFileThere(e, d, f)
            BY <3>3, KindsApart DEF OnFileGone, OnFileThere
          <5> QED BY <1>e, <2>1, <5>1, <5>3, <5>4 DEF e
        <4> QED BY <1>1, <4>1, <4>2 DEF FileC
      <3>4. CASE ~OnFileThere(e, d, f) /\ ~OnFileGone(e, d, f)
        <4>1. /\ <<d, f>> \in owed => <<d, f>> \in owed'
              /\ row'[<<d, f>>] = row[<<d, f>>] \/ <<d, f>> \in owed'
          BY <2>3, <3>0, <3>4
        <4>2. wds[at[d]] = <<d>> /\ Touched(queue, at[d], f) => Touched(queue', at[d], f)
          BY <1>e, <1>h, <2>6, <3>4 DEF e
        <4> QED BY <1>1, <1>l, <2>1, <3>1, <3>n, <4>1, <4>2 DEF FileC
      <3> QED BY <3>2, <3>3, <3>4
    <2> QED BY <2>4, <2>5, <2>6 DEF DirC
  <1> QED BY <1>5, <1>6, <1>7

\* Every step keeps what is there mapped, owed or to come.
LEMMA CoverStep ==
    ASSUME Typed, ControlOK, MapOK, [SwampNext]_swampVars
    PROVE  CoverOK'
  <1>1. CASE Boot
    BY <1>1, BootState, CoverFresh
  <1>2. CASE Drained
    <2>1. CASE Resumed
      BY <2>1, CoverFresh DEF Resumed
    <2>2. CASE UNCHANGED <<at, file, queue, row, owed, wds, full, live, frames, cur>> /\ (Calm' => Calm)
      BY <2>2 DEF MapOK, CoverOK, ArmedOK, MappedOK, FilesOK, DirHere, FileHere, Coming, ToVisit, Live
    <2> QED BY <1>2, <2>1, <2>2, DrainedCases
  <1>3. CASE WalkRoot
    BY <1>3, WalkRootCases, CoverFresh
  <1>4. CASE UNCHANGED swampVars
    <2>1. UNCHANGED <<at, file, queue, row, owed, wds, full, live, frames, cur>> /\ (Calm' => Calm)
      BY <1>4, Keeps DEF swampVars, daemonVars, indexVars, ghostVars
    <2> QED BY <2>1 DEF MapOK, CoverOK, ArmedOK, MappedOK, FilesOK, DirHere, FileHere, Coming, ToVisit, Live
  <1> QED BY <1>1, <1>2, <1>3, <1>4, CoverArm, CoverRead, CoverVisit, CoverText, CoverPrune, CoverApply, UserMap,
             QueueCrash DEF SwampNext, Daemon

---------------------------------------------------------------------------
(* The root's own row *)

RootRow ==
    /\ Root \in live => row[Root] # NoRow
    /\ up = "serving" /\ ~full => Root \in owed \/ row[Root] # NoRow

\* The root is mapped once a walk began, or everything is owed.
LEMMA RootRowStep ==
    ASSUME Typed, ControlOK, RootRow, [SwampNext]_swampVars
    PROVE  RootRow'
  <1>c. OwedOK /\ RowsOK
    BY DEF ControlOK
  <1>t. /\ row \in [Paths -> Metas \cup {NoRow}] /\ Root \in Paths
        /\ \A d \in DirNames : <<d>> # Root /\ <<d>> \in DirPaths
        /\ \A p \in Files : p # Root /\ p \in Paths
    BY TreeTypes, PathKinds DEF Paths
  <1>k. ASSUME row'[Root] = row[Root], Root \in owed => Root \in owed', Root \in live' => Root \in live,
               up' = up, full' = full
        PROVE  RootRow'
    BY <1>k DEF RootRow
  <1>1. CASE Boot
    BY <1>1, BootState DEF RootRow
  <1>2. CASE Drained
    <2>1. CASE Resumed
      BY <2>1 DEF Resumed, RootRow
    <2> QED BY <1>2, <1>k, <2>1, DrainedCases
  <1>3. CASE WalkRoot
    <2>1. /\ full /\ full' = full /\ live = {}
          /\ \/ Made(Root, <<0, 0>>)
             \/ owed' = Paths /\ UNCHANGED <<row, live>>
      BY <1>3, WalkRootCases
    <2>2. <<0, 0>> # NoRow
      BY DEF NoRow
    <2> QED BY <1>t, <2>1, <2>2 DEF Made, RootRow
  <1>4. CASE ArmDir
    BY <1>4, <1>k, ArmCases DEF indexVars, ghostVars
  <1>5. CASE ReadDir
    <2>1. up' = up
      BY <1>5 DEF ReadDir
    <2> QED BY <1>5, <1>k, <2>1, ReadCases
  <1>l. ASSUME NEW S, Less(S), Root \notin S, live' = live, up' = up, full' = full PROVE RootRow'
    BY <1>k, <1>l, <1>t DEF Less
  <1>d. ASSUME NEW p \in DirPaths, p # Root, MapDir(p), up' = up, full' = full PROVE RootRow'
    <2>1. \/ Less({p}) /\ live' = live
          \/ Made(p, <<0, 0>>)
          \/ owed' = owed \cup Sub(p) /\ UNCHANGED <<row, live>>
      BY <1>c, <1>d, MapDirCases
    <2>2. CASE Made(p, <<0, 0>>)
      BY <1>d, <1>k, <1>t, <2>2 DEF Made
    <2>3. CASE owed' = owed \cup Sub(p) /\ UNCHANGED <<row, live>>
      BY <1>d, <1>k, <2>3
    <2> QED BY <1>d, <1>l, <2>1, <2>2, <2>3
  <1>f. ASSUME NEW p \in Files, MapFile(p), up' = up, full' = full PROVE RootRow'
    <2>1. \/ Less({p}) /\ live' = live
          \/ Made(p, Meta(Stat(p)))
          \/ owed' = owed \cup {p} /\ UNCHANGED <<row, live>>
      BY <1>c, <1>f, MapFileCases
    <2>2. CASE Made(p, Meta(Stat(p)))
      BY <1>f, <1>k, <1>t, <2>2 DEF Made
    <2>3. CASE owed' = owed \cup {p} /\ UNCHANGED <<row, live>>
      BY <1>f, <1>k, <2>3
    <2> QED BY <1>f, <1>l, <1>t, <2>1, <2>2, <2>3
  <1>6. ASSUME NEW p \in Paths \ {Root}, Visit(p) PROVE RootRow'
    <2>1. up' = up /\ full' = full
      BY <1>6 DEF Visit
    <2>2. \/ UNCHANGED <<row, owed, live>>
          \/ \E d \in DirNames : p = <<d>> /\ MapDir(p)
          \/ p \in Files /\ MapFile(p)
      BY <1>6, VisitCases
    <2> QED BY <1>d, <1>f, <1>k, <1>t, <2>1, <2>2
  <1>7. CASE SetText \/ ReVec \/ Embed
    <2>1. up' = up
      BY <1>7 DEF SetText, ReVec, Embed
    <2> QED BY <1>7, <1>k, <1>t, <2>1, TextCases DEF Texted
  <1>8. CASE Prune
    <2> DEFINE Stale == {p \in Paths : row[p] # NoRow /\ p \notin live}
    <2>1. /\ full /\ ~full' /\ frames = <<>> /\ Less(Stale)
      BY <1>8, PruneCases
    <2>2. live' = {} /\ frames # <<{Root}>>
      BY <1>8, <2>1, RootFrame DEF Prune
    <2>3. Root \in live \cup owed
      BY <2>1, <2>2 DEF ControlOK, WalkOK
    <2>4. CASE Root \in owed
      BY <1>t, <2>1, <2>2, <2>4, RootExists DEF Less, RootRow
    <2>5. CASE Root \in live
      <3>1. Root \notin Stale
        BY <2>5
      <3> QED BY <1>t, <2>1, <2>2, <2>5, <3>1 DEF Less, RootRow
    <2> QED BY <2>3, <2>4, <2>5
  <1>9. CASE ApplyEvent
    <2>1. up' = up /\ full' = full
      BY <1>9, ApplyCases DEF Applied
    <2>2. \/ UNCHANGED <<row, owed, live>>
          \/ \E d \in DirNames : Retract(Sub(<<d>>)) /\ live' = live
          \/ \E d \in DirNames, f \in FileNames : Retract({<<d, f>>}) /\ live' = live
          \/ \E d \in DirNames : MapDir(<<d>>)
          \/ \E d \in DirNames, f \in FileNames : MapFile(<<d, f>>)
      BY <1>9, ApplyCases DEF OnNothing, OnIgnored, OnSelfGone, OnDirGone, OnFileGone, OnDirThere, OnFileThere,
         KeepIndex, indexVars, ghostVars
    <2>3. ASSUME NEW d \in DirNames, Retract(Sub(<<d>>)), live' = live PROVE RootRow'
      <3>1. Sub(<<d>>) \in SUBSET Paths /\ Root \notin Sub(<<d>>)
        BY SubFacts
      <3> QED BY <1>l, <2>1, <2>3, <3>1, RetractLess
    <2>4. ASSUME NEW d \in DirNames, NEW f \in FileNames, Retract({<<d, f>>}), live' = live PROVE RootRow'
      <3>1. {<<d, f>>} \in SUBSET Paths /\ Root \notin {<<d, f>>}
        BY <1>t, PathKinds
      <3> QED BY <1>l, <2>1, <2>4, <3>1, RetractLess
    <2>5. ASSUME NEW d \in DirNames, MapDir(<<d>>) PROVE RootRow'
      BY <1>d, <1>t, <2>1, <2>5
    <2>6. ASSUME NEW d \in DirNames, NEW f \in FileNames, MapFile(<<d, f>>) PROVE RootRow'
      BY <1>f, <2>1, <2>6, PathKinds
    <2> QED BY <1>k, <2>1, <2>2, <2>3, <2>4, <2>5, <2>6
  <1>10. CASE User \/ UNCHANGED swampVars
    BY <1>10, <1>k DEF User, swampVars, daemonVars, indexVars, ghostVars
  <1>11. CASE Crash
    BY <1>11 DEF Crash, RootRow
  <1> QED BY <1>1, <1>2, <1>3, <1>4, <1>5, <1>6, <1>7, <1>8, <1>9, <1>10, <1>11 DEF SwampNext, Daemon

---------------------------------------------------------------------------
(* What holds at rest *)

\* The inductive invariant
SwampInv == Typed /\ ControlOK /\ TextsOK /\ MapOK /\ RootRow

\* The invariant holds at first start: a daemon that is down claims nothing.
LEMMA SwampInvInit == SwampInit => SwampInv
  <1> SUFFICES ASSUME SwampInit PROVE SwampInv
    OBVIOUS
  <1>1. ~Good /\ up = "down" /\ live = {}
    BY DEF SwampInit, Good
  <1>2. MapOK
    BY <1>1, TreeInit DEF MapOK, QueueOK, RootOK, FrameOK, RowOK, CoverOK, Calm, Claim
  <1>3. RootRow
    BY <1>1 DEF RootRow
  <1> QED BY <1>2, <1>3, TypedInit, ControlInit, TextsInit DEF SwampInv

\* Every step keeps it.
LEMMA SwampInvStep == SwampInv /\ [SwampNext]_swampVars => SwampInv'
  <1> SUFFICES ASSUME SwampInv, [SwampNext]_swampVars PROVE SwampInv'
    OBVIOUS
  <1>1. Typed /\ ControlOK /\ TextsOK /\ MapOK /\ RootRow /\ TreeOK
    BY DEF SwampInv, MapOK
  <1>2. MapOK'
    BY <1>1, TreeStep, QueueStep, RootStep, FrameStep, RowStep, CoverStep DEF MapOK
  <1> QED BY <1>1, <1>2, TypedStep, ControlStep, TextsStep, RootRowStep DEF SwampInv

\* At rest and FRESH nothing was lost and nothing is pending
LEMMA RestClaims ==
    ASSUME SwampInv, AtRest
    PROVE  /\ Claim /\ (~moved => Calm) /\ queue = <<>> /\ cur = Idle /\ frames = <<>> /\ up = "serving" /\ ~full
           /\ \A p : Live(p)
  <1>1. Quiet /\ fresh /\ lost = {} /\ WalkOK
    BY DEF AtRest, SwampInv, ControlOK
  <1>2. ~degraded /\ NoOver
    BY <1>1, EmptyQueue DEF Quiet, WalkOK, NoOver
  <1> QED BY <1>1, <1>2 DEF Quiet, Good, Claim, Calm, Live

\* At rest no event is pending, so what is mapped is there.
LEMMA RestMapsOnlyTree == ASSUME SwampInv PROVE NothingGone
  <1> SUFFICES ASSUME AtRest, NEW p \in Paths \ owed, row[p] # NoRow \/ fts[p] # "none" \/ vec[p] # "none"
               PROVE  Exists(p) /\ Indexable(p)
    BY DEF NothingGone
  <1>1. row[p] # NoRow
    BY DEF SwampInv, TextsOK, Hung, HangOff
  <1>2. Indexable(p)
    BY <1>1 DEF SwampInv, ControlOK, RowsOK
  <1>3. Backed(p) /\ queue = <<>>
    BY <1>1, RestClaims DEF SwampInv, MapOK, RowOK
  <1>4. CASE p = Root
    BY <1>4, RootExists
  <1>5. ASSUME NEW d \in DirNames, p = <<d>> PROVE Exists(p)
    <2>1. at[d] # "none"
      BY <1>3, <1>5, DirBacked, EmptyQueue
    <2>2. <<d>>[1] = d /\ Len(<<d>>) = 1 /\ <<d>> # Root
      BY PathKinds
    <2> QED BY <1>5, <2>1, <2>2 DEF Exists, DirIno
  <1>6. ASSUME NEW d \in DirNames, NEW f \in FileNames, p = <<d, f>> PROVE Exists(p)
    <2>1. at[d] # "none" /\ file[at[d]][f] # NoFile
      BY <1>3, <1>6, FileBacked, EmptyQueue
    <2>2. <<d, f>>[1] = d /\ <<d, f>>[2] = f /\ Len(<<d, f>>) = 2
      OBVIOUS
    <2> QED BY <1>6, <2>1, <2>2 DEF Exists, Stat
  <1> QED BY <1>2, <1>4, <1>5, <1>6, PathKinds DEF Dirs1

\* And nothing is to come, so what is there is mapped as it is.
LEMMA RestMapsWholeTree == ASSUME SwampInv PROVE FreshMapsAll
  <1> SUFFICES ASSUME AtRest, ~moved, NEW p \in Paths \ owed, Exists(p), Indexable(p)
               PROVE  row[p] # NoRow /\ (Len(p) = 2 => row[p] = Meta(Stat(p)))
    BY DEF FreshMapsAll
  <1>1. /\ Calm /\ queue = <<>> /\ cur = Idle /\ frames = <<>> /\ up = "serving" /\ ~full
    BY RestClaims
  <1>t. Typed
    BY DEF SwampInv
  <1>2. \A d : ~Coming(d)
    BY <1>1, EmptyQueue, NoFrames, CurKinds, RootFrame DEF Coming, ToVisit
  <1>3. \A d : DirHere(d) => DirC(d)
    BY <1>1, CoverParts DEF SwampInv, MapOK
  <1>4. CASE p = Root
    BY <1>1, <1>4, PathKinds DEF SwampInv, RootRow
  <1>5. ASSUME NEW d \in DirNames, p = <<d>> PROVE row[p] # NoRow /\ Len(p) # 2
    <2>1. <<d>>[1] = d /\ <<d>> # Root /\ Len(<<d>>) = 1
      BY PathKinds
    <2>2. DirHere(d)
      BY <1>5, <2>1 DEF DirHere, Exists, Indexable, DirIno
    <2>3. MapC(d)
      BY <1>3, <2>2 DEF DirC
    <2> QED BY <1>2, <1>5, <2>1, <2>3 DEF MapC
  <1>6. ASSUME NEW d \in DirNames, NEW f \in FileNames, p = <<d, f>> PROVE row[p] # NoRow /\ row[p] = Meta(Stat(p))
    <2>1. <<d, f>>[1] = d /\ <<d, f>>[2] = f /\ <<d, f>> # Root
      BY PathKinds
    <2>2. FileHere(d, f) /\ DirHere(d)
      BY <1>6, <2>1, FileBacked DEF FileHere, DirHere, Indexable
    <2>3. FileC(d, f)
      BY <1>3, <2>2 DEF DirC
    <2>4. row[<<d, f>>] = Meta(file[at[d]][f])
      BY <1>1, <1>2, <1>6, <2>3, EmptyQueue, NoFrames, OpFacts DEF FileC
    <2> QED BY <1>6, <1>t, <2>2, <2>4, HereExists, MetaFields
  <1> QED BY <1>4, <1>5, <1>6, PathKinds DEF Dirs1

\* The row is the file's, so its text is.
LEMMA RestTexts == ASSUME SwampInv PROVE TextCurrent
  <1> SUFFICES ASSUME AtRest, ~moved, NEW p \in Files \ owed, row[p] # NoRow
               PROVE  fts[p] = TextOf(Stat(p).content)
    BY DEF TextCurrent
  <1>1. p \in Paths \ owed /\ Len(p) = 2 /\ cur = Idle /\ p[1] \in DirNames /\ p[2] \in FileNames
    BY RestClaims, PathKinds DEF Paths
  <1>2. Exists(p) /\ Indexable(p)
    BY <1>1, RestMapsOnlyTree DEF NothingGone
  <1>3. row[p] = Meta(Stat(p)) /\ Stat(p) # NoFile
    BY <1>1, <1>2, RestMapsWholeTree DEF FreshMapsAll, Exists
  <1>4. at[p[1]] \in Inos /\ Stat(p) = file[at[p[1]]][p[2]]
    BY <1>1, <1>3, TreeTypes DEF SwampInv, Stat
  <1> QED BY <1>1, <1>3, <1>4, OpFacts DEF SwampInv, TextsOK, TextOK

\* And so are its vectors.
LEMMA RestVectors == ASSUME SwampInv PROVE VectorsCurrent
  <1> SUFFICES ASSUME AtRest, ~moved, NEW p \in Files \ (owed \cup lag)
               PROVE  vec[p] \in {"none", TextOf(Stat(p).content)}
    BY DEF VectorsCurrent
  <1>1. cur = Idle /\ p \in Paths
    BY RestClaims DEF Paths
  <1>2. vec[p] \in {"none", fts[p]}
    BY <1>1, OpFacts DEF SwampInv, TextsOK, VecOK
  <1>3. vec[p] # "none" => row[p] # NoRow
    BY <1>1 DEF SwampInv, TextsOK, Hung, HangOff
  <1> QED BY <1>2, <1>3, RestTexts DEF TextCurrent

\* The invariant has the types.
LEMMA InvTypes == SwampInv => SwampTypeOK
  <1> SUFFICES ASSUME SwampInv PROVE SwampTypeOK
    OBVIOUS
  <1>1. TreeTyped /\ KernelTyped /\ IndexTyped /\ DaemonTyped /\ Typed
    BY DEF SwampInv, Typed
  <1>2. \A n \in 1..Len(queue) : queue[n].wd \in AllInos \cup {"none"}
    <2>1. \A n \in 1..Len(queue) : queue[n] \in Events
      BY <1>1 DEF KernelTyped
    <2>2. \A e \in Events : e.wd \in AllInos \cup {"none"}
      BY EvFields DEF Events, AllInos, Overflow
    <2> QED BY <2>1, <2>2
  <1>3. cur.op \in {"none", "arm", "read", "text", "revec", "embed"} /\ (cur # Idle => cur.path \in Paths)
    BY <1>1, StepKinds DEF DaemonTyped, Paths
  <1>4. \A i \in Inos, f \in FileNames :
          \/ file[i][f] = NoFile
          \/ file[i][f] \in [content : Contents, mtime : Nat]
    BY <1>1 DEF TreeTyped, Stats
  <1>5. \A p \in Paths : row[p] = NoRow \/ row[p] \in Nat \X {0, 1}
    BY <1>1 DEF IndexTyped, Metas
  <1> QED BY <1>1, <1>2, <1>3, <1>4, <1>5 DEF SwampTypeOK, TreeTyped, KernelTyped, IndexTyped, DaemonTyped

\* The daemon's variables, the queue and the index keep their types whatever the
\* user, the crawl, the watcher and a crash do.
THEOREM SwampTyped == SwampSpec => []SwampTypeOK
  <1> QED BY SwampInvInit, SwampInvStep, InvTypes, PTL DEF SwampSpec

\* What swampd serves as FRESH is the tree (crawl, apply_one, prune_absent,
\* retract_path, set_fts, enrich_semantic), for every tree, queue length and order
\* of changes and steps: nothing is mapped that is not there, renames included, and
\* without one everything indexable is mapped as it is, with its text and vectors.
THEOREM MapIsSound == SwampSpec => []MapSound
  <1>1. SwampInv => MapSound
    BY RestMapsOnlyTree, RestMapsWholeTree, RestTexts, RestVectors
       DEF MapSound, FreshIsCurrent, SwampInv, TextsOK, Hung
  <1> QED BY <1>1, SwampInvInit, SwampInvStep, PTL DEF SwampSpec
=============================================================================
