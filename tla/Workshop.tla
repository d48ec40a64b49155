------------------------------ MODULE Workshop ------------------------------
(***************************************************************************)
(* `bench promote` records a workshop; `bench workshop launch` derives its *)
(* environment, or takes it from the Tool Shed, and runs a workload in a   *)
(* Bench made for that one run.  The images are dev's own; what one may be *)
(* reused for is in root's index, under a key of what it was derived from. *)
(* A launch is a process, the broker's or root's own, and may be killed.   *)
(***************************************************************************)
EXTENDS Naturals, FiniteSets

CONSTANTS
    Shops,       \* names of workshops
    Packages,
    Processes,   \* that launch workshops: the broker, root's command lines
    Recipes,     \* the sets of packages a recipe may declare
    Seeds,       \* Ids of the seed in the images of the system
    Halls,       \* [serves, recipes, mishaps]: which workshops each process launches, what
                 \* may be promoted, what may fail or happen meanwhile
    MaxMade,     \* bound: images committed, the next fails
    MaxVersion,  \* bound: versions of the packages upstream
    MaxStops     \* bound: kills and reboots

NotThere  == 0
NoSeed    == "noseed"
Mishaps   == {"hash", "load", "evict", "make", "store", "prune", "publish", "kill", "restart"}

ASSUME WorkshopAssumption ==
    /\ Recipes \subseteq SUBSET Packages
    /\ NoSeed \notin Seeds /\ Shops \cap Seeds = {}
    /\ Halls \subseteq [serves : [Processes -> SUBSET Shops], recipes : SUBSET Recipes,
                        mishaps : SUBSET Mishaps]
    /\ MaxMade \in Nat /\ MaxVersion \in Nat \ {0} /\ MaxStops \in Nat

VARIABLES
    hall,
    recipe,    \* per workshop, the set of recipes recorded: none or one
    shipped,   \* the seed in the running image of the system
    loaded,    \* the seed image in dev's store, or NoSeed
    images,    \* dev's images, by tag
    index,     \* the records of the Tool Shed, by key
    maker,     \* per workshop: the derivation container, a set of none or one
    wired,     \* whose derivation container has egress
    wlBench,   \* which ephemeral Benches are there
    launch,    \* per process: the launch it serves
    upstream, made, stops

workshopVars == <<hall, recipe, shipped, loaded, images, index, maker, wired, wlBench, launch,
                  upstream, made, stops>>
shopVars     == <<recipe, images, index>>
boxVars      == <<maker, wired, wlBench>>
outside      == <<hall, shipped, upstream, stops>>

\* canonical_key_input: the Id of the seed and what is declared
KeyOf(seed, pkgs) == <<seed, pkgs>>
ShedKeys  == {KeyOf(s, r) : s \in Seeds, r \in Recipes}
NoKey     == <<NoSeed, {}>>
Transient(w) == <<w, {}>>
ImageTags == ShedKeys \cup {Transient(w) : w \in Shops}

NoImage  == [id |-> NotThere, seed |-> NoSeed, pkgs |-> {}, vers |-> NotThere]
NoRecord == [id |-> NotThere, vers |-> NotThere]
NoLaunch == [at |-> "idle", shop |-> "none", pkgs |-> {}, refresh |-> FALSE, offline |-> FALSE,
             key |-> NoKey, rec |-> NoRecord, got |-> NotThere, ok |-> FALSE, past |-> {},
             ran |-> NoImage]

Here(p)   == launch[p].shop
TagOf(j)  == IF j.key = NoKey THEN Transient(j.shop) ELSE j.key
NowIs(p, j) == launch' = [launch EXCEPT ![p] = j]
At(p, at) == NowIs(p, [launch[p] EXCEPT !.at = at])
\* Of a launch that is over: how far it got
Finished(j) == [NoLaunch EXCEPT !.at = "done", !.shop = j.shop, !.past = j.past]
May(mishap) == mishap \in hall.mishaps

---------------------------------------------------------------------------
(* Recipes *)

\* commit_promote, from whoever's console: the recipe is replaced whole
Promote(w, r) ==
    /\ r \in hall.recipes /\ recipe' = [recipe EXCEPT ![w] = {r}] /\ recipe' # recipe
    /\ UNCHANGED <<outside, loaded, images, index, boxVars, launch, made>>

\* precheck_launch: what the person saw is what the launch goes by
Agreed(p, w, refresh, offline) ==
    \E r \in recipe[w] :
        NowIs(p, [NoLaunch EXCEPT !.at = IF r = {} THEN "clear" ELSE "key", !.shop = w, !.pkgs = r,
                                 !.refresh = refresh, !.offline = offline])

StartLaunch(p, w, refresh, offline) ==
    /\ w \in hall.serves[p] /\ launch[p].at \in {"idle", "done"}
    /\ Agreed(p, w, refresh, offline)
    /\ UNCHANGED <<outside, loaded, shopVars, boxVars, made>>

---------------------------------------------------------------------------
(* The Tool Shed *)

\* ensure_seed: the archive of the running image, when dev has another or none
EnsureSeed == loaded' = shipped \/ (May("load") /\ loaded' = loaded)

\* A miss ends an offline launch
Miss(j) == IF j.offline THEN Finished(j) ELSE [j EXCEPT !.at = "derive", !.refresh = FALSE]

\* No Id or no hash: the launch goes on without the cache
TakeKey(p) ==
    LET j == launch[p] IN
    /\ j.at = "key" /\ EnsureSeed
    /\ \/ /\ loaded' # NoSeed
          /\ NowIs(p, [j EXCEPT !.key = KeyOf(loaded', j.pkgs), !.at = IF j.refresh THEN "rmi" ELSE "lookup"])
       \/ /\ loaded' = NoSeed \/ May("hash")
          /\ NowIs(p, Miss(j))
    /\ UNCHANGED <<outside, shopVars, boxVars, made>>

Removed(t) == images' = [images EXCEPT ![t] = NoImage]
Unfiled(key) == index' = [index EXCEPT ![key] = NoRecord]

\* --refresh
RmImage(p) ==
    LET j == launch[p] IN
    /\ j.at = "rmi" /\ At(p, "unfile")
    /\ \/ index[j.key] # NoRecord /\ Removed(j.key)
       \/ (index[j.key] = NoRecord \/ May("evict")) /\ UNCHANGED images
    /\ UNCHANGED <<outside, loaded, recipe, index, boxVars, made>>

Unfile(p) ==
    LET j == launch[p] IN
    /\ j.at = "unfile" /\ NowIs(p, Miss(j))
    /\ Unfiled(j.key) \/ (May("evict") /\ UNCHANGED index)
    /\ UNCHANGED <<outside, loaded, recipe, images, boxVars, made>>

\* Mutant: a record is enough while some image has its tag
LookUp_Tag(p) ==
    LET j == launch[p]
        r == index[j.key]
    IN /\ j.at = "lookup"
       /\ \/ /\ r # NoRecord /\ images[j.key] # NoImage
             /\ NowIs(p, [j EXCEPT !.at = "clear", !.rec = r]) /\ UNCHANGED index
          \/ /\ r = NoRecord \/ images[j.key] = NoImage
             /\ NowIs(p, Miss(j))
             /\ Unfiled(j.key) \/ (May("evict") /\ UNCHANGED index)
       /\ UNCHANGED <<outside, loaded, recipe, images, boxVars, made>>

\* cache_lookup: a record whose image is gone, or another by now, goes too
LookUp(p) ==
    LET j == launch[p]
        r == index[j.key]
    IN /\ j.at = "lookup"
       /\ \/ /\ r # NoRecord /\ images[j.key].id = r.id
             /\ NowIs(p, [j EXCEPT !.at = "clear", !.rec = r]) /\ UNCHANGED index
          \/ /\ r = NoRecord \/ images[j.key].id # r.id
             /\ NowIs(p, Miss(j))
             /\ Unfiled(j.key) \/ (May("evict") /\ UNCHANGED index)
       /\ UNCHANGED <<outside, loaded, recipe, images, boxVars, made>>

---------------------------------------------------------------------------
(* derive_pristine *)

Fails(p) == At(p, "cleanup")

\* Egress resolved, the hosts file written, what bears the name unplugged
Prepare(p) ==
    /\ launch[p].at = "derive" /\ EnsureSeed
    /\ \/ At(p, "start") /\ wired' = wired \ {Here(p)}
       \/ May("make") /\ NowIs(p, Finished(launch[p])) /\ UNCHANGED wired
    /\ UNCHANGED <<outside, shopVars, maker, wlBench, made>>

\* Mutant: a container that has the name will do
StartMaker_Any(p) ==
    LET w == Here(p) IN
    /\ launch[p].at = "start"
    /\ maker' = [maker EXCEPT ![w] = IF @ # {} THEN @ ELSE {[seed |-> loaded, pkgs |-> {}, vers |-> NotThere]}]
    /\ NowIs(p, [launch[p] EXCEPT !.at = "inject", !.past = @ \cup {"start"}])
    /\ UNCHANGED <<outside, loaded, shopVars, wired, wlBench, made>>

\* podman refuses a name that is taken, by what a killed launch left for one
StartMaker(p) ==
    LET w == Here(p)
        begun == [launch[p] EXCEPT !.past = @ \cup {"start"}]
    IN /\ launch[p].at = "start"
       /\ \/ /\ maker[w] = {} /\ loaded # NoSeed
             /\ maker' = [maker EXCEPT ![w] = {[seed |-> loaded, pkgs |-> {}, vers |-> NotThere]}]
             /\ NowIs(p, [begun EXCEPT !.at = "inject"])
          \/ /\ maker[w] # {} \/ loaded = NoSeed \/ May("make")
             /\ NowIs(p, [begun EXCEPT !.at = "cleanup"]) /\ UNCHANGED maker
       /\ UNCHANGED <<outside, loaded, shopVars, wired, wlBench, made>>

WireMaker(p) ==
    /\ launch[p].at = "inject"
    /\ \/ maker[Here(p)] # {} /\ At(p, "install") /\ wired' = wired \cup {Here(p)}
       \/ maker[Here(p)] = {} /\ Fails(p) /\ UNCHANGED wired
       \/ May("make") /\ Fails(p) /\ wired' \in {wired, wired \cup {Here(p)}}
    /\ UNCHANGED <<outside, loaded, shopVars, maker, wlBench, made>>

\* What is installed is asked for afterwards, and may stay unknown
Install(p) ==
    LET w == Here(p) IN
    /\ launch[p].at = "install"
    /\ \/ /\ maker[w] # {} /\ w \in wired
          /\ maker' = [maker EXCEPT ![w] = {[c EXCEPT !.pkgs = @ \cup launch[p].pkgs, !.vers = upstream] : c \in @}]
          /\ \E got \in {upstream, NotThere} :
                /\ got # upstream => May("store")
                /\ NowIs(p, [launch[p] EXCEPT !.at = "commit", !.got = got])
       \/ (maker[w] = {} \/ w \notin wired \/ May("make")) /\ Fails(p) /\ UNCHANGED maker
    /\ UNCHANGED <<outside, loaded, shopVars, wired, wlBench, made>>

Commit(p) ==
    LET j == launch[p] IN
    /\ j.at = "commit"
    /\ \/ /\ made < MaxMade /\ made' = made + 1
          /\ \E c \in maker[j.shop] :
                images' = [images EXCEPT ![TagOf(j)] =
                              [id |-> made', seed |-> c.seed, pkgs |-> c.pkgs, vers |-> c.vers]]
          /\ NowIs(p, [j EXCEPT !.at = "cleanup", !.ok = TRUE])
       \/ (maker[j.shop] = {} \/ made = MaxMade \/ May("make")) /\ Fails(p) /\ UNCHANGED <<images, made>>
    /\ UNCHANGED <<outside, loaded, recipe, index, boxVars>>

Cleanup(p) ==
    LET j == launch[p] IN
    /\ j.at = "cleanup"
    /\ wired' = wired \ {j.shop} /\ maker' = [maker EXCEPT ![j.shop] = {}]
    /\ NowIs(p, IF ~j.ok THEN Finished(j) ELSE IF j.key # NoKey THEN [j EXCEPT !.at = "store"]
               ELSE [j EXCEPT !.at = "clear", !.past = @ \cup {"transient"}])
    /\ UNCHANGED <<outside, loaded, shopVars, wlBench, made>>

\* cache_store: the Id the tag has by now
Store(p) ==
    LET j == launch[p] IN
    /\ j.at = "store" /\ NowIs(p, [j EXCEPT !.at = "clear", !.got = NotThere])
    /\ \/ images[j.key] # NoImage /\ index' = [index EXCEPT ![j.key] = [id |-> images[j.key].id, vers |-> j.got]]
       \/ (images[j.key] = NoImage \/ May("store")) /\ UNCHANGED index
    /\ UNCHANGED <<outside, loaded, recipe, images, boxVars, made>>

---------------------------------------------------------------------------
(* The workload *)

\* destroy of what a launch before left, or of a Bench of that name
Clear(p) ==
    /\ launch[p].at = "clear" /\ wlBench' = wlBench \ {Here(p)}
    /\ NowIs(p, [launch[p] EXCEPT !.at = "create", !.past = @ \cup {"clear"}])
    /\ UNCHANGED <<outside, loaded, shopVars, maker, wired, made>>

\* create and the grants of the recipe; a create that fails may leave its record
Create(p) ==
    /\ launch[p].at = "create"
    /\ \/ Here(p) \notin wlBench /\ wlBench' = wlBench \cup {Here(p)} /\ At(p, "run")
       \/ Here(p) \in wlBench /\ At(p, "destroy") /\ UNCHANGED wlBench
       \/ May("make") /\ At(p, "destroy") /\ wlBench' \in {wlBench, wlBench \cup {Here(p)}}
    /\ UNCHANGED <<outside, loaded, shopVars, maker, wired, made>>

\* run_from, by tag: the seed is seen to first, used or not
Run(p) ==
    LET j == launch[p]
        base  == IF j.pkgs = {} THEN [NoImage EXCEPT !.seed = loaded'] ELSE images[TagOf(j)]
    IN /\ j.at = "run" /\ EnsureSeed
       /\ \/ base.seed # NoSeed /\ NowIs(p, [j EXCEPT !.at = "works", !.ran = base])
          \/ (base.seed = NoSeed \/ May("make")) /\ At(p, "destroy")
       /\ UNCHANGED <<outside, shopVars, boxVars, made>>

Ended(p) ==
    /\ launch[p].at = "works" /\ NowIs(p, [launch[p] EXCEPT !.at = "destroy", !.ran = NoImage])
    /\ UNCHANGED <<outside, loaded, shopVars, boxVars, made>>

Destroy(p) ==
    LET j == launch[p] IN
    /\ j.at = "destroy" /\ wlBench' = wlBench \ {j.shop}
    /\ NowIs(p, IF j.pkgs # {} /\ j.key = NoKey THEN [j EXCEPT !.at = "reap"] ELSE Finished(j))
    /\ UNCHANGED <<outside, loaded, shopVars, maker, wired, made>>

\* An image without a key is nobody's to reuse
Reap(p) ==
    LET j == launch[p] IN
    /\ j.at = "reap" /\ Removed(TagOf(j))
    /\ NowIs(p, Finished(j))
    /\ UNCHANGED <<outside, loaded, recipe, index, boxVars, made>>

---------------------------------------------------------------------------
(* Around it *)

\* dev prunes images
Prune ==
    /\ May("prune")
    /\ \/ \E t \in ImageTags : images[t] # NoImage /\ Removed(t) /\ UNCHANGED loaded
       \/ loaded # NoSeed /\ loaded' = NoSeed /\ UNCHANGED images
    /\ UNCHANGED <<outside, recipe, index, boxVars, launch, made>>

Publish ==
    /\ May("publish") /\ upstream < MaxVersion /\ upstream' = upstream + 1
    /\ UNCHANGED <<hall, shipped, stops, loaded, shopVars, boxVars, launch, made>>

\* The process of a launch is killed; its containers go on
KillLaunch(p) ==
    /\ May("kill") /\ launch[p].at \notin {"idle", "done"} /\ stops < MaxStops /\ stops' = stops + 1
    /\ NowIs(p, NoLaunch)
    /\ UNCHANGED <<hall, shipped, upstream, loaded, shopVars, boxVars, made>>

\* The next boot may be of the other image; names of containers and Benches stay taken
Restarts ==
    /\ May("restart") /\ stops < MaxStops /\ stops' = stops + 1
    /\ shipped' \in Seeds /\ wired' = {}
    /\ launch' = [p \in Processes |-> NoLaunch]
    /\ UNCHANGED <<hall, upstream, loaded, shopVars, maker, wlBench, made>>

WorkshopInit ==
    /\ hall \in Halls /\ shipped \in Seeds /\ loaded = NoSeed
    /\ recipe = [w \in Shops |-> {}]
    /\ images = [t \in ImageTags |-> NoImage] /\ index = [k \in ShedKeys |-> NoRecord]
    /\ maker = [w \in Shops |-> {}] /\ wired = {} /\ wlBench = {}
    /\ launch = [p \in Processes |-> NoLaunch]
    /\ upstream = 1 /\ made = 0 /\ stops = 0

WorkshopNext ==
    \/ \E w \in Shops, r \in Recipes : Promote(w, r)
    \/ \E p \in Processes, w \in Shops, refresh, offline \in BOOLEAN : StartLaunch(p, w, refresh, offline)
    \/ \E p \in Processes : \/ TakeKey(p) \/ RmImage(p) \/ Unfile(p) \/ LookUp(p)
                         \/ Prepare(p) \/ StartMaker(p) \/ WireMaker(p) \/ Install(p) \/ Commit(p)
                         \/ Cleanup(p) \/ Store(p) \/ Clear(p) \/ Create(p) \/ Run(p) \/ Ended(p)
                         \/ Destroy(p) \/ Reap(p) \/ KillLaunch(p)
    \/ Prune \/ Publish \/ Restarts

WorkshopSpec == WorkshopInit /\ [][WorkshopNext]_workshopVars

---------------------------------------------------------------------------

WorkshopTypeOK ==
    /\ hall \in Halls /\ shipped \in Seeds /\ loaded \in Seeds \cup {NoSeed}
    /\ \A w \in Shops : recipe[w] \subseteq Recipes /\ Cardinality(recipe[w]) <= 1
    /\ \A t \in ImageTags : images[t].id \in 0..MaxMade /\ images[t].pkgs \subseteq Packages
    /\ \A k \in ShedKeys : index[k].id \in 0..MaxMade
    /\ \A w \in Shops : Cardinality(maker[w]) <= 1
    /\ wired \subseteq Shops /\ wlBench \subseteq Shops
    /\ \A p \in Processes : launch[p].key \in ShedKeys \cup {NoKey}

Alone(p) == \A q \in Processes \ {p} : hall.serves[q] = {}
Apart    == \A p, q \in Processes : p # q => hall.serves[q] \cap hall.serves[p] = {}

\* commit_launch, derive_pristine, cache_lookup and cache_store: a workload runs in
\* exactly the packages its recipe declared when the person agreed, on the seed
\* this system ships, whether they were derived now or long ago, by this
\* workshop or by another, across killed launches, pruned images and updates; a
\* hit runs the image the record was made for, with the versions it tells; and
\* a launch that comes to an end leaves no container, egress, Bench or image
\* without a key.  Not where a workshop may be launched twice at once: the two
\* share a container, and what comes of it any workshop with that key may reuse.
WorkshopSound ==
    /\ WorkshopTypeOK
    /\ Apart => \A p \in Processes :
        LET j == launch[p] IN
        /\ j.at = "works" =>
              /\ j.ran.pkgs = j.pkgs
              /\ ~May("load") => j.ran.seed = shipped
              /\ Alone(p) /\ j.rec # NoRecord =>
                    j.ran.id = j.rec.id /\ j.rec.vers \in {j.ran.vers, NotThere}
        /\ j.at = "done" =>
              /\ "start" \in j.past => maker[j.shop] = {} /\ j.shop \notin wired
              /\ "clear" \in j.past => j.shop \notin wlBench
              /\ "transient" \in j.past => images[Transient(j.shop)] = NoImage
=============================================================================
