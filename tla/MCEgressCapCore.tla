-------------------------- MODULE MCEgressCapCore --------------------------
(* One run over two settings of EgressCap, and over the workshops. *)
EXTENDS MCEgressCap, Workshop

\* Three settings in one run, chosen once and for all.  In "faults" everything may
\* fail, beside one profile and a raw destination that overlap.  In "recovery"
\* the kernel and the store never fail, so that what a recovery must reach can
\* be said without exceptions, with two profiles and a literal destination.  In
\* "shop" the workshops of gatekeeperd are at work, which share no state with it.
VARIABLE setting

R == INSTANCE EgressCap WITH Failures <- {"dot", "crash", "reboot"}, CliVerbs <- {}, Literals <- {printer}

NotAsked(p) == \A s \in Procs : job[s].arg # p

SomeRecipes == {{"a"}, {"a", "b"}, {}}
Hall(one, two, r, m) == [serves |-> <<one, two>>, recipes |-> r, mishaps |-> m]

\* One process, with kills and failing steps; with a cache that fails; with updates
\* of the system and pruned images; two that launch a workshop each
SomeHalls == {Hall({"w"}, {}, {{"a"}, {"a", "b"}}, {"make", "kill"}),
              Hall({"w"}, {}, {{"a"}}, {"hash", "load", "evict", "store", "publish"}),
              Hall({"w"}, {}, {{"a"}, {}}, {"restart", "prune"}),
              Hall({"v"}, {"w"}, {{"a"}}, {"prune"})}
ShopIdle  == WorkshopInit /\ shipped = "s1" /\ hall = Hall({"v"}, {"w"}, {{"a"}}, {"prune"})

MCInit == /\ Init
          /\ \/ setting \in {"faults", "recovery"} /\ ShopIdle
             \/ setting = "shop" /\ WorkshopInit
FaultsStep   == /\ setting = "faults" /\ Next /\ NotAsked(tides)'
                /\ UNCHANGED <<setting, workshopVars>>
RecoveryStep == setting = "recovery" /\ R!Next /\ UNCHANGED <<setting, workshopVars>>
ShopStep     == setting = "shop" /\ WorkshopNext /\ UNCHANGED <<setting, vars>>

MCNext == FaultsStep \/ RecoveryStep \/ ShopStep
MCSpec == MCInit /\ [][MCNext]_<<vars, setting, workshopVars>>

\* Every recovery ends with kernel, store and projection in line, and what stays
\* dark shows a fault: where neither nft nor the store fails.
RecoveryEnds == setting = "recovery" => Converged /\ ViewCurrent /\ DarkIsFaulted
=============================================================================
