------------------------------ MODULE MCConfine ------------------------------
(* Small instances of SwampIndex and of Sessions for TLC. *)
EXTENDS SwampIndex, Sessions, TLC

CONSTANTS p1, p2, s1, s2

\* A coder with and one without the swamp, a job without network, a T1 fetch
SomeRequests ==
    {[tier |-> "T2", egress |-> {"swamp", "model"}, rw |-> {"a"}],
     [tier |-> "T2", egress |-> {"swamp"}, rw |-> {"b"}],
     [tier |-> "T2", egress |-> {}, rw |-> {"b"}],
     [tier |-> "T1", egress |-> {"model"}, rw |-> {}]}

\* Two components that share nothing here, one or the other in each behaviour;
\* ids of one address, and of two
VARIABLE part

ConfineInit == /\ part \in {"index", "sessions"}
               /\ SwampInit /\ SessionInit
               /\ part = "index" => slotOf = [i \in Ids |-> s1]
               /\ slotOf["job"] = s1

\* Names are interchangeable: the first inode and the first text have the first
\* name, and of two sessions p1 has the lower number
FirstNames == /\ ops = 0 => \A d \in Places : at'[d] # "i2"
              /\ clock = 0 => \A i \in Inos, f \in FileNames : file'[i][f].content # "t2"
Number(p) == Cardinality(req[p].egress) + (IF req[p].tier = "T1" THEN 4 ELSE 0)
             + (IF id[p] = "run" THEN 8 ELSE 0)
InOrder   == \A p \in Procs \ {p1} : "idle" \notin {stage[p1], stage[p]} => Number(p1) <= Number(p)

IndexStep   == part = "index" /\ SwampNext /\ FirstNames /\ UNCHANGED <<part, sessionVars>>
SessionStep == part = "sessions" /\ SessionNext /\ InOrder' /\ UNCHANGED <<part, swampVars>>
ConfineNext == IndexStep \/ SessionStep
confineVars == <<part, swampVars, sessionVars>>
ConfineSpec == /\ ConfineInit /\ [][ConfineNext]_confineVars
               /\ WF_confineVars(part = "index" /\ Daemon /\ UNCHANGED <<part, sessionVars>>)


\* Settles, of the index.
IndexSettles == part = "index" => Settles
=============================================================================
