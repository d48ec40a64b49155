---------------------------- MODULE EgressPromise ----------------------------
(***************************************************************************)
(* What the desktop-egress supervisor promises the owner: the kernel opens  *)
(* only what a grant reaches, and revoking a grant of the teardown-first    *)
(* kind is recorded only when nothing it alone reached is still allowed.    *)
(* Grants of the other kind are dropped intent-first: what they reached may *)
(* outlive the record.  So may what a withdrawn grant reached, one whose    *)
(* manifest the owner removed: it lapses, and is closed at the next settling *)
(* of the kernel.                                                           *)
(***************************************************************************)
CONSTANTS
  Grants,         \* what the owner can grant
  TeardownFirst,  \* the grants whose enforcement goes before their record
  Reach           \* the destinations a grant can open

VARIABLES
  granted,        \* the grants on record
  allowed,        \* the destinations the kernel lets through
  lapsed          \* the withdrawn grants the kernel has not been settled after

Covered(G) == UNION {Reach[g] : g \in G}

\* What may be allowed while G is on record.
Allowable(G) == Covered(G \cup (Grants \ TeardownFirst))

Init == granted = {} /\ allowed = {} /\ lapsed = {}

Grant(g) ==
  /\ granted' = granted \cup {g}
  /\ UNCHANGED <<allowed, lapsed>>

Open(d) ==
  /\ d \in Allowable(granted)
  /\ allowed' = allowed \cup {d}
  /\ UNCHANGED <<granted, lapsed>>

\* Closing may settle: then nothing is left but what the grants on record reach.
Close(D) ==
  /\ allowed' = allowed \ D
  /\ \/ UNCHANGED lapsed
     \/ allowed' \subseteq Allowable(granted) /\ lapsed' = {}
  /\ UNCHANGED granted

Revoke(g) ==
  /\ g \in TeardownFirst => allowed \subseteq Allowable(granted \ {g})
  /\ granted' = granted \ {g}
  /\ UNCHANGED <<allowed, lapsed>>

Withdraw(g) ==
  /\ granted' = granted \ {g}
  /\ lapsed' = lapsed \cup {g}
  /\ UNCHANGED allowed

Next ==
  \/ \E g \in Grants : Grant(g) \/ Revoke(g) \/ Withdraw(g)
  \/ \E d \in Covered(Grants) : Open(d)
  \/ \E D \in SUBSET allowed : Close(D)

Spec == Init /\ [][Next]_<<granted, allowed, lapsed>>
=============================================================================
