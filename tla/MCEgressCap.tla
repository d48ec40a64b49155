----------------------------- MODULE MCEgressCap -----------------------------
(* Small instances of EgressCap for TLC. *)
EXTENDS EgressCap, TLC

CONSTANTS weather, tides, printer, t1, t2, t3

\* Two profiles and a raw destination that share the tuple t2.
SharedAnswers == weather :> {t1, t2} @@ tides :> {t2} @@ printer :> {t2}

\* A profile and a raw destination that reach one and the same tuple.
SameAnswer == weather :> {t1} @@ printer :> {t1}
=============================================================================
