------------------------------- MODULE MCConsent -------------------------------
(* A small instance of Consent for TLC. *)
EXTENDS Consent

\* One verb family, and a request that needs no ceremony; egress comes from root.
SomeAsks == {"grant", "grant-rw", "revoke"}
=============================================================================
