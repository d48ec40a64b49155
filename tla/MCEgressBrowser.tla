--------------------------- MODULE MCEgressBrowser ---------------------------
(* Small instances of EgressBrowser for TLC. *)
EXTENDS EgressBrowser

CONSTANTS c1, c2, h1, h2, h3, h4
=============================================================================
