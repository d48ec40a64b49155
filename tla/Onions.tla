-------------------------------- MODULE Onions --------------------------------
(***************************************************************************)
(* The onion broker of gatekeeperd: who asks for layers to be merged, what *)
(* it exposes to systemd-sysext and systemd-confext, and what it records.  *)
(* One connection is served at a time; the process may be killed between   *)
(* any two steps and is started again.                                     *)
(***************************************************************************)
EXTENDS Naturals, FiniteSets

CONSTANTS
    Layers,       \* names of layers
    KindOf,       \* "sysext" or "confext"
    SealedSets,   \* what the sealed onion-policy may enable
    Stores,       \* which layers the untrusted store may hold
    Signed,       \* layers whose image meets the image policy
    Wanted,       \* sets a caller may ask to merge
    RunFaults,    \* whether /run may refuse a symlink or a file: a subset of BOOLEAN
    MaxKills,     \* bound: kills of the broker
    MaxRequests   \* bound: requests served

LayerKinds == {"sysext", "confext"}

ASSUME OnionsAssumption ==
    /\ KindOf \in [Layers -> LayerKinds]
    /\ SealedSets \subseteq SUBSET Layers /\ Stores \subseteq SUBSET Layers
    /\ Signed \subseteq Layers /\ Wanted \subseteq SUBSET Layers
    /\ RunFaults \subseteq BOOLEAN /\ MaxKills \in Nat /\ MaxRequests \in Nat

VARIABLES
    sealedSet, store, runFails,
    links,     \* exposed: the *.raw links of /run/extensions and /run/confexts
    overlay,   \* what is merged into the running system
    layers,    \* Broker.layers: decisions, in memory
    rcs,       \* Broker.sysext_rc and confext_rc
    audit,     \* /run/shrek/onion.json
    request,       \* the request in service
    served, kills

onionVars == <<sealedSet, store, runFails, links, overlay, layers, rcs, audit, request, served, kills>>
givenVars == <<sealedSet, store, runFails>>

Of(kind, s) == {n \in s : KindOf[n] = kind}
NoRequest       == [verb |-> "none", step |-> "none", asks |-> {}, exposed |-> {}]
Unknown     == [n \in Layers |-> "none"]
Onion(s)    == [NoRequest EXCEPT !.verb = "merge", !.step = "expose", !.asks = s]
Live(on, n) == [NoRequest EXCEPT !.verb = IF on THEN "activate" ELSE "deactivate",
                             !.step = "check", !.asks = {n}]

---------------------------------------------------------------------------
(* systemd-sysext and systemd-confext: all exposed images of a kind or none *)

Over(kind) == [overlay EXCEPT ![kind] = links[kind]]

\* refuses what is merged already, and what does not meet the image policy
MergeVerb(kind, after, code) ==
    IF overlay[kind] = {} /\ links[kind] \subseteq Signed
    THEN after = Over(kind) /\ code = 0
    ELSE after = overlay /\ code = 1

\* tried twice: busy both times, it changes nothing
Refresh(kind, after, code) ==
    \/ links[kind] \subseteq Signed /\ after = Over(kind) /\ code = 0
    \/ after = overlay /\ code = 1

---------------------------------------------------------------------------

\* handle_conn: root and shrek may use the onion verbs, dev is refused
Connect ==
    /\ request = NoRequest /\ served < MaxRequests
    /\ served' = served + 1
    /\ \/ \E s \in Wanted : request' = Onion(s)
       \/ \E n \in Layers, on \in BOOLEAN : request' = Live(on, n)
    /\ UNCHANGED <<givenVars, links, overlay, layers, rcs, audit, kills>>

\* expose_one, for each of them
Made(shown) == IF runFails THEN SUBSET shown ELSE {shown}

\* Mutant: what the caller asks for is exposed whether it is sealed or not
Expose_Asked ==
    /\ request.verb = "merge" /\ request.step = "expose"
    /\ \E shown \in Made(store \cap request.asks) :
       /\ links' = [k \in LayerKinds |-> Of(k, shown)]
       /\ request' = [request EXCEPT !.step = "sysext", !.exposed = shown]
    /\ UNCHANGED <<givenVars, overlay, layers, rcs, audit, served, kills>>

\* handle_merge: the search directories are emptied and get sealed, requested, present
Expose ==
    /\ request.verb = "merge" /\ request.step = "expose"
    /\ \E shown \in Made(sealedSet \cap store \cap request.asks) :
       /\ links' = [k \in LayerKinds |-> Of(k, shown)]
       /\ request' = [request EXCEPT !.step = "sysext", !.exposed = shown]
    /\ UNCHANGED <<givenVars, overlay, layers, rcs, audit, served, kills>>

MergeKind(kind, next) ==
    /\ request.verb = "merge" /\ request.step = kind
    /\ \E code \in {0, 1} : MergeVerb(kind, overlay', code) /\ rcs' = [rcs EXCEPT ![kind] = code]
    /\ request' = [request EXCEPT !.step = next]
    /\ UNCHANGED <<givenVars, links, layers, audit, served, kills>>

Classify(n) ==
    IF n \notin store THEN IF n \in request.asks THEN "absent" ELSE "none"
    ELSE IF n \in request.exposed THEN IF rcs[KindOf[n]] = 0 THEN "merged" ELSE "refused"
    ELSE IF n \notin request.asks THEN "omitted"
    ELSE IF n \notin sealedSet THEN "refused" ELSE "error"

\* write_state and the answer; an audit file that cannot be written is only logged
Settle(decisions) ==
    /\ layers' = decisions /\ request' = NoRequest
    /\ audit' = decisions \/ (runFails /\ UNCHANGED audit)

Record ==
    /\ request.verb = "merge" /\ request.step = "record"
    /\ Settle([n \in Layers |-> Classify(n)])
    /\ UNCHANGED <<givenVars, links, overlay, rcs, served, kills>>

\* handle_activate: not sealed or not there, nothing changes and nothing is recorded
Decline ==
    /\ request.step = "check" /\ request.asks \cap sealedSet \cap store = {}
    /\ request' = NoRequest
    /\ UNCHANGED <<givenVars, links, overlay, layers, rcs, audit, served, kills>>

\* The link is made or removed; one that is not made is not noticed
Link ==
    /\ request.step = "check" /\ request.asks \subseteq sealedSet \cap store
    /\ \E n \in request.asks, made \in Made(request.asks) :
          links' = [links EXCEPT ![KindOf[n]] = IF request.verb = "activate" THEN (@ \ {n}) \cup made
                                                ELSE @ \ {n}]
    /\ request' = [request EXCEPT !.step = "refresh"]
    /\ UNCHANGED <<givenVars, overlay, layers, rcs, audit, served, kills>>

\* A layer whose refresh fails keeps its link; one that is removed is called
\* omitted whatever its refresh returned; the rcs stay those of the last merge
Renew ==
    /\ request.step = "refresh"
    /\ \E n \in request.asks, code \in {0, 1} :
          /\ Refresh(KindOf[n], overlay', code)
          /\ Settle([layers EXCEPT ![n] = IF request.verb = "deactivate" THEN "omitted"
                                          ELSE IF code = 0 THEN "merged" ELSE "refused"])
    /\ UNCHANGED <<givenVars, links, rcs, served, kills>>

\* Restart=always: memory is gone, links, overlay and the audit file are not
Kill ==
    /\ kills < MaxKills /\ kills' = kills + 1
    /\ request' = NoRequest /\ layers' = Unknown /\ rcs' = [k \in LayerKinds |-> 0]
    /\ UNCHANGED <<givenVars, links, overlay, audit, served>>

OnionsInit ==
    /\ sealedSet \in SealedSets /\ store \in Stores /\ runFails \in RunFaults
    /\ links = [k \in LayerKinds |-> {}] /\ overlay = [k \in LayerKinds |-> {}]
    /\ layers = Unknown /\ rcs = [k \in LayerKinds |-> 0] /\ audit = Unknown
    /\ request = NoRequest /\ served = 0 /\ kills = 0

OnionsNext ==
    \/ Connect \/ Expose \/ MergeKind("sysext", "confext") \/ MergeKind("confext", "record")
    \/ Record \/ Decline \/ Link \/ Renew \/ Kill

OnionsSpec == OnionsInit /\ [][OnionsNext]_onionVars

---------------------------------------------------------------------------

OnionsTypeOK ==
    /\ sealedSet \subseteq Layers /\ store \subseteq Layers /\ runFails \in BOOLEAN
    /\ links \in [LayerKinds -> SUBSET Layers] /\ overlay \in [LayerKinds -> SUBSET Layers]
    /\ layers \in [Layers -> {"none", "merged", "refused", "omitted", "absent", "error"}]
    /\ audit \in [Layers -> {"none", "merged", "refused", "omitted", "absent", "error"}]
    /\ rcs \in [LayerKinds -> {0, 1}] /\ served \in 0..MaxRequests /\ kills \in 0..MaxKills
    /\ request \in [verb : {"none", "merge", "activate", "deactivate"},
                step : {"none", "expose", "sysext", "confext", "record", "check", "refresh"},
                asks : SUBSET Layers, exposed : SUBSET Layers]

\* handle_merge and handle_activate: whoever asks for what, in whatever order, over
\* failed merges and restarts, only sealed layers with a good signature are
\* ever merged; and what the audit file calls merged is merged once the
\* request is served, unless a kill cut one off or /run refused a link or the file.
OnionAudit ==
    /\ \A k \in LayerKinds : overlay[k] \subseteq Of(k, sealedSet \cap store \cap Signed)
    /\ request = NoRequest /\ kills = 0 /\ ~runFails =>
          \A n \in Layers : audit[n] = "merged" => n \in overlay[KindOf[n]]
=============================================================================
