---------------------------- MODULE ImagesProofs ----------------------------
(***************************************************************************)
(* What is done with images: which layers the onion broker merges and      *)
(* records, for every set of layers, of sealed policies and of requests,   *)
(* and any number of kills; and which image the workload of a workshop     *)
(* runs in, for every set of workshops, recipes, packages and processes    *)
(* that launch, whatever fails or happens meanwhile.                       *)
(***************************************************************************)
EXTENDS Onions, Workshop, FiniteSetTheorems, TLAPS

Words == {"none", "merged", "refused", "omitted", "absent", "error"}
Merging  == request.step \in {"sysext", "confext", "record"}
Renewing == request.step = "refresh"

---------------------------------------------------------------------------
(* The inductive invariant *)

\* A live request is about one layer, and asks for it to come or to go
OneLayer ==
    request.step \in {"check", "refresh"} =>
        /\ request.verb \in {"activate", "deactivate"}
        /\ \E n \in Layers : request.asks = {n}

\* What is exposed is sealed, and what is merged was exposed and is signed
OnlySealed ==
    \A k \in LayerKinds :
        /\ links[k] \subseteq Of(k, sealedSet \cap store)
        /\ overlay[k] \subseteq Of(k, sealedSet \cap store \cap Signed)

\* Between the links and the record, a kind that was merged is all there
Whole ==
    Merging =>
        /\ \A k \in LayerKinds : links[k] = Of(k, request.exposed)
        /\ request.step \in {"confext", "record"} /\ rcs["sysext"] = 0 =>
              overlay["sysext"] = links["sysext"]
        /\ request.step = "record" /\ rcs["confext"] = 0 => overlay["confext"] = links["confext"]

\* What memory calls merged is merged, and would be again at the next refresh
Kept ==
    \A n \in Layers : layers[n] = "merged" =>
        /\ n \in overlay[KindOf[n]]
        /\ Merging \/ n \in links[KindOf[n]] \/ (Renewing /\ n \in request.asks)

\* A layer that is to come has its link
Linked ==
    Renewing /\ request.verb = "activate" => \A n \in request.asks : n \in links[KindOf[n]]

Undisturbed == kills = 0 /\ ~runFails

OnionsInv ==
    /\ OnionsTypeOK /\ OneLayer /\ OnlySealed
    /\ Undisturbed => Whole /\ Kept /\ Linked /\ audit = layers

---------------------------------------------------------------------------

\* Broker::default and the empty directories of a boot satisfy the invariant.
LEMMA InitHolds == OnionsInit => OnionsInv
<1> SUFFICES ASSUME OnionsInit PROVE OnionsInv OBVIOUS
<1> USE OnionsAssumption DEF OnionsInit, NoRequest, Unknown, LayerKinds
<1>1. OnionsTypeOK BY DEF OnionsTypeOK
<1>2. OneLayer BY DEF OneLayer
<1>3. OnlySealed BY DEF OnlySealed
<1>4. Whole /\ Kept /\ Linked BY DEF Whole, Kept, Linked, Merging, Renewing
<1> QED BY <1>1, <1>2, <1>3, <1>4 DEF OnionsInv

\* Whatever systemd returns, the overlay of a kind becomes what is exposed of it,
\* and that only if it is all signed, or stays (merge_kind, refresh_kind).
LEMMA SystemdKeeps ==
    ASSUME OnionsTypeOK, NEW kind \in LayerKinds, NEW after, NEW code,
           MergeVerb(kind, after, code) \/ Refresh(kind, after, code)
    PROVE  /\ after \in [LayerKinds -> SUBSET Layers] /\ code \in {0, 1}
           /\ \A k \in LayerKinds : k # kind => after[k] = overlay[k]
           /\ \/ after = overlay /\ code = 1
              \/ after[kind] = links[kind] /\ links[kind] \subseteq Signed /\ code = 0
BY DEF OnionsTypeOK, MergeVerb, Refresh, Over

\* Every step of the broker keeps the types (Broker, OnionAudit records).
LEMMA TypeKept == ASSUME OnionsTypeOK, OneLayer, [OnionsNext]_onionVars PROVE OnionsTypeOK'
<1> USE OnionsAssumption DEF OnionsTypeOK, givenVars
<1>1. CASE Connect
  <2>1. ASSUME NEW s \in Wanted, request' = Onion(s)
        PROVE  request' = [verb |-> "merge", step |-> "expose", asks |-> s, exposed |-> {}]
    BY <2>1 DEF Onion, NoRequest
  <2>2. ASSUME NEW n \in Layers, NEW on \in BOOLEAN, request' = Live(on, n)
        PROVE  request' = [verb |-> IF on THEN "activate" ELSE "deactivate", step |-> "check",
                           asks |-> {n}, exposed |-> {}]
    BY <2>2 DEF Live, NoRequest
  <2>3. served' \in 0..MaxRequests BY <1>1 DEF Connect
  <2> QED BY <1>1, <2>1, <2>2, <2>3 DEF Connect
<1>2. CASE Expose
  <2> PICK shown \in Made(sealedSet \cap store \cap request.asks) :
        /\ links' = [k \in LayerKinds |-> Of(k, shown)]
        /\ request' = [request EXCEPT !.step = "sysext", !.exposed = shown]
    BY <1>2 DEF Expose
  <2>1. shown \subseteq Layers BY DEF Made
  <2>2. links' \in [LayerKinds -> SUBSET Layers] BY <2>1 DEF Of
  <2> QED BY <1>2, <2>1, <2>2 DEF Expose
<1>3. ASSUME NEW kind \in LayerKinds, NEW next \in {"confext", "record"}, MergeKind(kind, next)
      PROVE  OnionsTypeOK'
  <2>1. overlay' \in [LayerKinds -> SUBSET Layers] BY <1>3, SystemdKeeps DEF MergeKind
  <2>2. rcs' \in [LayerKinds -> {0, 1}] BY <1>3 DEF MergeKind
  <2> QED BY <1>3, <2>1, <2>2 DEF MergeKind
<1>4. CASE Record
  BY <1>4 DEF Record, Settle, Classify, NoRequest
<1>5. CASE Decline
  BY <1>5 DEF Decline, NoRequest
<1>6. CASE Link
  <2> PICK n \in request.asks, laid \in Made(request.asks) :
        links' = [links EXCEPT ![KindOf[n]] = IF request.verb = "activate"
                                              THEN (@ \ {n}) \cup laid ELSE @ \ {n}]
    BY <1>6 DEF Link
  <2>1. laid \subseteq Layers BY DEF Made
  <2>2. links' \in [LayerKinds -> SUBSET Layers] BY <2>1
  <2> QED BY <1>6, <2>2 DEF Link
<1>7. CASE Renew
  <2> PICK n \in request.asks, code \in {0, 1} :
        /\ Refresh(KindOf[n], overlay', code)
        /\ Settle([layers EXCEPT ![n] = IF request.verb = "deactivate" THEN "omitted"
                                        ELSE IF code = 0 THEN "merged" ELSE "refused"])
    BY <1>7 DEF Renew
  <2>1. n \in Layers /\ KindOf[n] \in LayerKinds OBVIOUS
  <2>2. overlay' \in [LayerKinds -> SUBSET Layers] BY <2>1, SystemdKeeps
  <2> QED BY <1>7, <2>1, <2>2 DEF Renew, Settle, NoRequest
<1>8. CASE Kill
  BY <1>8 DEF Kill, NoRequest, Unknown
<1>9. CASE UNCHANGED onionVars
  BY <1>9 DEF onionVars
<1> QED
  BY <1>1, <1>2, <1>3, <1>4, <1>5, <1>6, <1>7, <1>8, <1>9 DEF OnionsNext, LayerKinds

\* A live request keeps to its layer until it is served (handle_activate).
LEMMA OneLayerKept == ASSUME OnionsTypeOK, OneLayer, [OnionsNext]_onionVars PROVE OneLayer'
<1> USE DEF OneLayer
<1>1. CASE Connect BY <1>1 DEF Connect, Onion, Live, NoRequest
<1>2. CASE Expose BY <1>2 DEF Expose, OnionsTypeOK
<1>3. CASE MergeKind("sysext", "confext") \/ MergeKind("confext", "record")
  BY <1>3 DEF MergeKind, OnionsTypeOK
<1>4. CASE Record \/ Decline \/ Renew \/ Kill
  BY <1>4 DEF Record, Decline, Renew, Kill, Settle, NoRequest
<1>5. CASE Link BY <1>5 DEF Link, OnionsTypeOK
<1>6. CASE UNCHANGED onionVars BY <1>6 DEF onionVars
<1> QED BY <1>1, <1>2, <1>3, <1>4, <1>5, <1>6 DEF OnionsNext

\* No step exposes what is not sealed and present, or merges what was not exposed.
LEMMA OnlySealedKept ==
    ASSUME OnionsTypeOK, OneLayer, OnlySealed, [OnionsNext]_onionVars PROVE OnlySealed'
<1> USE OnionsAssumption
<1>1. CASE Expose
  <2> PICK shown \in Made(sealedSet \cap store \cap request.asks) :
        links' = [k \in LayerKinds |-> Of(k, shown)]
    BY <1>1 DEF Expose
  <2>1. shown \subseteq sealedSet \cap store BY DEF Made
  <2> QED BY <1>1, <2>1 DEF Expose, OnlySealed, Of, givenVars
<1>2. ASSUME NEW kind \in LayerKinds, NEW next, MergeKind(kind, next) PROVE OnlySealed'
  <2>1. /\ \A k \in LayerKinds : k # kind => overlay'[k] = overlay[k]
        /\ \/ overlay' = overlay
           \/ overlay'[kind] = links[kind] /\ links[kind] \subseteq Signed
    BY <1>2, SystemdKeeps DEF MergeKind
  <2>2. UNCHANGED <<sealedSet, store, links>> BY <1>2 DEF MergeKind, givenVars
  <2> QED BY <2>1, <2>2 DEF OnlySealed, Of
<1>3. CASE Link
  <2> PICK n \in request.asks, laid \in Made(request.asks) :
        links' = [links EXCEPT ![KindOf[n]] = IF request.verb = "activate"
                                              THEN (@ \ {n}) \cup laid ELSE @ \ {n}]
    BY <1>3 DEF Link
  <2>1. request.asks = {n} /\ n \in sealedSet \cap store /\ n \in Layers
    BY <1>3 DEF Link, OneLayer
  <2>2. laid \subseteq {n} BY <2>1 DEF Made
  <2>3. laid \subseteq Of(KindOf[n], sealedSet \cap store) BY <2>1, <2>2 DEF Of
  <2>4. \A k \in LayerKinds : links'[k] \subseteq Of(k, sealedSet \cap store)
    BY <2>3 DEF OnlySealed, OnionsTypeOK
  <2> QED BY <1>3, <2>4 DEF Link, OnlySealed, givenVars
<1>4. CASE Renew
  <2> PICK n \in request.asks, code \in {0, 1} : Refresh(KindOf[n], overlay', code)
    BY <1>4 DEF Renew
  <2>1. KindOf[n] \in LayerKinds BY DEF OnionsTypeOK
  <2>2. /\ \A k \in LayerKinds : k # KindOf[n] => overlay'[k] = overlay[k]
        /\ \/ overlay' = overlay
           \/ overlay'[KindOf[n]] = links[KindOf[n]] /\ links[KindOf[n]] \subseteq Signed
    BY <2>1, SystemdKeeps
  <2>3. UNCHANGED <<sealedSet, store, links>> BY <1>4 DEF Renew, givenVars
  <2> QED BY <2>2, <2>3 DEF OnlySealed, Of
<1>5. CASE UNCHANGED <<sealedSet, store, links, overlay>> BY <1>5 DEF OnlySealed
<1> QED
  BY <1>1, <1>2, <1>3, <1>4, <1>5
  DEF OnionsNext, onionVars, givenVars, Connect, Record, Decline, Kill, LayerKinds

\* With no kill and a /run that takes links and files, what memory calls merged stays
\* merged until a request takes it out (handle_merge, handle_activate, refresh_kind).
LEMMA HistoryKept ==
    ASSUME OnionsTypeOK, OneLayer, Whole, Kept, Linked, audit = layers,
           Undisturbed', [OnionsNext]_onionVars
    PROVE  (Whole /\ Kept /\ Linked /\ audit = layers)'
<1> USE OnionsAssumption
<1> DEFINE Goal == (Whole /\ Kept /\ Linked /\ audit = layers)'
<1>1. CASE Connect
  <2>1. request'.step \in {"expose", "check"} BY <1>1 DEF Connect, Onion, Live, NoRequest
  <2>2. ~Merging' /\ ~Renewing' BY <2>1 DEF Merging, Renewing
  <2>3. ~Merging /\ ~Renewing BY <1>1 DEF Connect, NoRequest, Merging, Renewing
  <2>4. UNCHANGED <<links, overlay, layers, audit>> BY <1>1 DEF Connect
  <2> QED BY <2>2, <2>3, <2>4 DEF Whole, Kept, Linked
<1>2. CASE Expose
  <2> PICK shown \in Made(sealedSet \cap store \cap request.asks) :
        /\ links' = [k \in LayerKinds |-> Of(k, shown)]
        /\ request' = [request EXCEPT !.step = "sysext", !.exposed = shown]
    BY <1>2 DEF Expose
  <2>1. request'.step = "sysext" /\ request'.exposed = shown BY DEF OnionsTypeOK
  <2>2. Whole' BY <2>1 DEF Whole
  <2>3. Merging' /\ ~Renewing' BY <2>1 DEF Merging, Renewing
  <2>4. UNCHANGED <<overlay, layers, audit>> BY <1>2 DEF Expose
  <2> QED BY <2>2, <2>3, <2>4 DEF Kept, Linked
<1>3. ASSUME NEW kind \in LayerKinds, NEW next, MergeKind(kind, next),
             \/ kind = "sysext" /\ next = "confext"
             \/ kind = "confext" /\ next = "record"
      PROVE  Goal
  <2>1. request' = [request EXCEPT !.step = next] /\ request.step = kind
        /\ UNCHANGED <<links, layers, audit>>
    BY <1>3 DEF MergeKind
  <2>2. /\ request'.step = next /\ request'.exposed = request.exposed
        /\ Merging /\ Merging' /\ ~Renewing'
    BY <1>3, <2>1 DEF OnionsTypeOK, Merging, Renewing
  <2> PICK code \in {0, 1} : /\ MergeVerb(kind, overlay', code)
                             /\ rcs' = [rcs EXCEPT ![kind] = code]
    BY <1>3 DEF MergeKind
  <2>3. /\ \A k \in LayerKinds : k # kind => overlay'[k] = overlay[k] /\ rcs'[k] = rcs[k]
        /\ rcs'[kind] = code
    BY SystemdKeeps DEF OnionsTypeOK
  <2>4. /\ code = 0 => overlay'[kind] = links[kind]
        /\ code = 1 => overlay'[kind] = overlay[kind]
        /\ overlay[kind] # {} => overlay'[kind] = overlay[kind]
    BY DEF MergeVerb, Over, OnionsTypeOK
  <2>5. Whole' BY <1>3, <2>1, <2>2, <2>3, <2>4 DEF Whole, LayerKinds
  <2>6. Kept' BY <2>1, <2>2, <2>3, <2>4 DEF Kept, OnionsTypeOK
  <2> QED BY <2>1, <2>2, <2>5, <2>6 DEF Linked
<1>4. CASE Record
  <2>1. /\ layers' = [n \in Layers |-> Classify(n)] /\ audit' = layers'
        /\ request' = NoRequest /\ UNCHANGED <<links, overlay>> /\ request.step = "record"
    BY <1>4 DEF Record, Settle, Undisturbed, givenVars
  <2>2. ~Merging' /\ ~Renewing' BY <2>1 DEF Merging, Renewing, NoRequest
  <2>3. ASSUME NEW n \in Layers, layers'[n] = "merged"
        PROVE  n \in links[KindOf[n]] /\ n \in overlay[KindOf[n]]
    <3>1. Classify(n) = "merged" BY <2>1, <2>3
    <3>2. n \in request.exposed /\ rcs[KindOf[n]] = 0 BY <3>1 DEF Classify
    <3>3. n \in links[KindOf[n]] BY <2>1, <3>2 DEF Whole, Merging, Of
    <3> QED BY <2>1, <3>2, <3>3 DEF Whole, Merging, LayerKinds
  <2>4. Kept' BY <2>1, <2>3 DEF Kept
  <2> QED BY <2>1, <2>2, <2>4 DEF Whole, Linked
<1>5. CASE Decline
  <2>1. ~Merging /\ ~Renewing /\ ~Merging' /\ ~Renewing'
    BY <1>5 DEF Decline, Merging, Renewing, NoRequest
  <2> QED BY <1>5, <2>1 DEF Decline, Whole, Kept, Linked
<1>6. CASE Link
  <2> PICK n \in request.asks, laid \in Made(request.asks) :
        links' = [links EXCEPT ![KindOf[n]] = IF request.verb = "activate"
                                              THEN (@ \ {n}) \cup laid ELSE @ \ {n}]
    BY <1>6 DEF Link
  <2>1. request.asks = {n} /\ n \in Layers /\ request' = [request EXCEPT !.step = "refresh"]
        /\ request.step = "check" /\ UNCHANGED <<overlay, layers, audit, runFails>>
    BY <1>6 DEF Link, OneLayer, givenVars
  <2>2. laid = {n} BY <2>1 DEF Undisturbed, Made
  <2>3. /\ ~Merging /\ ~Renewing /\ ~Merging' /\ Renewing'
        /\ request'.asks = {n} /\ request'.verb = request.verb
    BY <2>1 DEF Merging, Renewing, OnionsTypeOK
  <2>4. request.verb = "activate" => n \in links'[KindOf[n]]
    BY <2>1, <2>2 DEF OnionsTypeOK
  <2>5. \A m \in Layers : m # n /\ m \in links[KindOf[m]] => m \in links'[KindOf[m]]
    BY <2>1 DEF OnionsTypeOK
  <2>6. Kept' BY <2>1, <2>3, <2>5 DEF Kept
  <2> QED BY <2>1, <2>3, <2>4, <2>6 DEF Whole, Linked
<1>7. CASE Renew
  <2> PICK n \in request.asks, code \in {0, 1} :
        /\ Refresh(KindOf[n], overlay', code)
        /\ Settle([layers EXCEPT ![n] = IF request.verb = "deactivate" THEN "omitted"
                                        ELSE IF code = 0 THEN "merged" ELSE "refused"])
    BY <1>7 DEF Renew
  <2>1. request.asks = {n} /\ n \in Layers /\ KindOf[n] \in LayerKinds /\ Renewing
        /\ request' = NoRequest /\ UNCHANGED links /\ audit' = layers'
        /\ request.verb \in {"activate", "deactivate"} /\ ~Merging
    BY <1>7 DEF Renew, OneLayer, Renewing, Settle, Merging, OnionsTypeOK, Undisturbed, givenVars
  <2>2. ~Merging' /\ ~Renewing' BY <2>1 DEF Merging, Renewing, NoRequest
  <2>3. /\ \A k \in LayerKinds : k # KindOf[n] => overlay'[k] = overlay[k]
        /\ \/ overlay' = overlay
           \/ overlay'[KindOf[n]] = links[KindOf[n]]
        /\ code = 0 => overlay'[KindOf[n]] = links[KindOf[n]]
    BY <2>1, SystemdKeeps
  <2>4. ASSUME NEW m \in Layers, m # n, layers'[m] = "merged"
        PROVE  m \in overlay'[KindOf[m]] /\ m \in links[KindOf[m]]
    <3>1. layers[m] = "merged" BY <2>4 DEF Settle, OnionsTypeOK
    <3>2. m \in overlay[KindOf[m]] /\ m \in links[KindOf[m]] BY <2>1, <2>4, <3>1 DEF Kept
    <3> QED BY <2>1, <2>3, <3>2
  <2>5. ASSUME layers'[n] = "merged"
        PROVE  n \in overlay'[KindOf[n]] /\ n \in links[KindOf[n]]
    <3>1. request.verb # "deactivate" /\ code = 0 BY <2>1, <2>5 DEF Settle, OnionsTypeOK
    <3>2. n \in links[KindOf[n]] BY <2>1, <3>1 DEF Linked
    <3> QED BY <2>3, <3>1, <3>2
  <2>6. Kept' BY <2>1, <2>4, <2>5 DEF Kept
  <2> QED BY <2>1, <2>2, <2>6 DEF Whole, Linked
<1>8. CASE Kill
  <2>1. kills' = kills + 1 /\ kills \in Nat BY <1>8 DEF Kill, OnionsTypeOK
  <2> QED BY <2>1 DEF Undisturbed
<1>9. CASE UNCHANGED onionVars
  BY <1>9 DEF onionVars, Whole, Kept, Linked, Merging, Renewing
<1> QED
  BY <1>1, <1>2, <1>3, <1>4, <1>5, <1>6, <1>7, <1>8, <1>9 DEF OnionsNext, LayerKinds

\* The steps of the broker keep the invariant.
LEMMA InvKept == ASSUME OnionsInv, [OnionsNext]_onionVars PROVE OnionsInv'
<1> USE DEF OnionsInv
<1>1. OnionsTypeOK' BY TypeKept
<1>2. OneLayer' BY OneLayerKept
<1>3. OnlySealed' BY OnlySealedKept
<1>4. Undisturbed' => Undisturbed
  <2>1. kills \in Nat BY OnionsAssumption DEF OnionsTypeOK
  <2>2. UNCHANGED runFails
    BY DEF OnionsNext, onionVars, givenVars, Connect, Expose, MergeKind, Record, Decline, Link,
           Renew, Kill
  <2>3. CASE Kill BY <2>1, <2>3 DEF Kill, Undisturbed
  <2>4. CASE ~Kill
    <3>1. UNCHANGED kills
      BY <2>4 DEF OnionsNext, onionVars, Connect, Expose, MergeKind, Record, Decline, Link, Renew
    <3> QED BY <2>2, <3>1 DEF Undisturbed
  <2> QED BY <2>3, <2>4
<1>5. Undisturbed' => (Whole /\ Kept /\ Linked /\ audit = layers)' BY <1>4, HistoryKept
<1> QED BY <1>1, <1>2, <1>3, <1>5

---------------------------------------------------------------------------

\* The broker's memory, its links and the audit file keep their shape.
THEOREM OnionsTyped == OnionsSpec => []OnionsTypeOK
<1>1. OnionsInv => OnionsTypeOK BY DEF OnionsInv
<1> QED BY <1>1, InitHolds, InvKept, PTL DEF OnionsSpec

\* For any policy, store and sequence of requests, only sealed, present and signed
\* layers are merged, and an undisturbed audit file lies about none
\* (handle_merge, handle_activate, write_state).
THEOREM AuditHolds == OnionsSpec => []OnionAudit
<1>1. OnionsInv => OnionAudit
  <2> SUFFICES ASSUME OnionsInv PROVE OnionAudit OBVIOUS
  <2>1. \A k \in LayerKinds : overlay[k] \subseteq Of(k, sealedSet \cap store \cap Signed)
    BY DEF OnionsInv, OnlySealed
  <2>2. kills = 0 /\ ~runFails => Kept /\ audit = layers BY DEF OnionsInv, Undisturbed
  <2> QED BY <2>1, <2>2 DEF OnionAudit, Kept
<1> QED BY <1>1, InitHolds, InvKept, PTL DEF OnionsSpec

---------------------------------------------------------------------------
(* Workshops: the shape of their state *)

Steps      == {"idle", "key", "rmi", "unfile", "lookup", "derive", "start", "inject", "install", "commit",
               "cleanup", "store", "clear", "create", "run", "works", "destroy", "reap", "done"}
Marks      == {"start", "clear", "transient"}
SomeSeed   == Seeds \cup {NoSeed}
SomeImages == [id : Nat, seed : SomeSeed, pkgs : SUBSET Packages, vers : Nat]
SomeRecs   == [id : Nat, vers : Nat]
Containers == [seed : Seeds, pkgs : SUBSET Packages, vers : Nat]
Launches   == [at : Steps, shop : Shops \cup {"none"}, pkgs : Recipes \cup {{}}, refresh : BOOLEAN,
               offline : BOOLEAN, key : ShedKeys \cup {NoKey}, rec : SomeRecs, got : Nat, ok : BOOLEAN,
               past : SUBSET Marks, ran : SomeImages]

ShopShape ==
    /\ hall \in Halls /\ shipped \in Seeds /\ loaded \in SomeSeed
    /\ recipe \in [Shops -> SUBSET Recipes] /\ \A w \in Shops : \A r, s \in recipe[w] : r = s
    /\ images \in [ImageTags -> SomeImages] /\ index \in [ShedKeys -> SomeRecs]
    /\ maker \in [Shops -> SUBSET Containers] /\ \A w \in Shops : \A c, d \in maker[w] : c = d
    /\ wired \subseteq Shops /\ wlBench \subseteq Shops
    /\ launch \in [Processes -> Launches]
    /\ upstream \in Nat /\ made \in 0..MaxMade /\ stops \in Nat

\* Ids are given in order, and 0 to nothing
IdsOK ==
    /\ \A t \in ImageTags : images[t].id <= made /\ (images[t] # NoImage => images[t].id # NotThere)
    /\ \A k \in ShedKeys : index[k].id <= made /\ (index[k] # NoRecord => index[k].id # NotThere)

Deriving == {"inject", "install", "commit"}
Working  == {"clear", "create", "run", "works", "destroy"}

\* How far a launch came, and with what key
Course(j) ==
    /\ j.at # "idle" => j.shop \in Shops
    /\ j.at \in {"idle", "done", "key"} => j.key = NoKey
    /\ j.at \in {"rmi", "unfile", "lookup", "store"} => j.key # NoKey
    /\ j.at \in Steps \ ({"idle", "done"} \cup Working) => j.pkgs # {}
    /\ j.key # NoKey => j.key \in ShedKeys /\ j.key[2] = j.pkgs /\ j.pkgs # {}
    /\ j.rec # NoRecord => j.key # NoKey /\ j.at \in Working
    /\ j.at \in {"idle", "key", "rmi", "unfile", "lookup", "derive", "start"} => j.past = {}
    /\ "clear" \in j.past => j.at \in (Working \ {"clear"}) \cup {"reap", "done"}
    /\ "transient" \in j.past => \/ j.at = "done"
                                 \/ j.at \in Working \cup {"reap"} /\ j.pkgs # {} /\ j.key = NoKey
    /\ j.at \in Working /\ j.pkgs # {} /\ j.key = NoKey => "transient" \in j.past
    /\ j.at = "reap" => j.key = NoKey
    /\ j.ok => j.at \in {"cleanup", "store", "reap"} \cup Working
CourseOK(p) == Course(launch[p]) /\ (launch[p].at # "idle" => launch[p].shop \in hall.serves[p])

---------------------------------------------------------------------------
(* Workshops that are not launched twice at once *)

\* What a loaded image cannot be but the shipped one
Genuine(seed) == May("load") \/ seed = shipped

\* The seed a launch goes by
SeedOK(p) == LET j == launch[p] IN
    /\ j.at = "start" => loaded = NoSeed \/ Genuine(loaded)
    /\ j.key # NoKey => Genuine(j.key[1])

\* The derivation container of a launch holds what has been installed
MakerOK(p) == LET j == launch[p] IN
    j.at \in Deriving => \A c \in maker[j.shop] :
        /\ Genuine(c.seed)
        /\ c.pkgs = IF j.at = "commit" THEN j.pkgs ELSE {}
        /\ j.at = "commit" => j.got \in {c.vers, NotThere}

\* An image is what its key says
ShedOK == \A k \in ShedKeys :
    images[k] # NoImage => images[k].pkgs = k[2] /\ (May("load") \/ images[k].seed = k[1])

\* The image without a key is of this launch, and goes with it
OwnImage(p) == LET j == launch[p] IN
    \/ "transient" \in j.past /\ j.at \in {"clear", "create", "run"}
    \/ j.at = "cleanup" /\ j.ok /\ j.key = NoKey
TransientOK(p) == LET j == launch[p]
                      i == images[Transient(j.shop)] IN
    /\ OwnImage(p) => i = NoImage \/ (i.pkgs = j.pkgs /\ Genuine(i.seed))
    /\ "transient" \in j.past /\ j.at = "done" => i = NoImage

\* What was started is gone afterwards
LeavesOK(p) == LET j == launch[p] IN
    /\ "start" \in j.past /\ j.at \notin Deriving \cup {"cleanup"} => maker[j.shop] = {} /\ j.shop \notin wired
    /\ "clear" \in j.past /\ j.at \in {"reap", "done"} => j.shop \notin wlBench

RanOK(p) == LET j == launch[p] IN
    j.at = "works" => j.ran.pkgs = j.pkgs /\ Genuine(j.ran.seed)

\* The record a single launcher goes by is of the image there is
Vouched(r, i) == r.id = i.id /\ r.vers \in {i.vers, NotThere}
RecordsOK(p) == LET j == launch[p] IN
    /\ \A k \in ShedKeys : index[k] # NoRecord /\ images[k].id = index[k].id => Vouched(index[k], images[k])
    /\ (j.at = "cleanup" /\ j.ok) \/ j.at = "store" =>
          j.key = NoKey \/ images[j.key] = NoImage \/ j.got \in {images[j.key].vers, NotThere}
    /\ j.rec # NoRecord /\ j.at \in {"clear", "create", "run"} =>
          images[j.key] = NoImage \/ Vouched(j.rec, images[j.key])
    /\ j.rec # NoRecord /\ j.at = "works" => Vouched(j.rec, j.ran)

\* Of one launch, what holds of it where no workshop is launched twice at once
Sound(p) == SeedOK(p) /\ MakerOK(p) /\ TransientOK(p) /\ LeavesOK(p) /\ RanOK(p)

ShopInv ==
    /\ ShopShape /\ IdsOK
    /\ \A p \in Processes : CourseOK(p)
    /\ Apart => /\ ShedOK
                /\ \A p \in Processes : Sound(p) /\ (Alone(p) => RecordsOK(p))

---------------------------------------------------------------------------
(* What every step leaves alone *)

\* What a process does, when it does something
StepOf(p) ==
    \/ \E w \in Shops, refresh, offline \in BOOLEAN : StartLaunch(p, w, refresh, offline)
    \/ TakeKey(p) \/ RmImage(p) \/ Unfile(p) \/ LookUp(p)
    \/ Prepare(p) \/ StartMaker(p) \/ WireMaker(p) \/ Install(p) \/ Commit(p)
    \/ Cleanup(p) \/ Store(p) \/ Clear(p) \/ Create(p) \/ Run(p) \/ Ended(p)
    \/ Destroy(p) \/ Reap(p) \/ KillLaunch(p)

\* What happens around the launches
StepAround == (\E w \in Shops, r \in Recipes : Promote(w, r)) \/ Prune \/ Publish

\* Who acts: one process, the world around the launches, or a reboot (WorkshopNext).
LEMMA ShopSteps ==
    ASSUME [WorkshopNext]_workshopVars
    PROVE  (\E p \in Processes : StepOf(p)) \/ StepAround \/ Restarts \/ UNCHANGED workshopVars
BY DEF WorkshopNext, StepOf, StepAround

\* No key of the Tool Shed is the tag of an image without one, or no key at all
\* (canonical_key_input, transient_tag).
LEMMA KeyFacts ==
    /\ NoKey \notin ShedKeys
    /\ ShedKeys \subseteq ImageTags
    /\ \A w \in Shops : Transient(w) \in ImageTags /\ Transient(w) \notin ShedKeys
    /\ \A v, w \in Shops : Transient(v) = Transient(w) => v = w
    /\ \A t \in ImageTags : t \in ShedKeys \/ \E w \in Shops : t = Transient(w)
    /\ \A s, r : KeyOf(s, r)[1] = s /\ KeyOf(s, r)[2] = r
    /\ \A s \in Seeds, r \in Recipes : KeyOf(s, r) \in ShedKeys
    /\ \A k \in ShedKeys : k[1] \in Seeds /\ k[2] \in Recipes /\ k[2] \subseteq Packages
BY WorkshopAssumption DEF NoKey, ShedKeys, KeyOf, Transient, ImageTags

\* Which workshops a process launches is settled, and its launch is its own
LEMMA OthersStay ==
    ASSUME ShopShape, NEW p \in Processes, StepOf(p)
    PROVE  /\ hall' = hall /\ \A q \in Processes \ {p} : launch'[q] = launch[q]
BY DEF StepOf, ShopShape, outside, NowIs, At, Fails, Agreed,
       StartLaunch, TakeKey, RmImage, Unfile, LookUp, Prepare, StartMaker, WireMaker, Install, Commit,
       Cleanup, Store, Clear, Create, Run, Ended, Destroy, Reap, KillLaunch

---------------------------------------------------------------------------
(* The shape is kept *)

\* A new launch, a finished one and one after a miss are launches.
LEMMA LaunchForms ==
    /\ NoLaunch \in Launches
    /\ \A j \in Launches : Finished(j) \in Launches /\ Miss(j) \in Launches
<1>1. NoLaunch \in Launches
  BY DEF Launches, NoLaunch, Steps, NoImage, SomeImages, SomeSeed, NoRecord, SomeRecs, NotThere
<1>2. ASSUME NEW j \in Launches PROVE Finished(j) \in Launches
  BY <1>1 DEF Launches, Finished, Steps
<1>3. ASSUME NEW j \in Launches PROVE Miss(j) \in Launches
  <2>1. [j EXCEPT !.at = "derive", !.refresh = FALSE] \in Launches BY DEF Launches, Steps
  <2> QED BY <1>2, <2>1 DEF Miss
<1> QED BY <1>1, <1>2, <1>3

\* A step of a launch leaves it a launch, or a new or a finished one (commit_launch and below).
LEMMA StepLaunch ==
    ASSUME ShopShape, NEW p \in Processes, CourseOK(p), StepOf(p)
    PROVE  \E j \in Launches : launch' = [launch EXCEPT ![p] = j]
<1> DEFINE j == launch[p]
<1> USE DEF NowIs, At, Fails
<1>0. j \in Launches BY DEF ShopShape
<1>n. NoLaunch \in Launches BY LaunchForms
<1>f. Finished(j) \in Launches /\ Miss(j) \in Launches BY <1>0, LaunchForms
<1>1. ASSUME NEW w \in Shops, NEW refresh \in BOOLEAN, NEW offline \in BOOLEAN, StartLaunch(p, w, refresh, offline)
      PROVE  \E i \in Launches : launch' = [launch EXCEPT ![p] = i]
  <2> PICK r \in recipe[w] :
        launch' = [launch EXCEPT ![p] =
                     [NoLaunch EXCEPT !.at = IF r = {} THEN "clear" ELSE "key", !.shop = w, !.pkgs = r,
                                      !.refresh = refresh, !.offline = offline]]
    BY <1>1 DEF StartLaunch, Agreed
  <2>1. r \in Recipes BY WorkshopAssumption DEF ShopShape
  <2> DEFINE at == IF r = {} THEN "clear" ELSE "key"
  <2>2. launch' = [launch EXCEPT ![p] = [NoLaunch EXCEPT !.at = at, !.shop = w, !.pkgs = r,
                                                       !.refresh = refresh, !.offline = offline]]
    OBVIOUS
  <2>3. at \in Steps BY DEF Steps
  <2> HIDE DEF at
  <2>4. [NoLaunch EXCEPT !.at = at, !.shop = w, !.pkgs = r, !.refresh = refresh, !.offline = offline] \in Launches
    BY <1>n, <2>1, <2>3 DEF Launches
  <2> QED BY <2>2, <2>4
<1>2. CASE TakeKey(p)
  <2>1. j.pkgs \in Recipes BY <1>0, <1>2 DEF TakeKey, CourseOK, Course, Launches, Steps, Working
  <2>2. loaded' # NoSeed => KeyOf(loaded', j.pkgs) \in ShedKeys
    BY <1>2, <2>1, KeyFacts DEF TakeKey, EnsureSeed, ShopShape, SomeSeed
  <2>3. \A at \in Steps, k \in ShedKeys : [j EXCEPT !.key = k, !.at = at] \in Launches
    BY <1>0 DEF Launches
  <2> QED BY <1>f, <1>2, <2>2, <2>3 DEF TakeKey, Steps
<1>3. CASE RmImage(p) \/ Unfile(p) BY <1>0, <1>f, <1>3 DEF RmImage, Unfile, Launches, Steps
<1>4. CASE LookUp(p)
  <2>1. j.key \in ShedKeys BY <1>4 DEF LookUp, CourseOK, Course
  <2>2. index[j.key] \in SomeRecs BY <2>1 DEF ShopShape
  <2> QED BY <1>0, <1>f, <1>4, <2>2 DEF LookUp, Launches, Steps
<1>a. \A at \in Steps : [j EXCEPT !.at = at] \in Launches BY <1>0 DEF Launches
<1>5. CASE Prepare(p) \/ WireMaker(p)
  BY <1>a, <1>f, <1>5 DEF Prepare, WireMaker, Steps
<1>s. CASE StartMaker(p)
  <2> DEFINE begun == [j EXCEPT !.past = @ \cup {"start"}]
  <2>1. begun \in Launches BY <1>0 DEF Launches, Marks
  <2>2. \E at \in Steps : launch' = [launch EXCEPT ![p] = [begun EXCEPT !.at = at]]
    BY <1>s DEF StartMaker, Steps
  <2> HIDE DEF begun
  <2>3. \A at \in Steps : [begun EXCEPT !.at = at] \in Launches BY <2>1 DEF Launches
  <2> QED BY <2>2, <2>3
<1>6. CASE Install(p)
  <2>1. upstream \in Nat /\ NotThere \in Nat BY DEF ShopShape, NotThere
  <2>2. \A got \in Nat : [j EXCEPT !.at = "commit", !.got = got] \in Launches BY <1>0 DEF Launches, Steps
  <2>3. \/ launch' = [launch EXCEPT ![p] = [j EXCEPT !.at = "cleanup"]]
        \/ \E got \in {upstream, NotThere} : launch' = [launch EXCEPT ![p] = [j EXCEPT !.at = "commit", !.got = got]]
    BY <1>6 DEF Install
  <2> QED BY <1>a, <2>1, <2>2, <2>3 DEF Steps
<1>c. CASE Commit(p)
  <2>1. [j EXCEPT !.at = "cleanup", !.ok = TRUE] \in Launches BY <1>0 DEF Launches, Steps
  <2> QED BY <1>a, <1>c, <2>1 DEF Commit, Steps
<1>t. CASE Store(p)
  <2>1. [j EXCEPT !.at = "clear", !.got = NotThere] \in Launches BY <1>0 DEF Launches, Steps, NotThere
  <2> QED BY <1>t, <2>1 DEF Store
<1>7. CASE Cleanup(p)
  <2>1. [j EXCEPT !.at = "clear", !.past = @ \cup {"transient"}] \in Launches BY <1>0 DEF Launches, Steps, Marks
  <2> QED BY <1>7, <1>f, <1>a, <2>1 DEF Cleanup, Steps
<1>8. CASE Clear(p) \/ Create(p)
  <2>1. [j EXCEPT !.at = "create", !.past = @ \cup {"clear"}] \in Launches BY <1>0 DEF Launches, Steps, Marks
  <2> QED BY <1>8, <1>a, <2>1 DEF Clear, Create, Steps
<1>9. CASE Run(p)
  <2>1. [NoImage EXCEPT !.seed = loaded'] \in SomeImages
    BY <1>9 DEF Run, EnsureSeed, NoImage, SomeImages, SomeSeed, ShopShape, NotThere
  <2>2. TagOf(j) \in ImageTags
    BY <1>9, KeyFacts DEF TagOf, Run, CourseOK, Course
  <2>3. images[TagOf(j)] \in SomeImages BY <2>2 DEF ShopShape
  <2> QED BY <1>0, <1>9, <2>1, <2>3 DEF Run, Launches, Steps
<1>10. CASE Ended(p)
  <2>1. [j EXCEPT !.at = "destroy", !.ran = NoImage] \in Launches
    BY <1>0, <1>n DEF Launches, Steps, NoLaunch
  <2> QED BY <1>10, <2>1 DEF Ended
<1>d. CASE Destroy(p) BY <1>a, <1>f, <1>d DEF Destroy, Steps
<1>r. CASE Reap(p) \/ KillLaunch(p) BY <1>f, <1>n, <1>r DEF Reap, KillLaunch
<1> QED
  BY <1>1, <1>2, <1>3, <1>4, <1>5, <1>s, <1>6, <1>c, <1>t, <1>d, <1>r, <1>7, <1>8, <1>9, <1>10 DEF StepOf

\* The steps of one launch keep the shape of everything.
LEMMA StepShape == ASSUME ShopShape, NEW p \in Processes, CourseOK(p), StepOf(p) PROVE ShopShape'
<1> DEFINE Rest == /\ UNCHANGED <<hall, shipped, recipe, upstream>>
                   /\ loaded' \in SomeSeed /\ images' \in [ImageTags -> SomeImages]
                   /\ index' \in [ShedKeys -> SomeRecs]
                   /\ maker' \in [Shops -> SUBSET Containers] /\ \A w \in Shops : \A c, d \in maker'[w] : c = d
                   /\ wired' \subseteq Shops /\ wlBench' \subseteq Shops
                   /\ made' \in 0..MaxMade /\ stops' \in Nat
<1>0. launch' \in [Processes -> Launches] BY StepLaunch DEF ShopShape
<1>s. Here(p) \in Shops \/ launch[p].at = "idle" \/ \E w \in Shops, a, b \in BOOLEAN : StartLaunch(p, w, a, b)
  BY DEF CourseOK, Course, Here
<1> SUFFICES Rest BY <1>0 DEF ShopShape
<1> USE DEF ShopShape, outside, shopVars, boxVars, Here
<1>1. ASSUME NEW w \in Shops, NEW refresh \in BOOLEAN, NEW offline \in BOOLEAN, StartLaunch(p, w, refresh, offline)
      PROVE  Rest
  BY <1>1 DEF StartLaunch
<1>2. CASE TakeKey(p) \/ Prepare(p) \/ Run(p)
  BY <1>2, WorkshopAssumption DEF TakeKey, Prepare, Run, EnsureSeed, SomeSeed
<1>3. CASE RmImage(p) \/ Reap(p)
  <2>1. NoImage \in SomeImages BY DEF NoImage, SomeImages, SomeSeed, NotThere
  <2> QED BY <1>3, <2>1 DEF RmImage, Reap, Removed
<1>4. CASE Unfile(p) \/ LookUp(p)
  <2>1. NoRecord \in SomeRecs BY DEF NoRecord, SomeRecs, NotThere
  <2> QED BY <1>4, <2>1 DEF Unfile, LookUp, Unfiled
<1>5. CASE StartMaker(p)
  <2>1. loaded # NoSeed => [seed |-> loaded, pkgs |-> {}, vers |-> NotThere] \in Containers
    BY DEF Containers, SomeSeed, NotThere
  <2>2. launch[p].shop \in Shops BY <1>5 DEF StartMaker, CourseOK, Course
  <2>3. CASE UNCHANGED maker BY <1>5, <2>3 DEF StartMaker
  <2>4. CASE maker' # maker
    <3> DEFINE fresh == [seed |-> loaded, pkgs |-> {}, vers |-> NotThere]
    <3>1. maker' = [maker EXCEPT ![launch[p].shop] = {fresh}] /\ fresh \in Containers
      BY <1>5, <2>1, <2>4 DEF StartMaker
    <3> HIDE DEF fresh
    <3>2. maker' \in [Shops -> SUBSET Containers] BY <2>2, <3>1
    <3>3. \A w \in Shops : \A c, d \in maker'[w] : c = d BY <2>2, <3>1
    <3> QED BY <1>5, <3>2, <3>3 DEF StartMaker
  <2> QED BY <2>3, <2>4
<1>6. CASE Install(p)
  <2>1. launch[p].pkgs \subseteq Packages BY WorkshopAssumption DEF Launches
  <2>2. \A c \in Containers : [c EXCEPT !.pkgs = @ \cup launch[p].pkgs, !.vers = upstream] \in Containers
    BY <2>1 DEF Containers
  <2>3. CASE UNCHANGED maker BY <1>6, <2>3 DEF Install
  <2>4. CASE maker' # maker
    <3> DEFINE built == {[c EXCEPT !.pkgs = @ \cup launch[p].pkgs, !.vers = upstream] : c \in maker[launch[p].shop]}
    <3>1. maker' = [maker EXCEPT ![launch[p].shop] = built] BY <1>6, <2>4 DEF Install
    <3>2. launch[p].shop \in Shops BY <1>6 DEF Install, CourseOK, Course
    <3>3. built \in SUBSET Containers /\ \A c, d \in built : c = d
      <4>1. \A c, d \in maker[launch[p].shop] : c \in Containers /\ c = d BY <3>2
      <4>2. ASSUME NEW c \in built PROVE c \in Containers
        <5> PICK a \in maker[launch[p].shop] : c = [a EXCEPT !.pkgs = @ \cup launch[p].pkgs, !.vers = upstream] OBVIOUS
        <5> QED BY <2>2, <4>1
      <4>3. ASSUME NEW c \in built, NEW d \in built PROVE c = d
        <5> PICK a \in maker[launch[p].shop] : c = [a EXCEPT !.pkgs = @ \cup launch[p].pkgs, !.vers = upstream] OBVIOUS
        <5> PICK b \in maker[launch[p].shop] : d = [b EXCEPT !.pkgs = @ \cup launch[p].pkgs, !.vers = upstream] OBVIOUS
        <5> QED BY <4>1
      <4> QED BY <4>2, <4>3
    <3> HIDE DEF built
    <3>4. maker' \in [Shops -> SUBSET Containers] BY <3>1, <3>2, <3>3
    <3>5. \A w \in Shops : \A c, d \in maker'[w] : c = d BY <3>1, <3>2, <3>3
    <3> QED BY <1>6, <3>4, <3>5 DEF Install
  <2> QED BY <2>3, <2>4
<1>7. CASE Commit(p)
  <2>1. ASSUME NEW c \in Containers, made < MaxMade
        PROVE  [id |-> made + 1, seed |-> c.seed, pkgs |-> c.pkgs, vers |-> c.vers] \in SomeImages
    BY WorkshopAssumption DEF Containers, SomeImages, SomeSeed
  <2>2. launch[p].shop \in Shops BY <1>7 DEF Commit, CourseOK, Course
  <2>3. made < MaxMade => made + 1 \in 0..MaxMade BY WorkshopAssumption
  <2> QED BY <1>7, <2>1, <2>2, <2>3 DEF Commit
<1>8. CASE Store(p)
  <2>1. launch[p].key \in ShedKeys /\ launch[p].key \in ImageTags BY <1>8, KeyFacts DEF Store, CourseOK, Course
  <2>2. [id |-> images[launch[p].key].id, vers |-> launch[p].got] \in SomeRecs
    BY <2>1 DEF SomeRecs, SomeImages, Launches
  <2> QED BY <1>8, <2>2 DEF Store
<1>9. CASE WireMaker(p) \/ Cleanup(p) \/ Clear(p) \/ Create(p) \/ Destroy(p)
  BY <1>9, <1>s DEF WireMaker, Cleanup, Clear, Create, Destroy, CourseOK, Course
<1>10. CASE Ended(p) \/ KillLaunch(p)
  BY <1>10 DEF Ended, KillLaunch
<1> QED
  BY <1>1, <1>2, <1>3, <1>4, <1>5, <1>6, <1>7, <1>8, <1>9, <1>10 DEF StepOf

\* And so do promotions, pruning, publishing and restarts (commit_promote).
LEMMA AroundShape == ASSUME ShopShape, StepAround \/ Restarts \/ UNCHANGED workshopVars PROVE ShopShape'
<1> USE DEF ShopShape, outside, shopVars, boxVars
<1>1. CASE \E w \in Shops, r \in Recipes : Promote(w, r)
  BY <1>1 DEF Promote
<1>2. CASE Prune \/ Publish
  <2>1. NoImage \in SomeImages /\ NoSeed \in SomeSeed BY DEF NoImage, SomeImages, SomeSeed, NotThere
  <2> QED BY <1>2, <2>1 DEF Prune, Publish, Removed
<1>3. CASE Restarts
  BY <1>3, LaunchForms DEF Restarts
<1>4. CASE UNCHANGED workshopVars BY <1>4 DEF workshopVars
<1> QED BY <1>1, <1>2, <1>3, <1>4 DEF StepAround

---------------------------------------------------------------------------
(* Ids, and how far a launch came *)

\* Ids are given in order, and a record has one that was given (derive_pristine, cache_store).
LEMMA IdsKept == ASSUME ShopShape, IdsOK, \A p \in Processes : CourseOK(p), [WorkshopNext]_workshopVars PROVE IdsOK'
<1> USE KeyFacts DEF ShopShape, IdsOK, outside, shopVars, boxVars, NowIs, At, Fails
<1>0. made \in Nat /\ NoImage.id = NotThere /\ NoRecord.id = NotThere /\ NotThere = 0
  BY WorkshopAssumption DEF NoImage, NoRecord, NotThere
<1>1. CASE \E p \in Processes : RmImage(p) \/ Reap(p)
  <2>1. UNCHANGED <<index, made>> /\ \A t \in ImageTags : images'[t] \in {images[t], NoImage}
    BY <1>1 DEF RmImage, Reap, Removed
  <2> QED BY <1>0, <2>1
<1>2. CASE \E p \in Processes : Unfile(p) \/ LookUp(p)
  BY <1>0, <1>2 DEF Unfile, LookUp, Unfiled
<1>3. CASE \E p \in Processes : Commit(p)
  <2> PICK p \in Processes : Commit(p) BY <1>3
  <2>1. CASE UNCHANGED images
    <3>1. made' \in {made, made + 1} /\ UNCHANGED index BY DEF Commit
    <3>2. (\A t \in ImageTags : images[t].id \in Nat) /\ \A k \in ShedKeys : index[k].id \in Nat
      BY DEF SomeImages, SomeRecs
    <3> QED BY <1>0, <2>1, <3>1, <3>2
  <2>2. CASE images' # images
    <3> PICK c \in maker[launch[p].shop] :
          images' = [images EXCEPT ![TagOf(launch[p])] =
                              [id |-> made', seed |-> c.seed, pkgs |-> c.pkgs, vers |-> c.vers]]
      BY <2>2 DEF Commit
    <3>1. made' = made + 1 /\ UNCHANGED index BY <2>2 DEF Commit
    <3>2. \A t \in ImageTags : images'[t] = images[t] \/ images'[t].id = made' BY DEF SomeImages
    <3>3. \A t \in ImageTags : images[t].id \in Nat BY DEF SomeImages
    <3>4. \A k \in ShedKeys : index[k].id \in Nat BY DEF SomeRecs
    <3> QED BY <1>0, <3>1, <3>2, <3>3, <3>4
  <2> QED BY <2>1, <2>2
<1>4. CASE \E p \in Processes : Store(p)
  <2> PICK p \in Processes : Store(p) BY <1>4
  <2>1. launch[p].key \in ShedKeys /\ launch[p].key \in ImageTags BY DEF Store, CourseOK, Course
  <2> QED BY <2>1 DEF Store
<1>5. CASE Prune
  BY <1>0, <1>5 DEF Prune, Removed
<1>6. CASE UNCHANGED <<images, index, made>>
  BY <1>6
<1>7. ASSUME NEW p \in Processes, StepOf(p), ~RmImage(p), ~Reap(p), ~Unfile(p), ~LookUp(p), ~Commit(p), ~Store(p)
      PROVE  UNCHANGED <<images, index, made>>
  <2>1. CASE \E w \in Shops, a, b \in BOOLEAN : StartLaunch(p, w, a, b) BY <2>1 DEF StartLaunch
  <2>2. CASE TakeKey(p) \/ Prepare(p) \/ StartMaker(p) \/ WireMaker(p) BY <2>2 DEF TakeKey, Prepare, StartMaker, WireMaker
  <2>3. CASE Install(p) \/ Cleanup(p) \/ Clear(p) \/ Create(p) BY <2>3 DEF Install, Cleanup, Clear, Create
  <2>4. CASE Run(p) \/ Ended(p) \/ Destroy(p) \/ KillLaunch(p) BY <2>4 DEF Run, Ended, Destroy, KillLaunch
  <2> QED BY <1>7, <2>1, <2>2, <2>3, <2>4 DEF StepOf
<1>8. (StepAround /\ ~Prune) \/ Restarts \/ UNCHANGED workshopVars => UNCHANGED <<images, index, made>>
  BY DEF StepAround, Promote, Publish, Restarts, workshopVars
<1> QED BY <1>1, <1>2, <1>3, <1>4, <1>5, <1>6, <1>7, <1>8, ShopSteps DEF StepAround

---------------------------------------------------------------------------
(* How a launch goes on *)

\* The same launch, but for where it is and what it found
Like(i, j) == i.shop = j.shop /\ i.pkgs = j.pkgs /\ i.key = j.key /\ i.past = j.past

\* It goes on, and knows no more
Goes(i, j, at) == Like(i, j) /\ i.at = at /\ i.rec = j.rec /\ i.got = j.got /\ i.ok = j.ok

\* It is over
Ends(i, j) == /\ i.at = "done" /\ i.shop = j.shop /\ i.past = j.past
              /\ i.pkgs = {} /\ i.key = NoKey /\ i.rec = NoRecord /\ ~i.ok

Begins(i, w, r) == /\ i.at = IF r = {} THEN "clear" ELSE "key"
                   /\ i.shop = w /\ i.pkgs = r /\ i.key = NoKey /\ i.rec = NoRecord /\ i.past = {} /\ ~i.ok

\* A launch begins with its recipe, and nothing of one before (precheck_launch).
LEMMA BeginsIsNew ==
    ASSUME NEW w, NEW r, NEW a, NEW b, NEW i,
           i = [NoLaunch EXCEPT !.at = IF r = {} THEN "clear" ELSE "key", !.shop = w, !.pkgs = r,
                                !.refresh = a, !.offline = b]
    PROVE  Begins(i, w, r)
<1> DEFINE at == IF r = {} THEN "clear" ELSE "key"
<1>1. i = [NoLaunch EXCEPT !.at = at, !.shop = w, !.pkgs = r, !.refresh = a, !.offline = b] OBVIOUS
<1>2. NoLaunch \in Launches BY LaunchForms
<1>3. NoLaunch.key = NoKey /\ NoLaunch.rec = NoRecord /\ NoLaunch.past = {} /\ ~NoLaunch.ok BY DEF NoLaunch
<1> HIDE DEF at
<1>4. i.at = at /\ i.shop = w /\ i.pkgs = r BY <1>1, <1>2 DEF Launches
<1>5. i.key = NoKey /\ i.rec = NoRecord /\ i.past = {} /\ ~i.ok BY <1>1, <1>2, <1>3 DEF Launches
<1> QED BY <1>4, <1>5 DEF Begins, at

\* What is over keeps but its workshop and how far it got (commit_launch).
LEMMA EndsIsFinished == ASSUME NEW j \in Launches, NEW i, i = Finished(j) PROVE Ends(i, j)
BY DEF Finished, NoLaunch, Ends

\* Where only the place changes, all else stays.
LEMMA GoesIsAt == ASSUME NEW j \in Launches, NEW at, NEW i, i = [j EXCEPT !.at = at] PROVE Goes(i, j, at)
BY DEF Launches, Goes, Like

\* A miss ends an offline launch, and lets another derive (cache_lookup).
LEMMA MissesIsMiss ==
    ASSUME NEW j \in Launches, NEW i, i = Miss(j)
    PROVE  Ends(i, j) \/ Goes(i, j, "derive")
<1>1. CASE j.offline BY <1>1, EndsIsFinished DEF Miss
<1>2. CASE ~j.offline
  <2>1. i = [j EXCEPT !.at = "derive", !.refresh = FALSE] BY <1>2 DEF Miss
  <2> QED BY <2>1 DEF Launches, Goes, Like
<1> QED BY <1>1, <1>2

\* A launch begins with the recipe that is recorded (precheck_launch).
LEMMA StartMoves ==
    ASSUME ShopShape, NEW p \in Processes, NEW w \in Shops, NEW a \in BOOLEAN, NEW b \in BOOLEAN,
           StartLaunch(p, w, a, b)
    PROVE  \E r \in recipe[w] : Begins(launch'[p], w, r)
<1> PICK r \in recipe[w] :
      launch' = [launch EXCEPT ![p] =
                   [NoLaunch EXCEPT !.at = IF r = {} THEN "clear" ELSE "key", !.shop = w, !.pkgs = r,
                                    !.refresh = a, !.offline = b]]
  BY DEF StartLaunch, Agreed, NowIs
<1> DEFINE i == [NoLaunch EXCEPT !.at = IF r = {} THEN "clear" ELSE "key", !.shop = w, !.pkgs = r,
                                 !.refresh = a, !.offline = b]
<1>1. Begins(i, w, r) BY BeginsIsNew
<1> HIDE DEF i
<1>2. launch' = [launch EXCEPT ![p] = i] BY DEF i
<1>3. launch'[p] = i BY <1>2 DEF ShopShape
<1> QED BY <1>1, <1>3

\* The launch that each step of a process leaves, field by field.
LEMMA Moves ==
    ASSUME ShopShape, NEW p \in Processes
    PROVE  LET j == launch[p]
               i == launch'[p] IN
           /\ TakeKey(p) => /\ j.at = "key"
                            /\ \/ Ends(i, j) \/ Goes(i, j, "derive")
                               \/ /\ i.key = KeyOf(loaded', j.pkgs) /\ loaded' # NoSeed
                                  /\ i.shop = j.shop /\ i.pkgs = j.pkgs /\ i.past = j.past /\ i.rec = j.rec
                                  /\ i.ok = j.ok /\ i.at \in {"rmi", "lookup"}
           /\ RmImage(p) => j.at = "rmi" /\ Goes(i, j, "unfile")
           /\ Unfile(p) => j.at = "unfile" /\ (Ends(i, j) \/ Goes(i, j, "derive"))
           /\ LookUp(p) => /\ j.at = "lookup"
                           /\ \/ Ends(i, j) \/ Goes(i, j, "derive")
                              \/ /\ Like(i, j) /\ i.at = "clear" /\ i.rec = index[j.key] /\ i.ok = j.ok
                                 /\ images[j.key].id = i.rec.id /\ index' = index
           /\ Prepare(p) => j.at = "derive" /\ (Ends(i, j) \/ Goes(i, j, "start"))
           /\ StartMaker(p) => /\ j.at = "start" /\ i.at \in {"inject", "cleanup"}
                               /\ i.shop = j.shop /\ i.pkgs = j.pkgs /\ i.key = j.key /\ i.rec = j.rec /\ i.ok = j.ok
                               /\ i.past = j.past \cup {"start"}
                               /\ i.at = "inject" => /\ loaded # NoSeed
                                                     /\ maker' = [maker EXCEPT ![j.shop] =
                                                          {[seed |-> loaded, pkgs |-> {}, vers |-> NotThere]}]
           /\ WireMaker(p) => j.at = "inject" /\ (Goes(i, j, "install") \/ Goes(i, j, "cleanup"))
           /\ Install(p) => /\ j.at = "install"
                            /\ \/ Goes(i, j, "cleanup")
                               \/ /\ Like(i, j) /\ i.at = "commit" /\ i.rec = j.rec /\ i.ok = j.ok
                                  /\ i.got \in {upstream, NotThere}
                                  /\ maker' = [maker EXCEPT ![j.shop] =
                                        {[c EXCEPT !.pkgs = @ \cup j.pkgs, !.vers = upstream] : c \in @}]
           /\ Commit(p) => /\ j.at = "commit" /\ Like(i, j) /\ i.at = "cleanup" /\ i.rec = j.rec /\ i.got = j.got
                           /\ i.ok \in BOOLEAN
           /\ Cleanup(p) => /\ j.at = "cleanup"
                            /\ \/ Ends(i, j)
                               \/ j.ok /\ j.key # NoKey /\ Goes(i, j, "store")
                               \/ /\ j.ok /\ j.key = NoKey /\ i.at = "clear"
                                  /\ i.shop = j.shop /\ i.pkgs = j.pkgs /\ i.key = j.key /\ i.rec = j.rec
                                  /\ i.ok = j.ok /\ i.past = j.past \cup {"transient"}
           /\ Store(p) => j.at = "store" /\ Like(i, j) /\ i.at = "clear" /\ i.rec = j.rec /\ i.ok = j.ok
           /\ Clear(p) => /\ j.at = "clear" /\ i.at = "create" /\ i.past = j.past \cup {"clear"}
                          /\ i.shop = j.shop /\ i.pkgs = j.pkgs /\ i.key = j.key /\ i.rec = j.rec /\ i.ok = j.ok
           /\ Create(p) => j.at = "create" /\ (Goes(i, j, "run") \/ Goes(i, j, "destroy"))
           /\ Run(p) => /\ j.at = "run"
                        /\ \/ Goes(i, j, "destroy")
                           \/ /\ Goes(i, j, "works") /\ i.ran.seed # NoSeed
                              /\ i.ran = IF j.pkgs = {} THEN [NoImage EXCEPT !.seed = loaded'] ELSE images[TagOf(j)]
           /\ Ended(p) => j.at = "works" /\ Goes(i, j, "destroy")
           /\ Destroy(p) => /\ j.at = "destroy"
                            /\ \/ j.pkgs # {} /\ j.key = NoKey /\ Goes(i, j, "reap")
                               \/ (j.pkgs = {} \/ j.key # NoKey) /\ Ends(i, j)
           /\ Reap(p) => j.at = "reap" /\ Ends(i, j)
           /\ KillLaunch(p) => i = NoLaunch
<1> DEFINE j == launch[p]
           i == launch'[p]
<1> USE DEF NowIs, At, Fails
<1>0. j \in Launches /\ \A x : launch' = [launch EXCEPT ![p] = x] => i = x BY DEF ShopShape
<1>e. i = Finished(j) => Ends(i, j) BY <1>0, EndsIsFinished
<1>m. i = Miss(j) => Ends(i, j) \/ Goes(i, j, "derive") BY <1>0, MissesIsMiss
<1>g. \A at : i = [j EXCEPT !.at = at] => Goes(i, j, at) BY <1>0, GoesIsAt
<1>2. ASSUME TakeKey(p)
      PROVE  /\ j.at = "key"
             /\ \/ Ends(i, j) \/ Goes(i, j, "derive")
                \/ /\ i.key = KeyOf(loaded', j.pkgs) /\ loaded' # NoSeed
                   /\ i.shop = j.shop /\ i.pkgs = j.pkgs /\ i.past = j.past /\ i.rec = j.rec
                   /\ i.ok = j.ok /\ i.at \in {"rmi", "lookup"}
  <2> DEFINE at == IF j.refresh THEN "rmi" ELSE "lookup"
  <2>1. \/ i = Miss(j)
        \/ i = [j EXCEPT !.key = KeyOf(loaded', j.pkgs), !.at = at] /\ loaded' # NoSeed
    BY <1>0, <1>2 DEF TakeKey
  <2>2. j.at = "key" BY <1>2 DEF TakeKey
  <2>3. at \in {"rmi", "lookup"} OBVIOUS
  <2> HIDE DEF at
  <2>4. CASE i = [j EXCEPT !.key = KeyOf(loaded', j.pkgs), !.at = at]
    <3>1. i.key = KeyOf(loaded', j.pkgs) /\ i.at = at BY <1>0, <2>4 DEF Launches
    <3>2. i.shop = j.shop /\ i.pkgs = j.pkgs /\ i.past = j.past /\ i.rec = j.rec /\ i.ok = j.ok
      BY <1>0, <2>4 DEF Launches
    <3> QED BY <1>m, <2>1, <2>2, <2>3, <3>1, <3>2
  <2> QED BY <1>m, <2>1, <2>2, <2>4
<1>3. RmImage(p) => j.at = "rmi" /\ Goes(i, j, "unfile") BY <1>0, <1>g DEF RmImage
<1>4. Unfile(p) => j.at = "unfile" /\ (Ends(i, j) \/ Goes(i, j, "derive")) BY <1>0, <1>m DEF Unfile
<1>5. ASSUME LookUp(p)
      PROVE  /\ j.at = "lookup"
             /\ \/ Ends(i, j) \/ Goes(i, j, "derive")
                \/ /\ Like(i, j) /\ i.at = "clear" /\ i.rec = index[j.key] /\ i.ok = j.ok
                   /\ images[j.key].id = i.rec.id /\ index' = index
  <2>1. \/ i = Miss(j)
        \/ /\ i = [j EXCEPT !.at = "clear", !.rec = index[j.key]]
           /\ images[j.key].id = index[j.key].id /\ index' = index
    BY <1>0, <1>5 DEF LookUp
  <2>2. j.at = "lookup" BY <1>5 DEF LookUp
  <2>3. i = [j EXCEPT !.at = "clear", !.rec = index[j.key]] =>
           Like(i, j) /\ i.at = "clear" /\ i.rec = index[j.key] /\ i.ok = j.ok
    BY <1>0 DEF Launches, Like
  <2> QED BY <1>m, <2>1, <2>2, <2>3
<1>6. Prepare(p) => j.at = "derive" /\ (Ends(i, j) \/ Goes(i, j, "start")) BY <1>0, <1>e, <1>g DEF Prepare
<1>7. ASSUME StartMaker(p)
      PROVE  /\ j.at = "start" /\ i.at \in {"inject", "cleanup"}
             /\ i.shop = j.shop /\ i.pkgs = j.pkgs /\ i.key = j.key /\ i.rec = j.rec /\ i.ok = j.ok
             /\ i.past = j.past \cup {"start"}
             /\ i.at = "inject" => /\ loaded # NoSeed
                                   /\ maker' = [maker EXCEPT ![j.shop] =
                                        {[seed |-> loaded, pkgs |-> {}, vers |-> NotThere]}]
  <2>1. \/ /\ i = [[j EXCEPT !.past = @ \cup {"start"}] EXCEPT !.at = "inject"] /\ loaded # NoSeed
           /\ maker' = [maker EXCEPT ![j.shop] = {[seed |-> loaded, pkgs |-> {}, vers |-> NotThere]}]
        \/ i = [[j EXCEPT !.past = @ \cup {"start"}] EXCEPT !.at = "cleanup"]
    BY <1>0, <1>7 DEF StartMaker, Here
  <2> QED BY <1>0, <1>7, <2>1 DEF StartMaker, Launches
<1>8. WireMaker(p) => j.at = "inject" /\ (Goes(i, j, "install") \/ Goes(i, j, "cleanup"))
  BY <1>0, <1>g DEF WireMaker
<1>9. ASSUME Install(p)
      PROVE  /\ j.at = "install"
             /\ \/ Goes(i, j, "cleanup")
                \/ /\ Like(i, j) /\ i.at = "commit" /\ i.rec = j.rec /\ i.ok = j.ok
                   /\ i.got \in {upstream, NotThere}
                   /\ maker' = [maker EXCEPT ![j.shop] =
                         {[c EXCEPT !.pkgs = @ \cup j.pkgs, !.vers = upstream] : c \in @}]
  <2>1. CASE \E got \in {upstream, NotThere} : launch' = [launch EXCEPT ![p] = [j EXCEPT !.at = "commit", !.got = got]]
             /\ maker' = [maker EXCEPT ![j.shop] =
                         {[c EXCEPT !.pkgs = @ \cup j.pkgs, !.vers = upstream] : c \in @}]
    <3> PICK got \in {upstream, NotThere} : i = [j EXCEPT !.at = "commit", !.got = got] BY <1>0, <2>1
    <3> QED BY <1>0, <1>9, <2>1 DEF Install, Launches, Like
  <2>2. CASE i = [j EXCEPT !.at = "cleanup"]
    BY <1>9, <1>g, <2>2 DEF Install
  <2> QED BY <1>0, <1>9, <2>1, <2>2 DEF Install, Here
<1>10. ASSUME Cleanup(p)
       PROVE  /\ j.at = "cleanup"
              /\ \/ Ends(i, j)
                 \/ j.ok /\ j.key # NoKey /\ Goes(i, j, "store")
                 \/ /\ j.ok /\ j.key = NoKey /\ i.at = "clear"
                    /\ i.shop = j.shop /\ i.pkgs = j.pkgs /\ i.key = j.key /\ i.rec = j.rec
                    /\ i.ok = j.ok /\ i.past = j.past \cup {"transient"}
  <2>1. \/ i = Finished(j)
        \/ j.ok /\ j.key # NoKey /\ i = [j EXCEPT !.at = "store"]
        \/ j.ok /\ j.key = NoKey /\ i = [j EXCEPT !.at = "clear", !.past = @ \cup {"transient"}]
    BY <1>0, <1>10 DEF Cleanup
  <2>2. CASE j.ok /\ j.key = NoKey /\ i = [j EXCEPT !.at = "clear", !.past = @ \cup {"transient"}]
    <3> DEFINE marks == j.past \cup {"transient"}
    <3>0. i = [j EXCEPT !.at = "clear", !.past = marks] BY <2>2
    <3> HIDE DEF marks
    <3>1. i.at = "clear" /\ i.past = marks BY <1>0, <3>0 DEF Launches
    <3>2. i.shop = j.shop /\ i.pkgs = j.pkgs BY <1>0, <3>0 DEF Launches
    <3>3. i.key = j.key /\ i.rec = j.rec /\ i.ok = j.ok BY <1>0, <3>0 DEF Launches
    <3> QED BY <1>10, <2>2, <3>1, <3>2, <3>3 DEF Cleanup, marks
  <2> QED BY <1>10, <1>e, <1>g, <2>1, <2>2 DEF Cleanup
<1>11. ASSUME Store(p)
       PROVE  j.at = "store" /\ Like(i, j) /\ i.at = "clear" /\ i.rec = j.rec /\ i.ok = j.ok
  <2>1. i = [j EXCEPT !.at = "clear", !.got = NotThere] BY <1>0, <1>11 DEF Store
  <2>2. Like(i, j) /\ i.at = "clear" /\ i.rec = j.rec /\ i.ok = j.ok BY <1>0, <2>1 DEF Launches, Like
  <2> QED BY <1>11, <2>2 DEF Store
<1>12. ASSUME Clear(p)
       PROVE  /\ j.at = "clear" /\ i.at = "create" /\ i.past = j.past \cup {"clear"}
              /\ i.shop = j.shop /\ i.pkgs = j.pkgs /\ i.key = j.key /\ i.rec = j.rec /\ i.ok = j.ok
  <2>1. i = [j EXCEPT !.at = "create", !.past = @ \cup {"clear"}] BY <1>0, <1>12 DEF Clear
  <2>2. /\ i.at = "create" /\ i.past = j.past \cup {"clear"}
        /\ i.shop = j.shop /\ i.pkgs = j.pkgs /\ i.key = j.key /\ i.rec = j.rec /\ i.ok = j.ok
    BY <1>0, <2>1 DEF Launches
  <2> QED BY <1>12, <2>2 DEF Clear
<1>13. Create(p) => j.at = "create" /\ (Goes(i, j, "run") \/ Goes(i, j, "destroy"))
  BY <1>0, <1>g DEF Create
<1>14. ASSUME Run(p)
       PROVE  /\ j.at = "run"
              /\ \/ Goes(i, j, "destroy")
                 \/ /\ Goes(i, j, "works") /\ i.ran.seed # NoSeed
                    /\ i.ran = IF j.pkgs = {} THEN [NoImage EXCEPT !.seed = loaded'] ELSE images[TagOf(j)]
  <2> DEFINE base == IF j.pkgs = {} THEN [NoImage EXCEPT !.seed = loaded'] ELSE images[TagOf(j)]
  <2>1. j.at = "run" /\ (i = [j EXCEPT !.at = "destroy"] \/ (base.seed # NoSeed /\ i = [j EXCEPT !.at = "works", !.ran = base]))
    BY <1>0, <1>14 DEF Run
  <2> HIDE DEF base
  <2>2. CASE base.seed # NoSeed /\ i = [j EXCEPT !.at = "works", !.ran = base]
    <3>1. Goes(i, j, "works") /\ i.ran = base BY <1>0, <2>2 DEF Launches, Goes, Like
    <3> QED BY <2>1, <2>2, <3>1 DEF base
  <2> QED BY <1>g, <2>1, <2>2
<1>15. ASSUME Ended(p) PROVE j.at = "works" /\ Goes(i, j, "destroy")
  <2>1. i = [j EXCEPT !.at = "destroy", !.ran = NoImage] BY <1>0, <1>15 DEF Ended
  <2>2. Goes(i, j, "destroy") BY <1>0, <2>1 DEF Launches, Goes, Like
  <2> QED BY <1>15, <2>2 DEF Ended
<1>16. ASSUME Destroy(p)
       PROVE  /\ j.at = "destroy"
              /\ \/ j.pkgs # {} /\ j.key = NoKey /\ Goes(i, j, "reap")
                 \/ (j.pkgs = {} \/ j.key # NoKey) /\ Ends(i, j)
  BY <1>0, <1>16, <1>e, <1>g DEF Destroy
<1>17. Reap(p) => j.at = "reap" /\ Ends(i, j) BY <1>0, <1>e DEF Reap
<1>18. KillLaunch(p) => i = NoLaunch BY <1>0 DEF KillLaunch
<1>19. ASSUME Commit(p)
       PROVE  /\ j.at = "commit" /\ Like(i, j) /\ i.at = "cleanup" /\ i.rec = j.rec /\ i.got = j.got
              /\ i.ok \in BOOLEAN
  <2>1. j.at = "commit" /\ (i = [j EXCEPT !.at = "cleanup", !.ok = TRUE] \/ i = [j EXCEPT !.at = "cleanup"])
    BY <1>0, <1>19 DEF Commit
  <2>2. CASE i = [j EXCEPT !.at = "cleanup", !.ok = TRUE]
    BY <1>0, <2>1, <2>2 DEF Launches, Like
  <2>3. CASE i = [j EXCEPT !.at = "cleanup"]
    BY <1>0, <2>1, <2>3 DEF Launches, Like
  <2> QED BY <2>1, <2>2, <2>3
<1> HIDE DEF i, j
<1> QED
  BY <1>2, <1>3, <1>4, <1>5, <1>6, <1>7, <1>8, <1>9, <1>10,
     <1>11, <1>12, <1>13, <1>14, <1>15, <1>16, <1>17, <1>18, <1>19 DEF i, j

\* Where a launch may be next, knowing no more
Onward == {<<"key", "derive">>, <<"rmi", "unfile">>, <<"unfile", "derive">>, <<"lookup", "derive">>,
           <<"derive", "start">>, <<"inject", "install">>, <<"inject", "cleanup">>, <<"install", "cleanup">>,
           <<"cleanup", "store">>, <<"create", "run">>, <<"create", "destroy">>, <<"run", "destroy">>,
           <<"run", "works">>, <<"works", "destroy">>, <<"destroy", "reap">>}

\* A launch that begins, goes on or ends is on its course.
LEMMA BeginsOnCourse ==
    ASSUME NEW w \in Shops, NEW r, NEW i, Begins(i, w, r) PROVE Course(i) /\ i.shop = w
BY DEF Begins, Course, Steps, Working

\* So is one that ends, whatever it had reached (Finished).
LEMMA EndsOnCourse ==
    ASSUME NEW j, Course(j), j.at # "idle", NEW i, Ends(i, j) PROVE Course(i) /\ i.shop = j.shop
BY DEF Ends, Course, Steps, Working

\* So is one that goes on to a next step of derive_pristine or commit_launch.
LEMMA GoesOnCourse ==
    ASSUME NEW j, Course(j), NEW at, NEW i, Goes(i, j, at), <<j.at, at>> \in Onward,
           at = "store" => j.key # NoKey,
           at = "reap" => j.key = NoKey /\ j.pkgs # {}
    PROVE  Course(i) /\ i.shop = j.shop
<1> USE DEF Goes, Like, Course, Steps, Working
<1>1. CASE j.at \in {"key", "rmi", "unfile", "lookup", "derive"} BY <1>1 DEF Onward
<1>2. CASE j.at \in {"inject", "install", "cleanup"} BY <1>2 DEF Onward
<1>3. CASE j.at \in {"create", "run", "works", "destroy"} BY <1>3 DEF Onward
<1> QED BY <1>1, <1>2, <1>3 DEF Onward

\* A process without a launch has come nowhere.
LEMMA NewLaunch == ASSUME NEW p, launch'[p] = NoLaunch PROVE CourseOK(p)'
BY DEF NoLaunch, CourseOK, Course, Steps, Working

\* A step takes a launch on along its course (derive_pristine, commit_launch).
LEMMA CourseMoves == ASSUME ShopShape, NEW p \in Processes, CourseOK(p), StepOf(p) PROVE CourseOK(p)'
<1> DEFINE j == launch[p]
           i == launch'[p]
<1>h. UNCHANGED hall BY OthersStay
<1>o. Course(j) /\ (j.at # "idle" => j.shop \in hall.serves[p]) BY DEF CourseOK
<1>b. ASSUME NEW w \in Shops, NEW a \in BOOLEAN, NEW b \in BOOLEAN, StartLaunch(p, w, a, b) PROVE CourseOK(p)'
  <2>1. \E r \in recipe[w] : Begins(i, w, r) BY <1>b, StartMoves DEF i
  <2>2. w \in hall.serves[p] BY <1>b DEF StartLaunch
  <2> QED BY <1>h, <2>1, <2>2, BeginsOnCourse DEF CourseOK
<1>e. ASSUME Ends(i, j), j.at # "idle" PROVE CourseOK(p)'
  BY <1>h, <1>o, <1>e, EndsOnCourse DEF CourseOK
<1>g. ASSUME NEW at, Goes(i, j, at), <<j.at, at>> \in Onward, at = "store" => j.key # NoKey,
             at = "reap" => j.key = NoKey /\ j.pkgs # {}
      PROVE  CourseOK(p)'
  <2>1. j.at # "idle" BY <1>g DEF Onward
  <2> QED BY <1>h, <1>o, <1>g, <2>1, GoesOnCourse DEF CourseOK
<1> HIDE DEF i, j
<1>1. CASE RmImage(p) \/ Unfile(p) \/ Prepare(p) \/ WireMaker(p) \/ Create(p)
  <2>1. \/ Ends(i, j) /\ j.at # "idle"
        \/ \E at \in {"unfile", "derive", "start", "install", "cleanup", "run", "destroy"} :
              Goes(i, j, at) /\ <<j.at, at>> \in Onward
    BY <1>1, Moves DEF Onward, i, j
  <2> QED BY <2>1, <1>e, <1>g
<1>2. CASE Ended(p) \/ Destroy(p) \/ Reap(p)
  <2>1. \/ Ends(i, j) /\ j.at # "idle"
        \/ Goes(i, j, "destroy") /\ <<j.at, "destroy">> \in Onward
        \/ Goes(i, j, "reap") /\ <<j.at, "reap">> \in Onward /\ j.key = NoKey /\ j.pkgs # {}
    BY <1>2, Moves DEF Onward, i, j
  <2> QED BY <2>1, <1>e, <1>g
<1>3. CASE TakeKey(p)
  <2>1. /\ j.at = "key"
        /\ \/ Ends(i, j) \/ Goes(i, j, "derive")
           \/ /\ i.key = KeyOf(loaded', j.pkgs) /\ loaded' # NoSeed
              /\ i.shop = j.shop /\ i.pkgs = j.pkgs /\ i.past = j.past /\ i.rec = j.rec
              /\ i.ok = j.ok /\ i.at \in {"rmi", "lookup"}
    BY <1>3, Moves DEF i, j
  <2>2. CASE /\ i.key = KeyOf(loaded', j.pkgs) /\ loaded' # NoSeed
             /\ i.shop = j.shop /\ i.pkgs = j.pkgs /\ i.past = j.past /\ i.rec = j.rec
             /\ i.ok = j.ok /\ i.at \in {"rmi", "lookup"}
    <3>1. j.pkgs \in Recipes /\ j.pkgs # {}
      BY <1>o, <2>1 DEF Course, ShopShape, Launches, Steps, Working, j
    <3>2. KeyOf(loaded', j.pkgs) \in ShedKeys /\ KeyOf(loaded', j.pkgs)[2] = j.pkgs
      BY <1>3, <2>2, <3>1, KeyFacts DEF TakeKey, EnsureSeed, ShopShape, SomeSeed
    <3>3. Course(i) BY <1>o, <2>1, <2>2, <3>1, <3>2, KeyFacts DEF Course, Steps, Working
    <3> QED BY <1>h, <1>o, <2>1, <2>2, <3>3 DEF CourseOK, i, j
  <2> QED BY <2>1, <2>2, <1>e, <1>g DEF Onward
<1>4. CASE LookUp(p)
  <2>1. /\ j.at = "lookup"
        /\ Ends(i, j) \/ Goes(i, j, "derive") \/ (Like(i, j) /\ i.at = "clear" /\ i.ok = j.ok)
    BY <1>4, Moves DEF i, j
  <2>2. CASE Like(i, j) /\ i.at = "clear" /\ i.ok = j.ok
    <3>1. Course(i) BY <1>o, <2>1, <2>2 DEF Like, Course, Steps, Working
    <3> QED BY <1>h, <1>o, <2>1, <2>2, <3>1 DEF CourseOK, Like, i, j
  <2>3. CASE Goes(i, j, "derive") BY <2>1, <2>3, <1>g DEF Onward
  <2>4. CASE Ends(i, j) BY <2>1, <2>4, <1>e
  <2> QED BY <2>1, <2>2, <2>3, <2>4
<1>5. CASE StartMaker(p)
  <2>1. /\ j.at = "start" /\ i.at \in {"inject", "cleanup"}
        /\ i.shop = j.shop /\ i.pkgs = j.pkgs /\ i.key = j.key /\ i.rec = j.rec /\ i.ok = j.ok
        /\ i.past = j.past \cup {"start"}
    BY <1>5, Moves DEF i, j
  <2>2. Course(i) BY <1>o, <2>1 DEF Course, Steps, Working
  <2> QED BY <1>h, <1>o, <2>1, <2>2 DEF CourseOK, i, j
<1>6. CASE Install(p)
  <2>1. /\ j.at = "install"
        /\ Goes(i, j, "cleanup") \/ (Like(i, j) /\ i.at = "commit" /\ i.rec = j.rec /\ i.ok = j.ok)
    BY <1>6, Moves DEF i, j
  <2>2. CASE Like(i, j) /\ i.at = "commit" /\ i.rec = j.rec /\ i.ok = j.ok
    <3>1. Course(i) BY <1>o, <2>1, <2>2 DEF Like, Course, Steps, Working
    <3> QED BY <1>h, <1>o, <2>1, <2>2, <3>1 DEF CourseOK, Like, i, j
  <2>3. CASE Goes(i, j, "cleanup") BY <2>1, <2>3, <1>g DEF Onward
  <2> QED BY <2>1, <2>2, <2>3
<1>7. CASE Commit(p)
  <2>1. j.at = "commit" /\ Like(i, j) /\ i.at = "cleanup" /\ i.rec = j.rec BY <1>7, Moves DEF i, j
  <2>2. Course(i) BY <1>o, <2>1 DEF Like, Course, Steps, Working
  <2> QED BY <1>h, <1>o, <2>1, <2>2 DEF CourseOK, Like, i, j
<1>8. CASE Cleanup(p)
  <2>1. /\ j.at = "cleanup"
        /\ \/ Ends(i, j)
           \/ j.ok /\ j.key # NoKey /\ Goes(i, j, "store")
           \/ /\ j.ok /\ j.key = NoKey /\ i.at = "clear"
              /\ i.shop = j.shop /\ i.pkgs = j.pkgs /\ i.key = j.key /\ i.rec = j.rec
              /\ i.ok = j.ok /\ i.past = j.past \cup {"transient"}
    BY <1>8, Moves DEF i, j
  <2>2. CASE /\ j.key = NoKey /\ i.at = "clear"
             /\ i.shop = j.shop /\ i.pkgs = j.pkgs /\ i.key = j.key /\ i.rec = j.rec
             /\ i.ok = j.ok /\ i.past = j.past \cup {"transient"}
    <3>1. Course(i) BY <1>o, <2>1, <2>2 DEF Course, Steps, Working
    <3> QED BY <1>h, <1>o, <2>1, <2>2, <3>1 DEF CourseOK, i, j
  <2>3. CASE Ends(i, j) BY <2>1, <2>3, <1>e
  <2>4. CASE j.key # NoKey /\ Goes(i, j, "store") BY <2>1, <2>4, <1>g DEF Onward
  <2> QED BY <2>1, <2>2, <2>3, <2>4
<1>9. CASE Store(p)
  <2>1. j.at = "store" /\ Like(i, j) /\ i.at = "clear" /\ i.rec = j.rec /\ i.ok = j.ok BY <1>9, Moves DEF i, j
  <2>2. Course(i) BY <1>o, <2>1 DEF Like, Course, Steps, Working
  <2> QED BY <1>h, <1>o, <2>1, <2>2 DEF CourseOK, Like, i, j
<1>10. CASE Clear(p)
  <2>1. /\ j.at = "clear" /\ i.at = "create" /\ i.past = j.past \cup {"clear"}
        /\ i.shop = j.shop /\ i.pkgs = j.pkgs /\ i.key = j.key /\ i.rec = j.rec /\ i.ok = j.ok
    BY <1>10, Moves DEF i, j
  <2>2. Course(i) BY <1>o, <2>1 DEF Course, Steps, Working
  <2> QED BY <1>h, <1>o, <2>1, <2>2 DEF CourseOK, i, j
<1>11. CASE Run(p)
  <2>1. j.at = "run" /\ (Goes(i, j, "destroy") \/ Goes(i, j, "works")) BY <1>11, Moves DEF i, j
  <2> QED BY <2>1, <1>g DEF Onward
<1>12. CASE KillLaunch(p)
  <2>1. launch'[p] = NoLaunch BY <1>12, Moves
  <2> QED BY <2>1, NewLaunch
<1> QED
  BY <1>b, <1>1, <1>2, <1>3, <1>4, <1>5, <1>6, <1>7, <1>8, <1>9, <1>10, <1>11, <1>12 DEF StepOf

\* Every step leaves every launch on its course (derive_pristine, commit_launch).
LEMMA CourseKept ==
    ASSUME ShopShape, \A p \in Processes : CourseOK(p), [WorkshopNext]_workshopVars
    PROVE  \A p \in Processes : CourseOK(p)'
<1> SUFFICES ASSUME NEW q \in Processes PROVE CourseOK(q)' OBVIOUS
<1>1. ASSUME NEW p \in Processes, StepOf(p) PROVE CourseOK(q)'
  <2>1. CASE q = p BY <1>1, <2>1, CourseMoves
  <2>2. CASE q # p
    <3>1. launch'[q] = launch[q] /\ hall' = hall BY <1>1, <2>2, OthersStay
    <3> QED BY <3>1 DEF CourseOK
  <2> QED BY <2>1, <2>2
<1>2. CASE Restarts
  <2>1. launch'[q] = NoLaunch BY <1>2 DEF Restarts
  <2> QED BY <2>1, NewLaunch
<1>3. CASE StepAround \/ UNCHANGED workshopVars
  <2>1. launch' = launch /\ hall' = hall
    BY <1>3 DEF StepAround, Promote, Prune, Publish, outside, workshopVars
  <2> QED BY <2>1 DEF CourseOK
<1> QED BY <1>1, <1>2, <1>3, ShopSteps

---------------------------------------------------------------------------
(* Launches that share no workshop *)

\* A step touches the container, egress, Bench and keyless image of its own workshop only.
LEMMA OwnThings ==
    ASSUME ShopShape, NEW p \in Processes, CourseOK(p), StepOf(p)
    PROVE  /\ shipped' = shipped /\ loaded' \in {loaded, shipped}
           /\ \A w \in Shops : w # launch[p].shop =>
                 /\ maker'[w] = maker[w] /\ images'[Transient(w)] = images[Transient(w)]
                 /\ w \in wired' => w \in wired
                 /\ w \in wlBench' => w \in wlBench
<1> USE KeyFacts DEF ShopShape, outside, shopVars, boxVars, Here
<1>1. CASE (\E w \in Shops, a, b \in BOOLEAN : StartLaunch(p, w, a, b)) \/ TakeKey(p) \/ Unfile(p) \/ LookUp(p)
  BY <1>1 DEF StartLaunch, TakeKey, Unfile, LookUp, EnsureSeed
<1>2. CASE RmImage(p) \/ Reap(p)
  BY <1>2 DEF RmImage, Reap, Removed, TagOf, CourseOK, Course
<1>3. CASE Prepare(p) \/ StartMaker(p) \/ WireMaker(p) \/ Install(p)
  BY <1>3 DEF Prepare, StartMaker, WireMaker, Install, EnsureSeed
<1>4. CASE Commit(p)
  <2>1. launch[p].shop \in Shops BY <1>4 DEF Commit, CourseOK, Course
  <2>2. \A w \in Shops : w # launch[p].shop => TagOf(launch[p]) # Transient(w)
    BY <2>1 DEF TagOf, CourseOK, Course
  <2>3. images' = images \/ \E i : images' = [images EXCEPT ![TagOf(launch[p])] = i]
    BY <1>4 DEF Commit
  <2>4. \A w \in Shops : w # launch[p].shop => images'[Transient(w)] = images[Transient(w)]
    BY <2>2, <2>3
  <2> QED BY <1>4, <2>4 DEF Commit
<1>5. CASE Cleanup(p) \/ Store(p)
  BY <1>5 DEF Cleanup, Store
<1>6. CASE Clear(p) \/ Create(p) \/ Run(p) \/ Ended(p) \/ Destroy(p) \/ KillLaunch(p)
  BY <1>6 DEF Clear, Create, Run, Ended, Destroy, KillLaunch, EnsureSeed
<1> QED BY <1>1, <1>2, <1>3, <1>4, <1>5, <1>6 DEF StepOf

\* No other process has a workshop that this one serves.
LEMMA OthersApart ==
    ASSUME Apart, NEW p \in Processes, NEW q \in Processes, p # q, CourseOK(p), CourseOK(q),
           launch[p].at # "idle", launch[q].at # "idle"
    PROVE  launch[p].shop # launch[q].shop
BY DEF Apart, CourseOK

\* A process without a launch has nothing to answer for.
LEMMA NewSound == ASSUME NEW p, launch'[p] = NoLaunch PROVE Sound(p)'
BY DEF Sound, SeedOK, MakerOK, TransientOK, OwnImage, LeavesOK, RanOK, NoLaunch, Deriving

\* What another process does leaves a launch sound.
LEMMA OthersSound ==
    ASSUME ShopShape, Apart, NEW p \in Processes, NEW q \in Processes, p # q, CourseOK(p), CourseOK(q),
           StepOf(p), Sound(q)
    PROVE  Sound(q)'
<1>1. launch'[q] = launch[q] /\ hall' = hall BY OthersStay
<1>2. CASE launch[q].at = "idle"
  BY <1>1, <1>2 DEF Sound, SeedOK, MakerOK, TransientOK, OwnImage, LeavesOK, RanOK, Deriving, CourseOK, Course
<1>3. CASE launch[q].at # "idle"
  <2>1. launch[q].shop \in Shops BY <1>3 DEF CourseOK, Course
  <2>2. launch[p].at = "idle" \/ launch[p].shop # launch[q].shop BY <1>3, OthersApart
  <2>3. launch[p].at = "idle" => UNCHANGED <<maker, images, wired, wlBench>>
    BY DEF StepOf, StartLaunch, TakeKey, RmImage, Unfile, LookUp, Prepare, StartMaker, WireMaker, Install, Commit,
           Cleanup, Store, Clear, Create, Run, Ended, Destroy, Reap, KillLaunch, shopVars, boxVars
  <2>4. /\ maker'[launch[q].shop] = maker[launch[q].shop]
        /\ images'[Transient(launch[q].shop)] = images[Transient(launch[q].shop)]
        /\ launch[q].shop \in wired' => launch[q].shop \in wired
        /\ launch[q].shop \in wlBench' => launch[q].shop \in wlBench
    BY <2>1, <2>2, <2>3, OwnThings
  <2>5. shipped' = shipped /\ loaded' \in {loaded, shipped} BY OwnThings
  <2>6. (SeedOK(q) /\ RanOK(q))' BY <1>1, <2>5 DEF Sound, SeedOK, RanOK, Genuine, May
  <2>7. MakerOK(q)' BY <1>1, <2>4, <2>5 DEF Sound, MakerOK, Genuine, May
  <2>8. TransientOK(q)' BY <1>1, <2>4, <2>5 DEF Sound, TransientOK, OwnImage, Genuine, May
  <2>9. LeavesOK(q)' BY <1>1, <2>4 DEF Sound, LeavesOK
  <2> QED BY <2>6, <2>7, <2>8, <2>9 DEF Sound
<1> QED BY <1>2, <1>3

\* A launch that derives has a container of the shipped seed, holding what was
\* asked for once it was installed (derive_pristine, ensure_seed).
LEMMA DerivesSoundly ==
    ASSUME ShopShape, NEW p \in Processes, CourseOK(p), Sound(p), StepOf(p)
    PROVE  (SeedOK(p) /\ MakerOK(p))'
<1> DEFINE j == launch[p]
           i == launch'[p]
<1>h. hall' = hall /\ shipped' = shipped /\ loaded' \in {loaded, shipped} BY OthersStay, OwnThings
<1>s. /\ j.at = "start" => loaded = NoSeed \/ Genuine(loaded)
      /\ j.key # NoKey => Genuine(j.key[1])
  BY DEF Sound, SeedOK
<1> HIDE DEF i, j
<1>1. SeedOK(p)'
  <2>1. CASE TakeKey(p)
    <3>1. /\ i.at # "start"
          /\ i.key = NoKey \/ i.key = j.key \/ (i.key = KeyOf(loaded', j.pkgs) /\ loaded' # NoSeed)
      BY <2>1, Moves DEF Ends, Goes, Like, i, j
    <3>2. loaded' = shipped \/ May("load") BY <2>1 DEF TakeKey, EnsureSeed
    <3>3. KeyOf(loaded', j.pkgs)[1] = loaded' BY KeyFacts
    <3> QED BY <1>h, <1>s, <3>1, <3>2, <3>3 DEF SeedOK, Genuine, May, i, j
  <2>2. CASE Prepare(p)
    <3>1. i.key = NoKey \/ i.key = j.key BY <2>2, Moves DEF Ends, Goes, Like, i, j
    <3>2. loaded' = shipped \/ May("load") BY <2>2 DEF Prepare, EnsureSeed
    <3> QED BY <1>h, <1>s, <3>1, <3>2 DEF SeedOK, Genuine, May, i, j
  <2>3. CASE ~TakeKey(p) /\ ~Prepare(p)
    <3>1. i.at # "start" /\ (i.key = NoKey \/ i.key = j.key)
      <4> USE DEF Ends, Goes, Like, i, j
      <4>1. CASE \E w \in Shops, a, b \in BOOLEAN : StartLaunch(p, w, a, b) BY <4>1, StartMoves DEF Begins
      <4>2. CASE RmImage(p) \/ Unfile(p) \/ LookUp(p) BY <4>2, Moves
      <4>3. CASE StartMaker(p) \/ WireMaker(p) \/ Install(p) \/ Commit(p) BY <4>3, Moves
      <4>4. CASE Cleanup(p) \/ Store(p) \/ Clear(p) \/ Create(p) BY <4>4, Moves
      <4>5. CASE Run(p) \/ Ended(p) \/ Destroy(p) \/ Reap(p) BY <4>5, Moves
      <4>6. CASE KillLaunch(p)
        <5>1. i = NoLaunch BY <4>6, Moves
        <5> QED BY <5>1 DEF NoLaunch
      <4> QED BY <2>3, <4>1, <4>2, <4>3, <4>4, <4>5, <4>6 DEF StepOf
    <3> QED BY <1>h, <1>s, <3>1 DEF SeedOK, Genuine, May, i, j
  <2> QED BY <2>1, <2>2, <2>3
<1>2. MakerOK(p)'
  <2>1. CASE StartMaker(p)
    <3>0. j.at = "start" /\ i.at \in {"inject", "cleanup"} /\ i.shop = j.shop BY <2>1, Moves DEF i, j
    <3>1. CASE i.at = "inject"
      <4>1. /\ loaded # NoSeed
            /\ maker' = [maker EXCEPT ![j.shop] = {[seed |-> loaded, pkgs |-> {}, vers |-> NotThere]}]
        BY <2>1, <3>1, Moves DEF i, j
      <4>2. Genuine(loaded) BY <1>s, <3>0, <4>1
      <4>3. j.shop \in Shops BY <3>0 DEF CourseOK, Course, j
      <4>4. maker'[j.shop] = {[seed |-> loaded, pkgs |-> {}, vers |-> NotThere]} BY <4>1, <4>3 DEF ShopShape
      <4> QED BY <1>h, <3>0, <3>1, <4>2, <4>4 DEF MakerOK, Genuine, May, i
    <3>2. CASE i.at = "cleanup" BY <3>2 DEF MakerOK, Deriving, i
    <3> QED BY <3>0, <3>1, <3>2
  <2>2. CASE WireMaker(p)
    <3>1. j.at = "inject" /\ i.at \in {"install", "cleanup"} /\ i.shop = j.shop
      BY <2>2, Moves DEF Goes, Like, i, j
    <3>2. maker' = maker BY <2>2 DEF WireMaker
    <3> QED BY <1>h, <3>1, <3>2 DEF Sound, MakerOK, Deriving, Genuine, May, i, j
  <2>3. CASE Install(p)
    <3>0. j.at = "install" /\ i.at \in {"commit", "cleanup"} /\ i.shop = j.shop /\ i.pkgs = j.pkgs
      BY <2>3, Moves DEF Goes, Like, i, j
    <3>1. CASE i.at = "commit"
      <4>1. /\ i.got \in {upstream, NotThere}
            /\ maker' = [maker EXCEPT ![j.shop] =
                           {[c EXCEPT !.pkgs = @ \cup j.pkgs, !.vers = upstream] : c \in @}]
        BY <2>3, <3>1, Moves DEF Goes, i, j
      <4>2. j.shop \in Shops BY <3>0 DEF CourseOK, Course, j
      <4>3. ASSUME NEW d \in maker'[j.shop] PROVE Genuine(d.seed) /\ d.pkgs = j.pkgs /\ d.vers = upstream
        <5>1. maker'[j.shop] = {[c EXCEPT !.pkgs = @ \cup j.pkgs, !.vers = upstream] : c \in maker[j.shop]}
          <6> DEFINE built == {[c EXCEPT !.pkgs = @ \cup j.pkgs, !.vers = upstream] : c \in maker[j.shop]}
          <6>1. maker' = [maker EXCEPT ![j.shop] = built] BY <4>1
          <6> HIDE DEF built
          <6>2. maker'[j.shop] = built BY <4>2, <6>1 DEF ShopShape
          <6> QED BY <6>2 DEF built
        <5>2. PICK c \in maker[j.shop] : d = [c EXCEPT !.pkgs = @ \cup j.pkgs, !.vers = upstream]
          BY <5>1
        <5>3. Genuine(c.seed) /\ c.pkgs = {} BY <3>0 DEF Sound, MakerOK, Deriving, j
        <5>4. c \in Containers BY <4>2 DEF ShopShape
        <5>5. d.seed = c.seed /\ d.pkgs = c.pkgs \cup j.pkgs /\ d.vers = upstream
          BY <5>2, <5>4 DEF Containers
        <5> QED BY <5>3, <5>5
      <4> QED BY <1>h, <3>0, <3>1, <4>1, <4>3 DEF MakerOK, Genuine, May, i
    <3>2. CASE i.at = "cleanup" BY <3>2 DEF MakerOK, Deriving, i
    <3> QED BY <3>0, <3>1, <3>2
  <2>4. CASE ~StartMaker(p) /\ ~WireMaker(p) /\ ~Install(p)
    <3>1. i.at \notin Deriving
      <4> USE DEF Deriving, Ends, Goes, Like, i, j
      <4>1. CASE \E w \in Shops, a, b \in BOOLEAN : StartLaunch(p, w, a, b) BY <4>1, StartMoves DEF Begins
      <4>2. CASE TakeKey(p) \/ RmImage(p) \/ Unfile(p) \/ LookUp(p) \/ Prepare(p) BY <4>2, Moves
      <4>3. CASE Commit(p) \/ Cleanup(p) \/ Store(p) \/ Clear(p) \/ Create(p) BY <4>3, Moves
      <4>4. CASE Run(p) \/ Ended(p) \/ Destroy(p) \/ Reap(p) BY <4>4, Moves
      <4>5. CASE KillLaunch(p)
        <5>1. i = NoLaunch BY <4>5, Moves
        <5> QED BY <5>1 DEF NoLaunch
      <4> QED BY <2>4, <4>1, <4>2, <4>3, <4>4, <4>5 DEF StepOf
    <3> QED BY <3>1 DEF MakerOK, i
  <2> QED BY <2>1, <2>2, <2>3, <2>4
<1> QED BY <1>1, <1>2

\* What is committed is what was asked for, of a genuine seed (podman commit).
LEMMA Commits ==
    ASSUME ShopShape, NEW p \in Processes, CourseOK(p), Sound(p), Commit(p)
    PROVE  LET j == launch[p] IN
           /\ j.at = "commit" /\ j.shop \in Shops /\ TagOf(j) \in ImageTags
           /\ launch'[p].at = "cleanup" /\ launch'[p].shop = j.shop /\ launch'[p].pkgs = j.pkgs
           /\ launch'[p].key = j.key /\ launch'[p].past = j.past /\ launch'[p].rec = j.rec
           /\ launch'[p].got = j.got
           /\ UNCHANGED <<hall, shipped, index, maker, wired, wlBench, loaded>>
           /\ \/ ~launch'[p].ok /\ UNCHANGED <<images, made>>
              \/ \E i : /\ images' = [images EXCEPT ![TagOf(j)] = i] /\ made' = made + 1
                        /\ i.id = made' /\ i.pkgs = j.pkgs /\ Genuine(i.seed) /\ j.got \in {i.vers, NotThere}
<1> DEFINE j == launch[p]
<1>0. j \in Launches /\ launch \in [Processes -> Launches] BY DEF ShopShape
<1>1. j.at = "commit" /\ j.shop \in Shops /\ ~j.ok BY DEF Commit, CourseOK, Course, Working
<1>2. TagOf(j) \in ImageTags BY <1>1, KeyFacts DEF TagOf, CourseOK, Course
<1>3. UNCHANGED <<hall, shipped, index, maker, wired, wlBench, loaded>> BY DEF Commit, outside, boxVars
<1>4. CASE made' # made
  <2>1. PICK c \in maker[j.shop] : images' = [images EXCEPT ![TagOf(j)] =
                              [id |-> made', seed |-> c.seed, pkgs |-> c.pkgs, vers |-> c.vers]]
    BY <1>4 DEF Commit
  <2>2. launch'[p] = [j EXCEPT !.at = "cleanup", !.ok = TRUE] /\ made' = made + 1
    BY <1>0, <1>4 DEF Commit, NowIs
  <2>3. c.pkgs = j.pkgs /\ Genuine(c.seed) /\ j.got \in {c.vers, NotThere}
    BY <1>1 DEF Sound, MakerOK, Deriving
  <2>4. /\ launch'[p].at = "cleanup" /\ launch'[p].shop = j.shop /\ launch'[p].pkgs = j.pkgs
        /\ launch'[p].key = j.key /\ launch'[p].past = j.past /\ launch'[p].rec = j.rec /\ launch'[p].got = j.got
    BY <1>0, <2>2 DEF Launches
  <2> DEFINE i == [id |-> made', seed |-> c.seed, pkgs |-> c.pkgs, vers |-> c.vers]
  <2>5. images' = [images EXCEPT ![TagOf(j)] = i] /\ i.id = made' /\ i.pkgs = j.pkgs /\ Genuine(i.seed)
        /\ j.got \in {i.vers, NotThere}
    BY <2>1, <2>3
  <2> HIDE DEF i
  <2> QED BY <1>1, <1>2, <1>3, <2>2, <2>4, <2>5
<1>5. CASE made' = made
  <2>1. launch'[p] = [j EXCEPT !.at = "cleanup"] /\ images' = images
    BY <1>0, <1>5 DEF Commit, NowIs, Fails, At, ShopShape
  <2> QED BY <1>0, <1>1, <1>2, <1>3, <1>5, <2>1 DEF Launches
<1> QED BY <1>4, <1>5
\* Whatever else is done to images, they go or stay (rmi, prune, cache_store).
LEMMA ImagesGo ==
    ASSUME ShopShape, NEW p \in Processes, CourseOK(p), StepOf(p), ~Commit(p)
    PROVE  \A t \in ImageTags : images'[t] = images[t] \/ images'[t] = NoImage
<1>1. CASE RmImage(p) \/ Reap(p) BY <1>1 DEF RmImage, Reap, Removed, ShopShape
<1>2. CASE ~RmImage(p) /\ ~Reap(p)
  <2>1. images' = images
    BY <1>2 DEF StepOf, shopVars, StartLaunch, TakeKey, Unfile, LookUp, Prepare, StartMaker, WireMaker, Install,
                Cleanup, Store, Clear, Create, Run, Ended, Destroy, KillLaunch
  <2> QED BY <2>1
<1> QED BY <1>1, <1>2

\* What has a key is what the key says (cache_store, cache_lookup).
LEMMA ShedStays ==
    ASSUME ShopShape, NEW p \in Processes, CourseOK(p), Sound(p), ShedOK, StepOf(p)
    PROVE  ShedOK'
<1>h. hall' = hall /\ shipped' = shipped BY OthersStay, OwnThings
<1>1. CASE Commit(p)
  <2> DEFINE j == launch[p]
  <2>1. CASE images' = images BY <1>h, <2>1 DEF ShedOK, May
  <2>2. CASE images' # images
    <3>1. PICK i : /\ images' = [images EXCEPT ![TagOf(j)] = i] /\ i.pkgs = j.pkgs /\ Genuine(i.seed)
      BY <1>1, <2>2, Commits
    <3>2. ASSUME NEW k \in ShedKeys, images'[k] # NoImage
          PROVE  images'[k].pkgs = k[2] /\ (May("load") \/ images'[k].seed = k[1])
      <4>1. k \in ImageTags BY KeyFacts
      <4>2. CASE k = TagOf(j)
        <5>1. images'[k] = i BY <3>1, <4>1, <4>2 DEF ShopShape
        <5>2. j.key = k
          <6>1. j.shop \in Shops BY <1>1, Commits
          <6> QED BY <4>2, <6>1, KeyFacts DEF TagOf
        <5>3. k[2] = j.pkgs BY <5>2, KeyFacts DEF CourseOK, Course
        <5>4. Genuine(k[1]) BY <5>2, KeyFacts DEF Sound, SeedOK
        <5> QED BY <3>1, <5>1, <5>3, <5>4 DEF Genuine
      <4>3. CASE k # TagOf(j)
        <5>1. images'[k] = images[k] BY <3>1, <4>1, <4>3 DEF ShopShape
        <5> QED BY <3>2, <5>1 DEF ShedOK
      <4> QED BY <4>2, <4>3
    <3> QED BY <1>h, <3>2 DEF ShedOK, May
  <2> QED BY <2>1, <2>2
<1>2. CASE ~Commit(p) BY <1>2, <1>h, ImagesGo, KeyFacts DEF ShedOK, May
<1> QED BY <1>1, <1>2

\* The image without a key is there for the run of its launch, and no longer
\* (commit_launch, transient_tag).
LEMMA TransientStays ==
    ASSUME ShopShape, NEW p \in Processes, CourseOK(p), Sound(p), StepOf(p)
    PROVE  TransientOK(p)'
<1> DEFINE j == launch[p]
           i == launch'[p]
           t == Transient(j.shop)
<1>h. hall' = hall /\ shipped' = shipped BY OthersStay, OwnThings
<1>o. Course(j) BY DEF CourseOK
<1>t. TransientOK(p) BY DEF Sound
<1> HIDE DEF i, j
<1>1. CASE Commit(p)
  <2>1. /\ j.at = "commit" /\ i.at = "cleanup" /\ i.shop = j.shop /\ i.pkgs = j.pkgs /\ i.key = j.key /\ i.past = j.past
        /\ j.shop \in Shops /\ TagOf(j) \in ImageTags
    BY <1>1, Commits DEF i, j
  <2>2. CASE ~i.ok BY <2>1, <2>2 DEF TransientOK, OwnImage, i
  <2>3. CASE i.ok
    <3>1. PICK x : images' = [images EXCEPT ![TagOf(j)] = x] /\ x.pkgs = j.pkgs /\ Genuine(x.seed)
      BY <1>1, <2>3, Commits DEF i, j
    <3>2. j.key = NoKey => TagOf(j) = t BY DEF TagOf
    <3>3. j.key = NoKey => images'[t] = x BY <2>1, <3>1, <3>2 DEF ShopShape
    <3> QED BY <1>h, <2>1, <3>1, <3>3 DEF TransientOK, OwnImage, Genuine, May, i
  <2> QED BY <2>2, <2>3
<1>2. CASE Cleanup(p)
  <2>1. images' = images BY <1>2 DEF Cleanup, shopVars
  <2>2. /\ j.at = "cleanup"
        /\ \/ i.at = "store"
           \/ i.at = "done" /\ i.past = j.past
           \/ j.ok /\ j.key = NoKey /\ i.at = "clear" /\ i.shop = j.shop /\ i.pkgs = j.pkgs
    BY <1>2, Moves DEF Ends, Goes, i, j
  <2> QED BY <1>h, <1>o, <1>t, <2>1, <2>2 DEF TransientOK, OwnImage, Genuine, May, Course, Working, i, j
<1>3. CASE Clear(p) \/ Create(p) \/ Run(p)
  <2>1. images' = images BY <1>3 DEF Clear, Create, Run, shopVars
  <2>2. /\ j.at \in {"clear", "create", "run"} /\ i.at \in {"create", "run", "destroy", "works"}
        /\ i.shop = j.shop /\ i.pkgs = j.pkgs /\ ("transient" \in i.past <=> "transient" \in j.past)
    <3>1. CASE Clear(p)
      <4>1. /\ j.at = "clear" /\ i.at = "create" /\ i.past = j.past \cup {"clear"}
            /\ i.shop = j.shop /\ i.pkgs = j.pkgs
        BY <3>1, Moves DEF i, j
      <4> QED BY <4>1
    <3>2. CASE Create(p) \/ Run(p) BY <3>2, Moves DEF Goes, Like, i, j
    <3> QED BY <1>3, <3>1, <3>2
  <2> QED BY <1>h, <1>t, <2>1, <2>2 DEF TransientOK, OwnImage, Genuine, May, i, j
<1>4. CASE Store(p)
  <2>1. i.at = "clear" /\ i.past = j.past /\ j.at = "store" BY <1>4, Moves DEF Like, i, j
  <2> QED BY <1>o, <2>1 DEF TransientOK, OwnImage, Course, Working, i
<1>5. CASE LookUp(p)
  <2>1. i.at \in {"done", "derive", "clear"} /\ i.past = j.past /\ j.at = "lookup"
    BY <1>5, Moves DEF Ends, Goes, Like, i, j
  <2> QED BY <1>o, <2>1 DEF TransientOK, OwnImage, Course, Working, i
<1>6. CASE Destroy(p)
  <2>1. /\ j.at = "destroy" /\ i.past = j.past
        /\ i.at = "reap" \/ (i.at = "done" /\ (j.pkgs = {} \/ j.key # NoKey))
    BY <1>6, Moves DEF Ends, Goes, Like, i, j
  <2> QED BY <1>o, <2>1 DEF TransientOK, OwnImage, Course, Working, i
<1>7. CASE Reap(p)
  <2>1. j.at = "reap" /\ i.at = "done" /\ i.shop = j.shop BY <1>7, Moves DEF Ends, i, j
  <2>2. TagOf(j) = t /\ t \in ImageTags BY <1>o, <2>1, KeyFacts DEF TagOf, Course
  <2>3. images'[t] = NoImage BY <1>7, <2>2 DEF Reap, Removed, ShopShape, j
  <2> QED BY <2>1, <2>3 DEF TransientOK, OwnImage, i
<1>8. CASE \E w \in Shops, a, b \in BOOLEAN : StartLaunch(p, w, a, b)
  <2>1. i.past = {} /\ i.at # "cleanup" BY <1>8, StartMoves DEF Begins, i
  <2> QED BY <2>1 DEF TransientOK, OwnImage, i
<1>9. CASE TakeKey(p) \/ RmImage(p) \/ Unfile(p) \/ Prepare(p)
  <2>1. i.past = j.past /\ j.at \in {"key", "rmi", "unfile", "derive"} /\ i.at # "cleanup"
    BY <1>9, Moves DEF Ends, Goes, Like, i, j
  <2> QED BY <1>o, <2>1 DEF TransientOK, OwnImage, Course, i
<1>10. CASE StartMaker(p) \/ WireMaker(p) \/ Install(p)
  <2>1. /\ j.at \in {"start", "inject", "install"} /\ i.at \in {"inject", "install", "commit", "cleanup"} /\ i.ok = j.ok
    BY <1>10, Moves DEF Ends, Goes, Like, i, j
  <2> QED BY <1>o, <2>1 DEF TransientOK, OwnImage, Course, Working, i
<1>11. CASE Ended(p)
  <2>1. i.at = "destroy" BY <1>11, Moves DEF Goes, i
  <2> QED BY <2>1 DEF TransientOK, OwnImage, i
<1>12. CASE KillLaunch(p)
  <2>1. launch'[p] = NoLaunch BY <1>12, Moves
  <2> QED BY <2>1, NewSound DEF Sound
<1> QED
  BY <1>1, <1>2, <1>3, <1>4, <1>5, <1>6, <1>7, <1>8, <1>9, <1>10, <1>11, <1>12 DEF StepOf

\* What a launch started is gone when it ends (derive_pristine, commit_launch).
LEMMA LeavesNothing ==
    ASSUME ShopShape, NEW p \in Processes, CourseOK(p), Sound(p), StepOf(p)
    PROVE  LeavesOK(p)'
<1> DEFINE j == launch[p]
           i == launch'[p]
<1>o. Course(j) BY DEF CourseOK
<1>l. LeavesOK(p) BY DEF Sound
<1> HIDE DEF i, j
<1>1. CASE Cleanup(p)
  <2>1. /\ j.at = "cleanup" /\ i.shop = j.shop /\ i.at \in {"done", "store", "clear"}
        /\ "clear" \in i.past <=> "clear" \in j.past
    BY <1>1, Moves DEF Ends, Goes, Like, i, j
  <2>2. j.shop \in Shops /\ "clear" \notin j.past BY <1>o, <2>1 DEF Course, Working
  <2>3. maker' = [maker EXCEPT ![j.shop] = {}] /\ wired' = wired \ {j.shop} BY <1>1 DEF Cleanup, j
  <2>4. maker'[j.shop] = {} /\ j.shop \notin wired' BY <2>2, <2>3 DEF ShopShape
  <2> QED BY <2>1, <2>2, <2>4 DEF LeavesOK, i
<1>2. CASE Destroy(p)
  <2>1. j.at = "destroy" /\ i.shop = j.shop /\ i.past = j.past
    BY <1>2, Moves DEF Ends, Goes, Like, i, j
  <2>2. wlBench' = wlBench \ {j.shop} /\ maker' = maker /\ wired' = wired BY <1>2 DEF Destroy, j
  <2> QED BY <1>l, <2>1, <2>2 DEF LeavesOK, Deriving, i, j
<1>3. CASE StartMaker(p) \/ WireMaker(p) \/ Install(p) \/ Commit(p)
  <2>1. /\ j.at \in {"start", "inject", "install", "commit"} /\ i.at \in Deriving \cup {"cleanup"}
    BY <1>3, Moves DEF Ends, Goes, Like, Deriving, i, j
  <2> QED BY <2>1 DEF LeavesOK, Deriving, i
<1>4. CASE (\E w \in Shops, a, b \in BOOLEAN : StartLaunch(p, w, a, b)) \/ KillLaunch(p)
  <2>1. CASE \E w \in Shops, a, b \in BOOLEAN : StartLaunch(p, w, a, b)
    <3>1. i.past = {} BY <2>1, StartMoves DEF Begins, i
    <3> QED BY <3>1 DEF LeavesOK, i
  <2>2. CASE KillLaunch(p)
    <3>1. launch'[p] = NoLaunch BY <2>2, Moves
    <3> QED BY <3>1, NewSound DEF Sound
  <2> QED BY <1>4, <2>1, <2>2
<1>5. CASE TakeKey(p) \/ RmImage(p) \/ Unfile(p) \/ LookUp(p) \/ Prepare(p)
  <2>1. i.past = j.past /\ j.at \in {"key", "rmi", "unfile", "lookup", "derive"}
    BY <1>5, Moves DEF Ends, Goes, Like, i, j
  <2> QED BY <1>o, <2>1 DEF LeavesOK, Course, i
<1>6. CASE Store(p) \/ Reap(p) \/ Ended(p) \/ Run(p)
  <2>1. maker' = maker /\ wired' = wired /\ wlBench' = wlBench
    BY <1>6 DEF Store, Reap, Ended, Run, boxVars
  <2>2. /\ j.at \in {"store", "reap", "works", "run"} /\ i.shop = j.shop /\ i.past = j.past
        /\ i.at \in {"reap", "done"} => j.at = "reap"
    BY <1>6, Moves DEF Ends, Goes, Like, i, j
  <2> QED BY <1>l, <2>1, <2>2 DEF LeavesOK, Deriving, i, j
<1>7. CASE Clear(p) \/ Create(p)
  <2>1. maker' = maker /\ wired' = wired BY <1>7 DEF Clear, Create
  <2>2. /\ j.at \in {"clear", "create"} /\ i.shop = j.shop /\ i.at \in {"create", "run", "destroy"}
        /\ "start" \in i.past => "start" \in j.past
    <3>1. CASE Clear(p)
      <4>1. /\ j.at = "clear" /\ i.at = "create" /\ i.past = j.past \cup {"clear"}
            /\ i.shop = j.shop /\ i.pkgs = j.pkgs
        BY <3>1, Moves DEF i, j
      <4> QED BY <4>1
    <3>2. CASE Create(p) BY <3>2, Moves DEF Goes, Like, i, j
    <3> QED BY <1>7, <3>1, <3>2
  <2> QED BY <1>l, <2>1, <2>2 DEF LeavesOK, Deriving, i, j
<1> QED BY <1>1, <1>2, <1>3, <1>4, <1>5, <1>6, <1>7 DEF StepOf

\* A workload runs on what its recipe declared and a genuine seed (run_from).
LEMMA RunsRight ==
    ASSUME ShopShape, NEW p \in Processes, CourseOK(p), Sound(p), ShedOK, StepOf(p)
    PROVE  RanOK(p)'
<1> DEFINE j == launch[p]
           i == launch'[p]
<1>h. hall' = hall /\ shipped' = shipped /\ loaded' \in {loaded, shipped} BY OthersStay, OwnThings
<1>o. Course(j) BY DEF CourseOK
<1> HIDE DEF i, j
<1>1. CASE Run(p)
  <2>1. j.at = "run" /\ (Goes(i, j, "destroy") \/ (Goes(i, j, "works") /\ i.ran.seed # NoSeed))
    BY <1>1, Moves DEF i, j
  <2>2. CASE Goes(i, j, "destroy") BY <2>2 DEF RanOK, Goes, i
  <2>3. CASE Goes(i, j, "works") /\ i.ran.seed # NoSeed
    <3>1. i.ran = IF j.pkgs = {} THEN [NoImage EXCEPT !.seed = loaded'] ELSE images[TagOf(j)]
      <4>1. ~Goes(i, j, "destroy") BY <2>3 DEF Goes
      <4> QED BY <1>1, <4>1, Moves DEF i, j
    <3>2. i.at = "works" /\ i.pkgs = j.pkgs BY <2>3 DEF Goes, Like
    <3>3. CASE j.pkgs = {}
      <4>1. i.ran.pkgs = {} /\ i.ran.seed = loaded' BY <3>1, <3>3 DEF NoImage
      <4>2. Genuine(loaded') BY <1>1 DEF Run, EnsureSeed, Genuine
      <4> QED BY <1>h, <3>2, <3>3, <4>1, <4>2 DEF RanOK, Genuine, May, i
    <3>4. CASE j.pkgs # {} /\ j.key # NoKey
      <4>1. j.key \in ShedKeys /\ j.key[2] = j.pkgs /\ Genuine(j.key[1])
        BY <1>o, <3>4 DEF Course, Sound, SeedOK, j
      <4>2. i.ran = images[j.key] /\ images[j.key] # NoImage
        BY <2>3, <3>1, <3>4 DEF TagOf, NoImage
      <4>3. i.ran.pkgs = j.pkgs /\ Genuine(i.ran.seed) BY <4>1, <4>2 DEF ShedOK, Genuine
      <4> QED BY <1>h, <3>2, <4>3 DEF RanOK, Genuine, May, i
    <3>5. CASE j.pkgs # {} /\ j.key = NoKey
      <4>1. OwnImage(p) BY <1>o, <2>1, <3>5 DEF OwnImage, Course, Working, j
      <4>2. i.ran = images[Transient(j.shop)] /\ images[Transient(j.shop)] # NoImage
        BY <2>3, <3>1, <3>5 DEF TagOf, NoImage
      <4>3. i.ran.pkgs = j.pkgs /\ Genuine(i.ran.seed) BY <4>1, <4>2 DEF Sound, TransientOK, j
      <4> QED BY <1>h, <3>2, <4>3 DEF RanOK, Genuine, May, i
    <3> QED BY <3>3, <3>4, <3>5
  <2> QED BY <2>1, <2>2, <2>3
<1>2. CASE ~Run(p)
  <2>1. i.at # "works"
    <3> USE DEF Ends, Goes, Like, i, j
    <3>1. CASE \E w \in Shops, a, b \in BOOLEAN : StartLaunch(p, w, a, b) BY <3>1, StartMoves DEF Begins
    <3>2. CASE TakeKey(p) \/ RmImage(p) \/ Unfile(p) \/ LookUp(p) \/ Prepare(p) BY <3>2, Moves
    <3>3. CASE StartMaker(p) \/ WireMaker(p) \/ Install(p) \/ Commit(p) \/ Cleanup(p) BY <3>3, Moves
    <3>4. CASE Store(p) \/ Clear(p) \/ Create(p) \/ Ended(p) \/ Destroy(p) \/ Reap(p) BY <3>4, Moves
    <3>5. CASE KillLaunch(p)
      <4>1. i = NoLaunch BY <3>5, Moves
      <4> QED BY <4>1 DEF NoLaunch
    <3> QED BY <1>2, <3>1, <3>2, <3>3, <3>4, <3>5 DEF StepOf
  <2> QED BY <2>1 DEF RanOK, i
<1> QED BY <1>1, <1>2

---------------------------------------------------------------------------
(* The records of a launcher that is alone *)

\* A key names one image: what has the Id of a record is what the record was made for.
LEMMA FreshIds ==
    ASSUME ShopShape, IdsOK
    PROVE  /\ made \in Nat /\ \A k \in ShedKeys : index[k].id \in Nat /\ index[k].id <= made
           /\ \A t \in ImageTags : images[t].id \in Nat
BY WorkshopAssumption DEF ShopShape, IdsOK, SomeRecs, SomeImages

\* A record that is found is of the image that is there, and stays with the run (cache_lookup,
\* cache_store).
LEMMA RecordsStay ==
    ASSUME ShopShape, IdsOK, NEW p \in Processes, CourseOK(p), Sound(p), RecordsOK(p), StepOf(p)
    PROVE  RecordsOK(p)'
<1> DEFINE j == launch[p]
           i == launch'[p]
<1>o. Course(j) BY DEF CourseOK
<1>r. RecordsOK(p) OBVIOUS
<1>n. NoRecord.id = NotThere /\ NoImage.id = NotThere BY DEF NoRecord, NoImage
<1>k. ShedKeys \subseteq ImageTags /\ NoKey \notin ShedKeys BY KeyFacts
<1> HIDE DEF i, j
\* What each action has to show
<1> DEFINE Filed == \A k \in ShedKeys : index'[k] # NoRecord /\ images'[k].id = index'[k].id => Vouched(index'[k], images'[k])
           Deriv == (i.at = "cleanup" /\ i.ok) \/ i.at = "store" =>
                       i.key = NoKey \/ images'[i.key] = NoImage \/ i.got \in {images'[i.key].vers, NotThere}
           Found == i.rec # NoRecord /\ i.at \in {"clear", "create", "run"} =>
                       images'[i.key] = NoImage \/ Vouched(i.rec, images'[i.key])
           Using == i.rec # NoRecord /\ i.at = "works" => Vouched(i.rec, i.ran)
<1> SUFFICES Filed /\ Deriv /\ Found /\ Using BY DEF RecordsOK, Vouched, i
<1>f. Filed
  <2>1. CASE Commit(p)
    <3>1. UNCHANGED index BY <2>1, Commits
    <3>2. ASSUME NEW k \in ShedKeys, index'[k] # NoRecord, images'[k].id = index'[k].id PROVE images'[k] = images[k]
      <4>1. CASE images' = images BY <4>1
      <4>2. CASE images' # images
        <5>1. PICK x : /\ images' = [images EXCEPT ![TagOf(j)] = x] /\ made' = made + 1 /\ x.id = made'
          BY <2>1, <4>2, Commits DEF j
        <5>2. index[k].id <= made /\ index[k].id \in Nat /\ made \in Nat BY FreshIds
        <5>3. k # TagOf(j)
          <6>1. SUFFICES ASSUME k = TagOf(j) PROVE FALSE OBVIOUS
          <6>2. images'[k] = x BY <1>k, <5>1, <6>1 DEF ShopShape
          <6> QED BY <3>1, <3>2, <5>1, <5>2, <6>2
        <5> QED BY <1>k, <5>1, <5>3 DEF ShopShape
      <4> QED BY <4>1, <4>2
    <3> QED BY <1>r, <3>1, <3>2 DEF RecordsOK
  <2>2. CASE Store(p)
    <3>1. j.at = "store" /\ images' = images BY <2>2 DEF Store, j
    <3>2. j.key \in ShedKeys /\ j.key # NoKey BY <1>o, <3>1 DEF Course
    <3>3. CASE index' = index BY <1>r, <3>1, <3>3 DEF RecordsOK
    <3>4. CASE index' # index
      <4>1. /\ images[j.key] # NoImage
            /\ index' = [index EXCEPT ![j.key] = [id |-> images[j.key].id, vers |-> j.got]]
        BY <2>2, <3>4 DEF Store, j
      <4>2. j.got \in {images[j.key].vers, NotThere} BY <1>r, <3>1, <3>2, <4>1 DEF RecordsOK, j
      <4>4. \A k \in ShedKeys : k # j.key => index'[k] = index[k] BY <4>1 DEF ShopShape
      <4>5. index'[j.key] = [id |-> images[j.key].id, vers |-> j.got] BY <3>2, <4>1 DEF ShopShape
      <4>6. Vouched(index'[j.key], images[j.key]) BY <4>2, <4>5 DEF Vouched
      <4> QED BY <1>r, <3>1, <4>4, <4>6 DEF RecordsOK
    <3> QED BY <3>3, <3>4
  <2>3. CASE ~Commit(p) /\ ~Store(p)
    <3>1. \A k \in ShedKeys : images'[k] = images[k] \/ images'[k] = NoImage BY <1>k, <2>3, ImagesGo
    <3>2. \A k \in ShedKeys : index'[k] = index[k] \/ index'[k] = NoRecord
      <4>1. CASE Unfile(p) \/ LookUp(p) BY <4>1 DEF Unfile, LookUp, Unfiled, ShopShape
      <4>2. CASE ~Unfile(p) /\ ~LookUp(p)
        BY <2>3, <4>2 DEF StepOf, shopVars, StartLaunch, TakeKey, RmImage, Prepare, StartMaker, WireMaker, Install,
                          Cleanup, Clear, Create, Run, Ended, Destroy, Reap, KillLaunch
      <4> QED BY <4>1, <4>2
    <3>3. \A k \in ShedKeys : index[k] # NoRecord => index[k].id # NotThere BY DEF IdsOK
    <3>4. \A k \in ShedKeys : index[k] # NoRecord /\ images[k].id = index[k].id => Vouched(index[k], images[k])
      BY <1>r DEF RecordsOK
    <3> QED BY <1>n, <3>1, <3>2, <3>3, <3>4
  <2> QED BY <2>1, <2>2, <2>3
<1>1. CASE Commit(p)
  <2>1. /\ j.at = "commit" /\ i.at = "cleanup" /\ i.key = j.key /\ i.got = j.got /\ TagOf(j) \in ImageTags
    BY <1>1, Commits DEF i, j
  <2>2. ASSUME i.ok, j.key # NoKey PROVE i.got \in {images'[j.key].vers, NotThere}
    <3>1. PICK x : images' = [images EXCEPT ![TagOf(j)] = x] /\ j.got \in {x.vers, NotThere}
      BY <1>1, <2>2, Commits DEF i, j
    <3>2. TagOf(j) = j.key BY <2>2 DEF TagOf
    <3>3. images'[j.key] = x BY <2>1, <3>1, <3>2 DEF ShopShape
    <3> QED BY <2>1, <3>1, <3>3
  <2> QED BY <1>f, <2>1, <2>2
<1>2. CASE Cleanup(p)
  <2>1. images' = images BY <1>2 DEF Cleanup, shopVars
  <2>2. /\ j.at = "cleanup"
        /\ \/ i.at = "done"
           \/ j.ok /\ i.at = "store" /\ i.key = j.key /\ i.got = j.got
           \/ i.at = "clear" /\ i.rec = j.rec
    BY <1>2, Moves DEF Ends, Goes, Like, i, j
  <2>3. j.rec = NoRecord BY <1>o, <2>2 DEF Course, Working
  <2> QED BY <1>f, <1>r, <2>1, <2>2, <2>3 DEF RecordsOK, j
<1>3. CASE Store(p)
  <2>1. j.at = "store" /\ i.at = "clear" /\ i.rec = j.rec BY <1>3, Moves DEF i, j
  <2>2. j.rec = NoRecord BY <1>o, <2>1 DEF Course, Working
  <2> QED BY <1>f, <2>1, <2>2
<1>4. CASE LookUp(p)
  <2>1. images' = images BY <1>4 DEF LookUp
  <2>2. /\ j.at = "lookup"
        /\ \/ i.at \in {"done", "derive"}
           \/ i.at = "clear" /\ i.rec = index[j.key] /\ i.key = j.key /\ images[j.key].id = i.rec.id
    BY <1>4, Moves DEF Ends, Goes, Like, i, j
  <2>3. j.key \in ShedKeys BY <1>o, <2>2 DEF Course
  <2> QED BY <1>f, <1>r, <2>1, <2>2, <2>3 DEF RecordsOK
<1>5. CASE Clear(p) \/ Create(p)
  <2>1. images' = images BY <1>5 DEF Clear, Create, shopVars
  <2>2. j.at \in {"clear", "create"} /\ i.at \in {"create", "run", "destroy"} /\ i.rec = j.rec /\ i.key = j.key
    BY <1>5, Moves DEF Goes, Like, i, j
  <2> QED BY <1>f, <1>r, <2>1, <2>2 DEF RecordsOK, j
<1>6. CASE Run(p)
  <2>1. images' = images BY <1>6 DEF Run, shopVars
  <2>2. /\ j.at = "run"
        /\ \/ i.at = "destroy"
           \/ /\ i.at = "works" /\ i.rec = j.rec /\ i.ran.seed # NoSeed
              /\ i.ran = IF j.pkgs = {} THEN [NoImage EXCEPT !.seed = loaded'] ELSE images[TagOf(j)]
    BY <1>6, Moves DEF Goes, Like, i, j
  <2>3. CASE i.at = "works" /\ j.rec # NoRecord
    <3>1. j.key # NoKey /\ j.pkgs # {} BY <1>o, <2>3 DEF Course
    <3>2. i.ran = images[j.key] /\ i.ran # NoImage BY <2>2, <2>3, <3>1 DEF TagOf, NoImage
    <3>3. Vouched(j.rec, images[j.key]) BY <1>r, <2>2, <2>3, <3>2 DEF RecordsOK, j
    <3> QED BY <1>f, <2>2, <2>3, <3>2, <3>3
  <2> QED BY <1>f, <2>2, <2>3
<1>7. CASE \E w \in Shops, a, b \in BOOLEAN : StartLaunch(p, w, a, b)
  <2>1. i.at \in {"clear", "key"} /\ i.rec = NoRecord BY <1>7, StartMoves DEF Begins, i
  <2> QED BY <1>f, <2>1
<1>8. CASE StartMaker(p) \/ WireMaker(p) \/ Install(p)
  <2>1. j.at \in {"start", "inject", "install"} /\ i.at \in {"inject", "install", "commit", "cleanup"} /\ i.ok = j.ok
    BY <1>8, Moves DEF Goes, Like, i, j
  <2>2. ~j.ok BY <1>o, <2>1 DEF Course, Working
  <2> QED BY <1>f, <2>1, <2>2
<1>9. CASE TakeKey(p) \/ RmImage(p) \/ Unfile(p) \/ Prepare(p)
  <2>1. i.at \in {"done", "derive", "rmi", "lookup", "unfile", "start"} BY <1>9, Moves DEF Ends, Goes, i, j
  <2> QED BY <1>f, <2>1
<1>10. CASE Ended(p) \/ Destroy(p) \/ Reap(p)
  <2>1. i.at \in {"destroy", "reap", "done"} BY <1>10, Moves DEF Ends, Goes, i, j
  <2> QED BY <1>f, <2>1
<1>11. CASE KillLaunch(p)
  <2>1. i = NoLaunch BY <1>11, Moves DEF i
  <2>2. i.at = "idle" BY <2>1 DEF NoLaunch
  <2> QED BY <1>f, <2>2
<1> QED
  BY <1>1, <1>2, <1>3, <1>4, <1>5, <1>6, <1>7, <1>8, <1>9, <1>10, <1>11 DEF StepOf

---------------------------------------------------------------------------
(* All steps together *)

\* Where one process launches alone, no other one takes a step.
LEMMA AloneActs ==
    ASSUME ShopShape, NEW p \in Processes, NEW q \in Processes, p # q, Alone(q), CourseOK(p), StepOf(p)
    PROVE  FALSE
<1>1. hall.serves[p] = {} BY DEF Alone
<1>2. launch[p].at = "idle" BY <1>1 DEF CourseOK
<1>3. ~\E w \in Shops, a, b \in BOOLEAN : StartLaunch(p, w, a, b) BY <1>1 DEF StartLaunch
<1>4. ~KillLaunch(p) /\ ~Commit(p) BY <1>2 DEF KillLaunch, Commit
<1> QED BY <1>2, <1>3, <1>4, Moves DEF StepOf

\* Whatever a process does, the Tool Shed and all launches stay sound.
LEMMA StepSound ==
    ASSUME ShopInv, NEW p \in Processes, StepOf(p)
    PROVE  Apart' => ShedOK' /\ \A q \in Processes : Sound(q)' /\ (Alone(q)' => RecordsOK(q)')
<1>h. hall' = hall BY OthersStay DEF ShopInv
<1> SUFFICES ASSUME Apart PROVE ShedOK' /\ \A q \in Processes : Sound(q)' /\ (Alone(q) => RecordsOK(q)')
  BY <1>h DEF Apart, Alone
<1>1. ShedOK' BY ShedStays DEF ShopInv
<1>2. ASSUME NEW q \in Processes PROVE Sound(q)'
  <2>1. CASE q = p
    <3>1. SeedOK(p)' /\ MakerOK(p)' BY DerivesSoundly DEF ShopInv
    <3>2. TransientOK(p)' BY TransientStays DEF ShopInv
    <3>3. LeavesOK(p)' BY LeavesNothing DEF ShopInv
    <3>4. RanOK(p)' BY RunsRight DEF ShopInv
    <3> QED BY <2>1, <3>1, <3>2, <3>3, <3>4 DEF Sound
  <2>2. CASE q # p BY <2>2, OthersSound DEF ShopInv
  <2> QED BY <2>1, <2>2
<1>3. ASSUME NEW q \in Processes, Alone(q) PROVE RecordsOK(q)'
  <2>1. q = p BY <1>3, AloneActs DEF ShopInv
  <2> QED BY <1>3, <2>1, RecordsStay DEF ShopInv
<1> QED BY <1>1, <1>2, <1>3

\* Promotions, pruning and publishing disturb no launch, and a restart ends them all.
LEMMA AroundSound ==
    ASSUME ShopInv, StepAround \/ Restarts \/ UNCHANGED workshopVars
    PROVE  Apart' => ShedOK' /\ \A q \in Processes : Sound(q)' /\ (Alone(q)' => RecordsOK(q)')
<1>h. hall' = hall /\ index' = index
  BY DEF StepAround, Promote, Prune, Publish, Restarts, outside, shopVars, workshopVars
<1> SUFFICES ASSUME Apart PROVE ShedOK' /\ \A q \in Processes : Sound(q)' /\ (Alone(q) => RecordsOK(q)')
  BY <1>h DEF Apart, Alone
<1>i. \A t \in ImageTags : images'[t] = images[t] \/ images'[t] = NoImage
  <2>1. CASE Prune BY <2>1 DEF Prune, Removed, ShopInv, ShopShape
  <2>2. CASE ~Prune BY <2>2 DEF StepAround, Promote, Publish, Restarts, shopVars, workshopVars
  <2> QED BY <2>1, <2>2
<1>k. ShedKeys \subseteq ImageTags /\ \A w \in Shops : Transient(w) \in ImageTags BY KeyFacts
<1>1. ShedOK' BY <1>h, <1>i, <1>k DEF ShopInv, ShedOK, May
<1>r. ASSUME NEW q \in Processes, Alone(q)
      PROVE  \A k \in ShedKeys : index[k] # NoRecord /\ images'[k].id = index[k].id => Vouched(index[k], images'[k])
  <2>1. NoImage.id = NotThere BY DEF NoImage
  <2>2. \A k \in ShedKeys : index[k] # NoRecord => index[k].id # NotThere BY DEF ShopInv, IdsOK
  <2>3. \A k \in ShedKeys : index[k] # NoRecord /\ images[k].id = index[k].id => Vouched(index[k], images[k])
    BY <1>r DEF ShopInv, RecordsOK
  <2> QED BY <1>i, <1>k, <2>1, <2>2, <2>3
<1>2. CASE Restarts
  <2>1. \A q \in Processes : launch'[q] = NoLaunch BY <1>2 DEF Restarts
  <2>2. \A q \in Processes : Sound(q)' BY <2>1, NewSound
  <2>3. ASSUME NEW q \in Processes, Alone(q) PROVE RecordsOK(q)'
    <3>1. launch'[q].at = "idle" BY <2>1 DEF NoLaunch
    <3> QED BY <1>h, <1>r, <2>3, <3>1 DEF RecordsOK, Vouched
  <2> QED BY <1>1, <2>2, <2>3
<1>3. CASE ~Restarts
  <2>1. /\ launch' = launch /\ shipped' = shipped /\ maker' = maker /\ wired' = wired /\ wlBench' = wlBench
        /\ loaded' = loaded \/ loaded' = NoSeed
    BY <1>3 DEF StepAround, Promote, Prune, Publish, outside, boxVars, workshopVars
  <2>2. ASSUME NEW q \in Processes PROVE Sound(q)'
    <3>0. Sound(q) /\ CourseOK(q) BY DEF ShopInv
    <3>1. (SeedOK(q) /\ RanOK(q))' BY <1>h, <2>1, <3>0 DEF Sound, SeedOK, RanOK, Genuine, May
    <3>2. (MakerOK(q) /\ LeavesOK(q))' BY <1>h, <2>1, <3>0 DEF Sound, MakerOK, LeavesOK, Genuine, May
    <3>3. TransientOK(q)'
      <4>1. CASE launch[q].at = "idle"
        BY <2>1, <3>0, <4>1 DEF TransientOK, OwnImage, CourseOK, Course
      <4>2. CASE launch[q].at # "idle"
        <5>1. Transient(launch[q].shop) \in ImageTags BY <1>k, <3>0, <4>2 DEF CourseOK, Course
        <5>2. \/ images'[Transient(launch[q].shop)] = images[Transient(launch[q].shop)]
              \/ images'[Transient(launch[q].shop)] = NoImage
          BY <1>i, <5>1
        <5> QED BY <1>h, <2>1, <3>0, <5>2 DEF Sound, TransientOK, OwnImage, Genuine, May
      <4> QED BY <4>1, <4>2
    <3> QED BY <3>1, <3>2, <3>3 DEF Sound
  <2>3. ASSUME NEW q \in Processes, Alone(q) PROVE RecordsOK(q)'
    <3>1. RecordsOK(q) /\ Course(launch[q]) BY <2>3 DEF ShopInv, CourseOK
    <3>2. launch[q].key # NoKey =>
             images'[launch[q].key] = images[launch[q].key] \/ images'[launch[q].key] = NoImage
      BY <1>i, <1>k, <3>1 DEF Course
    <3>3. launch[q].rec # NoRecord => launch[q].key # NoKey BY <3>1 DEF Course
    <3> QED BY <1>h, <1>r, <2>1, <2>3, <3>1, <3>2, <3>3 DEF RecordsOK, Vouched
  <2> QED BY <1>1, <2>2, <2>3
<1> QED BY <1>2, <1>3

\* Before any launch there is nothing to go wrong.
LEMMA ShopInitHolds == WorkshopInit => ShopInv
<1> SUFFICES ASSUME WorkshopInit PROVE ShopInv OBVIOUS
<1>1. ShopShape
  <2>1. NoImage \in SomeImages /\ NoRecord \in SomeRecs /\ NoSeed \in SomeSeed
    BY DEF NoImage, SomeImages, SomeSeed, NoRecord, SomeRecs, NotThere
  <2> QED BY <2>1, LaunchForms, WorkshopAssumption DEF WorkshopInit, ShopShape
<1>2. IdsOK BY KeyFacts DEF WorkshopInit, IdsOK, NoImage, NoRecord, NotThere
<1>3. ASSUME NEW p \in Processes PROVE CourseOK(p) /\ Sound(p) /\ RecordsOK(p)
  <2>1. launch[p] = NoLaunch BY DEF WorkshopInit
  <2>2. NoLaunch.at = "idle" /\ NoLaunch.key = NoKey /\ NoLaunch.rec = NoRecord /\ NoLaunch.past = {} /\ ~NoLaunch.ok
    BY DEF NoLaunch
  <2>3. CourseOK(p) BY <2>1, <2>2 DEF CourseOK, Course, Steps, Working
  <2>4. Sound(p) BY <2>1, <2>2 DEF Sound, SeedOK, MakerOK, TransientOK, OwnImage, LeavesOK, RanOK, Deriving
  <2>5. RecordsOK(p) BY <2>1, <2>2 DEF WorkshopInit, RecordsOK
  <2> QED BY <2>3, <2>4, <2>5
<1>4. ShedOK BY KeyFacts DEF WorkshopInit, ShedOK
<1> QED BY <1>1, <1>2, <1>3, <1>4 DEF ShopInv

\* Every step keeps the invariant.
LEMMA ShopInvKept == ASSUME ShopInv, [WorkshopNext]_workshopVars PROVE ShopInv'
<1>1. ShopShape' BY ShopSteps, StepShape, AroundShape DEF ShopInv
<1>2. IdsOK' BY IdsKept DEF ShopInv
<1>3. \A p \in Processes : CourseOK(p)' BY CourseKept DEF ShopInv
<1>4. Apart' => ShedOK' /\ \A q \in Processes : Sound(q)' /\ (Alone(q)' => RecordsOK(q)')
  BY ShopSteps, StepSound, AroundSound
<1> QED BY <1>1, <1>2, <1>3, <1>4 DEF ShopInv

\* What the invariant says of a launch is what a workshop promises.
LEMMA ShopInvSound == ShopInv => WorkshopSound
<1> SUFFICES ASSUME ShopInv PROVE WorkshopSound OBVIOUS
<1>1. WorkshopTypeOK
  <2> USE DEF ShopInv, ShopShape
  <2>1. ASSUME NEW S, \A c, d \in S : c = d PROVE Cardinality(S) <= 1
    <3>1. CASE S = {} BY <3>1, FS_EmptySet
    <3>2. CASE S # {}
      <4>1. PICK c \in S : TRUE BY <3>2
      <4>2. S = {c} BY <2>1, <4>1
      <4>3. Cardinality({c}) = 1 BY FS_Singleton
      <4> QED BY <4>2, <4>3
    <3> QED BY <3>1, <3>2
  <2>2. \A w \in Shops : recipe[w] \subseteq Recipes /\ Cardinality(recipe[w]) <= 1 BY <2>1
  <2>3. \A w \in Shops : Cardinality(maker[w]) <= 1 BY <2>1
  <2>4. \A t \in ImageTags : images[t].id \in 0..MaxMade /\ images[t].pkgs \subseteq Packages
    BY WorkshopAssumption DEF IdsOK, SomeImages
  <2>5. \A k \in ShedKeys : index[k].id \in 0..MaxMade BY WorkshopAssumption DEF IdsOK, SomeRecs
  <2>6. \A p \in Processes : launch[p].key \in ShedKeys \cup {NoKey} BY DEF Launches
  <2> QED BY <2>2, <2>3, <2>4, <2>5, <2>6 DEF WorkshopTypeOK, SomeSeed
<1>2. ASSUME Apart, NEW p \in Processes
      PROVE  LET j == launch[p] IN
             /\ j.at = "works" =>
                   /\ j.ran.pkgs = j.pkgs
                   /\ ~May("load") => j.ran.seed = shipped
                   /\ Alone(p) /\ j.rec # NoRecord =>
                         j.ran.id = j.rec.id /\ j.rec.vers \in {j.ran.vers, NotThere}
             /\ j.at = "done" =>
                   /\ "start" \in j.past => maker[j.shop] = {} /\ j.shop \notin wired
                   /\ "clear" \in j.past => j.shop \notin wlBench
                   /\ "transient" \in j.past => images[Transient(j.shop)] = NoImage
  <2>1. Sound(p) /\ (Alone(p) => RecordsOK(p)) BY <1>2 DEF ShopInv
  <2> QED BY <2>1 DEF Sound, RanOK, Genuine, RecordsOK, Vouched, LeavesOK, TransientOK, Deriving
<1> QED BY <1>1, <1>2 DEF WorkshopSound

\* For any workshops, recipes, packages and processes, and any failures, kills, restarts and
\* prunings, a workload runs in what its recipe declared on the seed that ships, a hit runs
\* what its record was made for, and a launch that ends leaves nothing behind (commit_launch,
\* derive_pristine, cache_lookup, cache_store).
THEOREM WorkshopsAreSound == WorkshopSpec => []WorkshopSound
BY ShopInitHolds, ShopInvKept, ShopInvSound, PTL DEF WorkshopSpec
=============================================================================
