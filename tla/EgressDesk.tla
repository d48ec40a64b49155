------------------------------ MODULE EgressDesk ------------------------------
(***************************************************************************)
(* The request desk of egressd and what it keeps besides @cap_pinned: the  *)
(* provider bindings and the composed /run/shrek/hosts, the owner's        *)
(* capability manifests, and the inbox of wants.  Requests queue on one    *)
(* socket, a client gives up after six seconds and its request stays; the  *)
(* boot oneshot composes beside the daemon; writes fail, the daemon dies,  *)
(* power is lost, and the next boot may be of another image.               *)
(***************************************************************************)
EXTENDS Naturals, Sequences, FiniteSets, Functions

CONSTANTS
    Tokens,     \* model providers
    Addrs,
    NoAddr,
    Legacies,   \* what the hosts file of before may bind
    Texts,      \* manifests a console may confirm: [name, host, deliver]
    NoText,
    Images,     \* [names, hosts, reserved]: sealed catalog and compiled tables
    FaultSets,  \* which writes may fail: sets of {"bind", "migrate", "project", "install", "nft"}
    RateMax,    \* RATE_MAX
    WantsKeep,  \* WANTS_KEEP
    MaxSent, MaxCuts  \* bounds: requests sent, deaths of the daemon or losses of power

ASSUME DeskAssumption ==
    /\ NoAddr \notin Addrs /\ NoText \notin Texts /\ Addrs \cap {"unbound", "unknown"} = {}
    /\ Legacies \subseteq [Tokens -> Addrs \cup {NoAddr}]
    /\ RateMax \in Nat \ {0} /\ WantsKeep \in Nat \ {0} /\ MaxSent \in Nat /\ MaxCuts \in Nat

CapNames  == {t.name : t \in Texts}
Unbound   == [t \in Tokens |-> NoAddr]
Composers == {"daemon", "oneshot"}
Free      == "free"

VARIABLES
    faults, image,
    bindings, legacy,     \* /home/.shrek-system: hosts-bindings and hosts
    owner, quarantined,   \* live owner manifests, names with that fault parked
    weather,              \* whether the store has its pins
    pinned, hosts,        \* /run: the pin map and the hosts file
    staged, wants,        \* /run: staged manifests, inbox by age
    place, hostsLock,     \* where each composer is
    queue, serving, hits, \* the socket, the request served, attempts of the window
    told, confirmed,      \* history: last answer per token, manifests confirmed
    sent, cuts

deskVars == <<faults, image, bindings, legacy, owner, quarantined, weather, pinned, hosts, staged,
              wants, place, hostsLock, queue, serving, hits, told, confirmed, sent, cuts>>
machine    == <<faults, image>>
homeVars   == <<bindings, legacy>>
capVars    == <<owner, quarantined, staged, confirmed>>
runVars    == <<weather, pinned, hosts, wants>>
lockVars   == <<place, hostsLock>>
socketVars == <<queue, serving, hits>>
history    == <<sent, cuts>>

---------------------------------------------------------------------------
(* The catalog *)

Shadowed(n)    == n \in image.names
ReservedHost(h) == h \in image.reserved \cup image.hosts
Installable(t) == ~Shadowed(t.name) /\ t.deliver = "none" /\ ~ReservedHost(t.host)
InCatalog(n)   == Shadowed(n) \/ owner[n] # NoText
Colliding      == {n \in CapNames : /\ owner[n] # NoText /\ ~Shadowed(n)
                                    /\ ReservedHost(owner[n].host)}

---------------------------------------------------------------------------
(* Requests *)

\* live: its client, the relay of gatekeeperd, still waits for the answer
Ask(who, verb, arg) == [who |-> who, verb |-> verb, arg |-> arg, live |-> who = "root", ok |-> TRUE]
NoAsk      == Ask("none", "none", <<>>)
Privileged == {"install", "remove"}
HostVerbs  == {"bind", "unbind"}
DevAsks    == {Ask("dev", v, <<>>) : v \in {"status", "bless", "unbless", "junk"}}
              \cup {Ask("dev", "want", n) : n \in CapNames}
              \cup {Ask("dev", "unbind", <<t, NoAddr>>) : t \in Tokens}
              \cup {Ask("dev", "bind", <<t, a>>) : t \in Tokens, a \in Addrs}
              \cup {Ask("dev", "remove", n) : n \in CapNames}
Mutating(r)   == r.verb \notin {"status", "junk"} \cup Privileged
Authorized(r) == r.who = IF r.verb \in Privileged THEN "root" ELSE "dev"

\* The socket is there once the daemon has bound it, before it reconciles
Listening == place["daemon"] # "off"
Enqueue(r) == Listening /\ sent < MaxSent /\ sent' = sent + 1 /\ queue' = Append(queue, r)

DevSends(r) ==
    /\ Enqueue(r)
    /\ UNCHANGED <<machine, homeVars, capVars, runVars, lockVars, serving, hits, told, cuts>>

\* gatekeeperd commits one ceremony at a time: what was rendered is staged, then
\* only the name is relayed
Relay(r)  == /\ sent < MaxSent /\ sent' = sent + 1
             /\ queue' = IF Listening THEN Append(queue, r) ELSE queue
RelayFree == \A r \in Range(queue) \cup {serving} : ~r.live

ConfirmInstall(t) ==
    /\ RelayFree /\ t.deliver = "none" /\ t.host \notin image.reserved
    /\ staged' = [staged EXCEPT ![t.name] = t] /\ confirmed' = confirmed \cup {t}
    /\ Relay(Ask("root", "install", t.name))
    /\ UNCHANGED <<machine, homeVars, owner, quarantined, runVars, lockVars, serving, hits, told,
                   cuts>>

ConfirmRemove(n) ==
    /\ RelayFree /\ Relay(Ask("root", "remove", n))
    /\ UNCHANGED <<machine, homeVars, capVars, runVars, lockVars, serving, hits, told, cuts>>

\* IO_TIMEOUT of `egressd ask`: behind a slow resolver.  The request stays
ClientGivesUp ==
    /\ \/ \E i \in DOMAIN queue : /\ queue[i].live /\ queue' = [queue EXCEPT ![i].live = FALSE]
                                  /\ UNCHANGED serving
       \/ serving.live /\ serving' = [serving EXCEPT !.live = FALSE] /\ UNCHANGED queue
    /\ UNCHANGED <<machine, homeVars, capVars, runVars, lockVars, hits, told, history>>

\* The oldest attempt leaves the window of 30 s
Lapse ==
    /\ hits > 0 /\ hits' = hits - 1
    /\ UNCHANGED <<machine, homeVars, capVars, runVars, lockVars, queue, serving, told, history>>

---------------------------------------------------------------------------
(* compose_hosts, by the daemon and by the oneshot *)

Goes(p, to) == place' = [place EXCEPT ![p] = to]
After(p)  == IF p = "oneshot" THEN "done" ELSE IF serving = NoAsk THEN "idle" ELSE "answer"
Absorbed  == [t \in Tokens |-> IF bindings[t] = NoAddr THEN legacy[t] ELSE bindings[t]]

TakeLock(p) ==
    /\ place[p] = "lock" /\ hostsLock = Free /\ hostsLock' = p
    /\ Goes(p, IF p = "daemon" /\ serving.verb \in HostVerbs THEN "write" ELSE "absorb")
    /\ UNCHANGED <<machine, homeVars, capVars, runVars, socketVars, told, history>>

\* migrate_legacy: a failed write leaves the rest of it undone
Absorb(p) ==
    /\ place[p] = "absorb"
    /\ \/ bindings' = Absorbed /\ Goes(p, "baseline")
       \/ "migrate" \in faults /\ legacy # Unbound /\ Goes(p, "compose") /\ UNCHANGED bindings
    /\ UNCHANGED <<machine, legacy, capVars, runVars, hostsLock, socketVars, told, history>>

\* Mutant: the old file is left as it is
Rebase_Keep(p) ==
    /\ place[p] = "baseline"
    /\ Goes(p, "compose")
    /\ UNCHANGED <<machine, homeVars, capVars, runVars, hostsLock, socketVars, told, history>>

Rebase(p) ==
    /\ place[p] = "baseline"
    /\ legacy' = Unbound \/ ("migrate" \in faults /\ UNCHANGED legacy)
    /\ Goes(p, "compose")
    /\ UNCHANGED <<machine, bindings, capVars, runVars, hostsLock, socketVars, told, history>>

\* Both callers of the daemon ignore a failure
Compose(p) ==
    /\ place[p] = "compose"
    /\ \/ hosts' = [there |-> TRUE, bound |-> bindings,
                     weather |-> pinned /\ "weather" \in image.names]
       \/ "project" \in faults /\ UNCHANGED hosts
    /\ hostsLock' = Free /\ Goes(p, After(p))
    /\ UNCHANGED <<machine, homeVars, capVars, weather, pinned, wants, socketVars, told, history>>

\* Root may run `egressd compose-hosts` by hand
ComposeCli ==
    /\ place["oneshot"] = "done" /\ Listening /\ sent < MaxSent /\ sent' = sent + 1
    /\ Goes("oneshot", "lock")
    /\ UNCHANGED <<machine, homeVars, capVars, runVars, hostsLock, socketVars, told, cuts>>

---------------------------------------------------------------------------
(* The daemon *)

DaemonStarts ==
    /\ place["daemon"] = "off" /\ place["oneshot"] = "done"
    /\ Goes("daemon", "scan")
    /\ UNCHANGED <<machine, homeVars, capVars, runVars, hostsLock, socketVars, told, history>>

\* Mutant: the scan knows the compiled tables only
Scan_Compiled ==
    /\ place["daemon"] = "scan"
    /\ quarantined' = quarantined \cup {n \in Colliding : owner[n].host \in image.reserved}
    /\ Goes("daemon", "pins")
    /\ UNCHANGED <<machine, homeVars, owner, staged, confirmed, runVars, hostsLock, socketVars,
                   told, history>>

\* quarantine_update_collisions, the first step of reconcile
Scan ==
    /\ place["daemon"] = "scan"
    /\ quarantined' = quarantined \cup Colliding
    /\ Goes("daemon", "pins")
    /\ UNCHANGED <<machine, homeVars, owner, staged, confirmed, runVars, hostsLock, socketVars,
                   told, history>>

\* project_pinned, before the hosts file is composed: reproject, and reconcile
ProjectPins ==
    /\ place["daemon"] = "pins"
    /\ pinned' = weather /\ Goes("daemon", "lock")
    /\ UNCHANGED <<machine, homeVars, capVars, weather, hosts, wants, hostsLock, socketVars, told,
                   history>>

FirstStep(r) == IF r.verb \in HostVerbs THEN "lock" ELSE r.verb

\* Mutant: an attempt over the limit is counted and let through
Counts_All(r) == Mutating(r)

\* RateLimiter::check
Counts(r) == Mutating(r) /\ hits < RateMax

\* handle: parsed, counted, then authorized; a refusal is an answer
Serve ==
    LET r == Head(queue)
        granted == /\ r.verb # "junk" /\ Authorized(r)
                   /\ Mutating(r) => Counts(r)
    IN /\ place["daemon"] = "idle" /\ queue # <<>>
       /\ queue' = Tail(queue)
       /\ hits' = IF Counts(r) THEN hits + 1 ELSE hits
       /\ serving' = [r EXCEPT !.ok = granted]
       /\ Goes("daemon", IF granted /\ r.verb # "status" THEN FirstStep(r) ELSE "answer")
       /\ UNCHANGED <<machine, homeVars, capVars, runVars, hostsLock, told, history>>

\* The handlers leave for the reprojection or for the answer
Ends(ok, to) == serving' = [serving EXCEPT !.ok = ok] /\ Goes("daemon", to)

\* bless and unbless, as the desk sees them: the rest is EgressCap
Bless ==
    /\ place["daemon"] \in {"bless", "unbless"}
    /\ \/ weather' = (serving.verb = "bless") /\ Ends(TRUE, "pins")
       \/ weather' \in {weather, weather \/ serving.verb = "bless"} /\ Ends(FALSE, "pins")
    /\ UNCHANGED <<machine, homeVars, capVars, pinned, hosts, wants, hostsLock, queue, hits, told,
                   history>>

\* write_binding and remove_binding: the whole store is written anew
Bound(t, a) == bindings' = [bindings EXCEPT ![t] = a]

\* do_bind and do_unbind
WriteBinding ==
    LET t == serving.arg[1] IN
    /\ place["daemon"] = "write"
    /\ \/ /\ Bound(t, serving.arg[2]) /\ Ends(TRUE, "absorb")
          /\ told' = [told EXCEPT ![t] = "unknown"] /\ UNCHANGED hostsLock
       \/ "bind" \in faults /\ Ends(FALSE, "answer") /\ hostsLock' = Free
          /\ UNCHANGED <<bindings, told>>
    /\ UNCHANGED <<machine, legacy, capVars, runVars, queue, hits, history>>

Newest(all) ==
    LET extra == IF Len(all) > WantsKeep THEN Len(all) - WantsKeep ELSE 0
    IN SubSeq(all, extra + 1, Len(all))

\* record_want: the newest of each, and of those the newest few
Want ==
    LET others == SelectSeq(wants, LAMBDA n : n # serving.arg)
    IN /\ place["daemon"] = "want"
       /\ wants' = IF InCatalog(serving.arg) THEN Newest(Append(others, serving.arg)) ELSE wants
       /\ Ends(InCatalog(serving.arg), "answer")
       /\ UNCHANGED <<machine, homeVars, capVars, weather, pinned, hosts, hostsLock, queue, hits,
                      told, history>>

\* write_owner_manifest and remove_owner_manifest
Owned(n, t) == owner' = [owner EXCEPT ![n] = t]

\* confirmed_manifest_install: what is staged by now, checked again
InstallStaged ==
    LET n == serving.arg
        t == staged[n]
    IN /\ place["daemon"] = "install"
       /\ \/ t = NoText /\ Ends(FALSE, "answer") /\ UNCHANGED <<owner, staged>>
          \/ /\ t # NoText /\ ~Installable(t) /\ Ends(FALSE, "answer")
             /\ staged' = [staged EXCEPT ![n] = NoText] /\ UNCHANGED owner
          \/ /\ t # NoText /\ Installable(t) /\ "install" \in faults /\ Ends(FALSE, "answer")
             /\ UNCHANGED <<owner, staged>>
          \/ /\ t # NoText /\ Installable(t) /\ Ends(TRUE, "unstage")
             /\ Owned(n, t) /\ UNCHANGED staged
       /\ UNCHANGED <<machine, homeVars, quarantined, confirmed, runVars, hostsLock, queue, hits,
                      told, history>>

Unstage ==
    /\ place["daemon"] = "unstage"
    /\ staged' = [staged EXCEPT ![serving.arg] = NoText] /\ Goes("daemon", "pins")
    /\ UNCHANGED <<machine, homeVars, owner, quarantined, confirmed, runVars, hostsLock,
                   socketVars, told, history>>

\* confirmed_manifest_remove: the records of that name go with it, whoever sealed it
Uninstall ==
    LET n == serving.arg IN
    /\ place["daemon"] = "remove"
    /\ \/ /\ Owned(n, NoText) /\ quarantined' = quarantined \ {n}
          /\ weather' = (weather /\ n # "weather")
          /\ Ends(TRUE, "pins") \/ ("nft" \in faults /\ Ends(FALSE, "pins"))
       \/ "install" \in faults /\ Ends(FALSE, "answer") /\ UNCHANGED <<owner, quarantined, weather>>
    /\ UNCHANGED <<machine, homeVars, staged, confirmed, pinned, hosts, wants, hostsLock, queue, hits,
                   told, history>>

Answer ==
    /\ place["daemon"] = "answer"
    /\ serving' = NoAsk /\ Goes("daemon", "idle")
    /\ told' = IF serving.ok /\ serving.verb \in HostVerbs
               THEN [told EXCEPT ![serving.arg[1]] =
                        IF serving.verb = "bind" THEN serving.arg[2] ELSE "unbound"]
               ELSE told
    /\ UNCHANGED <<machine, homeVars, capVars, runVars, hostsLock, queue, hits, history>>

---------------------------------------------------------------------------

\* The daemon dies: its lock and its socket go with it
DaemonDies ==
    /\ place["daemon"] # "off" /\ cuts < MaxCuts /\ cuts' = cuts + 1
    /\ Goes("daemon", "off")
    /\ hostsLock' = IF hostsLock = "daemon" THEN Free ELSE hostsLock
    /\ queue' = <<>> /\ serving' = NoAsk /\ hits' = 0
    /\ UNCHANGED <<machine, homeVars, capVars, runVars, told, sent>>

\* Power is lost; the next boot may be of the other image slot
PowerCut ==
    /\ cuts < MaxCuts /\ cuts' = cuts + 1
    /\ image' \in Images
    /\ pinned' = FALSE /\ hosts' = [there |-> FALSE, bound |-> Unbound, weather |-> FALSE]
    /\ staged' = [n \in CapNames |-> NoText] /\ wants' = <<>>
    /\ place' = [p \in Composers |-> IF p = "oneshot" THEN "lock" ELSE "off"]
    /\ hostsLock' = Free /\ queue' = <<>> /\ serving' = NoAsk /\ hits' = 0
    /\ UNCHANGED <<faults, homeVars, owner, quarantined, confirmed, weather, told, sent>>

DeskInit ==
    /\ faults \in FaultSets /\ image \in Images
    /\ bindings = Unbound /\ legacy \in Legacies
    /\ owner = [n \in CapNames |-> NoText] /\ quarantined = {}
    /\ weather = FALSE /\ pinned = FALSE
    /\ hosts = [there |-> FALSE, bound |-> Unbound, weather |-> FALSE]
    /\ staged = [n \in CapNames |-> NoText] /\ wants = <<>>
    /\ place = [p \in Composers |-> IF p = "oneshot" THEN "lock" ELSE "off"]
    /\ hostsLock = Free /\ queue = <<>> /\ serving = NoAsk /\ hits = 0
    /\ told = [t \in Tokens |-> "unknown"] /\ confirmed = {} /\ sent = 0 /\ cuts = 0

DeskNext ==
    \/ \E r \in DevAsks : DevSends(r)
    \/ \E t \in Texts : ConfirmInstall(t)
    \/ \E n \in CapNames : ConfirmRemove(n)
    \/ ClientGivesUp \/ Lapse
    \/ \E p \in Composers : TakeLock(p) \/ Absorb(p) \/ Rebase(p) \/ Compose(p)
    \/ ComposeCli
    \/ DaemonStarts \/ Scan \/ ProjectPins \/ Serve \/ Bless \/ WriteBinding \/ Want
    \/ InstallStaged \/ Unstage \/ Uninstall \/ Answer
    \/ DaemonDies \/ PowerCut

DeskSpec == DeskInit /\ [][DeskNext]_deskVars

---------------------------------------------------------------------------

DeskTypeOK ==
    /\ bindings \in [Tokens -> Addrs \cup {NoAddr}] /\ legacy \in [Tokens -> Addrs \cup {NoAddr}]
    /\ owner \in [CapNames -> Texts \cup {NoText}] /\ staged \in [CapNames -> Texts \cup {NoText}]
    /\ quarantined \subseteq CapNames /\ confirmed \subseteq Texts
    /\ weather \in BOOLEAN /\ pinned \in BOOLEAN /\ hosts.there \in BOOLEAN
    /\ Len(wants) <= WantsKeep /\ hits \in 0..RateMax
    /\ hostsLock \in Composers \cup {Free}
    /\ told \in [Tokens -> Addrs \cup {"unbound", "unknown"}]

Settled == place["daemon"] \in {"idle", "answer"} /\ hostsLock = Free

\* do_bind, do_unbind, reproject and reconcile: while the daemon waits for a request,
\* the hosts file has the bindings of the store and the pins of a sealed weather,
\* and the store has what was last answered for each provider, over deaths,
\* reboots, the migration of the old file and compositions by hand.  Not when
\* a write of the migration failed, nor one of the hosts file.
HostsCurrent ==
    /\ Settled /\ "project" \notin faults =>
          /\ hosts.there /\ hosts.bound = bindings
          /\ hosts.weather = (weather /\ "weather" \in image.names)
    /\ "migrate" \notin faults =>
          \A t \in Tokens : /\ told[t] = "unbound" => bindings[t] = NoAddr
                            /\ told[t] \in Addrs => bindings[t] = told[t]

\* stage_manifest, confirmed_manifest_install and quarantine_scan: a live owner manifest
\* is one a console confirmed, under its own name; and while requests are
\* served, one that reaches a host this image reserves is quarantined, whichever
\* image it was installed under, and whatever was staged since it was asked for.
OwnerContained ==
    /\ \A n \in CapNames : owner[n] # NoText => owner[n] \in confirmed /\ owner[n].name = n
    /\ place["daemon"] \notin {"off", "scan"} => Colliding \subseteq quarantined
=============================================================================
