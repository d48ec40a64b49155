------------------------------ MODULE MCParts ------------------------------
(* One run over the desktop browser's rules and five components that do not *)
(* touch its state: the exec island, the model brokers, the onion broker,   *)
(* the request desk of egressd and a query of the swamp.                    *)
EXTENDS MCEgressBrowserCore, Island, Brokers, Onions, EgressDesk, SwampQuery

\* Chosen once and for all; the other components stay as they begin.
VARIABLE part

allVars == <<vars, setting, islandVars, brokerVars, onionVars, deskVars, queryVars,
             part>>

-----------------------------------------------------------------------------
\* Constants.

NoneFile == "nofile"
NoneName == "none"
SomeArtifacts == {"dyn", "copy", "static", "open", "plain", "ldso", "lib"}
SomeDigests == [dyn |-> "D", copy |-> "D", static |-> "S", open |-> "O", plain |-> NoneName,
                ldso |-> "L", lib |-> "B"]
SomeInterps == [f \in SomeArtifacts |-> IF f \in {"dyn", "copy", "plain"} THEN "ld" ELSE NoneName]
SomeNeeded  == [f \in SomeArtifacts |-> IF f \in {"dyn", "copy"} THEN {"so"} ELSE {}]

Rec(k, d, c, n) == [kind |-> k, digest |-> d, closed |-> c, name |-> n]
Pin(d, c) == Rec("pin", d, c, "entry")
Short     == <<Rec("entry", "D", TRUE, "entry"), Rec("interp", "L", FALSE, "ld")>>
Whole     == Short \o <<Rec("lib", "B", FALSE, "so")>>

\* A good one; a digest twice; closure records under v1; static only; a member
\* after the block is closed; a closure that lacks what the file needs
SomeManifests ==
  {[header |-> "v2", lines |-> l] :
      l \in {Whole \o <<Pin("S", TRUE), Pin("O", FALSE)>>, <<Pin("D", TRUE)>> \o Whole,
             Short \o <<Pin("S", TRUE), Rec("lib", "B", FALSE, "so")>>, Short}}
  \cup {[header |-> "v1", lines |-> l] : l \in {<<Pin("S", TRUE)>> \o Whole, <<Pin("D", TRUE)>>}}
OneManifest == CHOOSE m \in SomeManifests : m.header = "v1"

Call(e, h, t, c, p, g) ==
  [entry |-> e, harness |-> h, tier |-> t, caps |-> c, profile |-> p, egress |-> g]
HomeCalls == {Call("home", FALSE, t, c, "unset", {}) : t \in {"T0", "T1", "T2"}, c \in {"ro", "proj"}}
SomeCalls ==
  HomeCalls \cup {Call(e, h, t, c, p, g) :
      e \in {"enrolled", "shell"}, h \in BOOLEAN, t \in {"T0", "T1", "T2", "T3", "T9", "unset"},
      c \in {"ro", "proj", "net", "broad", "odd"}, p \in {"unset", "net"},
      g \in {{}, {"model"}, {"model", "evil"}}}
SomeWorlds == [sealed : BOOLEAN, landlock : BOOLEAN, harness : BOOLEAN]
SomePlaced == {("entry" :> e) @@ ("ld" :> "ldso") @@ ("so" :> "lib") : e \in {"dyn", "static", "open"}}
OnePlaced  == ("entry" :> "dyn") @@ ("ld" :> "ldso") @@ ("so" :> "lib")

\* What the manifest says and who holds the names matters to a file of home only
IslandStart == /\ IslandInit
               /\ ask.entry # "home" => manifest = OneManifest /\ names = OnePlaced
               /\ ask.entry = "home" => world.sealed /\ world.harness

Box(n, i, f, k) == [runs |-> n, injected |-> i, together |-> FALSE, faults |-> f, restarts |-> k]
SomeBoxes == {Box(3, TRUE, {}, 0), Box(2, TRUE, {}, 1), Box(2, FALSE, {}, 0),
              Box(1, TRUE, {"dir", "rollout"}, 1)}

SomeLayers == {"a", "b", "bad", "c"}
SomeKinds  == [n \in SomeLayers |-> IF n = "c" THEN "confext" ELSE "sysext"]

Manifest(n, h) == [name |-> n, host |-> h, deliver |-> "none"]
NoManifest     == Manifest("none", "none")
SomeTexts      == {Manifest("radar", "h1"), Manifest("weather", "h1")}
Image(n, h, r) == [names |-> n, hosts |-> h, reserved |-> r]
SomeImages     == {Image({"weather"}, {"om"}, {}), Image({"weather"}, {"om", "h1"}, {}),
                   Image({}, {}, {"h1"}), Image({"radar", "weather"}, {"om"}, {})}
SomeLegacies   == [Tokens -> Addrs \cup {NoAddr}]

\* The first image; a loss of power may bring another
DeskStart == DeskInit /\ image = Image({"weather"}, {"om"}, {})

File(p, d, t, v) == [path |-> p, domain |-> d, text |-> t, vec |-> v]
SomeObjects  == {File(<<"home", "a", "x">>, "projects", {"t"}, TRUE),
                 File(<<"home", "a", "y">>, "projects", {"u"}, TRUE),
                 File(<<"home", "ab", "x">>, "projects", {"t"}, TRUE),
                 File(<<"home", "d", "x">>, "downloads", {"t", "u"}, FALSE)}
SealedTable  == [projects |-> {"discover", "read", "search"}, downloads |-> {"discover", "read", "search"}]
Root(p, s)   == [path |-> p, slash |-> s]
NoRoot       == Root(<<>>, FALSE)
GrantA       == Root(<<"home", "a">>, FALSE)
GrantD       == Root(<<"home", "d">>, FALSE)
SomeRecords  == {[header |-> h, grants |-> g] : h \in {"v1", "other"}, g \in {{GrantA}, {GrantA, GrantD}}}
SomeScopes   == {NoRoot, GrantA, Root(<<"home", "a">>, TRUE), Root(<<"home">>, FALSE),
                 Root(<<"home", "a", "x">>, FALSE), Root(<<"home", "a", "..", "ab">>, FALSE)}
SomeBodies   == [intent : {"unset", "discover", "odd"}, scope : SomeScopes, limit : {0, 1, 2, 9, 98, 99},
                 q : {"", "t", "x"}, control : {FALSE}]
                \cup {[intent |-> "search", scope |-> NoRoot, limit |-> 1, q |-> "t", control |-> TRUE]}

-----------------------------------------------------------------------------
\* One part moves.  The others are held at one of their initial states.

IslandIdle == /\ IslandInit /\ manifest = OneManifest /\ names = OnePlaced
              /\ world = [sealed |-> FALSE, landlock |-> FALSE, harness |-> FALSE]
              /\ ask = Call("home", FALSE, "T0", "ro", "unset", {})
BrokerIdle == BrokersInit /\ provider = "claude" /\ ~box.injected
OnionIdle  == OnionsInit /\ sealedSet = {"a", "c"} /\ store = {"b"} /\ ~runFails
DeskIdle   == /\ DeskStart /\ faults = {"migrate"} /\ legacy = Unbound

QueryIdle  == QueryInit /\ body.control /\ record = [header |-> "v1", grants |-> {GrantA}]

PartsInit ==
  \/ part = "browser" /\ MCInit /\ IslandIdle /\ BrokerIdle /\ OnionIdle /\ DeskIdle /\ QueryIdle
  \/ part = "island" /\ Init /\ setting = "launch" /\ IslandStart /\ BrokerIdle /\ OnionIdle /\ DeskIdle /\ QueryIdle
  \/ part = "brokers" /\ Init /\ setting = "launch" /\ IslandIdle /\ BrokersInit /\ OnionIdle /\ DeskIdle /\ QueryIdle
  \/ part = "onions" /\ Init /\ setting = "launch" /\ IslandIdle /\ BrokerIdle /\ OnionsInit /\ DeskIdle /\ QueryIdle
  \/ part = "desk" /\ Init /\ setting = "launch" /\ IslandIdle /\ BrokerIdle /\ OnionIdle /\ DeskStart /\ QueryIdle
  \/ part = "query" /\ Init /\ setting = "launch" /\ IslandIdle /\ BrokerIdle /\ OnionIdle /\ DeskIdle /\ QueryInit

StepOf(p, next) == part = p /\ next /\ UNCHANGED part

PartsNext ==
  \/ /\ StepOf("browser", MCNext)
     /\ UNCHANGED <<islandVars, brokerVars, onionVars, deskVars, queryVars>>
  \/ /\ StepOf("island", IslandNext)
     /\ UNCHANGED <<vars, setting, brokerVars, onionVars, deskVars, queryVars>>
  \/ /\ StepOf("brokers", BrokersNext)
     /\ UNCHANGED <<vars, setting, islandVars, onionVars, deskVars, queryVars>>
  \/ /\ StepOf("onions", OnionsNext)
     /\ UNCHANGED <<vars, setting, islandVars, brokerVars, deskVars, queryVars>>
  \/ /\ StepOf("desk", DeskNext)
     /\ UNCHANGED <<vars, setting, islandVars, brokerVars, onionVars, queryVars>>
  \/ /\ StepOf("query", QueryNext)
     /\ UNCHANGED <<vars, setting, islandVars, brokerVars, onionVars, deskVars>>

PartsSpec == PartsInit /\ [][PartsNext]_allVars

\* The state of the component at work has the shape its code gives it.
PartsTypeOK ==
  CASE part = "browser" -> TypeOK           [] part = "island" -> IslandTypeOK
    [] part = "brokers" -> BrokersTypeOK    [] part = "onions" -> OnionsTypeOK
    [] part = "desk"    -> DeskTypeOK       [] part = "query"  -> QueryTypeOK
=============================================================================
