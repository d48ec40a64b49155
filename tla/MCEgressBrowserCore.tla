------------------------ MODULE MCEgressBrowserCore ------------------------
(* One run over two settings of EgressBrowser. *)
EXTENDS MCEgressBrowser

\* Two settings in one run, chosen once and for all: "faults" is the component as
\* its constants have it; in "launch" there is one login and nft never fails, as
\* a launch counts on.
VARIABLE setting

L == INSTANCE EgressBrowser WITH Slices <- {c1}, Failures <- {"store", "reboot"},
       CliVerbs <- {}

MCInit == Init /\ setting \in {"faults", "launch"}

FaultsStep == setting = "faults" /\ Next /\ UNCHANGED setting
LaunchStep == setting = "launch" /\ L!Next /\ UNCHANGED setting

MCNext == FaultsStep \/ LaunchStep
MCSpec == MCInit /\ [][MCNext]_<<vars, setting>>

\* A launch leaves the pair of its slice, once: for a user who logs in once
\* between boots, while nft does what it is told.
LaunchExact == setting = "launch" => LaunchLive /\ OnePair
=============================================================================
