-------------------------------- MODULE Consent --------------------------------
(***************************************************************************)
(* gatekeeperd serves its socket one connection at a time.  A request that  *)
(* adds authority needs the console ceremony: the secure attention key, a   *)
(* switch to a VT of the daemon's own, a screen that shows the change, and  *)
(* a typed answer.  Every wait of the ceremony has a deadline, every failure *)
(* denies, and a deny cools its verb family down.                           *)
(*                                                                          *)
(* A step is what the daemon does between two waits; clients, the kernel    *)
(* and the person at the console act in between.  Time goes in ticks.       *)
(***************************************************************************)
EXTENDS Naturals

CONSTANTS
  Asks,        \* what clients ask for: a subset of AskNames
  \* In ticks: the three deadlines, and the first and the longest cooldown;
  \* Clamp is the number of strikes after which the cooldown grows no more.
  SakTimeout, VtDeadline, AnswerTimeout, Base, Longest, Clamp

\* "revoke" is `network <name> none`, which needs no ceremony.
AskNames == {"grant", "grant-rw", "network", "export", "bless", "revoke"}
Gated    == AskNames \ {"revoke"}

ASSUME ConsentAssumption ==
  /\ Asks \subseteq AskNames
  /\ {SakTimeout, VtDeadline, AnswerTimeout, Base, Longest} \subseteq Nat
  /\ Clamp \in Nat \ {0}

\* The key of the cooldown map: the verb, so --rw makes no difference.
Family(a) == IF a = "grant-rw" THEN "grant" ELSE a
Families  == {Family(a) : a \in Gated}

VARIABLES
  conn, sent, uid, proc,    \* of the connection served: its state, the request, the
                            \* peer, and which process bears the peer's pid now
  at,                       \* the broker's program point
  plan, bound,              \* what was checked, and the start time bound to it
  took, waited,             \* ticks since `now` was read, and in this wait
  left, strikes,            \* per family: ticks of cooldown left, denials so far
  vt, pending, saved,       \* the active VT, whether the compositor owes a switch
                            \* to the consent VT, and the VT to go back to
  screen, tty,              \* what the consent VT shows, the line typed on it
  has,                      \* what the Bench has: "fs", "net"
  home, meddled             \* history: where the secure attention key found the
                            \* person; whether root's CLI changed the Bench since

clients == <<conn, sent, uid, proc>>
broker  == <<at, plan, bound, took, waited>>
cooling == <<left, strikes>>
console == <<vt, pending, saved, screen, tty, home>>
vars    == <<clients, broker, cooling, console, has, meddled>>

NoPlan == [ask |-> "none", warned |-> FALSE]
Blank  == [ask |-> "none", warned |-> FALSE, live |-> FALSE]
NoLine == [text |-> "none", fresh |-> FALSE]

\* Successive bearers of the peer's pid: the asker, nobody, another process, nobody.
Incarnations == 0 .. 3
Alive(n)     == n % 2 = 0

Init ==
  /\ conn = "none" /\ sent = "none" /\ uid = "dev" /\ proc = 1
  /\ at = "accept" /\ plan = NoPlan /\ bound = 1 /\ took = 0 /\ waited = 0
  /\ left = [f \in Families |-> 0] /\ strikes = [f \in Families |-> 0]
  /\ vt = "session" /\ pending = FALSE /\ saved = "none" /\ home = "session"
  /\ screen = Blank /\ tty = NoLine /\ has = {} /\ meddled = FALSE

-----------------------------------------------------------------------------
\* The client being served.

Send(a) ==
  /\ conn = "open" /\ sent = "none"
  /\ sent' = a
  /\ UNCHANGED <<conn, uid, proc, broker, cooling, console, has, meddled>>

HangUp ==
  /\ conn = "open"
  /\ conn' = "hungup"
  /\ UNCHANGED <<sent, uid, proc, broker, cooling, console, has, meddled>>

\* The peer's process ends (a child may keep the connection); its pid is reused.
PidMoves ==
  /\ conn # "none" /\ proc + 1 \in Incarnations
  /\ proc' = proc + 1
  /\ UNCHANGED <<conn, sent, uid, broker, cooling, console, has, meddled>>

-----------------------------------------------------------------------------
\* The VT.

\* VT_ACTIVATE: a text VT gives way at once, the compositor when it likes.  To ask
\* for the VT in front does not call back a switch it still owes.
Activate(to) ==
  IF to = "consent" /\ vt = "session" THEN pending' = TRUE /\ UNCHANGED vt
  ELSE vt' = to /\ UNCHANGED pending

\* Mutant: saved_vt is cleared before it is used.
Restore_Cleared ==
  /\ saved' = "none" /\ screen' = Blank /\ home' = "session"
  /\ IF saved' = "none" THEN UNCHANGED <<vt, pending>> ELSE Activate(saved)
  /\ UNCHANGED tty

\* restore, on every way out; the nonce behind the screen's code goes with it.
Restore ==
  /\ IF saved = "none" THEN UNCHANGED <<vt, pending>> ELSE Activate(saved)
  /\ saved' = "none" /\ screen' = Blank /\ home' = "session"
  /\ UNCHANGED tty

-----------------------------------------------------------------------------
\* The broker.

\* The next connection of the backlog, with what its client and the kernel have
\* done while it waited.
Accept ==
  /\ at = "accept" /\ at' = "read"
  /\ conn' \in {"open", "hungup"} /\ sent' \in Asks \cup {"none"}
  /\ uid' \in {"dev", "root"} /\ proc' \in Incarnations
  /\ UNCHANGED <<plan, bound, took, waited, cooling, console, has, meddled>>

\* The reply, END, and on to the next connection.
Reply ==
  /\ conn' = "none" /\ sent' = "none" /\ uid' = "dev" /\ proc' = 1
  /\ at' = "accept" /\ plan' = NoPlan /\ bound' = 1
  /\ took' = 0 /\ waited' = 0 /\ meddled' = FALSE

\* cooldown_secs: the base, doubled with every strike, up to the longest.
Cool(k) == LET c == Base * 2^(k - 1) IN IF c < Longest THEN c ELSE Longest

\* note_deny counts from the `now` that was read before the ceremony.
NoteDeny(f) ==
  /\ strikes' = [strikes EXCEPT ![f] = IF @ < Clamp THEN @ + 1 ELSE @]
  /\ left' = [left EXCEPT ![f] = IF took < Cool(strikes'[f]) THEN Cool(strikes'[f]) - took ELSE 0]

Adds(a) == IF a \in {"grant", "grant-rw"} THEN {"fs"} ELSE IF a = "network" THEN {"net"} ELSE {}

\* Mutant: the warning looks at what the Bench has, not at what is added.
Trifecta_Before(a) == {"fs", "net"} \subseteq has

\* trifecta_after; a desktop-egress bless always warns.
Trifecta(a) == a = "bless" \/ {"fs", "net"} \subseteq has \cup Adds(a)

\* Mutant: the end of the connection is not taken for the end of the request.
Direct_NoEof ==
  /\ at = "read"
  /\ sent = "revoke" /\ has' \in {has, has \ {"net"}}
  /\ Reply
  /\ UNCHANGED <<cooling, console>>

\* A client that hung up without a line, or a request without a ceremony.
Direct ==
  /\ at = "read"
  /\ \/ conn = "hungup" /\ sent = "none" /\ UNCHANGED has
     \/ sent = "revoke" /\ has' \in {has, has \ {"net"}}
  /\ Reply
  /\ UNCHANGED <<cooling, console>>

\* run_socket_consent_with before the ceremony: the peer and the cooldown; then
\* the validators and the nonce, which may refuse; and a peer that is gone.
Refuse ==
  /\ at = "read" /\ sent \in Gated
  /\ \/ UNCHANGED cooling
     \/ /\ uid = "dev" /\ left[Family(sent)] = 0 /\ ~Alive(proc)
        /\ NoteDeny(Family(sent))
  /\ Reply
  /\ UNCHANGED <<console, has>>

Arm ==
  /\ at = "read" /\ sent \in Gated
  /\ uid = "dev" /\ left[Family(sent)] = 0 /\ Alive(proc)
  /\ plan' = [ask |-> sent, warned |-> Trifecta(sent)]
  /\ bound' = proc /\ at' = "sak" /\ took' = 0 /\ waited' = 0
  /\ UNCHANGED <<clients, cooling, console, has, meddled>>

Deny ==
  /\ Restore /\ NoteDeny(Family(plan.ask)) /\ Reply
  /\ UNCHANGED has

\* busctl dies, or a console device fails: arm_sak, take_vt, render, read_answer.
Fails == at \in {"sak", "switch", "render", "answer"} /\ Deny

\* Mutant: off by one.
Expired_Late(limit) == waited > limit

Expired(limit) == waited >= limit

\* arm_sak comes back empty-handed.
NoSak == at = "sak" /\ Expired(SakTimeout) /\ Deny

\* The key is pressed: take_vt notes the active VT and asks for its own.
SecureAttention ==
  /\ at = "sak"
  /\ saved' = vt /\ home' = vt /\ Activate("consent") /\ at' = "switch" /\ waited' = 0
  /\ UNCHANGED <<clients, plan, bound, took, cooling, screen, tty, has, meddled>>

\* The compositor did not let go in time.
NoVt == at = "switch" /\ vt # "consent" /\ Expired(VtDeadline) /\ Deny

Switched ==
  /\ at = "switch" /\ vt = "consent"
  /\ tty' = NoLine /\ at' = "render" /\ waited' = 0
  /\ UNCHANGED <<clients, plan, bound, took, cooling, vt, pending, saved, screen,
                 home, has, meddled>>

Render ==
  /\ at = "render"
  /\ screen' = [ask |-> plan.ask, warned |-> plan.warned, live |-> TRUE] /\ at' = "flush"
  /\ UNCHANGED <<clients, plan, bound, took, waited, cooling, vt, pending, saved, tty,
                 home, has, meddled>>

\* Mutant: what was typed before is left in the queue.
Flush_Keeps ==
  /\ at = "flush" /\ at' = "answer" /\ waited' = 0
  /\ UNCHANGED <<clients, plan, bound, took, cooling, console, has, meddled>>

\* read_answer drops what was typed before, then waits for a line.
Flush ==
  /\ at = "flush" /\ tty' = NoLine /\ at' = "answer" /\ waited' = 0
  /\ UNCHANGED <<clients, plan, bound, took, cooling, vt, pending, saved, screen, home, has,
                 meddled>>

\* high_authority: these want the code on the screen, the others a bare y.
High(a) == a \in {"grant-rw", "export", "bless"}

\* The code of another screen is another nonce's.
Affirms(line) == IF High(plan.ask) THEN line.text = "code" /\ line.fresh ELSE line.text = "y"

\* Mutant: the start time is not read again.
Approved_NoReread == Affirms(tty) /\ conn # "hungup"

\* decide_apply.
Approved == Affirms(tty) /\ conn # "hungup" /\ proc = bound

\* The first line decides; no line in time denies.
Answer ==
  /\ at = "answer"
  /\ \/ /\ tty # NoLine /\ Approved /\ at' = "commit" /\ waited' = 0
        /\ UNCHANGED <<clients, plan, bound, took, cooling, console, has, meddled>>
     \/ tty # NoLine /\ ~Approved /\ Deny
     \/ tty = NoLine /\ Expired(AnswerTimeout) /\ Deny

\* commit_authority, which may fail; then the screen is given back.
Commit ==
  /\ at = "commit"
  /\ has' \in {has, has \cup Adds(plan.ask)}
  /\ Restore /\ Reply
  /\ UNCHANGED cooling

-----------------------------------------------------------------------------
\* The person at the console, the compositor, root's own CLI, the clock.

InCeremony == at \in {"sak", "switch", "render", "flush", "answer", "commit"}

Type(text) ==
  /\ vt = "consent" /\ tty = NoLine
  /\ tty' = [text |-> text, fresh |-> screen.live]
  /\ UNCHANGED <<clients, broker, cooling, vt, pending, saved, screen, home, has, meddled>>

\* Ctrl-Alt-Fn.
SwitchByHand(to) ==
  /\ vt # to /\ vt' = to /\ pending' = FALSE
  /\ UNCHANGED <<clients, broker, cooling, saved, screen, tty, home, has, meddled>>

LetGo ==
  /\ pending /\ vt' = "consent" /\ pending' = FALSE
  /\ UNCHANGED <<clients, broker, cooling, saved, screen, tty, home, has, meddled>>

\* cli() in root's own process, with no ceremony and no regard for one under way.
RootChanges(to) ==
  /\ has # to /\ has' = to /\ meddled' = InCeremony
  /\ UNCHANGED <<clients, broker, cooling, console>>

\* The wait the broker is in, if it has a deadline; the steps without a wait take
\* no time.
Limit == CASE at = "sak" -> SakTimeout [] at = "switch" -> VtDeadline
           [] at = "answer" -> AnswerTimeout [] OTHER -> 0

Tick ==
  /\ at \notin {"render", "flush"} /\ at \in {"sak", "switch", "answer"} => ~Expired(Limit)
  /\ left' = [f \in Families |-> IF left[f] > 0 THEN left[f] - 1 ELSE 0]
  /\ IF at \in {"sak", "switch", "answer"} THEN took' = took + 1 /\ waited' = waited + 1
     ELSE UNCHANGED <<took, waited>>
  /\ UNCHANGED <<clients, at, plan, bound, strikes, console, has, meddled>>

Broker == \/ Direct \/ Refuse \/ Arm \/ NoSak \/ NoVt \/ Switched \/ Render \/ Flush
          \/ Answer \/ Commit

Client == HangUp \/ \E a \in Asks : Send(a)

Person == \/ SecureAttention
          \/ \E text \in {"y", "code"} : Type(text)
          \/ \E to \in {"session", "consent"} : SwitchByHand(to)

Next ==
  \/ Accept \/ Broker \/ Client \/ Person
  \/ PidMoves \/ Fails \/ LetGo \/ Tick
  \/ \E to \in SUBSET {"fs", "net"} : RootChanges(to)

Spec == Init /\ [][Next]_vars

\* The daemon and the clock go on, and the client that is served sends its line or
\* hangs up; nothing is asked of the person or the compositor.
FairSpec == Spec /\ WF_vars(Broker) /\ WF_vars(Tick) /\ WF_vars(sent = "none" /\ Client)
-----------------------------------------------------------------------------
\* Properties.

\* The broker's locals, the cooldown map and the console have the code's shape,
\* and every wait keeps to its deadline.
TypeOK ==
  /\ conn \in {"none", "open", "hungup"} /\ (conn = "none" <=> at = "accept")
  /\ sent \in AskNames \cup {"none"} /\ uid \in {"dev", "root"} /\ proc \in Incarnations
  /\ at \in {"accept", "read", "sak", "switch", "render", "flush", "answer", "commit"}
  /\ plan \in [ask : Gated \cup {"none"}, warned : BOOLEAN] /\ (plan.ask \in Gated <=> InCeremony)
  /\ bound \in Incarnations /\ took \in Nat /\ waited \in 0 .. Limit
  /\ left \in [Families -> Nat] /\ strikes \in [Families -> 0 .. Clamp]
  /\ vt \in {"session", "consent"} /\ pending \in BOOLEAN
  /\ saved \in {"none", "session", "consent"} /\ home \in {"session", "consent"}
  /\ screen \in [ask : Gated \cup {"none"}, warned : BOOLEAN, live : BOOLEAN]
  /\ tty \in [text : {"none", "y", "code"}, fresh : BOOLEAN]
  /\ has \subseteq {"fs", "net"} /\ meddled \in BOOLEAN

\* What is applied was approved by a line that was typed with the screen of this
\* very request in view, and with the code if the request is high-authority: no
\* keystroke for the session, or for an earlier screen, approves anything
\* (tcflush in read_answer).
InformedAnswer ==
  at = "commit" =>
    /\ tty.fresh /\ Affirms(tty)
    /\ screen = [ask |-> plan.ask, warned |-> plan.warned, live |-> TRUE]

\* Every way out of the ceremony, the deadline of the switch included, leaves the
\* person where the secure attention key found them (restore, on every path).
VtGivenBack ==
  [][~InCeremony' => /\ saved' = "none"
                     /\ saved # "none" /\ vt' = "consent" => home = "consent"]_vars

\* The ceremony "leads with" the warning: it gives a Bench the second of files and
\* egress only by an answer to a screen that said so (trifecta_after), unless root
\* changed the Bench behind the plan's back.
WarnedOfBoth ==
  [][at = "commit" /\ at' # "commit" /\ has # {"fs", "net"} /\ has' = {"fs", "net"}
       => screen.warned \/ meddled]_vars

\* An approval is bound to the process that was there when the ceremony began: if
\* the pid moved on meanwhile, nothing is applied (proc_starttime, decide_apply).
BoundProcess == [][at = "answer" /\ at' = "commit" => Alive(bound) /\ bound = proc]_vars

\* What an approval rests on, taken together: the process that was bound, and the
\* warning that was shown (decide_apply, trifecta_after).
ApprovalHolds == BoundProcess /\ WarnedOfBoth

\* "Bound every wait" (bench-authz-consent-slice.md): the broker comes back to its
\* accept loop, where the others wait, whatever the person and the compositor do,
\* as long as the client sends its line or hangs up.
Answered == conn # "none" ~> at = "accept"

\* "no new ceremony armed for N seconds after a deny" (bench-authz-consent-slice.md):
\* a deny leaves its family some cooldown.
CoolsDown == [][\A f \in Families : strikes'[f] > strikes[f] => left'[f] > 0]_vars
=============================================================================
