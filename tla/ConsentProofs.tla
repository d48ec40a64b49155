----------------------------- MODULE ConsentProofs -----------------------------
(***************************************************************************)
(* Proofs about the consent ceremony: what an approval rests on, and that   *)
(* the person gets the screen back, whatever the deadlines and the verbs.   *)
(***************************************************************************)
EXTENDS Consent, TLAPS

Taken == at \in {"switch", "render", "flush", "answer", "commit"}
Shown == at \in {"flush", "answer", "commit"}

\* The active VT is noted exactly while the ceremony has asked for its own, and is
\* where the secure attention key found the person.
SavedInv ==
  /\ at \in {"accept", "read", "sak", "switch", "render", "flush", "answer", "commit"}
  /\ vt \in {"session", "consent"} /\ saved \in {"none", "session", "consent"}
  /\ saved # "none" <=> Taken
  /\ Taken => home = saved

\* From the rendering on, the screen is the plan's, and a line waiting for
\* read_answer was typed with it in view.
ScreenInv ==
  /\ Shown => screen = [ask |-> plan.ask, warned |-> plan.warned, live |-> TRUE]
  /\ at = "answer" => tty = NoLine \/ tty.fresh
  /\ at = "commit" => tty # NoLine /\ tty.fresh /\ Affirms(tty)

\* What was bound was a process; what the plan says of the Bench is still so.
PlanInv ==
  /\ meddled \in BOOLEAN
  /\ InCeremony => Alive(bound) /\ (meddled \/ plan.warned = Trifecta(plan.ask))

CeremonyInv == SavedInv /\ ScreenInv /\ PlanInv

\* A ceremony that ends, ends through restore and the reply.
Ended == Restore /\ Reply

\* Every step is one of these, as far as the ceremony is concerned.
Quiet == UNCHANGED <<at, plan, bound, vt, saved, screen, tty, home, has, meddled>>

\* Every deny, and the commit, give the VT back and leave the ceremony (denied,
\* restore).
LEMMA EndKeepsInv == ASSUME CeremonyInv, Ended PROVE CeremonyInv'
<1>1. at' = "accept" /\ saved' = "none" BY DEF Ended, Restore, Reply
<1>2. vt' \in {"session", "consent"}
  BY DEF Ended, Restore, Activate, CeremonyInv, SavedInv
<1>3. SavedInv' BY <1>1, <1>2 DEF SavedInv, Taken
<1>4. ScreenInv' BY <1>1 DEF ScreenInv, Shown
<1>5. PlanInv' BY <1>1 DEF PlanInv, InCeremony, Ended, Reply
<1> QED BY <1>3, <1>4, <1>5 DEF CeremonyInv

\* No step of the client, the person, the clock or the broker breaks what the
\* ceremony rests on (run_ceremony).
LEMMA StepKeepsInv == ASSUME CeremonyInv, [Next]_vars PROVE CeremonyInv'
<1> USE DEF CeremonyInv
<1>1. ASSUME Quiet PROVE CeremonyInv'
  BY <1>1 DEF Quiet, SavedInv, ScreenInv, PlanInv, Taken, Shown, InCeremony, Trifecta, Adds,
              Affirms, High
<1>2. CASE Accept
  BY <1>2 DEF Accept, console, SavedInv, ScreenInv, PlanInv, Taken, Shown, InCeremony
<1>3. CASE Direct
  BY <1>3 DEF Direct, Reply, console, SavedInv, ScreenInv, PlanInv, Taken, Shown, InCeremony
<1>4. CASE Refuse
  BY <1>4 DEF Refuse, Reply, console, SavedInv, ScreenInv, PlanInv, Taken, Shown, InCeremony
<1>5. CASE Arm
  BY <1>5 DEF Arm, console, SavedInv, ScreenInv, PlanInv, Taken, Shown, InCeremony, Trifecta, Adds
<1>6. CASE SecureAttention
  BY <1>6 DEF SecureAttention, Activate, clients, cooling, SavedInv, ScreenInv, PlanInv, Taken,
              Shown, InCeremony, Trifecta, Adds
<1>7. CASE Switched
  BY <1>7 DEF Switched, clients, cooling, SavedInv, ScreenInv, PlanInv, Taken, Shown, InCeremony,
              Trifecta, Adds
<1>8. CASE Render
  BY <1>8 DEF Render, clients, cooling, SavedInv, ScreenInv, PlanInv, Taken, Shown, InCeremony,
              Trifecta, Adds
<1>9. CASE Flush
  BY <1>9 DEF Flush, clients, cooling, SavedInv, ScreenInv, PlanInv, Taken, Shown, InCeremony,
              Trifecta, Adds
<1>10. CASE NoSak \/ NoVt \/ Fails \/ Commit
  <2>1. Ended BY <1>10 DEF NoSak, NoVt, Fails, Commit, Deny, Ended
  <2> QED BY <2>1, EndKeepsInv
<1>11. CASE Answer
  <2>1. CASE Deny
    BY <2>1, EndKeepsInv DEF Deny, Ended
  <2>2. CASE tty # NoLine /\ Approved /\ at = "answer" /\ at' = "commit"
             /\ UNCHANGED <<plan, bound, console, has, meddled>>
    BY <2>2 DEF Approved, console, SavedInv, ScreenInv, PlanInv, Taken, Shown, InCeremony,
                Trifecta, Adds, Affirms, High
  <2> QED BY <1>11, <2>1, <2>2 DEF Answer
<1>12. ASSUME NEW text \in {"y", "code"}, Type(text) PROVE CeremonyInv'
  BY <1>12 DEF Type, clients, broker, cooling, SavedInv, ScreenInv, PlanInv, Taken, Shown,
               InCeremony, Trifecta, Adds, Affirms, High
<1>13. ASSUME NEW to \in {"session", "consent"}, SwitchByHand(to) PROVE CeremonyInv'
  BY <1>13 DEF SwitchByHand, clients, broker, cooling, SavedInv, ScreenInv, PlanInv, Taken, Shown,
               InCeremony, Trifecta, Adds, Affirms, High
<1>14. CASE LetGo
  BY <1>14 DEF LetGo, clients, broker, cooling, SavedInv, ScreenInv, PlanInv, Taken, Shown,
               InCeremony, Trifecta, Adds, Affirms, High
<1>15. ASSUME NEW to \in SUBSET {"fs", "net"}, RootChanges(to) PROVE CeremonyInv'
  <2>1. (InCeremony => meddled' = TRUE) /\ (~InCeremony => meddled' = FALSE)
    <3>1. InCeremony \in BOOLEAN BY DEF InCeremony
    <3>2. meddled' = InCeremony BY <1>15 DEF RootChanges
    <3> QED BY <3>1, <3>2, Zenon
  <2>2. UNCHANGED <<at, plan, bound, vt, saved, screen, tty, home>>
    BY <1>15 DEF RootChanges, broker, console
  <2>3. InCeremony' <=> InCeremony BY <2>2 DEF InCeremony
  <2>4. PlanInv' BY <2>1, <2>2, <2>3 DEF PlanInv
  <2> QED BY <2>2, <2>4 DEF SavedInv, ScreenInv, Taken, Shown, Affirms, High
<1>16. CASE Client \/ PidMoves \/ Tick \/ UNCHANGED vars
  <2>1. Quiet
    BY <1>16 DEF Client, Send, HangUp, PidMoves, Tick, vars, broker, console, Quiet
  <2> QED BY <2>1, <1>1
<1> QED
  BY <1>2, <1>3, <1>4, <1>5, <1>6, <1>7, <1>8, <1>9, <1>10, <1>11, <1>12, <1>13, <1>14, <1>15, <1>16
     DEF Next, Broker, Person

LEMMA InitInv == Init => CeremonyInv
BY DEF Init, CeremonyInv, SavedInv, ScreenInv, PlanInv, Taken, Shown, InCeremony

\* The invariant of the ceremony holds in every state.
THEOREM CeremonyCorrect == Spec => []CeremonyInv
BY InitInv, StepKeepsInv, PTL DEF Spec

\* Only a line typed with this request's screen in view, and with its code if it
\* is high-authority, leads to a commit (read_answer, decide_apply).
THEOREM AnswerIsInformed == Spec => []InformedAnswer
<1>1. CeremonyInv => InformedAnswer BY DEF CeremonyInv, ScreenInv, Shown, InformedAnswer
<1> QED BY <1>1, CeremonyCorrect, PTL

\* Every way out of the ceremony gives the VT back (denied, restore).
THEOREM ScreenGivenBack == Spec => VtGivenBack
<1>1. ASSUME CeremonyInv, CeremonyInv', [Next]_vars
      PROVE  [~InCeremony' => /\ saved' = "none"
                              /\ saved # "none" /\ vt' = "consent" => home = "consent"]_vars
  <2> SUFFICES ASSUME ~InCeremony'
               PROVE  saved' = "none" /\ (saved # "none" /\ vt' = "consent" => home = "consent")
    OBVIOUS
  <2>1. saved' = "none" BY <1>1 DEF CeremonyInv, SavedInv, Taken, InCeremony
  <2>2. ASSUME saved # "none" PROVE vt' = "consent" => home = "consent"
    <3>1. Taken /\ saved = home /\ saved' # saved
      BY <1>1, <2>1, <2>2 DEF CeremonyInv, SavedInv
    <3>2. Restore
      BY <1>1, <2>1, <3>1 DEF Taken, Next, Broker, Client, Person, Accept, Direct, Refuse, Arm, NoSak,
         NoVt, Fails, Switched, Render, Flush, Answer, Commit, Deny, Send, HangUp, PidMoves, Tick,
         SecureAttention, Type, SwitchByHand, LetGo, RootChanges, console, vars
    <3> QED BY <3>1, <3>2, <2>2, <1>1 DEF Restore, Activate, CeremonyInv, SavedInv
  <2> QED BY <2>1, <2>2
<1> QED BY <1>1, CeremonyCorrect, PTL DEF Spec, VtGivenBack

\* A process that was there when its start time was read is the one an approval
\* is applied for (decide_apply).
THEOREM ProcessBound == Spec => BoundProcess
<1>1. ASSUME CeremonyInv, [Next]_vars
      PROVE  [at = "answer" /\ at' = "commit" => Alive(bound) /\ bound = proc]_vars
  <2> SUFFICES ASSUME at = "answer", at' = "commit" PROVE Alive(bound) /\ bound = proc
    OBVIOUS
  <2>1. Alive(bound) BY <1>1 DEF CeremonyInv, PlanInv, InCeremony
  <2>2. Answer
    BY <1>1 DEF Next, Broker, Client, Person, Accept, Direct, Refuse, Arm, NoSak,
       NoVt, Fails, Switched, Render, Flush, Answer, Commit, Deny, Reply, Send, HangUp, PidMoves, Tick,
       SecureAttention, Type, SwitchByHand, LetGo, RootChanges, broker, vars
  <2> QED BY <2>1, <2>2 DEF Answer, Deny, Reply, Approved
<1> QED BY <1>1, CeremonyCorrect, PTL DEF Spec, BoundProcess

\* The ceremony composes files with egress only behind its own warning
\* (trifecta_after, render_screen).
THEOREM CompositionWarned == Spec => WarnedOfBoth
<1>1. ASSUME CeremonyInv, [Next]_vars
      PROVE  [at = "commit" /\ at' # "commit" /\ has # {"fs", "net"} /\ has' = {"fs", "net"}
                => screen.warned \/ meddled]_vars
  <2> SUFFICES ASSUME at = "commit", at' # "commit", has # {"fs", "net"}, has' = {"fs", "net"}
               PROVE  screen.warned \/ meddled
    OBVIOUS
  <2>1. Commit
    BY <1>1 DEF Next, Broker, Client, Person, Accept, Direct, Refuse, Arm, NoSak,
       NoVt, Fails, Switched, Render, Flush, Answer, Commit, Send, HangUp, PidMoves, Tick,
       SecureAttention, Type, SwitchByHand, LetGo, RootChanges, broker, vars
  <2>2. Trifecta(plan.ask) BY <2>1 DEF Commit, Trifecta
  <2>3. meddled \/ plan.warned = Trifecta(plan.ask) BY <1>1 DEF CeremonyInv, PlanInv, InCeremony
  <2>4. screen.warned = plan.warned BY <1>1 DEF CeremonyInv, ScreenInv, Shown
  <2> QED BY <2>2, <2>3, <2>4
<1> QED BY <1>1, CeremonyCorrect, PTL DEF Spec, WarnedOfBoth

\* What is applied rests on the bound process and on the warning (decide_apply,
\* trifecta_after).
THEOREM ApprovalIsBound == Spec => ApprovalHolds
BY ProcessBound, CompositionWarned, PTL DEF ApprovalHolds
-----------------------------------------------------------------------------
(* Types, and the deadlines of the waits. *)

\* The cooldown doubles with each strike; that a power of two is a number is
\* arithmetic beyond the provers.
PowersAreNumbers == \A k \in 1 .. Clamp : 2^(k - 1) \in Nat


LEMMA FamilyType == \A a \in Gated : Family(a) \in Families
BY DEF Families

LEMMA CoolType ==
  ASSUME PowersAreNumbers, NEW k \in 1 .. Clamp PROVE Cool(k) \in Nat
<1>1. 2^(k - 1) \in Nat /\ Base \in Nat /\ Longest \in Nat
  BY ConsentAssumption DEF PowersAreNumbers
<1>2. ASSUME NEW p \in Nat PROVE Base * p \in Nat
  BY <1>1, <1>2
<1> QED BY <1>1, <1>2 DEF Cool

\* A deny leaves its family a cooldown and a strike of the right kind (note_deny).
LEMMA DenyType ==
  ASSUME PowersAreNumbers, TypeOK, NEW f \in Families, NoteDeny(f)
  PROVE  left' \in [Families -> Nat] /\ strikes' \in [Families -> 0 .. Clamp]
<1>1. Clamp \in Nat \ {0}
  BY ConsentAssumption
<1>2. strikes'[f] \in 1 .. Clamp /\ strikes' \in [Families -> 0 .. Clamp]
  BY <1>1 DEF TypeOK, NoteDeny
<1>3. Cool(strikes'[f]) \in Nat /\ took \in Nat
  BY <1>2, CoolType DEF TypeOK
<1> DEFINE c == Cool(strikes'[f])
<1>4. left' = [left EXCEPT ![f] = IF took < c THEN c - took ELSE 0]
  BY DEF NoteDeny
<1> HIDE DEF c
<1>5. (IF took < c THEN c - took ELSE 0) \in Nat
  BY <1>3 DEF c
<1>6. left' \in [Families -> Nat]
  BY <1>4, <1>5 DEF TypeOK
<1> QED BY <1>2, <1>6

\* The connection, the broker's locals, the cooldowns and the console, apart.
ClientOK  == /\ conn \in {"none", "open", "hungup"} /\ (conn = "none" <=> at = "accept")
             /\ sent \in AskNames \cup {"none"} /\ uid \in {"dev", "root"} /\ proc \in Incarnations
BrokerOK  == /\ at \in {"accept", "read", "sak", "switch", "render", "flush", "answer", "commit"}
             /\ plan \in [ask : Gated \cup {"none"}, warned : BOOLEAN] /\ (plan.ask \in Gated <=> InCeremony)
             /\ bound \in Incarnations /\ took \in Nat /\ waited \in 0 .. Limit
CoolingOK == left \in [Families -> Nat] /\ strikes \in [Families -> 0 .. Clamp]
ConsoleOK == /\ vt \in {"session", "consent"} /\ pending \in BOOLEAN
             /\ saved \in {"none", "session", "consent"} /\ home \in {"session", "consent"}
             /\ screen \in [ask : Gated \cup {"none"}, warned : BOOLEAN, live : BOOLEAN]
             /\ tty \in [text : {"none", "y", "code"}, fresh : BOOLEAN]
BenchOK   == has \subseteq {"fs", "net"} /\ meddled \in BOOLEAN

LEMMA Parts == TypeOK <=> ClientOK /\ BrokerOK /\ CoolingOK /\ ConsoleOK /\ BenchOK
BY DEF TypeOK, ClientOK, BrokerOK, CoolingOK, ConsoleOK, BenchOK

LEMMA ReplyType == ASSUME Reply PROVE ClientOK' /\ BrokerOK'
<1>1. 0 \in 0 .. Limit'
  BY DEF Reply, Limit
<1>2. NoPlan \in [ask : Gated \cup {"none"}, warned : BOOLEAN] /\ NoPlan.ask \notin Gated
  BY DEF NoPlan, Gated, AskNames
<1> QED BY <1>1, <1>2 DEF Reply, ClientOK, BrokerOK, InCeremony, Incarnations

LEMMA RestoreType == ASSUME ConsoleOK, Restore PROVE ConsoleOK'
<1>1. Blank \in [ask : Gated \cup {"none"}, warned : BOOLEAN, live : BOOLEAN]
  BY DEF Blank
<1> QED BY <1>1 DEF Restore, Activate, ConsoleOK

\* The waits with a deadline are those of sak, switch and answer.
LEMMA Limits ==
  /\ Limit = IF at = "sak" THEN SakTimeout ELSE IF at = "switch" THEN VtDeadline
             ELSE IF at = "answer" THEN AnswerTimeout ELSE 0
  /\ Limit' = IF at' = "sak" THEN SakTimeout ELSE IF at' = "switch" THEN VtDeadline
              ELSE IF at' = "answer" THEN AnswerTimeout ELSE 0
BY Zenon DEF Limit

\* No wait goes beyond its deadline, and each begins anew (poll_line, take_vt).
LEMMA StepType ==
  ASSUME PowersAreNumbers, TypeOK, CeremonyInv, [Next]_vars PROVE TypeOK'
<1>a. /\ SakTimeout \in Nat /\ VtDeadline \in Nat /\ AnswerTimeout \in Nat
      /\ Asks \subseteq AskNames
  BY ConsentAssumption
<1>0. ClientOK /\ BrokerOK /\ CoolingOK /\ ConsoleOK /\ BenchOK
  BY Parts
<1>t. SUFFICES ClientOK' /\ BrokerOK' /\ CoolingOK' /\ ConsoleOK' /\ BenchOK'
  BY DEF TypeOK, ClientOK, BrokerOK, CoolingOK, ConsoleOK, BenchOK
<1>c. UNCHANGED clients /\ (at' = "accept" <=> at = "accept") => ClientOK'
  BY <1>0 DEF clients, ClientOK
<1>b. UNCHANGED broker => BrokerOK'
  BY <1>0, Limits DEF broker, BrokerOK, InCeremony
<1>l. UNCHANGED cooling => CoolingOK'
  BY <1>0 DEF cooling, CoolingOK
<1>s. UNCHANGED console => ConsoleOK'
  BY <1>0 DEF console, ConsoleOK
<1>n. UNCHANGED <<has, meddled>> => BenchOK'
  BY <1>0 DEF BenchOK
\* The broker goes on within a ceremony, to a wait or a step that begins at 0.
<1>g. ASSUME at' \in {"switch", "render", "flush", "answer", "commit"}, InCeremony,
             UNCHANGED <<plan, bound, took>>, waited' = 0
      PROVE  BrokerOK'
  BY <1>0, <1>a, <1>g, Limits DEF BrokerOK, InCeremony
<1>1. CASE Accept
  <2>1. BrokerOK'
    BY <1>0, <1>1, Limits DEF Accept, BrokerOK, InCeremony
  <2>2. ClientOK'
    BY <1>a, <1>1 DEF Accept, ClientOK
  <2> QED BY <1>1, <2>1, <2>2, <1>l, <1>s, <1>n DEF Accept
<1>2. CASE Direct
  <2>1. BenchOK'
    BY <1>0, <1>2 DEF Direct, Reply, BenchOK
  <2> QED BY <1>2, <2>1, ReplyType, <1>l, <1>s DEF Direct
<1>3. CASE Refuse
  <2>1. BenchOK'
    BY <1>0, <1>3 DEF Refuse, Reply, BenchOK
  <2>2. sent \in Gated
    BY <1>3 DEF Refuse
  <2>3. CoolingOK'
    BY <1>3, <2>2, <1>l, DenyType, FamilyType DEF Refuse, CoolingOK
  <2> QED BY <1>3, <2>1, <2>3, ReplyType, <1>s DEF Refuse
<1>4. CASE Arm
  <2>1. Trifecta(sent) \in BOOLEAN
    BY DEF Trifecta
  <2>2. BrokerOK'
    BY <1>0, <1>a, <1>4, <2>1, Limits DEF Arm, BrokerOK, ClientOK, InCeremony
  <2> QED BY <1>4, <2>2, <1>c, <1>l, <1>s, <1>n DEF Arm
<1>5. CASE Deny /\ InCeremony
  <2>1. plan.ask \in Gated
    BY <1>0, <1>5 DEF BrokerOK
  <2>2. CoolingOK'
    BY <1>5, <2>1, DenyType, FamilyType DEF Deny, CoolingOK
  <2>3. BenchOK'
    BY <1>0, <1>5 DEF Deny, Reply, BenchOK
  <2> QED BY <1>0, <1>5, <2>2, <2>3, ReplyType, RestoreType DEF Deny
<1>6. CASE NoSak \/ NoVt \/ Fails
  BY <1>5, <1>6 DEF NoSak, NoVt, Fails, InCeremony
<1>7. CASE Switched \/ Flush
  <2>0. NoLine \in [text : {"none", "y", "code"}, fresh : BOOLEAN]
    BY DEF NoLine
  <2>1. ConsoleOK'
    BY <1>0, <1>7, <2>0 DEF Switched, Flush, ConsoleOK
  <2>2. BrokerOK'
    BY <1>7, <1>g DEF Switched, Flush, InCeremony
  <2> QED BY <1>7, <2>1, <2>2, <1>c, <1>l, <1>n DEF Switched, Flush
<1>8. CASE Render
  <2>1. ConsoleOK'
    BY <1>0, <1>8 DEF Render, ConsoleOK, BrokerOK
  <2>2. waited' = 0
    BY <1>0, <1>8, Limits DEF Render, BrokerOK
  <2>3. BrokerOK'
    BY <1>8, <2>2, <1>g DEF Render, InCeremony
  <2> QED BY <1>8, <2>1, <2>3, <1>c, <1>l, <1>n DEF Render
<1>9. CASE Answer
  <2>1. CASE Deny
    BY <1>5, <1>9, <2>1 DEF Answer, InCeremony
  <2>2. CASE ~Deny
    <3>1. BrokerOK'
      BY <1>9, <2>2, <1>g DEF Answer, InCeremony
    <3> QED BY <1>9, <2>2, <3>1, <1>c, <1>l, <1>s, <1>n DEF Answer
  <2> QED BY <2>1, <2>2
<1>10. CASE Commit
  <2>1. BenchOK'
    BY <1>0, <1>10 DEF Commit, Reply, BenchOK, Adds
  <2> QED BY <1>0, <1>10, <2>1, ReplyType, RestoreType, <1>l DEF Commit
<1>11. CASE Client
  <2>1. ClientOK'
    BY <1>0, <1>a, <1>11 DEF Client, Send, HangUp, ClientOK, broker
  <2> QED BY <1>11, <2>1, <1>b, <1>l, <1>s, <1>n DEF Client, Send, HangUp
<1>12. CASE PidMoves
  <2>1. ClientOK'
    BY <1>0, <1>12 DEF PidMoves, ClientOK, broker
  <2> QED BY <1>12, <2>1, <1>b, <1>l, <1>s, <1>n DEF PidMoves
<1>13. CASE SecureAttention
  <2>1. ConsoleOK'
    BY <1>0, <1>13 DEF SecureAttention, Activate, ConsoleOK
  <2>2. BrokerOK'
    BY <1>13, <1>g DEF SecureAttention, InCeremony
  <2> QED BY <1>13, <2>1, <2>2, <1>c, <1>l, <1>n DEF SecureAttention
<1>14. ASSUME NEW text \in {"y", "code"}, Type(text)
       PROVE  ClientOK' /\ BrokerOK' /\ CoolingOK' /\ ConsoleOK' /\ BenchOK'
  <2>1. ConsoleOK'
    BY <1>0, <1>14 DEF Type, ConsoleOK
  <2> QED BY <1>14, <2>1, <1>c, <1>b, <1>l, <1>n DEF Type, broker
<1>15. ASSUME NEW to \in {"session", "consent"}, SwitchByHand(to) \/ LetGo
       PROVE  ClientOK' /\ BrokerOK' /\ CoolingOK' /\ ConsoleOK' /\ BenchOK'
  <2>1. ConsoleOK'
    BY <1>0, <1>15 DEF SwitchByHand, LetGo, ConsoleOK
  <2> QED BY <1>15, <2>1, <1>c, <1>b, <1>l, <1>n DEF SwitchByHand, LetGo, broker
<1>16. ASSUME NEW to \in SUBSET {"fs", "net"}, RootChanges(to)
       PROVE  ClientOK' /\ BrokerOK' /\ CoolingOK' /\ ConsoleOK' /\ BenchOK'
  <2>1. has' = to /\ meddled' \in BOOLEAN
    <3>1. InCeremony \in BOOLEAN
      BY DEF InCeremony
    <3> QED BY <1>16, <3>1 DEF RootChanges
  <2> QED BY <1>16, <2>1, <1>c, <1>b, <1>l, <1>s DEF RootChanges, broker, BenchOK
<1>17. CASE Tick
  <2>1. UNCHANGED <<clients, at, plan, bound, strikes, console, has, meddled>>
    BY <1>17 DEF Tick
  <2>2. CoolingOK'
    BY <1>0, <1>17 DEF Tick, CoolingOK
  <2>3. took' \in Nat /\ waited' \in 0 .. Limit'
    BY <1>0, <1>a, <1>17, Limits DEF Tick, BrokerOK, Expired
  <2>4. BrokerOK'
    BY <1>0, <2>1, <2>3 DEF BrokerOK, InCeremony
  <2> QED BY <2>1, <2>2, <2>4, <1>c, <1>s, <1>n
<1>18. CASE UNCHANGED vars
  BY <1>18, <1>c, <1>b, <1>l, <1>s, <1>n DEF vars, broker
<1> QED BY <1>1, <1>2, <1>3, <1>4, <1>6, <1>7, <1>8, <1>9, <1>10, <1>11, <1>12, <1>13, <1>14, <1>15,
     <1>16, <1>17, <1>18 DEF Next, Broker, Person

\* The broker's locals, the cooldowns and the console keep the shape the code gives
\* them, a plan is there exactly during a ceremony, and no wait outlives its
\* deadline (arm_sak, take_vt, read_answer, note_deny).
THEOREM ConsentTyped == ASSUME PowersAreNumbers PROVE Spec => []TypeOK
<1>1. Init => TypeOK
  <2> SUFFICES ASSUME Init PROVE TypeOK
    OBVIOUS
  <2>1. ClientOK
    BY DEF Init, ClientOK, Incarnations
  <2>6. BenchOK
    BY DEF Init, BenchOK
  <2>5. CoolingOK
    <3>1. 0 \in 0 .. Clamp
      BY ConsentAssumption
    <3> QED BY <3>1 DEF Init, CoolingOK
  <2>2. NoPlan \in [ask : Gated \cup {"none"}, warned : BOOLEAN] /\ NoPlan.ask \notin Gated
    BY DEF NoPlan, Gated, AskNames
  <2>3. BrokerOK
    BY <2>2, Limits DEF Init, BrokerOK, InCeremony, Incarnations
  <2>4. ConsoleOK
    BY DEF Init, ConsoleOK, Blank, NoLine
  <2> QED BY <2>1, <2>3, <2>4, <2>5, <2>6, Parts
<1>2. TypeOK /\ CeremonyInv /\ [Next]_vars => TypeOK'
  BY PowersAreNumbers, StepType
<1> QED BY <1>1, <1>2, CeremonyCorrect, PTL DEF Spec
=============================================================================
