-------------------------------- MODULE Brokers --------------------------------
(***************************************************************************)
(* A coder in a box and the broker that turns its messages-API requests    *)
(* into calls of a logged-in CLI.  The coder always sends its whole        *)
(* transcript; the broker keeps a native session per handle and forwards   *)
(* only the tail, unless something does not fit.  claude-broker and        *)
(* codex-broker differ in where the native session lives.                  *)
(*                                                                         *)
(* A transcript is known by its run and its length: a run only appends.    *)
(***************************************************************************)
EXTENDS Naturals, FiniteSets

CONSTANTS
    Providers,   \* subset of {"claude", "codex"}
    NRuns,       \* bound: coder runs
    MaxSteps,    \* --max-steps
    Boxes        \* [runs, injected, together, faults, restarts]: how often the coder is run,
                 \* whether SHREK_SESSION is in the box, whether its coders run at the
                 \* same time, what fails with codex besides the CLI; bound: restarts of
                 \* the broker

ASSUME BrokersAssumption ==
    /\ Providers \subseteq {"claude", "codex"}
    /\ NRuns \in Nat \ {0} /\ MaxSteps \in Nat \ {0}
    /\ Boxes \subseteq [runs : 1..NRuns, injected : BOOLEAN, together : BOOLEAN,
                        faults : SUBSET {"dir", "rollout"}, restarts : Nat]

Runs    == 1..NRuns
CoderHandles == 0..NRuns  \* 0 is SHREK_SESSION, which all runs of a box share
NoSlot  == 0
Nobody  == 0
Nothing == [of |-> 0, upto |-> 0]  \* also: more than one transcript, or pieces
Upto(r, n) == [of |-> r, upto |-> n]

VARIABLES
    provider,
    box,
    coder,     \* per run: where it is, messages, step, exit code, what its last reply read
    req,       \* per run: its request inside the broker
    map,       \* Registry: handle -> slot
    slot,      \* every slot made so far; its number is the internal id
    dirs,      \* codex session directories on disk
    restarts

brokerVars == <<provider, box, coder, req, map, slot, dirs, restarts>>

HandleOf(r) == IF box.injected THEN 0 ELSE r
Slots == DOMAIN slot
Idle  == [at |-> "none", n |-> 0, slot |-> NoSlot, mode |-> "none", bad |-> FALSE, got |-> Nothing,
          ok |-> FALSE]
Fresh == [m |-> 0, id |-> FALSE, by |-> Nobody, kept |-> FALSE, holds |-> Nothing]
Waits(r)  == coder[r].at = "wait"
Exit(r, code) == coder' = [coder EXCEPT ![r].at = "gone", ![r].rc = code]

---------------------------------------------------------------------------
(* The coder *)

Start(r) ==
    /\ coder[r].at = "none" /\ r <= box.runs
    /\ box.together \/ \A q \in Runs : q < r => coder[q].at = "gone"
    /\ coder' = [coder EXCEPT ![r].at = "ask", ![r].n = 1, ![r].step = 1]
    /\ UNCHANGED <<provider, box, req, map, slot, dirs, restarts>>

\* http_post_json up to the slot of its handle: connected, written, read, parsed
\* and looked up, well within the time the coder waits for an answer
Send(r) ==
    LET h == HandleOf(r)
        s == IF map[h] = NoSlot THEN Cardinality(Slots) + 1 ELSE map[h]
    IN /\ coder[r].at = "ask"
       /\ coder' = [coder EXCEPT ![r].at = "wait"]
       /\ req' = [req EXCEPT ![r] = [Idle EXCEPT !.at = "queue", !.n = coder[r].n, !.slot = s]]
       /\ map' = [map EXCEPT ![h] = s]
       /\ slot' = IF s \in Slots THEN slot ELSE [i \in Slots \cup {s} |-> IF i = s THEN Fresh ELSE slot[i]]
       /\ UNCHANGED <<provider, box, dirs, restarts>>

\* Only the CLI takes as long as the read timeout of 120 s, the coder's own or
\* the one that holds the lock
Slow(r) ==
    \/ req[r].at = "cli"
    \/ req[r].at = "queue" /\ slot[req[r].slot].by # Nobody

\* The broker refuses the connection, or nothing came within the read timeout;
\* what the broker does for the request goes on
GiveUp(r) ==
    /\ coder[r].at = "ask" \/ (Waits(r) /\ Slow(r))
    /\ Exit(r, 4)
    /\ UNCHANGED <<provider, box, req, map, slot, dirs, restarts>>

\* One turn of run_loop: the reply is appended, and the result of its tool; done
\* ends it, and so does a reply without text
Act(r) ==
    LET c == coder[r] IN
    /\ c.at = "act"
    /\ \/ \E code \in {0, 1, 4} : Exit(r, code)
       \/ /\ c.step = MaxSteps /\ Exit(r, 3)
       \/ /\ c.step < MaxSteps
          /\ coder' = [coder EXCEPT ![r] = [c EXCEPT !.at = "ask", !.n = @ + 1, !.step = @ + 1]]
    /\ UNCHANGED <<provider, box, req, map, slot, dirs, restarts>>

\* The result of its tool is cut in the middle of a character
Panics(r) ==
    /\ coder[r].at = "act" /\ Exit(r, 101)
    /\ UNCHANGED <<provider, box, req, map, slot, dirs, restarts>>

---------------------------------------------------------------------------
(* The broker: run_session_turn, one thread per request *)

\* Mutant: whatever has the handle is resumed
Mode_Resumes(s, n) ==
    IF s.m = 0 \/ (provider = "codex" /\ ~s.id) THEN "create" ELSE "resume"

Mode(s, n) ==
    IF s.m = 0 \/ (provider = "codex" /\ ~s.id) THEN "create"
    ELSE IF n > s.m THEN "resume" ELSE "flatten"

\* The lock of the slot is held for the whole turn; codex needs its directory first
Lock(r) ==
    LET s == req[r].slot IN
    /\ req[r].at = "queue" /\ slot[s].by = Nobody
    /\ LET mode == Mode(slot[s], req[r].n) IN
       /\ slot' = [slot EXCEPT ![s].by = r]
       /\ req' = [req EXCEPT ![r].at = "cli", ![r].mode = mode, ![r].bad = mode = "flatten"]
    /\ dirs' = IF provider = "codex" THEN dirs \cup {s} ELSE dirs
    /\ UNCHANGED <<provider, box, coder, map, restarts>>

\* The session directory is missing and cannot be made: the lock is let go and
\* nothing forgotten
NoDir(r) ==
    /\ provider = "codex" /\ "dir" \in box.faults
    /\ req[r].at = "queue" /\ slot[req[r].slot].by = Nobody
    /\ req[r].slot \notin dirs
    /\ req' = [req EXCEPT ![r].at = "cli", ![r].mode = "alone"]
    /\ UNCHANGED <<provider, box, coder, map, slot, dirs, restarts>>

\* What the CLI reads: the whole transcript, or the native session and the tail
\* behind what was forwarded into it
Reads(r) ==
    LET q == req[r]
        s == slot[q.slot]
    IN IF q.mode # "resume" THEN Upto(r, q.n)
       ELSE IF s.holds = Upto(r, s.m) THEN Upto(r, q.n) ELSE Nothing

\* The lock is dropped with the result in hand
Unlock(r, q) == req' = [req EXCEPT ![r] = [q EXCEPT !.at = IF q.bad THEN "forget" ELSE "reply"]]

\* The native session after a good turn: +1, for the reply is in it already and the
\* coder will append it.  The directory of codex may be gone by now, and its id
\* is read from there after a create.
Told(r, got) ==
    LET q == req[r]
        there == provider = "claude" \/ q.slot \in dirs
    IN {[m |-> q.n + 1, id |-> id, by |-> Nobody, kept |-> there,
         holds |-> IF got = Nothing THEN Nothing ELSE Upto(r, q.n + 1)] :
            id \in IF q.mode = "resume" THEN {slot[q.slot].id} 
                  ELSE {b \in BOOLEAN : (b <=> there) \/ ("rollout" \in box.faults /\ ~b)}}

CliOk(r) ==
    LET q == req[r]
        s == q.slot
    IN /\ q.at = "cli"
       /\ q.mode = "resume" => slot[s].kept
       /\ slot' \in IF q.mode = "alone" THEN {slot}
                    ELSE IF q.mode = "flatten" THEN {[slot EXCEPT ![s].by = Nobody]}
                    ELSE {[slot EXCEPT ![s] = after] : after \in Told(r, Reads(r))}
       /\ Unlock(r, [q EXCEPT !.ok = TRUE, !.got = Reads(r)])
       /\ UNCHANGED <<provider, box, coder, map, dirs, restarts>>

\* A failed resume may have reached the native session or not; the whole
\* transcript is tried instead, still under the lock
ResumeFails(r) ==
    LET q == req[r] IN
    /\ q.at = "cli" /\ q.mode = "resume"
    /\ req' = [req EXCEPT ![r].mode = "flatten", ![r].bad = TRUE]
    /\ \E held \in {slot[q.slot].holds, Nothing} : slot' = [slot EXCEPT ![q.slot].holds = held]
    /\ UNCHANGED <<provider, box, coder, map, dirs, restarts>>

CliFails(r) ==
    LET q == req[r] IN
    /\ q.at = "cli" /\ q.mode # "resume"
    /\ slot' = IF q.mode = "alone" THEN slot ELSE [slot EXCEPT ![q.slot].by = Nobody]
    /\ Unlock(r, [q EXCEPT !.bad = q.mode # "alone"])
    /\ UNCHANGED <<provider, box, coder, map, dirs, restarts>>

\* Registry::forget: by handle, whatever slot it has by now
Forget(r) ==
    /\ req[r].at = "forget"
    /\ map' = [map EXCEPT ![HandleOf(r)] = NoSlot]
    /\ req' = [req EXCEPT ![r].at = IF provider = "codex" THEN "rmdir" ELSE "reply"]
    /\ UNCHANGED <<provider, box, coder, slot, dirs, restarts>>

\* The directory goes: remove_dir_all, whose errors the code ignores, is taken to work
RmDir(r) ==
    /\ req[r].at = "rmdir"
    /\ dirs' = dirs \ {req[r].slot}
    /\ slot' = [slot EXCEPT ![req[r].slot].kept = FALSE]
    /\ req' = [req EXCEPT ![r].at = "reply"]
    /\ UNCHANGED <<provider, box, coder, map, restarts>>

\* 200 with the text, 502 without, or nobody there any more
Reply(r) ==
    LET q == req[r] IN
    /\ q.at = "reply" /\ req' = [req EXCEPT ![r] = Idle]
    /\ IF ~Waits(r) THEN UNCHANGED coder
       ELSE IF q.ok THEN coder' = [coder EXCEPT ![r].at = "act", ![r].n = @ + 1, ![r].got = q.got]
       ELSE Exit(r, 4)
    /\ UNCHANGED <<provider, box, map, slot, dirs, restarts>>

\* The map is in memory; the native sessions and their directories stay
Restart ==
    /\ restarts < box.restarts /\ restarts' = restarts + 1
    /\ map' = [h \in CoderHandles |-> NoSlot]
    /\ req' = [r \in Runs |-> Idle]
    /\ slot' = [s \in Slots |-> [slot[s] EXCEPT !.by = Nobody]]
    /\ coder' = [r \in Runs |-> IF Waits(r) THEN [coder[r] EXCEPT !.at = "gone", !.rc = 4] ELSE coder[r]]
    /\ UNCHANGED <<provider, box, dirs>>

BrokersInit ==
    /\ provider \in Providers /\ box \in Boxes
    /\ coder = [r \in Runs |-> [at |-> "none", n |-> 0, step |-> 0, rc |-> 0, got |-> Nothing]]
    /\ req = [r \in Runs |-> Idle]
    /\ map = [h \in CoderHandles |-> NoSlot]
    /\ slot = <<>> /\ dirs = {} /\ restarts = 0

BrokersNext ==
    \/ \E r \in Runs : \/ Start(r) \/ Send(r) \/ GiveUp(r) \/ Act(r) \/ Panics(r)
                       \/ Lock(r) \/ NoDir(r) \/ CliOk(r) \/ ResumeFails(r) \/ CliFails(r)
                       \/ Forget(r) \/ RmDir(r) \/ Reply(r)
    \/ Restart

BrokersSpec == BrokersInit /\ [][BrokersNext]_brokerVars

---------------------------------------------------------------------------

BrokersTypeOK ==
    /\ provider \in Providers /\ box \in Boxes
    /\ DOMAIN coder = Runs /\ DOMAIN req = Runs /\ DOMAIN map = CoderHandles
    /\ \A r \in Runs : coder[r].at \in {"none", "ask", "wait", "act", "gone"}
    /\ \A h \in CoderHandles : map[h] \in Slots \cup {NoSlot}
    /\ dirs \subseteq Slots
    /\ \A s \in Slots : slot[s].by \in Runs \cup {Nobody}

\* run_session_turn of both brokers: a reply the coder takes was made from exactly
\* the transcript it sent, each message once and in order, whether the whole was
\* flattened or a tail resumed, after failures, restarts, and requests of earlier
\* runs under the same handle that go on after their coder has given up.  Not in
\* a box that runs two coders at once, and not when codex loses its directory.
TurnTold ==
    ~box.together /\ box.faults = {} =>
        \A r \in Runs : coder[r].at = "act" => coder[r].got = Upto(r, coder[r].n - 1)
=============================================================================
