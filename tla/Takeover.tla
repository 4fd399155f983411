------------------------------ MODULE Takeover ------------------------------
(***************************************************************************)
(* The suppression machine: how a node of a workgroup comes to stand in    *)
(* for its centre and how it yields again.  Per node two threads run: the  *)
(* probe thread (host-core/src/state.rs, Probe) probes the centre and the  *)
(* peers, counts misses (net/src/liveness.rs, Prober), publishes what it   *)
(* sees and tells its peers, whose reports fill a witness table; the       *)
(* ticker (SuppressionTicker) walks net/src/suppression.rs's three layers. *)
(*                                                                         *)
(* Node ids are numbers (precedence is node_id order) and the centre is 0. *)
(* Time is a count of probe intervals (15 s): PROBE_MISSES 3, the report   *)
(* window 45 s = 3, the wait 60 s = 4, the backoff up to 30 s = 2.  What   *)
(* the code keeps as instants is kept here as the age of the instant.      *)
(***************************************************************************)
EXTENDS Naturals, FiniteSets

CONSTANTS Node,              \* the workgroup without its centre
          Peers,             \* per node: the others its peers.json lists
          PROBE_MISSES,      \* misses in a row before a peer is unreachable
          REPORT_WINDOW,     \* how long a witness's report stays fresh
          SUPPRESSION_WAIT,  \* layer one
          BACKOFF_MAX,       \* layer three
          Outages,           \* environment: the sets of links that fail together
          Paced              \* whether every thread runs once per unit of time

Centre == 0

Pair(i, x) == {i, x}
Links == {Pair(i, x) : i \in Node, x \in Node \cup {Centre}} \ {{i} : i \in Node}

ASSUME TakeoverAssumption ==
    /\ Node \subseteq Nat \ {Centre}
    /\ Peers \in [Node -> SUBSET Node]
    /\ \A i \in Node : i \notin Peers[i]
    /\ PROBE_MISSES \in Nat \ {0}
    /\ REPORT_WINDOW \in Nat /\ SUPPRESSION_WAIT \in Nat /\ BACKOFF_MAX \in Nat
    /\ REPORT_WINDOW < SUPPRESSION_WAIT
    /\ Outages \subseteq SUBSET Links
    /\ Paced \in BOOLEAN

VARIABLES up,         \* environment: the pairs that can talk to each other
          misses,     \* misses[i][x]: consecutive_misses of i's Prober, capped
          published,  \* the nodes whose probe thread has published a first view
          table,      \* table[i][j]: j's last report to i about the centre
          machine,    \* per node: its Suppression
          mail,       \* takeover frames on their way, by addressee
          heard,      \* nodes whose takeover_heard slot is filled
          held,       \* nodes whose ticker holds a standing segment
          acted,      \* threads that ran in this unit of time (Paced only)
          backed      \* history: who reported the centre down since i waits

vars == <<up, misses, published, table, machine, mail, heard, held, acted, backed>>

Anyone == Node \cup {Centre}
Probed(i) == Peers[i] \cup {Centre}

NoReport == [says |-> "nothing", age |-> 0]

(* A phase just entered, with what is left of the backoff. *)
Entered(phase, left) == [phase |-> phase, age |-> 0, left |-> left]

Fresh == Entered("candidate", 0)

Init == /\ up = Links
        /\ misses = [i \in Node |-> [x \in Anyone |-> 0]]
        /\ published = {}
        /\ table = [i \in Node |-> [j \in Node |-> NoReport]]
        /\ machine = [i \in Node |-> Fresh]
        /\ mail = {} /\ heard = {} /\ held = {} /\ acted = {}
        /\ backed = [i \in Node |-> {}]

-----------------------------------------------------------------------------
(* Environment and time *)

(* Part of the network fails or comes back; the centre is down when none of
   its links is up. *)
Flip(links) ==
    /\ up' = IF links \subseteq up THEN up \ links ELSE up \cup links
    /\ UNCHANGED <<misses, published, table, machine, mail, heard, held, acted, backed>>

Threads == Node \X {"probe", "ticker"}

MayAct(t) == Paced => t \notin acted
Acts(t) == acted' = IF Paced THEN acted \cup {t} ELSE acted

Older(n, cap) == IF n < cap THEN n + 1 ELSE n

Tick ==
    /\ Paced => acted = Threads
    /\ acted' = {}
    /\ table' = [i \in Node |-> [j \in Node |->
                  IF table[i][j] = NoReport THEN NoReport
                  ELSE [table[i][j] EXCEPT !.age = Older(@, REPORT_WINDOW + 1)]]]
    /\ machine' = [i \in Node |-> [machine[i] EXCEPT
                    !.age = IF machine[i].phase = "waiting" THEN Older(@, SUPPRESSION_WAIT) ELSE @,
                    !.left = IF @ = 0 THEN 0 ELSE @ - 1]]
    /\ UNCHANGED <<up, misses, published, mail, heard, held, backed>>

-----------------------------------------------------------------------------
(* The probe thread *)

Reachable(i, x) == misses[i][x] < PROBE_MISSES

(* record_answer and record_miss. *)
NextMisses(i, x) == IF x \notin Probed(i) \/ Pair(i, x) \in up THEN 0
                    ELSE Older(misses[i][x], PROBE_MISSES)

(* The end of a probe round of i: its view is published to its ticker and told
   to every peer; a peer that lists i (and so has its key) records it. *)
ProbeRound(i) ==
    /\ MayAct(<<i, "probe">>)
    /\ misses' = [misses EXCEPT ![i] = [x \in Anyone |-> NextMisses(i, x)]]
    /\ published' = published \cup {i}
    /\ LET says == IF misses'[i][Centre] < PROBE_MISSES THEN "up" ELSE "down"
           told == {j \in Peers[i] : Pair(i, j) \in up /\ i \in Peers[j]}
       IN  /\ table' = [j \in Node |-> IF j \in told
                          THEN [table[j] EXCEPT ![i] = [says |-> says, age |-> 0]]
                          ELSE table[j]]
           /\ backed' = [j \in Node |-> IF j \in told /\ says = "down"
                          THEN backed[j] \cup {i} ELSE backed[j]]
    /\ Acts(<<i, "probe">>)
    /\ UNCHANGED <<up, machine, mail, heard, held>>

(* A takeover frame arrives: takeover_heard is filled, whoever sent it and
   whichever centre it names. *)
ReceiveTakeover(i) ==
    /\ i \in mail
    /\ mail' = mail \ {i}
    /\ heard' = heard \cup {i}
    /\ UNCHANGED <<up, misses, published, table, machine, held, acted, backed>>

(* The node's own centre, itself a node that watches a sibling server, stood in
   for that sibling and tells its peers. *)
SiblingTakeover(i) ==
    /\ Pair(i, Centre) \in up
    /\ i \notin mail
    /\ mail' = mail \cup {i}
    /\ UNCHANGED <<up, misses, published, table, machine, heard, held, acted, backed>>

-----------------------------------------------------------------------------
(* net::Suppression and net::WitnessTable, as functions of the machine *)

(* mutant: a report is never too old *)
Testifies_NoWindow(i, j) == table[i][j].says # "nothing" /\ Reachable(i, j)

(* judge: a report counts while it is fresh and its witness is itself reachable. *)
Testifies(i, j) == /\ table[i][j].says # "nothing"
                   /\ table[i][j].age <= REPORT_WINDOW
                   /\ Reachable(i, j)

Witnesses(i) == {j \in Peers[i] : Testifies(i, j)}

(* judge: unanimous among the witnesses that remain, and not empty. *)
Judged(i) == /\ Witnesses(i) # {}
             /\ \A j \in Witnesses(i) : table[i][j].says = "down"

(* mutant: confirming is asked at once, without the wait *)
Observe_NoWait(m, reachable) ==
    IF reachable THEN Fresh
    ELSE IF m.phase = "candidate" THEN Entered("waiting", 0)
    ELSE IF m.phase = "waiting" THEN Entered("confirming", 0)
    ELSE m

(* mutant: each observation starts the wait again *)
Observe_RestartsWait(m, reachable) ==
    IF reachable THEN Fresh
    ELSE IF m.phase = "waiting" /\ m.age >= SUPPRESSION_WAIT
         THEN Entered("confirming", 0)
    ELSE IF m.phase \in {"candidate", "waiting"} THEN Entered("waiting", 0)
    ELSE m

(* mutant: a stand-in keeps its role when the centre is back *)
Observe_Sticky(m, reachable) ==
    IF reachable /\ m.phase # "standing_in" THEN Fresh
    ELSE IF m.phase = "candidate" THEN Entered("waiting", 0)
    ELSE IF m.phase = "waiting" /\ m.age >= SUPPRESSION_WAIT
         THEN Entered("confirming", 0)
    ELSE m

Observe(m, reachable) ==
    IF reachable THEN Fresh
    ELSE IF m.phase = "candidate" THEN Entered("waiting", 0)
    ELSE IF m.phase = "waiting" /\ m.age >= SUPPRESSION_WAIT
         THEN Entered("confirming", 0)
    ELSE m

Confirm(i, m, delay) ==
    IF m.phase = "confirming" /\ Judged(i)
    THEN Entered("backing_off", delay) ELSE m

(* mutant: the order is never asked *)
is_first_in_line_Anyone(i) == TRUE

is_first_in_line(i) == \A j \in Peers[i] : ~(j < i)

MayStandIn(i, m) == /\ is_first_in_line(i)
                    /\ m.phase = "backing_off" /\ m.left = 0

(* mutant: the segment is forgotten when the centre is back *)
MustClose_Never(i, m, reachable) == FALSE

(* react_to_centre: a stand-in that sees the centre again closes its segment
   before observe moves it to candidate. *)
MustClose(i, m, reachable) == reachable /\ m.phase = "standing_in" /\ i \in held

(* declare_takeover: a frame to each peer that can be reached and knows i. *)
Broadcast(i) == {j \in Peers[i] : Pair(i, j) \in up /\ i \in Peers[j]}

(* What standing in leaves held: the segment, unless the store refused it. *)
AfterStandIn(i) == {held \ {i}, held \cup {i}}

(* One pass of the ticker's loop: takeover_heard first, then react_to_centre.
   delay is what backoff_delay_ms draws. *)
TickerPass(i) ==
    LET m0 == IF i \in heard THEN Fresh ELSE machine[i]       \* stand_down
        seen == i \in published
        reachable == Reachable(i, Centre)
        closing == seen /\ MustClose(i, m0, reachable)
        observed == IF seen THEN Observe(m0, reachable) ELSE m0
        Delays == IF observed.phase = "confirming" THEN 0 .. BACKOFF_MAX ELSE {0}
    IN  \E delay \in Delays :
          LET m1 == Confirm(i, observed, delay)
              stoodIn == seen /\ MayStandIn(i, m1)
          IN  /\ MayAct(<<i, "ticker">>)
              /\ heard' = heard \ {i}
              /\ machine' = [machine EXCEPT ![i] =
                               IF stoodIn THEN Entered("standing_in", 0) ELSE m1]
              /\ mail' = IF stoodIn THEN mail \cup Broadcast(i) ELSE mail
              /\ held' \in IF stoodIn THEN AfterStandIn(i)
                           ELSE IF closing THEN {held \ {i}} ELSE {held}
              /\ backed' = IF m1.phase \in {"candidate", "waiting"} /\ m1.age = 0
                           THEN [backed EXCEPT ![i] = {}] ELSE backed
              /\ Acts(<<i, "ticker">>)
              /\ UNCHANGED <<up, misses, published, table>>

(* The process restarts: everything here lives in memory, and nothing looks at
   the segments a previous life left open. *)
Restart(i) ==
    /\ misses' = [misses EXCEPT ![i] = [x \in Anyone |-> 0]]
    /\ published' = published \ {i}
    /\ table' = [table EXCEPT ![i] = [j \in Node |-> NoReport]]
    /\ machine' = [machine EXCEPT ![i] = Fresh]
    /\ mail' = mail \ {i} /\ heard' = heard \ {i} /\ held' = held \ {i}
    /\ backed' = [backed EXCEPT ![i] = {}]
    /\ UNCHANGED <<up, acted>>

-----------------------------------------------------------------------------
Thread(i) == \/ ProbeRound(i)
             \/ ReceiveTakeover(i)
             \/ TickerPass(i)

SteadyNext == \/ \E links \in Outages : Flip(links)
              \/ Tick
              \/ \E i \in Node : Thread(i)

Next == SteadyNext \/ \E i \in Node : Restart(i)

SiblingNext == Next \/ \E i \in Node : SiblingTakeover(i)

Spec == Init /\ [][Next]_vars

SiblingSpec == Init /\ [][SiblingNext]_vars

(* Time passes, and every thread keeps running (both are loops over a timer). *)
Fairness == /\ WF_vars(Tick)
            /\ \A i \in Node :
                 /\ WF_vars(ProbeRound(i))
                 /\ WF_vars(ReceiveTakeover(i))
                 /\ WF_vars(TickerPass(i))

LiveSpec == Init /\ [][SteadyNext]_vars /\ Fairness

-----------------------------------------------------------------------------
Phases == {"candidate", "waiting", "confirming", "backing_off", "standing_in"}

TypeOK ==
    /\ up \subseteq Links
    /\ misses \in [Node -> [Anyone -> 0 .. PROBE_MISSES]]
    /\ table \in [Node -> [Node -> [says : {"nothing", "up", "down"},
                                   age : 0 .. REPORT_WINDOW + 1]]]
    /\ machine \in [Node -> [phase : Phases, age : 0 .. SUPPRESSION_WAIT, left : 0 .. BACKOFF_MAX]]
    /\ published \subseteq Node /\ mail \subseteq Node /\ heard \subseteq Node
    /\ held \subseteq Node /\ acted \subseteq Threads
    /\ backed \in [Node -> SUBSET Node]

Phase(i) == machine[i].phase

(***************************************************************************)
(* "Nothing fires on one node's suspicion" (docs/connection.md, 6.8): a    *)
(* node that backs off or stands in was told by another node, after its    *)
(* own wait began, that the centre is gone.  It rests on the report window *)
(* being shorter than the wait: an older report is no longer fresh when    *)
(* confirm asks the witness table.                                         *)
(***************************************************************************)
NeverOneSuspicion ==
    \A i \in Node : Phase(i) \in {"backing_off", "standing_in"} => backed[i] # {}

(* Why: a report that is still fresh when the wait is over was made during it. *)
ReportedSince(i, j) == table[i][j].says = "down" /\ table[i][j].age <= REPORT_WINDOW

FreshIsBacked ==
    \A i, j \in Node : ReportedSince(i, j) =>
        /\ Phase(i) = "waiting" /\ table[i][j].age < machine[i].age => j \in backed[i]
        /\ Phase(i) = "confirming" => j \in backed[i]

(***************************************************************************)
(* Two nodes stand in at once only if neither knows the other: whatever    *)
(* the peers.json files say, a node with a smaller id in its own file never*)
(* stands in (is_first_in_line).                                           *)
(***************************************************************************)
RivalsAreStrangers ==
    \A i, j \in Node : i # j /\ Phase(i) = "standing_in" /\ Phase(j) = "standing_in" =>
        ~(i \in Peers[j] /\ j \in Peers[i])

(***************************************************************************)
(* A stand-in finishes before it yields (docs/connection.md 6.8, the return*)
(* is a trigger; react_to_centre): the ticker holds an open segment only   *)
(* while it stands in, so no segment is left behind by a change of phase.  *)
(***************************************************************************)
HeldOnlyStandingIn == \A i \in held : Phase(i) = "standing_in"

(* Why: who stands in is first in its own line, and a takeover frame comes from
   a peer that is ahead of its addressee. *)
StandsInFirst == \A i \in Node : Phase(i) = "standing_in" => is_first_in_line(i)

FramesFromAhead == \A i \in mail \cup heard : ~is_first_in_line(i)

TakeoverInv == /\ TypeOK /\ FreshIsBacked /\ NeverOneSuspicion
               /\ StandsInFirst /\ FramesFromAhead /\ HeldOnlyStandingIn

(***************************************************************************)
(* When the centre stays reachable a stand-in ends: the node returns to    *)
(* candidate and no longer holds a segment (react_to_centre, observe).     *)
(***************************************************************************)
CentreReturnYields ==
    \A i \in Node : <>[](Pair(i, Centre) \in up) => <>[](Phase(i) = "candidate" /\ i \notin held)

(***************************************************************************)
(* When the centre is gone for good and the nodes can talk, the first in   *)
(* line gets through all three layers and stands in.                       *)
(***************************************************************************)
CentreGone == up = {link \in Links : Centre \notin link}

TakeoverHappens ==
    \A i \in Node : is_first_in_line(i) /\ Peers[i] # {} =>
        (<>[]CentreGone => <>(Phase(i) = "standing_in"))
=============================================================================
