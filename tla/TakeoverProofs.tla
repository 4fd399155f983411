--------------------------- MODULE TakeoverProofs ---------------------------
(* Proofs about Takeover: any workgroup, any peers.json files (symmetric or  *)
(* not), any windows with REPORT_WINDOW < SUPPRESSION_WAIT, any outages;    *)
(* and about SegmentDelivery, which carries what a stand-in recorded home.   *)
EXTENDS Takeover, Integers, Sequences, FiniteSetTheorems, WellFoundedInduction, TLAPS

LEMMA OlderType ==
    ASSUME NEW cap \in Nat, NEW n \in 0 .. cap
    PROVE  /\ Older(n, cap) \in 0 .. cap
           /\ n < cap => Older(n, cap) = n + 1
           /\ n = cap => Older(n, cap) = n
BY DEF Older

LEMMA FreshType == Fresh \in [phase : Phases, age : 0 .. SUPPRESSION_WAIT, left : 0 .. BACKOFF_MAX]
BY TakeoverAssumption DEF Fresh, Entered, Phases

Machine == [phase : Phases, age : 0 .. SUPPRESSION_WAIT, left : 0 .. BACKOFF_MAX]

LEMMA ObserveType ==
    ASSUME NEW m \in Machine, NEW r \in BOOLEAN
    PROVE  Observe(m, r) \in Machine
BY TakeoverAssumption, FreshType DEF Observe, Machine, Fresh, Entered, Phases

LEMMA ConfirmType ==
    ASSUME NEW m \in Machine, NEW i \in Node, NEW d \in 0 .. BACKOFF_MAX
    PROVE  Confirm(i, m, d) \in Machine
BY TakeoverAssumption, FreshType DEF Confirm, Machine, Fresh, Entered, Phases

(* A takeover frame only reaches nodes that are not first in their own line. *)
LEMMA BroadcastAhead ==
    ASSUME NEW i \in Node, is_first_in_line(i), NEW j \in Broadcast(i)
    PROVE  j \in Node /\ ~is_first_in_line(j)
<1>1. j \in Peers[i] /\ i \in Peers[j] /\ j \in Node
  BY TakeoverAssumption DEF Broadcast
<1>2. i # j /\ i \in Nat /\ j \in Nat
  BY <1>1, TakeoverAssumption
<1>3. ~(j < i)
  BY <1>1 DEF is_first_in_line
<1>4. i < j
  BY <1>2, <1>3
<1> QED
  BY <1>1, <1>4 DEF is_first_in_line

LEMMA InitTakeover == Init => TakeoverInv
<1> SUFFICES ASSUME Init PROVE TakeoverInv
  OBVIOUS
<1> USE TakeoverAssumption DEF Init
<1>1. TypeOK
  BY FreshType DEF TypeOK, NoReport, Threads
<1>2. FreshIsBacked /\ NeverOneSuspicion
  BY DEF FreshIsBacked, NeverOneSuspicion, ReportedSince, NoReport, Phase, Fresh, Entered
<1>3. StandsInFirst /\ FramesFromAhead /\ HeldOnlyStandingIn
  BY DEF StandsInFirst, FramesFromAhead, HeldOnlyStandingIn, Phase, Fresh, Entered
<1> QED
  BY <1>1, <1>2, <1>3 DEF TakeoverInv

-----------------------------------------------------------------------------
(* Steps that leave the machines alone. *)

LEMMA FlipKeeps ==
    ASSUME TakeoverInv, NEW links \in Outages, Flip(links)
    PROVE  TakeoverInv'
BY TakeoverAssumption
   DEF Flip, TakeoverInv, TypeOK, FreshIsBacked, NeverOneSuspicion, StandsInFirst, FramesFromAhead,
       HeldOnlyStandingIn, ReportedSince, Phase, is_first_in_line

LEMMA ReceiveKeeps ==
    ASSUME TakeoverInv, NEW i \in Node, ReceiveTakeover(i)
    PROVE  TakeoverInv'
BY DEF ReceiveTakeover, TakeoverInv, TypeOK, FreshIsBacked, NeverOneSuspicion, StandsInFirst,
       FramesFromAhead, HeldOnlyStandingIn, ReportedSince, Phase, is_first_in_line

LEMMA ProbeKeeps ==
    ASSUME TakeoverInv, NEW i \in Node, ProbeRound(i)
    PROVE  TakeoverInv'
<1> DEFINE says == IF misses'[i][Centre] < PROBE_MISSES THEN "up" ELSE "down"
           told == {j \in Peers[i] : Pair(i, j) \in up /\ i \in Peers[j]}
<1>1. /\ machine' = machine /\ mail' = mail /\ heard' = heard /\ held' = held /\ up' = up
      /\ published' = published \cup {i}
      /\ misses' = [misses EXCEPT ![i] = [x \in Anyone |-> NextMisses(i, x)]]
      /\ table' = [j \in Node |-> IF j \in told
                     THEN [table[j] EXCEPT ![i] = [says |-> says, age |-> 0]] ELSE table[j]]
      /\ backed' = [j \in Node |-> IF j \in told /\ says = "down"
                     THEN backed[j] \cup {i} ELSE backed[j]]
      /\ acted' = IF Paced THEN acted \cup {<<i, "probe">>} ELSE acted
  BY DEF ProbeRound, Acts
<1>2. \A j, k \in Node : \/ table'[j][k] = table[j][k]
                         \/ k = i /\ j \in told /\ table'[j][k] = [says |-> says, age |-> 0]
  BY <1>1 DEF TakeoverInv, TypeOK
<1>3. \A j \in Node : backed[j] \subseteq backed'[j]
  BY <1>1
<1>4. TypeOK'
  <2>1. \A x \in Anyone : NextMisses(i, x) \in 0 .. PROBE_MISSES
    BY TakeoverAssumption, OlderType DEF NextMisses, TakeoverInv, TypeOK
  <2>2. misses' \in [Node -> [Anyone -> 0 .. PROBE_MISSES]]
    BY <1>1, <2>1 DEF TakeoverInv, TypeOK
  <2>3. table' \in [Node -> [Node -> [says : {"nothing", "up", "down"}, age : 0 .. REPORT_WINDOW + 1]]]
    <3>1. [says |-> says, age |-> 0] \in [says : {"nothing", "up", "down"}, age : 0 .. REPORT_WINDOW + 1]
      BY TakeoverAssumption
    <3> QED
      BY <1>1, <3>1 DEF TakeoverInv, TypeOK
  <2>4. backed' \in [Node -> SUBSET Node]
    BY <1>1 DEF TakeoverInv, TypeOK
  <2>5. acted' \subseteq Threads
    BY <1>1 DEF TakeoverInv, TypeOK, Threads
  <2> QED
    BY <1>1, <2>2, <2>3, <2>4, <2>5 DEF TakeoverInv, TypeOK
<1>5. FreshIsBacked'
  <2> SUFFICES ASSUME NEW j \in Node, NEW k \in Node, ReportedSince(j, k)'
               PROVE  /\ Phase(j)' = "waiting" /\ table'[j][k].age < machine'[j].age => k \in backed'[j]
                      /\ Phase(j)' = "confirming" => k \in backed'[j]
    BY DEF FreshIsBacked
  <2>1. CASE table'[j][k] = table[j][k]
    BY <2>1, <1>1, <1>3 DEF TakeoverInv, FreshIsBacked, ReportedSince, Phase
  <2>2. CASE k = i /\ j \in told /\ table'[j][k] = [says |-> says, age |-> 0]
    <3>1. says = "down"
      BY <2>2 DEF ReportedSince
    <3> QED
      BY <2>2, <3>1, <1>1
  <2> QED
    BY <2>1, <2>2, <1>2
<1>6. NeverOneSuspicion'
  BY <1>1, <1>3 DEF TakeoverInv, NeverOneSuspicion, Phase
<1>7. StandsInFirst' /\ FramesFromAhead' /\ HeldOnlyStandingIn'
  BY <1>1 DEF TakeoverInv, StandsInFirst, FramesFromAhead, HeldOnlyStandingIn, Phase, is_first_in_line
<1> QED
  BY <1>4, <1>5, <1>6, <1>7 DEF TakeoverInv

(* Time: a report that is still fresh ages exactly as the wait does. *)
LEMMA TickKeeps ==
    ASSUME TakeoverInv, Tick
    PROVE  TakeoverInv'
<1> USE TakeoverAssumption
<1>1. /\ up' = up /\ misses' = misses /\ published' = published /\ mail' = mail
      /\ heard' = heard /\ held' = held /\ backed' = backed /\ acted' = {}
  BY DEF Tick
<1>2. \A i, j \in Node : /\ table'[i][j].says = table[i][j].says
                         /\ table'[i][j].age \in 0 .. REPORT_WINDOW + 1
                         /\ table'[i][j].says = "down" /\ table'[i][j].age <= REPORT_WINDOW
                              => table'[i][j].age = table[i][j].age + 1
  <2> SUFFICES ASSUME NEW i \in Node, NEW j \in Node
               PROVE  /\ table'[i][j].says = table[i][j].says
                      /\ table'[i][j].age \in 0 .. REPORT_WINDOW + 1
                      /\ table'[i][j].says = "down" /\ table'[i][j].age <= REPORT_WINDOW
                           => table'[i][j].age = table[i][j].age + 1
    OBVIOUS
  <2>1. table'[i][j] = IF table[i][j] = NoReport THEN NoReport
                       ELSE [table[i][j] EXCEPT !.age = Older(@, REPORT_WINDOW + 1)]
    BY DEF Tick
  <2>2. table[i][j] \in [says : {"nothing", "up", "down"}, age : 0 .. REPORT_WINDOW + 1]
    BY DEF TakeoverInv, TypeOK
  <2>3. CASE table[i][j] = NoReport
    BY <2>1, <2>3 DEF NoReport
  <2>4. CASE table[i][j] # NoReport
    <3>1. table'[i][j] = [table[i][j] EXCEPT !.age = Older(table[i][j].age, REPORT_WINDOW + 1)]
      BY <2>1, <2>4
    <3>2. /\ table'[i][j].says = table[i][j].says
          /\ table'[i][j].age = Older(table[i][j].age, REPORT_WINDOW + 1)
      BY <2>2, <3>1
    <3> QED
      BY <2>2, <3>2 DEF Older
  <2> QED
    BY <2>3, <2>4
<1>3. \A i \in Node : /\ machine'[i].phase = machine[i].phase
                      /\ machine'[i].age \in 0 .. SUPPRESSION_WAIT
                      /\ machine'[i].age <= machine[i].age + 1
                      /\ machine'[i].left \in 0 .. BACKOFF_MAX
  <2> SUFFICES ASSUME NEW i \in Node
               PROVE  /\ machine'[i].phase = machine[i].phase
                      /\ machine'[i].age \in 0 .. SUPPRESSION_WAIT
                      /\ machine'[i].age <= machine[i].age + 1
                      /\ machine'[i].left \in 0 .. BACKOFF_MAX
    OBVIOUS
  <2> DEFINE m == machine[i]
             a == IF m.phase = "waiting" THEN Older(m.age, SUPPRESSION_WAIT) ELSE m.age
             l == IF m.left = 0 THEN 0 ELSE m.left - 1
  <2>1. m \in [phase : Phases, age : 0 .. SUPPRESSION_WAIT, left : 0 .. BACKOFF_MAX]
    BY DEF TakeoverInv, TypeOK
  <2>2. machine'[i] = [machine[i] EXCEPT !.age = a, !.left = l]
    BY DEF Tick
  <2>3. machine'[i].phase = m.phase /\ machine'[i].age = a /\ machine'[i].left = l
    BY <2>1, <2>2
  <2>4. a \in 0 .. SUPPRESSION_WAIT /\ a <= m.age + 1
    BY <2>1 DEF Older
  <2>5. l \in 0 .. BACKOFF_MAX
    BY <2>1
  <2> QED
    BY <2>3, <2>4, <2>5
<1>4. TypeOK'
  <2>1. table' \in [Node -> [Node -> [says : {"nothing", "up", "down"}, age : 0 .. REPORT_WINDOW + 1]]]
    <3>1. ASSUME NEW i \in Node, NEW j \in Node
          PROVE  (IF table[i][j] = NoReport THEN NoReport
                  ELSE [table[i][j] EXCEPT !.age = Older(@, REPORT_WINDOW + 1)])
                   \in [says : {"nothing", "up", "down"}, age : 0 .. REPORT_WINDOW + 1]
      <4>1. table[i][j] \in [says : {"nothing", "up", "down"}, age : 0 .. REPORT_WINDOW + 1]
        BY DEF TakeoverInv, TypeOK
      <4>2. Older(table[i][j].age, REPORT_WINDOW + 1) \in 0 .. REPORT_WINDOW + 1
        BY <4>1 DEF Older
      <4> QED
        BY <4>1, <4>2 DEF NoReport
    <3> QED
      BY <3>1 DEF Tick
  <2>2. machine' \in [Node -> Machine]
    <3>1. ASSUME NEW i \in Node
          PROVE  [machine[i] EXCEPT
                    !.age = IF machine[i].phase = "waiting" THEN Older(@, SUPPRESSION_WAIT) ELSE @,
                    !.left = IF @ = 0 THEN 0 ELSE @ - 1] \in Machine
      <4>1. machine[i] \in Machine
        BY DEF TakeoverInv, TypeOK, Machine
      <4>2. /\ (IF machine[i].phase = "waiting" THEN Older(machine[i].age, SUPPRESSION_WAIT)
                ELSE machine[i].age) \in 0 .. SUPPRESSION_WAIT
            /\ (IF machine[i].left = 0 THEN 0 ELSE machine[i].left - 1) \in 0 .. BACKOFF_MAX
        BY <4>1 DEF Older, Machine
      <4> QED
        BY <4>1, <4>2 DEF Machine
    <3> QED
      BY <3>1 DEF Tick
  <2> QED
    BY <1>1, <2>1, <2>2 DEF TakeoverInv, TypeOK, Machine
<1>5. FreshIsBacked'
  <2> SUFFICES ASSUME NEW i \in Node, NEW j \in Node, ReportedSince(i, j)'
               PROVE  /\ Phase(i)' = "waiting" /\ table'[i][j].age < machine'[i].age => j \in backed'[i]
                      /\ Phase(i)' = "confirming" => j \in backed'[i]
    BY DEF FreshIsBacked
  <2>1. /\ table[i][j].says = "down" /\ table'[i][j].age = table[i][j].age + 1
        /\ table[i][j].age \in Nat /\ machine[i].age \in Nat /\ machine'[i].age \in Nat
        /\ table'[i][j].age <= REPORT_WINDOW
    BY <1>2, <1>3 DEF ReportedSince, TakeoverInv, TypeOK
  <2>2. ReportedSince(i, j)
    BY <2>1 DEF ReportedSince
  <2>3. table'[i][j].age < machine'[i].age => table[i][j].age < machine[i].age
    BY <2>1, <1>3
  <2> QED
    BY <1>1, <1>3, <2>2, <2>3 DEF TakeoverInv, FreshIsBacked, Phase
<1>6. NeverOneSuspicion'
  BY <1>1, <1>3 DEF TakeoverInv, NeverOneSuspicion, Phase
<1>7. StandsInFirst' /\ FramesFromAhead' /\ HeldOnlyStandingIn'
  BY <1>1, <1>3
     DEF TakeoverInv, TypeOK, StandsInFirst, FramesFromAhead, HeldOnlyStandingIn, Phase, is_first_in_line
<1> QED
  BY <1>4, <1>5, <1>6, <1>7 DEF TakeoverInv

(* A restart forgets everything a suspicion rests on. *)
LEMMA RestartKeeps ==
    ASSUME TakeoverInv, NEW i \in Node, Restart(i)
    PROVE  TakeoverInv'
<1> USE TakeoverAssumption
<1>1. /\ machine' = [machine EXCEPT ![i] = Fresh]
      /\ table' = [table EXCEPT ![i] = [j \in Node |-> NoReport]]
      /\ backed' = [backed EXCEPT ![i] = {}]
      /\ misses' = [misses EXCEPT ![i] = [x \in Anyone |-> 0]]
      /\ mail' = mail \ {i} /\ heard' = heard \ {i} /\ held' = held \ {i}
      /\ published' = published \ {i} /\ up' = up /\ acted' = acted
  BY DEF Restart
<1>2. TypeOK'
  <2>1. NoReport \in [says : {"nothing", "up", "down"}, age : 0 .. REPORT_WINDOW + 1]
    BY DEF NoReport
  <2> QED
    BY <1>1, <2>1, FreshType DEF TakeoverInv, TypeOK
<1>3. Phase(i)' = "candidate" /\ \A j \in Node : ~ReportedSince(i, j)'
  BY <1>1 DEF TakeoverInv, TypeOK, Phase, Fresh, Entered, ReportedSince, NoReport
<1>4. \A k \in Node \ {i} : /\ machine'[k] = machine[k] /\ table'[k] = table[k]
                             /\ backed'[k] = backed[k]
  BY <1>1 DEF TakeoverInv, TypeOK
<1>5. FreshIsBacked' /\ NeverOneSuspicion'
  BY <1>3, <1>4 DEF TakeoverInv, FreshIsBacked, NeverOneSuspicion, Phase, ReportedSince
<1>6. StandsInFirst' /\ FramesFromAhead' /\ HeldOnlyStandingIn'
  BY <1>1, <1>3, <1>4
     DEF TakeoverInv, TypeOK, StandsInFirst, FramesFromAhead, HeldOnlyStandingIn, Phase, is_first_in_line
<1> QED
  BY <1>2, <1>5, <1>6 DEF TakeoverInv

(* One pass of the ticker: the only step that moves a machine through the
   three layers. *)
LEMMA TickerKeeps ==
    ASSUME TakeoverInv, NEW i \in Node, TickerPass(i)
    PROVE  TakeoverInv'
<1> USE TakeoverAssumption
<1> DEFINE m0 == IF i \in heard THEN Fresh ELSE machine[i]
           seen == i \in published
           reachable == Reachable(i, Centre)
           closing == seen /\ MustClose(i, m0, reachable)
           observed == IF seen THEN Observe(m0, reachable) ELSE m0
<1>1. PICK d \in 0 .. BACKOFF_MAX :
        LET m1 == Confirm(i, observed, d)
            stoodIn == seen /\ MayStandIn(i, m1)
        IN  /\ heard' = heard \ {i}
            /\ machine' = [machine EXCEPT ![i] =
                             IF stoodIn THEN Entered("standing_in", 0) ELSE m1]
            /\ mail' = IF stoodIn THEN mail \cup Broadcast(i) ELSE mail
            /\ held' \in IF stoodIn THEN AfterStandIn(i)
                         ELSE IF closing THEN {held \ {i}} ELSE {held}
            /\ backed' = IF m1.phase \in {"candidate", "waiting"} /\ m1.age = 0
                         THEN [backed EXCEPT ![i] = {}] ELSE backed
            /\ acted' = IF Paced THEN acted \cup {<<i, "ticker">>} ELSE acted
            /\ up' = up /\ misses' = misses /\ published' = published /\ table' = table
  <2> DEFINE Delays == IF observed.phase = "confirming" THEN 0 .. BACKOFF_MAX ELSE {0}
  <2>1. Delays \subseteq 0 .. BACKOFF_MAX
    OBVIOUS
  <2>2. \E d \in Delays :
          LET m1 == Confirm(i, observed, d)
              stoodIn == seen /\ MayStandIn(i, m1)
          IN  /\ heard' = heard \ {i}
              /\ machine' = [machine EXCEPT ![i] =
                               IF stoodIn THEN Entered("standing_in", 0) ELSE m1]
              /\ mail' = IF stoodIn THEN mail \cup Broadcast(i) ELSE mail
              /\ held' \in IF stoodIn THEN AfterStandIn(i)
                           ELSE IF closing THEN {held \ {i}} ELSE {held}
              /\ backed' = IF m1.phase \in {"candidate", "waiting"} /\ m1.age = 0
                           THEN [backed EXCEPT ![i] = {}] ELSE backed
              /\ acted' = IF Paced THEN acted \cup {<<i, "ticker">>} ELSE acted
              /\ up' = up /\ misses' = misses /\ published' = published /\ table' = table
    BY Zenon DEF TickerPass, Acts
  <2> HIDE DEF Delays, m0, seen, reachable, closing, observed
  <2> QED
    BY <2>1, <2>2, Zenon
<1> DEFINE m1 == Confirm(i, observed, d)
           stoodIn == seen /\ MayStandIn(i, m1)
           m2 == IF stoodIn THEN Entered("standing_in", 0) ELSE m1
<1>2. m0 \in Machine
  BY FreshType DEF TakeoverInv, TypeOK, Machine
<1>3. observed \in Machine
  <2>1. reachable \in BOOLEAN
    BY DEF Reachable
  <2> HIDE DEF m0, reachable
  <2> QED
    BY <1>2, <2>1, ObserveType
<1>4. m1 \in Machine
  BY <1>3, ConfirmType
<1>5. m2 \in Machine
  BY <1>4 DEF Machine, Entered, Phases
<1>6. machine'[i] = m2 /\ \A k \in Node \ {i} : machine'[k] = machine[k]
  BY <1>1 DEF TakeoverInv, TypeOK
<1>7. \A k \in Node \ {i} : backed'[k] = backed[k]
  BY <1>1 DEF TakeoverInv, TypeOK
<1>8. m1.phase \in {"candidate", "waiting"} /\ m1.age = 0 => backed'[i] = {}
  BY <1>1 DEF TakeoverInv, TypeOK
<1>9. ~(m1.phase \in {"candidate", "waiting"} /\ m1.age = 0) => backed'[i] = backed[i]
  BY <1>1 DEF TakeoverInv, TypeOK
<1>10. table' = table
  BY <1>1
(* A machine that ends the pass past layer one did not start it afresh. *)
<1>11. m1.phase = "standing_in" => i \notin heard /\ m1 = machine[i]
  BY <1>2 DEF Confirm, Observe, Entered, Fresh
<1>12. m1.phase = "confirming" =>
         /\ i \notin heard
         /\ \/ machine[i].phase = "confirming"
            \/ machine[i].phase = "waiting" /\ machine[i].age >= SUPPRESSION_WAIT
  BY <1>2 DEF Confirm, Observe, Entered, Fresh
<1>13. m1.phase = "waiting" /\ m1.age # 0 => i \notin heard /\ m1 = machine[i]
  BY <1>2 DEF Confirm, Observe, Entered, Fresh
<1>14. m1.phase = "backing_off" =>
         /\ i \notin heard
         /\ \/ m1 = machine[i]
            \/ /\ Judged(i)
               /\ \/ machine[i].phase = "confirming"
                  \/ machine[i].phase = "waiting" /\ machine[i].age >= SUPPRESSION_WAIT
  BY <1>2 DEF Confirm, Observe, Entered, Fresh
<1>15. stoodIn => is_first_in_line(i) /\ m1.phase = "backing_off"
  BY DEF MayStandIn
<1> HIDE DEF m0, seen, reachable, closing, observed, m1, stoodIn, m2
<1>16. (\/ machine[i].phase = "confirming"
        \/ machine[i].phase = "waiting" /\ machine[i].age >= SUPPRESSION_WAIT)
       => \A j \in Node : ReportedSince(i, j) => j \in backed[i]
  BY DEF TakeoverInv, TypeOK, FreshIsBacked, ReportedSince, Phase
<1>17. m1.phase = "backing_off" => backed'[i] # {}
  <2> SUFFICES ASSUME m1.phase = "backing_off" PROVE backed'[i] # {}
    OBVIOUS
  <2>1. backed'[i] = backed[i]
    BY <1>9
  <2>2. CASE m1 = machine[i]
    BY <2>1, <2>2 DEF TakeoverInv, NeverOneSuspicion, Phase
  <2>3. CASE /\ Judged(i)
             /\ \/ machine[i].phase = "confirming"
                \/ machine[i].phase = "waiting" /\ machine[i].age >= SUPPRESSION_WAIT
    <3>1. PICK j \in Peers[i] : Testifies(i, j) /\ table[i][j].says = "down"
      BY <2>3 DEF Judged, Witnesses
    <3>2. j \in Node /\ ReportedSince(i, j)
      BY <3>1 DEF Testifies, ReportedSince
    <3> QED
      BY <2>1, <2>3, <3>2, <1>16
  <2> QED
    BY <1>14, <2>2, <2>3
<1>18. TypeOK'
  <2>1. machine' \in [Node -> Machine]
    BY <1>1, <1>5 DEF TakeoverInv, TypeOK, Machine, m2, m1, stoodIn
  <2>2. mail' \subseteq Node /\ heard' \subseteq Node /\ held' \subseteq Node
    BY <1>1 DEF TakeoverInv, TypeOK, Broadcast, AfterStandIn
  <2>3. backed' \in [Node -> SUBSET Node] /\ acted' \subseteq Threads
    BY <1>1 DEF TakeoverInv, TypeOK, Threads
  <2> QED
    BY <1>1, <2>1, <2>2, <2>3 DEF TakeoverInv, TypeOK, Machine
<1>19. FreshIsBacked'
  <2> SUFFICES ASSUME NEW k \in Node, NEW j \in Node, ReportedSince(k, j)'
               PROVE  /\ Phase(k)' = "waiting" /\ table'[k][j].age < machine'[k].age => j \in backed'[k]
                      /\ Phase(k)' = "confirming" => j \in backed'[k]
    BY DEF FreshIsBacked
  <2>1. ReportedSince(k, j)
    BY <1>10 DEF ReportedSince
  <2>2. CASE k # i
    BY <2>1, <2>2, <1>6, <1>7, <1>10 DEF TakeoverInv, FreshIsBacked, Phase
  <2>3. CASE k = i
    <3>1. CASE m1.phase = "confirming"
      <4>1. j \in backed[i]
        BY <3>1, <2>1, <2>3, <1>12, <1>16
      <4>2. backed'[i] = backed[i]
        BY <3>1, <1>9
      <4> QED
        BY <4>1, <4>2, <2>3
    <3>2. CASE m1.phase = "waiting" /\ m1.age # 0
      <4>1. m2 = m1
        BY <3>2, <1>15 DEF m2
      <4>2. m2 = machine[i] /\ backed'[i] = backed[i]
        BY <3>2, <4>1, <1>9, <1>13
      <4> QED
        BY <2>1, <2>3, <4>2, <1>6, <1>10 DEF TakeoverInv, FreshIsBacked, Phase
    <3>3. CASE m1.phase = "waiting" /\ m1.age = 0
      <4>1. m2 = m1
        BY <3>3, <1>15 DEF m2
      <4>2. table[i][j].age \in Nat
        BY DEF TakeoverInv, TypeOK
      <4> QED
        BY <2>3, <3>3, <4>1, <4>2, <1>6, <1>10 DEF Phase
    <3>4. CASE m1.phase \notin {"waiting", "confirming"}
      <4>1. m2.phase \notin {"waiting", "confirming"}
        BY <3>4 DEF m2, Entered
      <4> QED
        BY <2>3, <4>1, <1>6 DEF Phase
    <3> QED
      BY <3>1, <3>2, <3>3, <3>4
  <2> QED
    BY <2>2, <2>3
<1>20. NeverOneSuspicion'
  <2> SUFFICES ASSUME NEW k \in Node, Phase(k)' \in {"backing_off", "standing_in"}
               PROVE  backed'[k] # {}
    BY DEF NeverOneSuspicion
  <2>1. CASE k # i
    BY <2>1, <1>6, <1>7 DEF TakeoverInv, NeverOneSuspicion, Phase
  <2>2. CASE k = i
    <3>1. m1.phase \in {"backing_off", "standing_in"}
      BY <2>2, <1>6, <1>15 DEF Phase, m2
    <3>2. CASE m1.phase = "backing_off"
      BY <2>2, <3>2, <1>17
    <3>3. CASE m1.phase = "standing_in"
      <4>1. backed'[i] = backed[i] /\ machine[i].phase = "standing_in"
        BY <3>3, <1>9, <1>11
      <4> QED
        BY <2>2, <4>1 DEF TakeoverInv, NeverOneSuspicion, Phase
    <3> QED
      BY <3>1, <3>2, <3>3
  <2> QED
    BY <2>1, <2>2
<1>21. StandsInFirst'
  <2> SUFFICES ASSUME NEW k \in Node, Phase(k)' = "standing_in"
               PROVE  is_first_in_line(k)
    BY DEF StandsInFirst, is_first_in_line
  <2>1. CASE k # i
    BY <2>1, <1>6 DEF TakeoverInv, StandsInFirst, Phase
  <2>2. CASE k = i /\ stoodIn
    BY <2>2, <1>15
  <2>3. CASE k = i /\ ~stoodIn
    <3>1. m1.phase = "standing_in"
      BY <2>3, <1>6 DEF Phase, m2
    <3> QED
      BY <2>3, <3>1, <1>11 DEF TakeoverInv, StandsInFirst, Phase
  <2> QED
    BY <2>1, <2>2, <2>3
<1>22. FramesFromAhead'
  <2>1. heard' \subseteq heard
    BY <1>1
  <2>2. CASE ~stoodIn
    <3>1. mail' = mail
      BY <2>2, <1>1 DEF stoodIn, m1
    <3> QED
      BY <2>1, <3>1 DEF TakeoverInv, FramesFromAhead, is_first_in_line
  <2>3. CASE stoodIn
    <3>1. mail' = mail \cup Broadcast(i)
      BY <2>3, <1>1 DEF stoodIn, m1
    <3>2. \A j \in Broadcast(i) : ~is_first_in_line(j)
      BY <2>3, <1>15, BroadcastAhead
    <3> QED
      BY <2>1, <3>1, <3>2 DEF TakeoverInv, FramesFromAhead, is_first_in_line
  <2> QED
    BY <2>2, <2>3
<1>23. HeldOnlyStandingIn'
  <2> SUFFICES ASSUME NEW k \in held' PROVE Phase(k)' = "standing_in"
    BY DEF HeldOnlyStandingIn
  <2>0. k \in Node
    BY <1>18 DEF TypeOK
  <2>1. CASE k # i
    <3>1. k \in held
      BY <2>1, <1>1 DEF AfterStandIn
    <3> QED
      BY <2>0, <2>1, <3>1, <1>6 DEF TakeoverInv, HeldOnlyStandingIn, Phase
  <2>2. CASE k = i /\ stoodIn
    BY <2>2, <1>6 DEF Phase, m2, Entered
  <2>3. CASE k = i /\ ~stoodIn
    <3>1. i \in held /\ ~closing
      BY <2>3, <1>1 DEF stoodIn, m1
    <3>2. machine[i].phase = "standing_in" /\ i \notin heard
      BY <3>1 DEF TakeoverInv, HeldOnlyStandingIn, StandsInFirst, FramesFromAhead, Phase
    <3>3. m0 = machine[i]
      BY <3>2 DEF m0
    <3>4. observed = machine[i]
      BY <3>1, <3>2, <3>3 DEF observed, closing, seen, reachable, MustClose, Observe
    <3>5. m1 = machine[i]
      BY <3>2, <3>4 DEF m1, Confirm
    <3> QED
      BY <2>3, <3>2, <3>5, <1>6 DEF m2, Phase
  <2> QED
    BY <2>1, <2>2, <2>3
<1> QED
  BY <1>18, <1>19, <1>20, <1>21, <1>22, <1>23 DEF TakeoverInv

-----------------------------------------------------------------------------
(* The inductive invariant of the suppression machine. *)
THEOREM TakeoverInvariant == Spec => []TakeoverInv
<1>1. Init => TakeoverInv
  BY InitTakeover
<1>2. TakeoverInv /\ [Next]_vars => TakeoverInv'
  <2> SUFFICES ASSUME TakeoverInv, [Next]_vars PROVE TakeoverInv'
    OBVIOUS
  <2>1. CASE UNCHANGED vars
    BY <2>1 DEF vars, TakeoverInv, TypeOK, FreshIsBacked, NeverOneSuspicion, StandsInFirst,
                FramesFromAhead, HeldOnlyStandingIn, ReportedSince, Phase, is_first_in_line
  <2>2. CASE Next
    BY <2>2, FlipKeeps, TickKeeps, ProbeKeeps, ReceiveKeeps, TickerKeeps, RestartKeeps
       DEF Next, SteadyNext, Thread
  <2> QED
    BY <2>1, <2>2
<1> QED
  BY <1>1, <1>2, PTL DEF Spec

(* Nothing fires on one node's suspicion, whatever the network does. *)
THEOREM NothingOnOneSuspicion == Spec => []NeverOneSuspicion
<1>1. TakeoverInv => NeverOneSuspicion
  BY DEF TakeoverInv
<1> QED
  BY <1>1, TakeoverInvariant, PTL

(* Two stand-ins do not know each other, whatever the peers.json files say. *)
THEOREM RivalsNeverMeet == Spec => []RivalsAreStrangers
<1>1. TakeoverInv => RivalsAreStrangers
  BY TakeoverAssumption DEF TakeoverInv, StandsInFirst, RivalsAreStrangers, is_first_in_line
<1> QED
  BY <1>1, TakeoverInvariant, PTL

(* A workgroup whose centre sends no takeover of its own leaves no segment open
   by a change of phase. *)
THEOREM YieldingClosesFirst == Spec => []HeldOnlyStandingIn
<1>1. TakeoverInv => HeldOnlyStandingIn
  BY DEF TakeoverInv
<1> QED
  BY <1>1, TakeoverInvariant, PTL


-----------------------------------------------------------------------------
(* SegmentDelivery: what reaches the centre's chain, for any build of the   *)
(* sender and chains of any length.                                         *)
CONSTANTS Versions, MaxChain
VARIABLES chain, owner, opened_id, closed_id, span, sent, carries, shared, net, disturbed,
          inbox, centre, job, row, file, verdict, merged

D == INSTANCE SegmentDelivery

(* A set of numbers has a least element.                                    *)
LEMMA Least ==
    ASSUME NEW S, S \subseteq Nat, S # {}
    PROVE  \E x \in S : \A y \in S : x <= y
<1>1. PICK x \in S : \A y \in S : ~(<<y, x>> \in OpToRel(<, Nat))
  BY NatLessThanWellFounded, WFMin, Zenon
<1>2. \A y \in S : y < x => <<y, x>> \in OpToRel(<, Nat)
  BY DEF OpToRel
<1>3. \A y \in S : ~(y < x) /\ x \in Nat /\ y \in Nat
  BY <1>1, <1>2, Zenon
<1>4. \A y \in S : x <= y
  BY <1>3
<1> QED
  BY <1>4

(* Frames that can be put in order: finitely many, each with a position of  *)
(* its own; and those up to a position.                                     *)
Sortable(F, n) ==
    /\ IsFiniteSet(F) /\ \A f \in F : f.index \in 1 .. n
    /\ \A f, g \in F : f.index = g.index => f = g

UpTo(F, i) == {g \in F : g.index <= i}

LEMMA UpToGrows ==
    ASSUME NEW F, NEW n \in Nat, Sortable(F, n), NEW i \in Nat
    PROVE  /\ IsFiniteSet(UpTo(F, i)) /\ Cardinality(UpTo(F, i)) \in Nat
           /\ \A f \in F : f.index = i + 1 =>
                Cardinality(UpTo(F, i + 1)) = Cardinality(UpTo(F, i)) + 1
           /\ (\A f \in F : f.index # i + 1) => UpTo(F, i + 1) = UpTo(F, i)
<1>1. IsFiniteSet(UpTo(F, i)) /\ Cardinality(UpTo(F, i)) \in Nat
  BY FS_Subset, FS_CardinalityType DEF Sortable, UpTo
<1>2. ASSUME NEW f \in F, f.index = i + 1
      PROVE  Cardinality(UpTo(F, i + 1)) = Cardinality(UpTo(F, i)) + 1
  <2>1. UpTo(F, i + 1) = UpTo(F, i) \cup {f} /\ f \notin UpTo(F, i)
    BY <1>2 DEF Sortable, UpTo
  <2> QED
    BY <1>1, <2>1, FS_AddElement
<1>3. (\A f \in F : f.index # i + 1) => UpTo(F, i + 1) = UpTo(F, i)
  BY DEF Sortable, UpTo
<1> QED
  BY <1>1, <1>2, <1>3

(* Every place of the list has its frame.                                   *)
LEMMA RankReached ==
    ASSUME NEW F, NEW n \in Nat, Sortable(F, n), NEW k \in 1 .. Cardinality(F)
    PROVE  \E f \in F : Cardinality(UpTo(F, f.index)) = k
<1>1. Cardinality(F) \in Nat
  BY FS_CardinalityType DEF Sortable
<1> DEFINE Reached == {i \in Nat : Cardinality(UpTo(F, i)) >= k}
<1>2. n \in Reached
  <2>1. UpTo(F, n) = F
    BY DEF UpTo, Sortable
  <2> QED
    BY <1>1, <2>1
<1>3. PICK i \in Reached : \A j \in Reached : i <= j
  BY <1>2, Least
<1>4. i # 0
  <2>1. UpTo(F, 0) = {}
    BY DEF Sortable, UpTo
  <2>2. Cardinality(UpTo(F, 0)) = 0
    BY <2>1, FS_EmptySet
  <2> QED
    BY <1>1, <1>3, <2>2
<1>5. i - 1 \in Nat /\ i - 1 \notin Reached
  BY <1>3, <1>4
<1>6. Cardinality(UpTo(F, i - 1)) < k /\ Cardinality(UpTo(F, i)) >= k
  BY <1>1, <1>3, <1>5, UpToGrows
<1>7. PICK f \in F : f.index = i
  BY <1>1, <1>5, <1>6, UpToGrows
<1>8. Cardinality(UpTo(F, i)) = Cardinality(UpTo(F, i - 1)) + 1
  BY <1>5, <1>7, UpToGrows
<1>9. Cardinality(UpTo(F, i)) = k
  <2> DEFINE before == Cardinality(UpTo(F, i - 1))
  <2>1. before \in Nat
    BY <1>5, UpToGrows
  <2>2. before < k /\ Cardinality(UpTo(F, i)) = before + 1 /\ Cardinality(UpTo(F, i)) >= k
    BY <1>6, <1>8
  <2> HIDE DEF before
  <2>3. k \in Nat
    BY <1>1
  <2> QED
    BY <2>1, <2>2, <2>3
<1> QED
  BY <1>7, <1>9

LEMMA SameNumber == \A X : D!Cardinality(X) = Cardinality(X)
BY DEF D!Cardinality, Cardinality

(* The list has every frame of the set at the place of its rank.            *)
LEMMA Listed ==
    ASSUME NEW F, NEW n \in Nat, Sortable(F, n)
    PROVE  /\ Cardinality(F) \in Nat
           /\ DOMAIN D!ByIndex(F) = 1 .. Cardinality(F)
           /\ Len(D!ByIndex(F)) = Cardinality(F)
           /\ \A k \in 1 .. Cardinality(F) :
                /\ D!ByIndex(F)[k] \in F
                /\ Cardinality(UpTo(F, D!ByIndex(F)[k].index)) = k
<1>1. Cardinality(F) \in Nat
  BY FS_CardinalityType DEF Sortable
<1>2. \A f \in F : D!Cardinality({g \in F : g.index <= f.index}) = Cardinality(UpTo(F, f.index))
  BY SameNumber DEF UpTo
<1>3. DOMAIN D!ByIndex(F) = 1 .. Cardinality(F) /\ Len(D!ByIndex(F)) = Cardinality(F)
  BY <1>1, SameNumber DEF D!ByIndex
<1>4. ASSUME NEW k \in 1 .. Cardinality(F)
      PROVE  /\ D!ByIndex(F)[k] \in F
             /\ Cardinality(UpTo(F, D!ByIndex(F)[k].index)) = k
  <2>1. \E f \in F : D!Cardinality({g \in F : g.index <= f.index}) = k
    BY <1>2, RankReached
  <2>2. D!ByIndex(F)[k] = CHOOSE f \in F : D!Cardinality({g \in F : g.index <= f.index}) = k
    BY SameNumber DEF D!ByIndex
  <2>3. /\ D!ByIndex(F)[k] \in F
        /\ D!Cardinality({g \in F : g.index <= D!ByIndex(F)[k].index}) = k
    BY <2>1, <2>2
  <2> QED
    BY <1>2, <2>3
<1> QED
  BY <1>1, <1>3, <1>4

(* When the positions are 1 to m, the list is in their order.               *)
LEMMA Whole ==
    ASSUME NEW F, NEW n \in Nat, Sortable(F, n), NEW m \in Nat,
           \A i \in 1 .. m : \E f \in F : f.index = i,
           \A f \in F : f.index <= m
    PROVE  /\ Cardinality(F) = m
           /\ \A k \in 1 .. m : D!ByIndex(F)[k].index = k
<1> DEFINE Off == {i \in 0 .. m : Cardinality(UpTo(F, i)) # i}
<1>1. Off = {}
  <2> SUFFICES ASSUME Off # {} PROVE FALSE
    OBVIOUS
  <2>1. PICK i \in Off : \A j \in Off : i <= j
    <3>1. Off \subseteq Nat
      OBVIOUS
    <3> HIDE DEF Off
    <3> QED
      BY <3>1, Least
  <2>2. i # 0
    <3>1. UpTo(F, 0) = {}
      BY DEF Sortable, UpTo
    <3> QED
      BY <3>1, FS_EmptySet
  <2>3. i - 1 \in Nat /\ i - 1 \notin Off /\ i \in 1 .. m
    BY <2>1, <2>2
  <2>4. PICK f \in F : f.index = i
    BY <2>3
  <2>5. Cardinality(UpTo(F, i)) = Cardinality(UpTo(F, i - 1)) + 1
    BY <2>3, <2>4, UpToGrows
  <2> QED
    BY <2>1, <2>3, <2>5
<1>2. UpTo(F, m) = F
  BY DEF UpTo
<1>3. Cardinality(F) = m
  BY <1>1, <1>2
<1>4. ASSUME NEW k \in 1 .. m PROVE D!ByIndex(F)[k].index = k
  <2> DEFINE j == D!ByIndex(F)[k].index
  <2>1. j \in 1 .. n /\ j <= m /\ Cardinality(UpTo(F, j)) = k
    BY <1>3, Listed DEF Sortable
  <2> HIDE DEF j
  <2>2. Cardinality(UpTo(F, j)) = j
    BY <1>1, <2>1
  <2> QED
    BY <2>1, <2>2 DEF j
<1> QED
  BY <1>3, <1>4

(* What verify_delivery tells of a list: every position once, in order.     *)
LEMMA Verified ==
    ASSUME NEW F, NEW n \in Nat, Sortable(F, n), NEW m \in Nat, Cardinality(F) = m,
           {D!ByIndex(F)[k].index : k \in DOMAIN D!ByIndex(F)} = 1 .. m
    PROVE  \A k \in 1 .. m : D!ByIndex(F)[k].index = k
<1>1. \A i \in 1 .. m : \E f \in F : f.index = i
  BY Listed
<1>2. ASSUME NEW f \in F PROVE f.index <= m
  <2> DEFINE c == Cardinality(UpTo(F, f.index))
  <2>1. f.index \in Nat /\ f.index \in 1 .. n
    BY DEF Sortable
  <2>2. IsFiniteSet(UpTo(F, f.index)) /\ c \in Nat
    BY <2>1, UpToGrows
  <2>3. c # 0
    BY <2>1, <2>2, FS_EmptySet DEF UpTo
  <2>4. c <= m
    BY FS_Subset DEF Sortable, UpTo
  <2>5. c \in 1 .. m
    BY <2>2, <2>3, <2>4
  <2> DEFINE g == D!ByIndex(F)[c]
  <2>6. g \in F /\ Cardinality(UpTo(F, g.index)) = c /\ g.index \in 1 .. m
    BY <2>5, Listed
  <2> HIDE DEF g
  <2>7. g.index \in Nat /\ IsFiniteSet(UpTo(F, g.index))
    BY <2>6, UpToGrows
  <2>8. CASE f.index <= g.index
    BY <2>1, <2>6, <2>8
  <2>9. CASE g.index < f.index
    <3>1. UpTo(F, g.index) \subseteq UpTo(F, f.index) /\ f \in UpTo(F, f.index) \ UpTo(F, g.index)
      BY <2>1, <2>7, <2>9 DEF UpTo, Sortable
    <3> QED
      BY <3>1, <2>2, <2>6, FS_Subset
  <2> QED
    BY <2>1, <2>7, <2>8, <2>9
<1> QED
  BY <1>1, <1>2, Whole

(* The inductive invariant.  Until the span is cut, nothing has been sent   *)
(* (NothingSent); afterwards the span is the ids that follow opened_id, and *)
(* every frame, wherever it is, is one of the stream's (Honest).  There is  *)
(* one end frame, and once it was taken the inbox is never used again       *)
(* (OneEnd), so what the centre judges is a list of frames of this stream   *)
(* (Judging).  As long as nothing was lost, the frames received and those   *)
(* on their way are the stream (Intact).                                    *)
Early == {"candidate", "opened", "standing", "closed", "ended"}
EventFrames == {D!EventFrame(k) : k \in 1 .. Len(span)}

DeliveryTyped ==
    /\ chain \in Seq({"event", "opened", "closed"}) /\ Len(chain) <= MaxChain
    /\ owner \in Early \cup {"sending", "delivered", "gave_up", "down"}
    /\ opened_id \in 0 .. Len(chain) /\ closed_id \in 0 .. Len(chain)
    /\ span \in Seq(D!Id) /\ sent \in 0 .. Len(span)
    /\ shared \in BOOLEAN /\ disturbed \in BOOLEAN
    /\ net \in Seq(EventFrames \cup {D!DoneFrame})
    /\ inbox \subseteq EventFrames
    /\ centre \in {"reading", "rebuilding", "judging", "merging"}
    /\ row \in {"none", "closed", "folded", "forked"}
    /\ file \in Seq(D!Id) /\ merged \in Seq(D!Id)

NothingSent ==
    owner \in Early =>
        /\ span = << >> /\ sent = 0 /\ net = << >> /\ inbox = {} /\ file = << >>
        /\ merged = << >> /\ row = "none" /\ verdict = D!NoVerdict /\ centre = "reading"

SpanFollows == \A k \in 1 .. Len(span) : span[k] = opened_id + k

Ended == centre # "reading" \/ row # "none" \/ verdict # D!NoVerdict

OneEnd ==
    /\ \A i, j \in 1 .. Len(net) : net[i].kind = "done" /\ net[j].kind = "done" => i = j
    /\ \A i \in 1 .. Len(net) : net[i].kind = "done" => owner = "delivered" /\ ~Ended
    /\ Ended => owner = "delivered"

(* The list the centre works on.                                            *)
FromFrames(events) ==
    \E F \in SUBSET EventFrames : Sortable(F, Len(span)) /\ events = D!ByIndex(F)

Judging ==
    /\ centre # "reading" =>
         /\ job.done = D!DoneFrame /\ FromFrames(job.events) /\ row = "closed" /\ merged = << >>
    /\ centre \in {"rebuilding", "judging"} => verdict = D!NoVerdict
    /\ centre \in {"judging", "merging"} => file = D!Ids(job.events)
    /\ centre = "merging" => verdict.answer = "verified"
    /\ verdict = D!NoVerdict => merged = << >> /\ row \in {"none", "closed"}

(* The stream as long as it is whole.                                       *)
Whither(r) ==
    /\ inbox = {D!EventFrame(k) : k \in 1 .. r}
    /\ Len(net) = sent - r + (IF owner = "delivered" THEN 1 ELSE 0)
    /\ \A i \in 1 .. (sent - r) : net[i] = D!EventFrame(r + i)
    /\ owner = "delivered" => sent = Len(span) /\ net[Len(net)] = D!DoneFrame

Intact ==
    ~disturbed =>
        /\ ~Ended => \E r \in 0 .. sent : Whither(r)
        /\ centre \in {"rebuilding", "judging"} =>
             /\ Len(job.events) = Len(span) /\ DOMAIN job.events = 1 .. Len(span)
             /\ \A k \in 1 .. Len(span) : job.events[k] = D!EventFrame(k)

(* Where the segment lies on a chain only its owner writes.                 *)
OnlyAt(marks) == \A n \in 1 .. Len(chain) : n \notin marks => chain[n] = "event"
Opens(n) == n \in 1 .. Len(chain) /\ chain[n] = "opened"
Closes(n) == n \in 1 .. Len(chain) /\ chain[n] = "closed"

OwnChain ==
    ~shared =>
        /\ owner = "candidate" => OnlyAt({})
        /\ owner = "opened" => Opens(Len(chain)) /\ OnlyAt({Len(chain)})
        /\ owner = "standing" => Opens(opened_id) /\ OnlyAt({opened_id})
        /\ owner = "closed" =>
             /\ Opens(opened_id) /\ Closes(Len(chain)) /\ OnlyAt({opened_id, Len(chain)})
             /\ opened_id < Len(chain)
        /\ owner \in {"ended", "sending", "delivered"} =>
             /\ Opens(opened_id) /\ Closes(closed_id) /\ OnlyAt({opened_id, closed_id})
             /\ opened_id < closed_id
        /\ owner \in {"sending", "delivered"} => Len(span) = closed_id - 1 - opened_id

DeliveryIInv ==
    /\ D!DeliveryAssumption /\ DeliveryTyped /\ NothingSent /\ SpanFollows
    /\ IsFiniteSet(inbox) /\ OneEnd /\ Judging /\ Intact /\ OwnChain
    /\ D!CheckedIsWhole /\ D!RefusedStaysOut /\ D!RefusedOnlyIfLost
    /\ verdict.answer = "rejected" => centre = "reading"

(* The part of it that is not about the chain.                              *)
StreamPart ==
    /\ NothingSent /\ SpanFollows /\ IsFiniteSet(inbox) /\ OneEnd /\ Judging /\ Intact
    /\ D!CheckedIsWhole /\ D!RefusedStaysOut /\ D!RefusedOnlyIfLost
    /\ verdict.answer = "rejected" => centre = "reading"

LEMMA DeliveryInit == ASSUME D!DeliveryAssumption, D!Init PROVE DeliveryIInv
<1>1. /\ chain = <<"event">> /\ owner = "candidate" /\ opened_id = 0 /\ closed_id = 0
      /\ span = << >> /\ sent = 0 /\ net = << >> /\ disturbed = FALSE /\ inbox = {}
      /\ centre = "reading" /\ job = D!NoJob /\ row = "none" /\ file = << >>
      /\ verdict = D!NoVerdict /\ merged = << >> /\ shared \in BOOLEAN
  BY DEF D!Init
<1>2. D!NoVerdict.answer = "none"
  BY DEF D!NoVerdict
<1>3. DeliveryTyped
  <2>1. chain \in Seq({"event", "opened", "closed"}) /\ Len(chain) = 1
    BY <1>1
  <2>2. /\ span \in Seq(D!Id) /\ file \in Seq(D!Id) /\ merged \in Seq(D!Id)
        /\ net \in Seq(EventFrames \cup {D!DoneFrame}) /\ Len(span) = 0
    BY <1>1
  <2>3. 1 <= MaxChain /\ 0 \in 0 .. Len(chain) /\ 0 \in 0 .. Len(span)
    BY <2>1, <2>2 DEF D!DeliveryAssumption
  <2>4. inbox \subseteq EventFrames
    BY <1>1
  <2>5. disturbed \in BOOLEAN
    BY <1>1
  <2> QED
    BY <1>1, <2>1, <2>2, <2>3, <2>4, <2>5 DEF DeliveryTyped, Early
<1>4. OwnChain
  BY <1>1 DEF OwnChain, OnlyAt
<1>5. Intact
  <2>1. Whither(0)
    BY <1>1 DEF Whither
  <2> QED
    BY <1>1, <2>1 DEF Intact
<1>6. IsFiniteSet(inbox)
  BY <1>1, FS_EmptySet
<1> QED
  BY <1>1, <1>2, <1>3, <1>4, <1>5, <1>6
  DEF DeliveryIInv, NothingSent, SpanFollows, OneEnd, Ended, Judging, D!CheckedIsWhole,
      D!RefusedStaysOut, D!RefusedOnlyIfLost

(* A step of the owner before the first frame, of another writer, or a      *)
(* crash of the owner's process: the stream is not touched.                 *)
LEMMA StreamKeeps ==
    ASSUME DeliveryIInv, UNCHANGED <<span, sent, carries, shared, net, disturbed, D!centreVars>>,
           owner' = owner \/ (owner # "delivered" /\ owner' \notin {"delivered", "sending"}),
           owner' \in Early => owner \in Early,
           opened_id' = opened_id \/ owner \in Early
    PROVE  StreamPart'
<1>1. /\ UNCHANGED <<span, sent, carries, shared, net, disturbed, inbox, centre, job, row, file,
                     verdict, merged>>
  BY DEF D!centreVars
<1>2. \A k : D!EventFrame(k)' = D!EventFrame(k)
  BY <1>1 DEF D!EventFrame
<1>3. EventFrames' = EventFrames
  BY <1>1, <1>2 DEF EventFrames
<1>4. Ended' = Ended
  BY <1>1 DEF Ended
<1>5. owner # "delivered" => ~Ended
  BY DEF DeliveryIInv, OneEnd
<1>6. NothingSent' /\ SpanFollows'
  BY <1>1 DEF DeliveryIInv, NothingSent, SpanFollows
<1>7. OneEnd'
  BY <1>1, <1>4, <1>5 DEF DeliveryIInv, OneEnd
<1>8. centre # "reading" => D!DoneFrame' = D!DoneFrame
  BY <1>1 DEF DeliveryIInv, NothingSent, D!DoneFrame
<1>9. Judging'
  <2>1. centre # "reading" /\ FromFrames(job.events) => FromFrames(job.events)'
    BY <1>1, <1>3 DEF FromFrames
  <2> QED
    BY <1>1, <1>8, <2>1 DEF DeliveryIInv, Judging
<1>10. owner # "delivered" \/ D!DoneFrame' = D!DoneFrame
  BY <1>1 DEF D!DoneFrame, Early
<1>11. Intact'
  <2>1. \A r \in 0 .. sent : Whither(r) => Whither(r)'
    BY <1>1, <1>2, <1>10 DEF Whither
  <2> QED
    BY <1>1, <1>2, <1>4, <2>1 DEF DeliveryIInv, Intact
<1> QED
  BY <1>1, <1>6, <1>7, <1>9, <1>11
  DEF StreamPart, DeliveryIInv, D!CheckedIsWhole, D!RefusedStaysOut, D!RefusedOnlyIfLost

LEMMA TypedKeeps ==
    ASSUME DeliveryIInv, UNCHANGED <<span, sent, carries, shared, net, disturbed, D!centreVars>>,
           chain' \in Seq({"event", "opened", "closed"}), Len(chain) <= Len(chain'),
           Len(chain') <= MaxChain,
           owner' \in Early \cup {"sending", "delivered", "gave_up", "down"},
           opened_id' \in 0 .. Len(chain'), closed_id' \in 0 .. Len(chain'),
           opened_id' = opened_id \/ owner \in Early
    PROVE  DeliveryTyped'
<1>1. /\ UNCHANGED <<span, sent, carries, shared, net, disturbed, inbox, centre, job, row, file,
                     verdict, merged>>
  BY DEF D!centreVars
<1>2. EventFrames' = EventFrames
  BY <1>1 DEF EventFrames, D!EventFrame
<1>3. net' \in Seq(EventFrames \cup {D!DoneFrame})'
  <2>1. CASE opened_id' = opened_id
    <3>1. D!DoneFrame' = D!DoneFrame
      BY <1>1, <2>1 DEF D!DoneFrame
    <3> QED
      BY <1>1, <1>2, <3>1 DEF DeliveryIInv, DeliveryTyped
  <2>2. CASE owner \in Early
    <3>1. net' = << >>
      BY <1>1, <2>2 DEF DeliveryIInv, NothingSent
    <3> QED
      BY <3>1
  <2> QED
    BY <2>1, <2>2
<1> QED
  BY <1>1, <1>2, <1>3 DEF DeliveryIInv, DeliveryTyped, D!Id

(* A row at the end of the chain leaves every row where it is.              *)
LEMMA Grown ==
    ASSUME DeliveryIInv, NEW kind \in {"event", "opened", "closed"}, D!Grow(kind)
    PROVE  /\ chain' \in Seq({"event", "opened", "closed"}) /\ Len(chain') = Len(chain) + 1
           /\ Len(chain') <= MaxChain /\ Len(chain) \in Nat
           /\ \A n \in 1 .. Len(chain) : chain'[n] = chain[n]
           /\ chain'[Len(chain) + 1] = kind
<1>1. chain \in Seq({"event", "opened", "closed"}) /\ Len(chain) < MaxChain /\ MaxChain \in Nat
      /\ chain' = Append(chain, kind)
  BY DEF DeliveryIInv, DeliveryTyped, D!Grow, D!DeliveryAssumption
<1> QED
  BY <1>1

LEMMA StepAppend ==
    ASSUME DeliveryIInv, D!OwnAppend \/ D!OtherAppend
    PROVE  DeliveryIInv'
<1>1. /\ D!Grow("event") /\ UNCHANGED <<owner, opened_id, closed_id>>
      /\ UNCHANGED <<span, sent, carries, shared, net, disturbed, D!centreVars>>
      /\ shared \/ owner \notin {"opened", "closed"}
  BY DEF D!OwnAppend, D!OtherAppend
<1>2. DeliveryTyped'
  BY <1>1, Grown, TypedKeeps DEF DeliveryIInv, DeliveryTyped
<1>3. StreamPart'
  BY <1>1, StreamKeeps
<1>4. OwnChain'
  <2>1. OnlyAt({opened_id}) => OnlyAt({opened_id})'
    BY <1>1, Grown DEF OnlyAt
  <2>2. OnlyAt({opened_id, closed_id}) => OnlyAt({opened_id, closed_id})'
    BY <1>1, Grown DEF OnlyAt
  <2>3. OnlyAt({}) => OnlyAt({})'
    BY <1>1, Grown DEF OnlyAt
  <2>4. /\ Opens(opened_id) => Opens(opened_id)'
        /\ Closes(closed_id) => Closes(closed_id)'
    BY <1>1, Grown DEF Opens, Closes
  <2> QED
    BY <1>1, <2>1, <2>2, <2>3, <2>4 DEF OwnChain, DeliveryIInv
<1> QED
  BY <1>2, <1>3, <1>4 DEF DeliveryIInv, StreamPart

LEMMA StepOpenSegment ==
    ASSUME DeliveryIInv, D!OpenSegment
    PROVE  DeliveryIInv'
<1>1. /\ D!Grow("opened") /\ owner = "candidate" /\ owner' = "opened"
      /\ UNCHANGED <<opened_id, closed_id>>
      /\ UNCHANGED <<span, sent, carries, shared, net, disturbed, D!centreVars>>
  BY DEF D!OpenSegment
<1>2. DeliveryTyped'
  BY <1>1, Grown, TypedKeeps DEF DeliveryIInv, DeliveryTyped, Early
<1>3. StreamPart'
  BY <1>1, StreamKeeps DEF Early
<1>4. OwnChain'
  BY <1>1, Grown DEF OwnChain, OnlyAt, Opens, DeliveryIInv
<1> QED
  BY <1>2, <1>3, <1>4 DEF DeliveryIInv, StreamPart

LEMMA StepReadOpenedId ==
    ASSUME DeliveryIInv, D!ReadOpenedId
    PROVE  DeliveryIInv'
<1>1. /\ owner = "opened" /\ owner' = "standing" /\ opened_id' = Len(chain)
      /\ UNCHANGED <<chain, closed_id>>
      /\ UNCHANGED <<span, sent, carries, shared, net, disturbed, D!centreVars>>
  BY DEF D!ReadOpenedId
<1>2. Len(chain) \in Nat /\ Len(chain) \in 0 .. Len(chain)
  BY DEF DeliveryIInv, DeliveryTyped
<1>3. DeliveryTyped'
  BY <1>1, <1>2, TypedKeeps DEF DeliveryIInv, DeliveryTyped, Early
<1>4. StreamPart'
  BY <1>1, StreamKeeps DEF Early
<1>5. OwnChain'
  BY <1>1 DEF OwnChain, OnlyAt, Opens, DeliveryIInv
<1> QED
  BY <1>3, <1>4, <1>5 DEF DeliveryIInv, StreamPart

LEMMA StepCloseSegment ==
    ASSUME DeliveryIInv, D!CloseSegment
    PROVE  DeliveryIInv'
<1>1. /\ D!Grow("closed") /\ owner = "standing" /\ owner' = "closed"
      /\ UNCHANGED <<opened_id, closed_id>>
      /\ UNCHANGED <<span, sent, carries, shared, net, disturbed, D!centreVars>>
  BY DEF D!CloseSegment
<1>2. DeliveryTyped'
  BY <1>1, Grown, TypedKeeps DEF DeliveryIInv, DeliveryTyped, Early
<1>3. StreamPart'
  BY <1>1, StreamKeeps DEF Early
<1>4. OwnChain'
  <2> SUFFICES ASSUME ~shared
               PROVE  /\ Opens(opened_id)' /\ Closes(Len(chain))' /\ (opened_id < Len(chain))'
                      /\ OnlyAt({opened_id, Len(chain)})'
    BY <1>1 DEF OwnChain, Early
  <2>1. Opens(opened_id) /\ OnlyAt({opened_id})
    BY <1>1 DEF OwnChain, DeliveryIInv
  <2> QED
    BY <1>1, <2>1, Grown DEF OnlyAt, Opens, Closes
<1> QED
  BY <1>2, <1>3, <1>4 DEF DeliveryIInv, StreamPart

LEMMA StepReadClosedId ==
    ASSUME DeliveryIInv, D!ReadClosedId
    PROVE  DeliveryIInv'
<1>1. /\ owner = "closed" /\ owner' = "ended" /\ closed_id' = Len(chain)
      /\ UNCHANGED <<chain, opened_id>>
      /\ UNCHANGED <<span, sent, carries, shared, net, disturbed, D!centreVars>>
  BY DEF D!ReadClosedId
<1>2. Len(chain) \in Nat /\ Len(chain) \in 0 .. Len(chain)
  BY DEF DeliveryIInv, DeliveryTyped
<1>3. DeliveryTyped'
  BY <1>1, <1>2, TypedKeeps DEF DeliveryIInv, DeliveryTyped, Early
<1>4. StreamPart'
  BY <1>1, StreamKeeps DEF Early
<1>5. OwnChain'
  BY <1>1 DEF OwnChain, OnlyAt, Opens, Closes, DeliveryIInv
<1> QED
  BY <1>3, <1>4, <1>5 DEF DeliveryIInv, StreamPart

LEMMA StepGivesUp ==
    ASSUME DeliveryIInv, D!StoreFails \/ D!OwnerCrash
    PROVE  DeliveryIInv'
<1>1. /\ owner' \in {"gave_up", "down"} /\ owner # "delivered"
      /\ UNCHANGED <<chain, opened_id, closed_id>>
      /\ UNCHANGED <<span, sent, carries, shared, net, disturbed, D!centreVars>>
  BY DEF D!StoreFails, D!OwnerCrash
<1>2. DeliveryTyped'
  BY <1>1, TypedKeeps DEF DeliveryIInv, DeliveryTyped
<1>3. StreamPart'
  BY <1>1, StreamKeeps DEF Early
<1>4. OwnChain'
  BY <1>1 DEF OwnChain
<1> QED
  BY <1>2, <1>3, <1>4 DEF DeliveryIInv, StreamPart

(* Frames and predicates on them that a step of the centre leaves alone.    *)
LEMMA SameFrames ==
    ASSUME UNCHANGED <<span, opened_id, carries>>
    PROVE  /\ EventFrames' = EventFrames /\ D!DoneFrame' = D!DoneFrame
           /\ \A k : D!EventFrame(k)' = D!EventFrame(k)
           /\ \A events : FromFrames(events)' = FromFrames(events)
<1>1. \A k : D!EventFrame(k)' = D!EventFrame(k)
  BY DEF D!EventFrame
<1>2. EventFrames' = EventFrames
  BY <1>1 DEF EventFrames
<1>3. D!DoneFrame' = D!DoneFrame
  BY DEF D!DoneFrame
<1>4. \A events : FromFrames(events)' = FromFrames(events)
  BY <1>2 DEF FromFrames
<1> QED
  BY <1>1, <1>2, <1>3, <1>4

(* What the frames of a stream look like.                                   *)
LEMMA FramesAre ==
    ASSUME DeliveryIInv
    PROVE  /\ D!DoneFrame.kind = "done" /\ D!DoneFrame.total = Len(span)
           /\ \A k : D!EventFrame(k).kind = "event" /\ D!EventFrame(k).index = k
                     /\ D!EventFrame(k).id = span[k]
           /\ \A f \in EventFrames : /\ f.kind = "event" /\ f.index \in 1 .. Len(span)
                                     /\ f = D!EventFrame(f.index)
           /\ \A F \in SUBSET EventFrames : IsFiniteSet(F) => Sortable(F, Len(span))
           /\ Len(span) \in Nat /\ sent \in Nat /\ Len(net) \in Nat
<1>1. /\ D!DoneFrame.kind = "done" /\ D!DoneFrame.total = Len(span)
  BY DEF D!DoneFrame
<1>2. \A k : D!EventFrame(k).kind = "event" /\ D!EventFrame(k).index = k
             /\ D!EventFrame(k).id = span[k]
  BY DEF D!EventFrame
<1>3. \A f \in EventFrames : /\ f.kind = "event" /\ f.index \in 1 .. Len(span)
                             /\ f = D!EventFrame(f.index)
  BY <1>2 DEF EventFrames
<1>4. Len(span) \in Nat /\ sent \in Nat /\ Len(net) \in Nat
  BY DEF DeliveryIInv, DeliveryTyped
<1>5. ASSUME NEW F \in SUBSET EventFrames, IsFiniteSet(F) PROVE Sortable(F, Len(span))
  <2>1. \A f \in F : f.index \in 1 .. Len(span) /\ f = D!EventFrame(f.index)
    BY <1>3
  <2>2. \A f, g \in F : f.index = g.index => f = g
    BY <2>1
  <2> QED
    BY <1>5, <2>1, <2>2 DEF Sortable
<1> QED
  BY <1>1, <1>2, <1>3, <1>4, <1>5

(* The span is cut: nothing is on its way yet, so the frames are those of   *)
(* the new span from here on.                                               *)
LEMMA StepCutSpan ==
    ASSUME DeliveryIInv, D!CutSpan
    PROVE  DeliveryIInv'
<1> DEFINE n == closed_id - 1 - opened_id
<1>1. /\ owner = "ended" /\ owner' = "sending"
      /\ UNCHANGED <<chain, opened_id, closed_id, sent, carries, shared, net, disturbed>>
      /\ UNCHANGED <<inbox, centre, job, row, file, verdict, merged>>
      /\ span' = IF opened_id + 1 <= closed_id - 1
                 THEN [k \in 1 .. n |-> opened_id + k] ELSE << >>
  <2>1. opened_id \in Nat /\ closed_id \in Nat
    BY DEF DeliveryIInv, DeliveryTyped
  <2>2. opened_id + 1 <= closed_id - 1 =>
          D!events_in_range(opened_id + 1, closed_id - 1) = [k \in 1 .. n |-> opened_id + k]
    <3>1. closed_id - 1 + 1 - (opened_id + 1) = n
      BY <2>1
    <3>2. \A k \in 1 .. n : opened_id + 1 + k - 1 = opened_id + k
      BY <2>1
    <3> QED
      BY <3>1, <3>2 DEF D!events_in_range
  <2> QED
    BY <2>2 DEF D!CutSpan, D!centreVars
<1>2. /\ sent = 0 /\ net = << >> /\ inbox = {} /\ file = << >> /\ merged = << >>
      /\ row = "none" /\ verdict = D!NoVerdict /\ centre = "reading"
  BY <1>1 DEF DeliveryIInv, NothingSent, Early
<1>3. opened_id \in Nat /\ closed_id \in Nat /\ n \in Int /\ closed_id <= MaxChain /\ MaxChain \in Nat
  BY DEF DeliveryIInv, DeliveryTyped, D!DeliveryAssumption
<1>4. /\ span' \in Seq(D!Id) /\ Len(span') \in Nat
      /\ \A k \in 1 .. Len(span') : span'[k] = opened_id + k
      /\ opened_id < closed_id => Len(span') = n
  <2>1. CASE opened_id + 1 <= closed_id - 1
    <3>1. n \in Nat
      BY <1>3, <2>1
    <3>2. span' = [k \in 1 .. n |-> opened_id + k] /\ \A k \in 1 .. n : opened_id + k \in D!Id
      BY <1>1, <1>3, <2>1 DEF D!Id
    <3> HIDE DEF n
    <3>3. span' \in Seq(D!Id) /\ Len(span') = n
      BY <3>1, <3>2
    <3> QED
      BY <3>1, <3>2, <3>3
  <2>2. CASE ~(opened_id + 1 <= closed_id - 1)
    <3>1. span' = << >>
      BY <1>1, <2>2
    <3>2. opened_id < closed_id => n = 0
      BY <1>3, <2>2
    <3> QED
      BY <3>1, <3>2
  <2> QED
    BY <2>1, <2>2
<1> HIDE DEF n
<1>5. DeliveryTyped'
  <2>1. net' \in Seq(EventFrames \cup {D!DoneFrame})' /\ inbox' \subseteq EventFrames'
    BY <1>1, <1>2
  <2>2. sent' \in 0 .. Len(span')
    <3>1. sent' = 0
      BY <1>1, <1>2
    <3>2. Len(span') \in Nat
      BY <1>4
    <3> QED
      BY <3>1, <3>2
  <2> QED
    BY <1>1, <1>4, <2>1, <2>2 DEF DeliveryIInv, DeliveryTyped, Early, D!Id
<1>6. ~Ended /\ ~Ended'
  BY <1>1, <1>2 DEF Ended
<1>7. NothingSent' /\ SpanFollows' /\ OneEnd'
  <2>1. NothingSent'
    BY <1>1 DEF NothingSent, Early
  <2>2. SpanFollows'
    BY <1>1, <1>4 DEF SpanFollows
  <2>3. OneEnd'
    BY <1>1, <1>2, <1>6 DEF OneEnd
  <2> QED
    BY <2>1, <2>2, <2>3
<1>8. Judging'
  BY <1>1, <1>2 DEF Judging
<1>9. Intact'
  <2>1. inbox' = {D!EventFrame(k)' : k \in 1 .. 0}
    BY <1>1, <1>2
  <2>2. Whither(0)'
    BY <1>1, <1>2, <2>1 DEF Whither
  <2> QED
    BY <1>1, <1>2, <2>2 DEF Intact
<1>10. OwnChain'
  <2>1. OnlyAt({opened_id, closed_id})' = OnlyAt({opened_id, closed_id})
    BY <1>1 DEF OnlyAt
  <2>2. ~shared => /\ Opens(opened_id) /\ Closes(closed_id) /\ OnlyAt({opened_id, closed_id})
                   /\ opened_id < closed_id
    BY <1>1 DEF DeliveryIInv, OwnChain
  <2> QED
    BY <1>1, <1>4, <2>1, <2>2 DEF OwnChain, Opens, Closes, n
<1>11. IsFiniteSet(inbox')
  BY <1>1 DEF DeliveryIInv
<1>12. D!NoVerdict.answer = "none"
  BY DEF D!NoVerdict
<1> QED
  BY <1>1, <1>2, <1>5, <1>7, <1>8, <1>9, <1>10, <1>11, <1>12
  DEF DeliveryIInv, D!CheckedIsWhole, D!RefusedStaysOut, D!RefusedOnlyIfLost

(* What concerns the chain is not touched once the span is cut.             *)
LEMMA ChainKeeps ==
    ASSUME DeliveryIInv, UNCHANGED <<chain, opened_id, closed_id, span, carries, shared>>,
           owner' = owner \/ (owner = "sending" /\ owner' = "delivered")
    PROVE  /\ OwnChain' /\ SpanFollows' /\ (owner' \in Early <=> owner \in Early)
           /\ chain' \in Seq({"event", "opened", "closed"}) /\ Len(chain') <= MaxChain
           /\ owner' \in Early \cup {"sending", "delivered", "gave_up", "down"}
           /\ opened_id' \in 0 .. Len(chain') /\ closed_id' \in 0 .. Len(chain')
           /\ span' \in Seq(D!Id) /\ shared' \in BOOLEAN
<1>1. OwnChain'
  BY DEF DeliveryIInv, OwnChain, OnlyAt, Opens, Closes
<1>2. SpanFollows'
  BY DEF DeliveryIInv, SpanFollows
<1> QED
  BY <1>1, <1>2 DEF DeliveryIInv, DeliveryTyped, Early, D!Id

LEMMA StepSend ==
    ASSUME DeliveryIInv, D!Send
    PROVE  DeliveryIInv'
<1>1. /\ owner = "sending"
      /\ UNCHANGED <<chain, opened_id, closed_id, span, carries, shared>>
      /\ UNCHANGED <<inbox, centre, job, row, file, verdict, merged>>
      /\ \/ net' = Append(net, D!NextFrame) /\ disturbed' = disturbed
         \/ net' = net /\ disturbed' = TRUE
      /\ \/ sent < Len(span) /\ sent' = sent + 1 /\ owner' = owner
         \/ ~(sent < Len(span)) /\ owner' = "delivered" /\ sent' = sent
  BY DEF D!Send, D!centreVars
<1>2. /\ OwnChain' /\ SpanFollows'
      /\ chain' \in Seq({"event", "opened", "closed"}) /\ Len(chain') <= MaxChain
      /\ owner' \in Early \cup {"sending", "delivered", "gave_up", "down"}
      /\ opened_id' \in 0 .. Len(chain') /\ closed_id' \in 0 .. Len(chain')
      /\ span' \in Seq(D!Id) /\ shared' \in BOOLEAN
  BY <1>1, ChainKeeps
<1>3. /\ EventFrames' = EventFrames /\ D!DoneFrame' = D!DoneFrame
      /\ \A k : D!EventFrame(k)' = D!EventFrame(k)
  BY <1>1, SameFrames
<1>4. /\ sent \in Nat /\ Len(span) \in Nat /\ sent <= Len(span) /\ Len(net) \in Nat
      /\ net \in Seq(EventFrames \cup {D!DoneFrame}) /\ disturbed \in BOOLEAN
  BY DEF DeliveryIInv, DeliveryTyped
<1>5. ~Ended /\ ~Ended' /\ \A i \in 1 .. Len(net) : net[i].kind # "done"
  BY <1>1 DEF DeliveryIInv, OneEnd, Ended
<1>6. D!NextFrame \in EventFrames \cup {D!DoneFrame}
      /\ (sent < Len(span) => D!NextFrame = D!EventFrame(sent + 1) /\ D!NextFrame.kind = "event")
      /\ (~(sent < Len(span)) => D!NextFrame = D!DoneFrame)
  BY <1>4, FramesAre DEF D!NextFrame, EventFrames
<1>7. net' \in Seq(EventFrames \cup {D!DoneFrame})
  BY <1>1, <1>4, <1>6
<1>8. sent' \in 0 .. Len(span')
  BY <1>1, <1>4
<1>9. DeliveryTyped'
  BY <1>1, <1>2, <1>3, <1>4, <1>7, <1>8 DEF DeliveryIInv, DeliveryTyped, D!Id
<1>10. NothingSent'
  BY <1>1 DEF NothingSent, Early
<1>11. OneEnd'
  <2>1. ASSUME NEW i \in 1 .. Len(net'), net'[i].kind = "done"
        PROVE  i = Len(net) + 1 /\ owner' = "delivered"
    <3>1. CASE net' = net
      BY <1>5, <2>1, <3>1
    <3>2. CASE net' = Append(net, D!NextFrame)
      <4>1. i \in 1 .. Len(net) \/ i = Len(net) + 1
        BY <1>4, <3>2
      <4>2. i \in 1 .. Len(net) => net'[i] = net[i]
        BY <1>4, <3>2
      <4>3. i = Len(net) + 1 => net'[i] = D!NextFrame
        BY <1>4, <3>2
      <4> QED
        BY <1>1, <1>5, <1>6, <2>1, <4>1, <4>2, <4>3
    <3> QED
      BY <1>1, <3>1, <3>2
  <2> QED
    BY <1>5, <2>1 DEF OneEnd
<1>12. centre = "reading" /\ verdict = D!NoVerdict /\ row = "none"
  BY <1>5 DEF Ended
<1>13. Judging'
  BY <1>1, <1>12 DEF DeliveryIInv, Judging
<1>14. Intact'
  <2> SUFFICES ASSUME ~disturbed' PROVE \E r \in 0 .. sent' : Whither(r)'
    BY <1>1, <1>12 DEF Intact
  <2>1. ~disturbed /\ net' = Append(net, D!NextFrame)
    BY <1>1
  <2>2. PICK r \in 0 .. sent : Whither(r)
    BY <1>5, <2>1 DEF DeliveryIInv, Intact
  <2>3. /\ inbox' = {D!EventFrame(k) : k \in 1 .. r} /\ Len(net) = sent - r
        /\ \A i \in 1 .. (sent - r) : net[i] = D!EventFrame(r + i)
    BY <1>1, <1>4, <2>2 DEF Whither
  <2>4. /\ Len(net') = sent - r + 1 /\ net'[sent - r + 1] = D!NextFrame
        /\ \A i \in 1 .. (sent - r) : net'[i] = D!EventFrame(r + i)
    BY <1>4, <1>6, <2>1, <2>3
  <2>5. inbox' = {D!EventFrame(k)' : k \in 1 .. r}
    BY <1>3, <2>3
  <2>6. CASE sent < Len(span)
    <3>1. owner' # "delivered" /\ sent' = sent + 1
      BY <1>1, <2>6
    <3>2. ASSUME NEW i \in 1 .. (sent' - r) PROVE net'[i] = D!EventFrame(r + i)'
      <4>1. i \in 1 .. (sent - r) \/ i = sent - r + 1
        BY <1>4, <3>1
      <4>2. r + (sent - r + 1) = sent + 1
        BY <1>4
      <4>3. CASE i \in 1 .. (sent - r)
        BY <1>3, <2>4, <4>3
      <4>4. CASE i = sent - r + 1
        BY <1>3, <1>6, <2>4, <2>6, <4>2, <4>4
      <4> QED
        BY <4>1, <4>3, <4>4
    <3>3. Len(net') = sent' - r + 0
      BY <1>4, <2>4, <3>1
    <3>5. Len(net') = sent' - r + (IF owner' = "delivered" THEN 1 ELSE 0)
      BY <3>1, <3>3
    <3>6. Whither(r)'
      BY <2>5, <3>1, <3>2, <3>5 DEF Whither
    <3> QED
      BY <1>4, <3>1, <3>6
  <2>7. CASE ~(sent < Len(span))
    <3>1. owner' = "delivered" /\ sent' = sent /\ sent = Len(span')
      BY <1>1, <1>4, <2>7
    <3>2. \A i \in 1 .. (sent - r) : net'[i] = D!EventFrame(r + i)'
      BY <1>3, <2>4
    <3>3. net'[Len(net')] = D!DoneFrame'
      BY <1>3, <1>6, <2>4, <2>7
    <3>4. Len(net') = sent' - r + 1 /\ \A i \in 1 .. (sent' - r) : net'[i] = D!EventFrame(r + i)'
      BY <2>4, <3>1, <3>2
    <3>5. Whither(r)'
      BY <2>5, <3>1, <3>3, <3>4 DEF Whither
    <3> QED
      BY <3>1, <3>5
  <2> QED
    BY <2>6, <2>7
<1>15. IsFiniteSet(inbox')
  BY <1>1 DEF DeliveryIInv
<1>16. D!NoVerdict.answer = "none"
  BY DEF D!NoVerdict
<1> QED
  BY <1>1, <1>2, <1>9, <1>10, <1>11, <1>12, <1>13, <1>14, <1>15, <1>16
  DEF DeliveryIInv, D!CheckedIsWhole, D!RefusedStaysOut, D!RefusedOnlyIfLost

(* A step of the network or of the centre.                                  *)
LEMMA OwnerStands ==
    ASSUME DeliveryIInv, UNCHANGED D!ownerVars
    PROVE  /\ UNCHANGED <<chain, owner, opened_id, closed_id, span, sent, carries, shared>>
           /\ OwnChain' /\ SpanFollows'
           /\ EventFrames' = EventFrames /\ D!DoneFrame' = D!DoneFrame
           /\ \A k : D!EventFrame(k)' = D!EventFrame(k)
           /\ \A events : FromFrames(events)' = FromFrames(events)
<1>1. UNCHANGED <<chain, owner, opened_id, closed_id, span, sent, carries, shared>>
  BY DEF D!ownerVars
<1> QED
  BY <1>1, ChainKeeps, SameFrames

LEMMA CentreTyped ==
    ASSUME DeliveryIInv, UNCHANGED D!ownerVars, disturbed' \in BOOLEAN,
           net' \in Seq(EventFrames \cup {D!DoneFrame}), inbox' \subseteq EventFrames,
           centre' \in {"reading", "rebuilding", "judging", "merging"},
           row' \in {"none", "closed", "folded", "forked"},
           file' \in Seq(D!Id), merged' \in Seq(D!Id)
    PROVE  DeliveryTyped'
<1>1. /\ chain' \in Seq({"event", "opened", "closed"}) /\ Len(chain') <= MaxChain
      /\ owner' \in Early \cup {"sending", "delivered", "gave_up", "down"}
      /\ opened_id' \in 0 .. Len(chain') /\ closed_id' \in 0 .. Len(chain')
      /\ span' \in Seq(D!Id) /\ shared' \in BOOLEAN /\ sent' \in 0 .. Len(span')
  BY OwnerStands DEF DeliveryIInv, DeliveryTyped
<1> QED
  BY <1>1, OwnerStands DEF DeliveryTyped, D!Id

(* Whenever frames are on their way, they stay the stream's, and its end    *)
(* stays the last thing the centre may take.                                *)
LEMMA FrameTaken ==
    ASSUME DeliveryIInv, net # << >>, net' = Tail(net)
    PROVE  /\ net' \in Seq(EventFrames \cup {D!DoneFrame})
           /\ Len(net) \in Nat /\ Len(net) > 0 /\ Len(net') = Len(net) - 1
           /\ \A i \in 1 .. Len(net') : net'[i] = net[i + 1]
           /\ Head(net) = net[1] /\ net[1] \in EventFrames \cup {D!DoneFrame}
           /\ owner \notin Early
<1>1. net \in Seq(EventFrames \cup {D!DoneFrame})
  BY DEF DeliveryIInv, DeliveryTyped
<1>2. owner \notin Early
  BY DEF DeliveryIInv, NothingSent
<1> QED
  BY <1>1, <1>2

LEMMA EndKeeps ==
    ASSUME DeliveryIInv, net # << >>, net' = Tail(net), UNCHANGED D!ownerVars, Ended' = Ended
    PROVE  OneEnd'
<1>1. ASSUME NEW i \in 1 .. Len(net'), NEW j \in 1 .. Len(net'),
             net'[i].kind = "done", net'[j].kind = "done"
      PROVE  i = j
  <2>1. i + 1 \in 1 .. Len(net) /\ j + 1 \in 1 .. Len(net)
    BY FrameTaken
  <2>2. net[i + 1].kind = "done" /\ net[j + 1].kind = "done"
    BY <1>1, FrameTaken
  <2>3. i + 1 = j + 1
    BY <2>1, <2>2 DEF DeliveryIInv, OneEnd
  <2> QED
    BY <2>3
<1>2. ASSUME NEW i \in 1 .. Len(net'), net'[i].kind = "done"
      PROVE  owner = "delivered" /\ ~Ended
  <2>1. i + 1 \in 1 .. Len(net) /\ net[i + 1].kind = "done"
    BY <1>2, FrameTaken
  <2> QED
    BY <2>1 DEF DeliveryIInv, OneEnd
<1>3. Ended => owner = "delivered"
  BY DEF DeliveryIInv, OneEnd
<1> QED
  BY <1>1, <1>2, <1>3, OwnerStands DEF OneEnd

LEMMA StepLose ==
    ASSUME DeliveryIInv, D!Lose \/ D!AdoptFails
    PROVE  DeliveryIInv'
<1>1. /\ net # << >> /\ net' = Tail(net) /\ disturbed' = TRUE /\ UNCHANGED D!ownerVars
      /\ inbox' = inbox \/ inbox' = {}
      /\ UNCHANGED <<centre, job, row, file, verdict, merged>>
  BY DEF D!Lose, D!AdoptFails, D!Arrived, D!centreVars
<1>2. DeliveryTyped'
  <2>1. inbox' \subseteq EventFrames /\ disturbed' \in BOOLEAN
    BY <1>1 DEF DeliveryIInv, DeliveryTyped
  <2> QED
    BY <1>1, <2>1, FrameTaken, CentreTyped DEF DeliveryIInv, DeliveryTyped
<1>3. Ended' = Ended
  BY <1>1 DEF Ended
<1>4. OneEnd'
  BY <1>1, <1>3, EndKeeps
<1>5. NothingSent'
  BY <1>1, FrameTaken, OwnerStands DEF NothingSent
<1>6. Judging'
  BY <1>1, OwnerStands DEF DeliveryIInv, Judging, D!Ids
<1>7. Intact'
  BY <1>1 DEF Intact
<1>8. IsFiniteSet(inbox')
  BY <1>1, FS_EmptySet DEF DeliveryIInv
<1> QED
  BY <1>1, <1>2, <1>4, <1>5, <1>6, <1>7, <1>8, OwnerStands
  DEF DeliveryIInv, D!CheckedIsWhole, D!RefusedStaysOut, D!RefusedOnlyIfLost

LEMMA StepOvertake ==
    ASSUME DeliveryIInv, D!Overtake
    PROVE  DeliveryIInv'
<1>1. /\ Len(net) >= 2 /\ net' = <<net[2], net[1]>> \o SubSeq(net, 3, Len(net))
      /\ disturbed' = TRUE /\ UNCHANGED D!ownerVars
      /\ UNCHANGED <<inbox, centre, job, row, file, verdict, merged>>
  BY DEF D!Overtake, D!centreVars
<1>2. /\ net' \in Seq(EventFrames \cup {D!DoneFrame}) /\ Len(net') = Len(net)
      /\ Len(net) \in Nat /\ net'[1] = net[2] /\ net'[2] = net[1]
      /\ \A i \in 3 .. Len(net) : net'[i] = net[i]
  <2> DEFINE F == EventFrames \cup {D!DoneFrame}
  <2>1. net \in Seq(F) /\ Len(net) \in Nat
    BY DEF DeliveryIInv, DeliveryTyped
  <2> HIDE DEF F
  <2>2. <<net[2], net[1]>> \in Seq(F) /\ Len(<<net[2], net[1]>>) = 2
    BY <1>1, <2>1
  <2>3. /\ SubSeq(net, 3, Len(net)) \in Seq(F)
        /\ Len(SubSeq(net, 3, Len(net))) = Len(net) - 2
        /\ \A i \in 1 .. Len(net) - 2 : SubSeq(net, 3, Len(net))[i] = net[i + 2]
    BY <1>1, <2>1
  <2>4. net' \in Seq(F) /\ Len(net') = Len(net)
    BY <1>1, <2>1, <2>2, <2>3
  <2>5. net'[1] = net[2] /\ net'[2] = net[1]
    BY <1>1, <2>1, <2>2, <2>3
  <2>6. ASSUME NEW i \in 3 .. Len(net) PROVE net'[i] = net[i]
    <3>1. i - 2 \in 1 .. Len(net) - 2 /\ i - 2 + 2 = i
      BY <2>1
    <3>2. net'[i] = SubSeq(net, 3, Len(net))[i - 2]
      BY <1>1, <2>1, <2>2, <2>3
    <3> QED
      BY <2>3, <3>1, <3>2
  <2> QED
    BY <2>1, <2>4, <2>5, <2>6 DEF F
<1>3. DeliveryTyped'
  <2>1. disturbed' \in BOOLEAN
    BY <1>1
  <2> QED
    BY <1>1, <1>2, <2>1, CentreTyped DEF DeliveryIInv, DeliveryTyped
<1>4. Ended' = Ended
  BY <1>1 DEF Ended
<1>5. OneEnd'
  <2> DEFINE from(i) == IF i = 1 THEN 2 ELSE IF i = 2 THEN 1 ELSE i
  <2>1. \A i \in 1 .. Len(net') : from(i) \in 1 .. Len(net) /\ net'[i] = net[from(i)]
    BY <1>1, <1>2
  <2>2. \A i, j \in 1 .. Len(net') : from(i) = from(j) => i = j
    BY <1>2
  <2> HIDE DEF from
  <2>3. \A i, j \in 1 .. Len(net') : net'[i].kind = "done" /\ net'[j].kind = "done" => i = j
    BY <2>1, <2>2 DEF DeliveryIInv, OneEnd
  <2>4. \A i \in 1 .. Len(net') : net'[i].kind = "done" => owner = "delivered" /\ ~Ended
    BY <2>1 DEF DeliveryIInv, OneEnd
  <2> QED
    BY <1>1, <1>4, <2>3, <2>4, OwnerStands DEF DeliveryIInv, OneEnd
<1>6. NothingSent'
  <2>1. net # << >>
    BY <1>1
  <2> QED
    BY <1>1, <2>1, OwnerStands DEF NothingSent, DeliveryIInv
<1>7. Judging'
  BY <1>1, OwnerStands DEF DeliveryIInv, Judging, D!Ids
<1>8. Intact'
  BY <1>1 DEF Intact
<1> QED
  BY <1>1, <1>3, <1>5, <1>6, <1>7, <1>8, OwnerStands
  DEF DeliveryIInv, D!CheckedIsWhole, D!RefusedStaysOut, D!RefusedOnlyIfLost

LEMMA StepReceiveEvent ==
    ASSUME DeliveryIInv, D!ReceiveEvent
    PROVE  DeliveryIInv'
<1>1. /\ centre = "reading" /\ net # << >> /\ Head(net).kind = "event" /\ net' = Tail(net)
      /\ inbox' = inbox \cup {Head(net)} /\ UNCHANGED D!ownerVars
      /\ UNCHANGED <<disturbed, centre, job, row, file, verdict, merged>>
  BY DEF D!ReceiveEvent, D!Arrived
<1>2. Head(net) \in EventFrames
  BY <1>1, FrameTaken, FramesAre
<1>3. DeliveryTyped'
  BY <1>1, <1>2, FrameTaken, CentreTyped DEF DeliveryIInv, DeliveryTyped
<1>4. Ended' = Ended
  BY <1>1 DEF Ended
<1>5. OneEnd'
  BY <1>1, <1>4, EndKeeps
<1>6. NothingSent'
  BY <1>1, FrameTaken, OwnerStands DEF NothingSent
<1>7. Judging'
  BY <1>1, OwnerStands DEF DeliveryIInv, Judging
<1>8. IsFiniteSet(inbox')
  BY <1>1, FS_AddElement DEF DeliveryIInv
<1>9. Intact'
  <2> SUFFICES ASSUME ~disturbed, ~Ended PROVE \E r \in 0 .. sent' : Whither(r)'
    BY <1>1, <1>4 DEF Intact
  <2>1. PICK r \in 0 .. sent : Whither(r)
    BY DEF DeliveryIInv, Intact
  <2>2. /\ inbox = {D!EventFrame(k) : k \in 1 .. r}
        /\ Len(net) = sent - r + (IF owner = "delivered" THEN 1 ELSE 0)
        /\ \A i \in 1 .. (sent - r) : net[i] = D!EventFrame(r + i)
        /\ owner = "delivered" => sent = Len(span) /\ net[Len(net)] = D!DoneFrame
    BY <2>1 DEF Whither
  <2>3. sent \in Nat /\ r \in Nat /\ r <= sent
    BY <2>1, FramesAre
  <2>4. r < sent
    <3> SUFFICES ASSUME r = sent PROVE FALSE
      BY <2>3
    <3>1. owner = "delivered" /\ Len(net) = 1
      BY <1>1, <2>2, <2>3, FrameTaken
    <3> QED
      BY <1>1, <2>2, <3>1, FrameTaken, FramesAre
  <2>5. Head(net) = D!EventFrame(r + 1)
    BY <1>1, <2>2, <2>3, <2>4, FrameTaken
  <2>6. inbox' = {D!EventFrame(k)' : k \in 1 .. r + 1}
    <3>1. 1 .. r + 1 = (1 .. r) \cup {r + 1}
      BY <2>3
    <3>2. inbox' = {D!EventFrame(k) : k \in 1 .. r + 1}
      BY <1>1, <2>2, <2>5, <3>1
    <3> QED
      BY <1>1, <3>2, OwnerStands
  <2>7. Len(net') = sent' - (r + 1) + (IF owner' = "delivered" THEN 1 ELSE 0)
    <3>1. Len(net') = Len(net) - 1 /\ sent' = sent /\ owner' = owner
      BY <1>1, FrameTaken, OwnerStands
    <3> QED
      BY <2>2, <2>3, <3>1
  <2>8. ASSUME NEW i \in 1 .. (sent' - (r + 1)) PROVE net'[i] = D!EventFrame((r + 1) + i)'
    <3>1. i \in 1 .. Len(net') /\ i + 1 \in 1 .. (sent - r) /\ r + (i + 1) = (r + 1) + i
      <4>1. sent' = sent
        BY <1>1, OwnerStands
      <4> QED
        BY <2>3, <2>4, <2>7, <4>1
    <3>2. net'[i] = D!EventFrame(r + (i + 1))
      BY <1>1, <2>2, <3>1, FrameTaken
    <3> QED
      BY <1>1, <3>1, <3>2, OwnerStands
  <2>9. owner' = "delivered" => sent' = Len(span') /\ net'[Len(net')] = D!DoneFrame'
    <3> SUFFICES ASSUME owner = "delivered" PROVE net'[Len(net')] = D!DoneFrame
      BY <1>1, <2>2, OwnerStands
    <3>1. Len(net') = Len(net) - 1 /\ Len(net) = sent - r + 1 /\ Len(net') \in 1 .. Len(net')
      BY <1>1, <2>2, <2>3, <2>4, FrameTaken
    <3>2. net'[Len(net')] = net[Len(net') + 1] /\ Len(net') + 1 = Len(net)
      BY <1>1, <3>1, FrameTaken
    <3> QED
      BY <2>2, <3>2
  <2>10. Whither(r + 1)'
    BY <2>6, <2>7, <2>8, <2>9 DEF Whither
  <2>11. r + 1 \in 0 .. sent'
    <3>1. sent' = sent
      BY <1>1, OwnerStands
    <3> QED
      BY <2>3, <2>4, <3>1
  <2> QED
    BY <2>10, <2>11
<1> QED
  BY <1>1, <1>3, <1>5, <1>6, <1>7, <1>8, <1>9, OwnerStands
  DEF DeliveryIInv, D!CheckedIsWhole, D!RefusedStaysOut, D!RefusedOnlyIfLost

(* The end frame: what was received, in order.                              *)
LEMMA StepReceiveDone ==
    ASSUME DeliveryIInv, D!ReceiveDone
    PROVE  DeliveryIInv'
<1>1. /\ centre = "reading" /\ net # << >> /\ Head(net).kind = "done" /\ net' = Tail(net)
      /\ job' = [done |-> Head(net), events |-> D!ByIndex(inbox)]
      /\ inbox' = {} /\ row' = "closed" /\ centre' = "rebuilding" /\ UNCHANGED D!ownerVars
      /\ UNCHANGED <<disturbed, file, verdict, merged>>
  BY DEF D!ReceiveDone, D!Arrived
<1>2. Head(net) = D!DoneFrame /\ net[1].kind = "done" /\ 1 \in 1 .. Len(net)
  BY <1>1, FrameTaken, FramesAre
<1>3. owner = "delivered" /\ ~Ended
  BY <1>2 DEF DeliveryIInv, OneEnd
<1>4. verdict = D!NoVerdict /\ merged = << >>
  BY <1>3 DEF DeliveryIInv, Judging, Ended
<1>5. Sortable(inbox, Len(span)) /\ inbox \in SUBSET EventFrames
  BY FramesAre DEF DeliveryIInv, DeliveryTyped
<1>6. DeliveryTyped'
  BY <1>1, FrameTaken, CentreTyped DEF DeliveryIInv, DeliveryTyped
<1>7. OneEnd'
  <2>1. ASSUME NEW i \in 1 .. Len(net'), net'[i].kind = "done" PROVE FALSE
    <3>1. i + 1 \in 1 .. Len(net) /\ net[i + 1].kind = "done"
      BY <1>1, <2>1, FrameTaken
    <3>2. i + 1 = 1
      BY <1>2, <3>1 DEF DeliveryIInv, OneEnd
    <3> QED
      BY <3>2
  <2> QED
    BY <1>1, <1>3, <2>1, OwnerStands DEF OneEnd
<1>8. NothingSent'
  BY <1>1, FrameTaken, OwnerStands DEF NothingSent
<1>9. job'.done = D!DoneFrame /\ job'.events = D!ByIndex(inbox)
  BY <1>1, <1>2
<1>10. Judging'
  <2>1. FromFrames(D!ByIndex(inbox))
    BY <1>5 DEF FromFrames
  <2>2. FromFrames(job.events)'
    BY <1>1, <1>9, <2>1, OwnerStands DEF FromFrames
  <2>3. job'.done = D!DoneFrame'
    BY <1>1, <1>9, OwnerStands
  <2>4. verdict' = D!NoVerdict /\ merged' = << >>
    BY <1>1, <1>4
  <2> QED
    BY <1>1, <2>2, <2>3, <2>4 DEF Judging
<1>11. Ended'
  BY <1>1 DEF Ended
<1>12. Intact'
  <2> SUFFICES ASSUME ~disturbed
               PROVE  /\ Len(job'.events) = Len(span) /\ DOMAIN job'.events = 1 .. Len(span)
                      /\ \A k \in 1 .. Len(span) : job'.events[k] = D!EventFrame(k)
    BY <1>1, <1>11, OwnerStands DEF Intact
  <2>1. PICK r \in 0 .. sent : Whither(r)
    BY <1>3 DEF DeliveryIInv, Intact
  <2>2. /\ inbox = {D!EventFrame(k) : k \in 1 .. r} /\ sent = Len(span)
        /\ \A i \in 1 .. (sent - r) : net[i] = D!EventFrame(r + i)
    BY <1>3, <2>1 DEF Whither
  <2>3. r = Len(span)
    <3>1. sent \in Nat /\ r \in Nat /\ r <= sent
      BY <2>1, FramesAre
    <3>2. ASSUME r < sent PROVE FALSE
      <4>1. 1 \in 1 .. (sent - r)
        BY <3>1, <3>2
      <4>2. net[1].kind = "event"
        BY <2>2, <4>1, FramesAre
      <4> QED
        BY <1>2, <4>2
    <3> QED
      BY <2>2, <3>1, <3>2
  <2>4. \A i \in 1 .. Len(span) : \E f \in inbox : f.index = i
    BY <2>2, <2>3, FramesAre
  <2>5. \A f \in inbox : f.index <= Len(span) /\ f = D!EventFrame(f.index)
    BY <1>5, FramesAre
  <2>6. /\ Cardinality(inbox) = Len(span)
        /\ \A k \in 1 .. Len(span) : D!ByIndex(inbox)[k].index = k
    BY <1>5, <2>4, <2>5, FramesAre, Whole
  <2>7. /\ DOMAIN D!ByIndex(inbox) = 1 .. Len(span) /\ Len(D!ByIndex(inbox)) = Len(span)
        /\ \A k \in 1 .. Len(span) : D!ByIndex(inbox)[k] \in inbox
    BY <1>5, <2>6, FramesAre, Listed
  <2>8. \A k \in 1 .. Len(span) : D!ByIndex(inbox)[k] = D!EventFrame(k)
    BY <2>5, <2>6, <2>7
  <2> QED
    BY <1>9, <2>7, <2>8
<1>13. IsFiniteSet(inbox')
  BY <1>1, FS_EmptySet
<1>14. D!NoVerdict.answer = "none"
  BY DEF D!NoVerdict
<1> QED
  BY <1>1, <1>4, <1>6, <1>7, <1>8, <1>10, <1>12, <1>13, <1>14, OwnerStands
  DEF DeliveryIInv, D!CheckedIsWhole, D!RefusedStaysOut, D!RefusedOnlyIfLost

(* The list the centre works on, and what it writes from it.                *)
LEMMA TheJob ==
    ASSUME DeliveryIInv, centre # "reading"
    PROVE  \E F \in SUBSET EventFrames :
             /\ Sortable(F, Len(span)) /\ job.events = D!ByIndex(F)
             /\ Len(job.events) = Cardinality(F) /\ Len(job.events) \in Nat
             /\ DOMAIN job.events = 1 .. Len(job.events)
             /\ \A k \in 1 .. Len(job.events) : job.events[k] \in EventFrames
             /\ DOMAIN D!Ids(job.events) = 1 .. Len(job.events)
             /\ \A k \in 1 .. Len(job.events) : D!Ids(job.events)[k] = job.events[k].id
             /\ D!Ids(job.events) \in Seq(D!Id) /\ Len(D!Ids(job.events)) = Len(job.events)
<1>1. PICK F \in SUBSET EventFrames : Sortable(F, Len(span)) /\ job.events = D!ByIndex(F)
  BY DEF DeliveryIInv, Judging, FromFrames
<1>2. /\ Len(job.events) = Cardinality(F) /\ Len(job.events) \in Nat
      /\ DOMAIN job.events = 1 .. Len(job.events)
      /\ \A k \in 1 .. Len(job.events) : job.events[k] \in F
  BY <1>1, FramesAre, Listed
<1>3. \A k \in 1 .. Len(job.events) : job.events[k].id \in D!Id
  <2>1. \A f \in EventFrames : f.id = span[f.index] /\ f.index \in 1 .. Len(span)
    BY FramesAre
  <2>2. \A f \in EventFrames : f.id \in D!Id
    BY <2>1 DEF DeliveryIInv, DeliveryTyped
  <2> QED
    BY <1>2, <2>2
<1>4. D!Ids(job.events) = [k \in 1 .. Len(job.events) |-> job.events[k].id]
  BY <1>2 DEF D!Ids
<1>5. D!Ids(job.events) \in Seq(D!Id) /\ Len(D!Ids(job.events)) = Len(job.events)
  BY <1>2, <1>3, <1>4
<1> QED
  BY <1>1, <1>2, <1>4, <1>5

LEMMA StepRebuild ==
    ASSUME DeliveryIInv, D!Rebuild \/ D!RebuildFails
    PROVE  DeliveryIInv'
<1>1. /\ centre = "rebuilding"
      /\ \/ centre' = "judging" /\ file' = D!Ids(job.events) /\ disturbed' = disturbed
         \/ /\ centre' = "reading" /\ disturbed' = TRUE
            /\ \E n \in 0 .. Len(job.events) : file' = SubSeq(D!Ids(job.events), 1, n)
      /\ UNCHANGED D!ownerVars
      /\ UNCHANGED <<net, inbox, job, row, verdict, merged>>
  BY DEF D!Rebuild, D!RebuildFails
<1>2. verdict = D!NoVerdict /\ row = "closed" /\ merged = << >>
  BY <1>1 DEF DeliveryIInv, Judging
<1>3. file' \in Seq(D!Id)
  <2>1. D!Ids(job.events) \in Seq(D!Id) /\ Len(D!Ids(job.events)) = Len(job.events)
        /\ Len(job.events) \in Nat
    BY <1>1, TheJob
  <2>2. ASSUME NEW n \in 0 .. Len(job.events) PROVE SubSeq(D!Ids(job.events), 1, n) \in Seq(D!Id)
    BY <2>1
  <2> QED
    BY <1>1, <2>1, <2>2
<1>4. DeliveryTyped'
  <2>1. disturbed' \in BOOLEAN /\ centre' \in {"reading", "rebuilding", "judging", "merging"}
    BY <1>1 DEF DeliveryIInv, DeliveryTyped
  <2> QED
    BY <1>1, <1>3, <2>1, CentreTyped DEF DeliveryIInv, DeliveryTyped
<1>5. Ended /\ Ended'
  BY <1>1, <1>2 DEF Ended
<1>6. OneEnd'
  BY <1>1, <1>5, OwnerStands DEF DeliveryIInv, OneEnd
<1>7. NothingSent'
  BY <1>1, OwnerStands DEF NothingSent, DeliveryIInv
<1>8. Judging'
  BY <1>1, <1>2, OwnerStands DEF DeliveryIInv, Judging, D!Ids
<1>9. Intact'
  <2>1. CASE disturbed' = disturbed
    BY <1>1, <1>5, <2>1, OwnerStands DEF DeliveryIInv, Intact
  <2>2. CASE disturbed' = TRUE
    BY <2>2 DEF Intact
  <2> QED
    BY <1>1, <2>1, <2>2
<1>10. IsFiniteSet(inbox')
  BY <1>1 DEF DeliveryIInv
<1>11. D!NoVerdict.answer = "none"
  BY DEF D!NoVerdict
<1> QED
  BY <1>1, <1>2, <1>4, <1>6, <1>7, <1>8, <1>9, <1>10, <1>11, OwnerStands
  DEF DeliveryIInv, D!CheckedIsWhole, D!RefusedStaysOut, D!RefusedOnlyIfLost

(* A list that passes the count and the positions is the span.              *)
LEMMA VerifiedIsSpan ==
    ASSUME DeliveryIInv, centre = "judging", D!verify_delivery(job.done, job.events)
    PROVE  file = span
<1>1. PICK F \in SUBSET EventFrames :
             /\ Sortable(F, Len(span)) /\ job.events = D!ByIndex(F)
             /\ Len(job.events) = Cardinality(F) /\ Len(job.events) \in Nat
             /\ DOMAIN job.events = 1 .. Len(job.events)
             /\ \A k \in 1 .. Len(job.events) : job.events[k] \in EventFrames
             /\ DOMAIN D!Ids(job.events) = 1 .. Len(job.events)
             /\ \A k \in 1 .. Len(job.events) : D!Ids(job.events)[k] = job.events[k].id
             /\ D!Ids(job.events) \in Seq(D!Id) /\ Len(D!Ids(job.events)) = Len(job.events)
  BY TheJob
<1>2. job.done.total = Len(span) /\ file = D!Ids(job.events)
  BY FramesAre DEF DeliveryIInv, Judging
<1>3. /\ Len(job.events) = Len(span)
      /\ {job.events[k].index : k \in DOMAIN job.events} = 1 .. Len(span)
  BY <1>2 DEF D!verify_delivery
<1>4. \A k \in 1 .. Len(span) : job.events[k].index = k
  <2>1. {D!ByIndex(F)[k].index : k \in DOMAIN D!ByIndex(F)} = 1 .. Len(span)
    BY <1>1, <1>3
  <2>2. Cardinality(F) = Len(span) /\ Len(span) \in Nat /\ Sortable(F, Len(span))
    BY <1>1, <1>3, FramesAre
  <2>3. \A k \in 1 .. Len(span) : D!ByIndex(F)[k].index = k
    BY <2>1, <2>2, Verified
  <2> QED
    BY <1>1, <2>3
<1>5. \A k \in 1 .. Len(span) : file[k] = span[k]
  BY <1>1, <1>2, <1>3, <1>4, FramesAre
<1>6. file \in Seq(D!Id) /\ span \in Seq(D!Id) /\ Len(file) = Len(span)
  BY <1>1, <1>2, <1>3 DEF DeliveryIInv, DeliveryTyped
<1> QED
  BY <1>5, <1>6

(* A whole stream passes every check: the positions, the linkage and the    *)
(* anchor, whatever the sender's build puts into its frames.                *)
LEMMA WholeIsVerified ==
    ASSUME DeliveryIInv, centre = "judging", ~disturbed
    PROVE  D!Judgement(job.done, job.events).answer = "verified"
<1> DEFINE events == job.events
<1>1. /\ Len(events) = Len(span) /\ DOMAIN events = 1 .. Len(span)
      /\ \A k \in 1 .. Len(span) : events[k] = D!EventFrame(k)
  BY DEF DeliveryIInv, Intact
<1>2. job.done = D!DoneFrame /\ job.done.total = Len(span)
  BY FramesAre DEF DeliveryIInv, Judging
<1>3. \A k \in 1 .. Len(span) : events[k].index = k /\ events[k].id = opened_id + k
  BY <1>1, FramesAre DEF DeliveryIInv, SpanFollows
<1>4. opened_id \in Nat /\ Len(span) \in Nat
  BY DEF DeliveryIInv, DeliveryTyped
<1> HIDE DEF events
<1>5. D!verify_delivery(job.done, events)
  <2>1. {events[k].index : k \in DOMAIN events} = 1 .. Len(span)
    BY <1>1, <1>3
  <2> QED
    BY <1>1, <1>2, <2>1 DEF D!verify_delivery
<1>6. D!Linked(events)
  BY <1>1, <1>3, <1>4 DEF D!Linked
<1>7. D!AnchorVerdict(job.done, events) # "broken"
  <2>1. events # << >> => events[1].id - 1 = opened_id
    <3>1. events # << >> => 1 \in 1 .. Len(span)
      BY <1>1, <1>4 
    <3> QED
      BY <1>3, <1>4, <3>1
  <2>2. job.done.anchor = 0 \/ job.done.anchor = opened_id
    BY <1>2 DEF D!DoneFrame
  <2> QED
    BY <2>1, <2>2 DEF D!AnchorVerdict, D!NoHash
<1>8. D!Judgement(job.done, events).answer = "verified"
  BY <1>5, <1>6, <1>7 DEF D!Judgement
<1> QED
  BY <1>8 DEF events

LEMMA StepJudge ==
    ASSUME DeliveryIInv, D!Judge
    PROVE  DeliveryIInv'
<1> DEFINE v == D!Judgement(job.done, job.events)
<1>1. /\ centre = "judging" /\ verdict' = v
      /\ centre' = IF verdict'.answer = "verified" THEN "merging" ELSE "reading"
      /\ UNCHANGED D!ownerVars
      /\ UNCHANGED <<net, disturbed, inbox, job, row, file, merged>>
  BY DEF D!Judge
<1>2. row = "closed" /\ merged = << >>
  BY <1>1 DEF DeliveryIInv, Judging
<1>3. v.answer \in {"verified", "rejected"} /\ v # D!NoVerdict
  <2>1. v.answer \in {"verified", "rejected"}
    BY DEF D!Judgement
  <2>2. D!NoVerdict.answer = "none"
    BY DEF D!NoVerdict
  <2> QED
    BY <2>1, <2>2
<1>4. v.answer = "verified" /\ v.checked # "skipped" => file = span
  <2>1. v.answer = "verified" /\ v.checked # "skipped" => D!verify_delivery(job.done, job.events)
    BY DEF D!Judgement
  <2> QED
    BY <1>1, <2>1, VerifiedIsSpan
<1>5. v.answer = "rejected" => disturbed
  BY <1>1, WholeIsVerified DEF DeliveryIInv, DeliveryTyped
<1> HIDE DEF v
<1>6. DeliveryTyped'
  <2>1. centre' \in {"reading", "rebuilding", "judging", "merging"}
    BY <1>1
  <2> QED
    BY <1>1, <2>1, CentreTyped DEF DeliveryIInv, DeliveryTyped
<1>7. Ended /\ Ended'
  BY <1>1, <1>2 DEF Ended
<1>8. OneEnd'
  BY <1>1, <1>7, OwnerStands DEF DeliveryIInv, OneEnd
<1>9. NothingSent'
  BY <1>1, OwnerStands DEF NothingSent, DeliveryIInv
<1>10. Judging'
  <2>1. centre' \in {"reading", "merging"} /\ verdict' # D!NoVerdict
        /\ (centre' = "merging" => verdict'.answer = "verified")
    BY <1>1, <1>3
  <2>2. /\ job' = job /\ FromFrames(job.events) /\ job.done = D!DoneFrame
        /\ file = D!Ids(job.events)
    BY <1>1 DEF DeliveryIInv, Judging
  <2>3. /\ job'.done = D!DoneFrame' /\ FromFrames(job.events)' /\ row' = "closed"
        /\ merged' = << >> /\ file' = D!Ids(job.events)'
    <3>1. FromFrames(job.events)'
      BY <1>1, <2>2, OwnerStands DEF FromFrames
    <3> QED
      BY <1>1, <1>2, <2>2, <3>1, OwnerStands DEF D!Ids
  <2> QED
    BY <2>1, <2>3 DEF Judging
<1>11. Intact'
  BY <1>1, <1>7 DEF Intact
<1>12. IsFiniteSet(inbox')
  BY <1>1 DEF DeliveryIInv
<1>13. D!CheckedIsWhole'
  BY <1>1, <1>2, <1>4, OwnerStands DEF D!CheckedIsWhole
<1>14. D!RefusedStaysOut' /\ D!RefusedOnlyIfLost'
  BY <1>1, <1>2, <1>5 DEF D!RefusedStaysOut, D!RefusedOnlyIfLost
<1> QED
  BY <1>1, <1>6, <1>8, <1>9, <1>10, <1>11, <1>12, <1>13, <1>14, OwnerStands DEF DeliveryIInv

LEMMA StepMerge ==
    ASSUME DeliveryIInv, D!Merge
    PROVE  DeliveryIInv'
<1>1. /\ centre = "merging" /\ centre' = "reading" /\ UNCHANGED D!ownerVars
      /\ \/ merged' = file /\ row' = "folded"
         \/ merged' = << >> /\ row' = "forked"
         \/ (\E n \in 0 .. Len(file) : merged' = SubSeq(file, 1, n)) /\ row' = row
      /\ UNCHANGED <<net, disturbed, inbox, job, file, verdict>>
  BY DEF D!Merge
<1>2. row = "closed" /\ verdict.answer = "verified"
  BY <1>1 DEF DeliveryIInv, Judging
<1>3. merged' \in Seq(D!Id) /\ row' \in {"closed", "folded", "forked"}
      /\ (row' = "folded" => merged' = file)
  <2>1. file \in Seq(D!Id)
    BY DEF DeliveryIInv, DeliveryTyped
  <2>2. \A n \in 0 .. Len(file) : SubSeq(file, 1, n) \in Seq(D!Id)
    BY <2>1
  <2>3. CASE merged' = file /\ row' = "folded"
    BY <2>1, <2>3
  <2>4. CASE merged' = << >> /\ row' = "forked"
    BY <2>4
  <2>5. CASE (\E n \in 0 .. Len(file) : merged' = SubSeq(file, 1, n)) /\ row' = row
    BY <1>2, <2>2, <2>5
  <2> QED
    BY <1>1, <2>3, <2>4, <2>5
<1>4. DeliveryTyped'
  BY <1>1, <1>3, CentreTyped DEF DeliveryIInv, DeliveryTyped
<1>5. Ended /\ Ended'
  BY <1>1, <1>3 DEF Ended
<1>6. OneEnd'
  BY <1>1, <1>5, OwnerStands DEF DeliveryIInv, OneEnd
<1>7. NothingSent'
  BY <1>1, OwnerStands DEF NothingSent, DeliveryIInv
<1>8. verdict' = verdict /\ verdict # D!NoVerdict
  BY <1>1, <1>2 DEF D!NoVerdict
<1>9. Judging'
  BY <1>1, <1>8 DEF Judging
<1>10. Intact'
  BY <1>1, <1>5 DEF Intact
<1>11. IsFiniteSet(inbox')
  BY <1>1 DEF DeliveryIInv
<1>12. D!CheckedIsWhole'
  BY <1>1, <1>3, OwnerStands DEF DeliveryIInv, D!CheckedIsWhole
<1>13. D!RefusedStaysOut' /\ D!RefusedOnlyIfLost'
  BY <1>1, <1>2 DEF D!RefusedStaysOut, D!RefusedOnlyIfLost
<1> QED
  BY <1>1, <1>4, <1>6, <1>7, <1>9, <1>10, <1>11, <1>12, <1>13, OwnerStands DEF DeliveryIInv

LEMMA StepCentreRestart ==
    ASSUME DeliveryIInv, D!CentreRestart
    PROVE  DeliveryIInv'
<1>1. /\ inbox' = {} /\ centre' = "reading" /\ disturbed' = TRUE /\ UNCHANGED D!ownerVars
      /\ UNCHANGED <<net, job, row, file, verdict, merged>>
  BY DEF D!CentreRestart
<1>2. DeliveryTyped'
  <2>1. disturbed' \in BOOLEAN /\ inbox' \subseteq EventFrames
    BY <1>1
  <2> QED
    BY <1>1, <2>1, CentreTyped DEF DeliveryIInv, DeliveryTyped
<1>3. Ended' => Ended
  BY <1>1 DEF Ended
<1>4. OneEnd'
  BY <1>1, <1>3, OwnerStands DEF DeliveryIInv, OneEnd
<1>5. NothingSent'
  BY <1>1, OwnerStands DEF NothingSent, DeliveryIInv
<1>6. Judging'
  BY <1>1 DEF DeliveryIInv, Judging
<1>7. Intact'
  BY <1>1 DEF Intact
<1>8. IsFiniteSet(inbox')
  BY <1>1, FS_EmptySet
<1> QED
  BY <1>1, <1>2, <1>4, <1>5, <1>6, <1>7, <1>8, OwnerStands
  DEF DeliveryIInv, D!CheckedIsWhole, D!RefusedStaysOut, D!RefusedOnlyIfLost

LEMMA DeliveryStutters == ASSUME DeliveryIInv, UNCHANGED D!vars PROVE DeliveryIInv'
<1>1. /\ UNCHANGED D!ownerVars
      /\ UNCHANGED <<net, disturbed, inbox, centre, job, row, file, verdict, merged>>
  BY DEF D!vars, D!centreVars
<1>2. DeliveryTyped'
  BY <1>1, CentreTyped DEF DeliveryIInv, DeliveryTyped
<1>3. Ended' = Ended
  BY <1>1 DEF Ended
<1>4. NothingSent' /\ OneEnd'
  BY <1>1, <1>3, OwnerStands DEF DeliveryIInv, NothingSent, OneEnd
<1>5. Judging'
  BY <1>1, OwnerStands DEF DeliveryIInv, Judging, D!Ids
<1>6. Intact'
  <2>1. \A r : Whither(r) => Whither(r)'
    BY <1>1, OwnerStands DEF Whither
  <2> QED
    BY <1>1, <1>3, <2>1, OwnerStands DEF DeliveryIInv, Intact
<1> QED
  BY <1>1, <1>2, <1>4, <1>5, <1>6, OwnerStands
  DEF DeliveryIInv, D!CheckedIsWhole, D!RefusedStaysOut, D!RefusedOnlyIfLost

LEMMA DeliveryNext == ASSUME DeliveryIInv, [D!Next]_(D!vars) PROVE DeliveryIInv'
<1>1. CASE D!OwnAppend \/ D!OtherAppend
  BY <1>1, StepAppend
<1>2. CASE D!OwnerStep
  BY <1>2, StepOpenSegment, StepReadOpenedId, StepCloseSegment, StepReadClosedId, StepCutSpan,
     StepSend DEF D!OwnerStep
<1>3. CASE D!StoreFails \/ D!OwnerCrash
  BY <1>3, StepGivesUp
<1>4. CASE D!Lose \/ D!AdoptFails
  BY <1>4, StepLose
<1>5. CASE D!Overtake
  BY <1>5, StepOvertake
<1>6. CASE D!CentreStep
  BY <1>6, StepReceiveEvent, StepReceiveDone, StepRebuild, StepJudge, StepMerge DEF D!CentreStep
<1>7. CASE D!RebuildFails
  BY <1>7, StepRebuild
<1>8. CASE D!CentreRestart
  BY <1>8, StepCentreRestart
<1>9. CASE UNCHANGED D!vars
  BY <1>9, DeliveryStutters
<1> QED
  BY <1>1, <1>2, <1>3, <1>4, <1>5, <1>6, <1>7, <1>8, <1>9 DEF D!Next

(* The span of an owner alone on its file is its segment.                   *)
LEMMA SpanIsBetween == ASSUME DeliveryIInv PROVE D!SpanIfAlone
<1> SUFFICES ASSUME ~shared, owner \in {"sending", "delivered"}
             PROVE  D!Range(span) = D!Between
  BY DEF D!SpanIfAlone, D!SpanIsTheSegment
<1>1. /\ Opens(opened_id) /\ Closes(closed_id) /\ OnlyAt({opened_id, closed_id})
      /\ opened_id < closed_id /\ Len(span) = closed_id - 1 - opened_id
  BY DEF DeliveryIInv, OwnChain
<1>2. /\ opened_id \in Nat /\ closed_id \in Nat /\ Len(chain) \in Nat /\ closed_id <= Len(chain)
      /\ 1 <= opened_id /\ Len(span) \in Nat /\ DOMAIN span = 1 .. Len(span)
      /\ \A k \in 1 .. Len(span) : span[k] = opened_id + k
  BY <1>1 DEF DeliveryIInv, DeliveryTyped, SpanFollows, Opens, Closes
<1>3. \A n : n \in D!Range(span) <=> n \in opened_id + 1 .. closed_id - 1
  <2>1. \A n : n \in D!Range(span) <=> \E k \in 1 .. Len(span) : n = opened_id + k
    BY <1>2 DEF D!Range
  <2>2. ASSUME NEW n \in opened_id + 1 .. closed_id - 1
        PROVE  \E k \in 1 .. Len(span) : n = opened_id + k
    <3>1. n - opened_id \in 1 .. Len(span) /\ n = opened_id + (n - opened_id)
      BY <1>1, <1>2
    <3> QED
      BY <3>1
  <2>3. ASSUME NEW k \in 1 .. Len(span) PROVE opened_id + k \in opened_id + 1 .. closed_id - 1
    BY <1>1, <1>2
  <2> QED
    BY <2>1, <2>2, <2>3
<1>4. \A n \in 1 .. Len(chain) :
        /\ chain[n] = "opened" <=> n = opened_id
        /\ chain[n] = "closed" <=> n = closed_id
        /\ chain[n] = "event" <=> n # opened_id /\ n # closed_id
  BY <1>1, <1>2 DEF OnlyAt, Opens, Closes
<1>5. ASSUME NEW n \in 1 .. Len(chain)
      PROVE  n \in D!Between <=> n \in opened_id + 1 .. closed_id - 1
  <2>1. (\E i \in 1 .. n - 1 : chain[i] = "opened") <=> opened_id < n
    <3>1. \A i \in 1 .. n - 1 : i \in 1 .. Len(chain) /\ i < n
      BY <1>2
    <3>2. opened_id < n => opened_id \in 1 .. n - 1 /\ opened_id \in 1 .. Len(chain)
      BY <1>1, <1>2
    <3> QED
      BY <1>4, <3>1, <3>2
  <2>2. (\E i \in n + 1 .. Len(chain) : chain[i] = "closed") <=> n < closed_id
    BY <1>2, <1>4
  <2>3. n \in D!Between <=> opened_id < n /\ chain[n] = "event" /\ n < closed_id
    BY <2>1, <2>2 DEF D!Between
  <2> QED
    BY <1>2, <1>4, <2>3
<1>6. D!Between \subseteq 1 .. Len(chain)
      /\ \A n \in opened_id + 1 .. closed_id - 1 : n \in 1 .. Len(chain)
  BY <1>2 DEF D!Between
<1> QED
  BY <1>3, <1>5, <1>6

LEMMA DeliverySafe == ASSUME DeliveryIInv PROVE D!DeliveryInv
<1>1. inbox \subseteq [kind : {"event"}, index : D!Id, id : D!Id]
  <2>1. \A f \in EventFrames : \E k \in 1 .. Len(span) : f = D!EventFrame(k)
    BY DEF EventFrames
  <2>2. Len(span) <= MaxChain /\ Len(span) \in Nat /\ MaxChain \in Nat
    <3>1. /\ span \in Seq(D!Id) /\ opened_id \in Nat /\ MaxChain \in Nat /\ Len(span) \in Nat
      BY DEF DeliveryIInv, DeliveryTyped, D!DeliveryAssumption
    <3>2. Len(span) # 0 => span[Len(span)] = opened_id + Len(span) /\ span[Len(span)] <= MaxChain
      BY <3>1 DEF DeliveryIInv, SpanFollows, D!Id
    <3> QED
      BY <3>1, <3>2
  <2>3. ASSUME NEW k \in 1 .. Len(span)
        PROVE  D!EventFrame(k) \in [kind : {"event"}, index : D!Id, id : D!Id]
    <3>1. span[k] \in D!Id /\ k \in D!Id
      BY <2>2 DEF DeliveryIInv, DeliveryTyped, D!Id
    <3> QED
      BY <3>1 DEF D!EventFrame
  <2> QED
    BY <2>1, <2>3 DEF DeliveryIInv, DeliveryTyped
<1>2. D!TypeOK
  BY <1>1 DEF D!TypeOK, DeliveryIInv, DeliveryTyped, Early
<1> QED
  BY <1>2, SpanIsBetween DEF DeliveryIInv, D!DeliveryInv

(***************************************************************************)
(* Whatever the sender's build carries, however many rows the segment has, *)
(* and whichever frames are lost or overtaken and wherever the centre      *)
(* fails or restarts: a delivery that was checked and not refused is the   *)
(* whole span in order, and so is what a folded segment put on the main    *)
(* chain; a refused one stays out of it; an undisturbed stream is never    *)
(* refused; and the span is the segment where the owner is alone on its    *)
(* file (receive_segment, deliver_segment, verify_delivery).               *)
(***************************************************************************)
THEOREM DeliveriesAreWhole == ASSUME D!DeliveryAssumption PROVE D!Spec => []D!DeliveryInv
<1>1. D!Init => DeliveryIInv
  BY DeliveryInit
<1>2. DeliveryIInv /\ [D!Next]_(D!vars) => DeliveryIInv'
  BY DeliveryNext
<1>3. DeliveryIInv => D!DeliveryInv
  BY DeliverySafe
<1> QED
  BY <1>1, <1>2, <1>3, PTL DEF D!Spec
=============================================================================
