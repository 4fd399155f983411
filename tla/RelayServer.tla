----------------------------- MODULE RelayServer -----------------------------
(***************************************************************************)
(* The relay server (net/src/relay.rs): one thread per connection reads    *)
(* frames, routes each under the server's replay guard, binds its socket   *)
(* to the first sender that authenticated on it (SessionTable), and takes  *)
(* the frames meant for the server: registrations and heartbeats           *)
(* (OnlineTable), witness reports and the judgement they add up to         *)
(* (WitnessTable, net/src/liveness.rs), handed to the deployment's sink.   *)
(*                                                                         *)
(* The tables have a lock each, taken for one call: every call is a step.  *)
(* The guard is held through the whole of route, a push down another       *)
(* socket included.  Which frames the guard lets in is ReplayGuard's       *)
(* matter; time is abstract: a row or a report may leave its window at any *)
(* moment.  Only frames of known senders are modelled; others are dropped  *)
(* before anything happens.                                                *)
(***************************************************************************)
EXTENDS Naturals, Sequences, FiniteSets

CONSTANTS Node,      \* the nodes the server knows
          Conn,      \* connections; one is used again when its thread is gone
          Owner,     \* who dials on a connection
          NoConn,
          Ends,      \* bound: the connections that may end
          Talk,      \* bound: the frames that are sent on a connection
          MaxFrames  \* bound: how many of them the server reads

Frame == [kind : {"hello", "register", "beat"}, about : {"-"}]
         \cup [kind : {"unreachable", "reachable", "carry"}, about : Node]
NoFrame == [kind |-> "none", about |-> "-"]

ASSUME RelayAssumption == /\ IsFiniteSet(Conn)
                          /\ Owner \in [Conn -> Node]
                          /\ NoConn \notin Conn
                          /\ Ends \subseteq Conn
                          /\ Talk \in [Conn -> SUBSET Frame]
                          /\ MaxFrames \in Nat

VARIABLES thread,    \* per connection: where serve_connection is
          guard,     \* the connection whose thread holds the replay guard
          sessions,  \* SessionTable: per node its live session
          rows,      \* OnlineTable: per node its state, and whether it is judged
          reports,   \* WitnessTable: reports[p][w] is w's view of p
          sink,      \* the transitions handed to the deployment, oldest first
          frames,    \* frames read so far
          last       \* history: the connection a node bound last

vars == <<thread, guard, sessions, rows, reports, sink, frames, last>>

Gone == [at |-> "gone", bound |-> FALSE, frame |-> NoFrame, what |-> "-"]

Init == /\ thread = [c \in Conn |-> Gone]
        /\ guard = NoConn
        /\ sessions = [n \in Node |-> NoConn]
        /\ rows = [n \in Node |-> [state |-> "none", judged |-> FALSE]]
        /\ reports = [p \in Node |-> [w \in Node |-> "none"]]
        /\ sink = << >>
        /\ frames = 0
        /\ last = [n \in Node |-> NoConn]

-----------------------------------------------------------------------------
At(c, loc) == thread[c].at = loc
Goto(c, loc) == thread' = [thread EXCEPT ![c].at = loc]
Back(c) == thread' = [thread EXCEPT ![c].at = "reading", ![c].frame = NoFrame, ![c].what = "-"]

(* The node a frame is about: a beat is about its sender. *)
About(c) == IF thread[c].frame.kind = "beat" THEN Owner[c] ELSE thread[c].frame.about

tables == <<sessions, rows, reports, sink, last>>

(* serve: a connection is accepted and gets a thread. *)
AcceptConnection(c) ==
    /\ At(c, "gone")
    /\ Goto(c, "reading")
    /\ UNCHANGED <<guard, tables, frames>>

ReadFrame(c, f) ==
    /\ At(c, "reading") /\ frames < MaxFrames
    /\ thread' = [thread EXCEPT ![c].at = "routing", ![c].frame = f]
    /\ frames' = frames + 1
    /\ UNCHANGED <<guard, tables>>

(* A carried frame is done with, a frame for the server is answered. *)
AfterBind(c) == IF thread[c].frame.kind = "carry"
                THEN [at |-> "reading", bound |-> TRUE, frame |-> NoFrame, what |-> "-"]
                ELSE [thread[c] EXCEPT !.at = "answering", !.bound = TRUE]

(* After a frame was routed: the first one binds the socket. *)
Routed(c) == IF thread[c].bound THEN AfterBind(c) ELSE [thread[c] EXCEPT !.at = "binding"]

(* route: a frame for the server; the guard is taken and given back. *)
RouteLocal(c) ==
    /\ At(c, "routing") /\ guard = NoConn
    /\ thread[c].frame.kind # "carry"
    /\ thread' = [thread EXCEPT ![c] = Routed(c)]
    /\ UNCHANGED <<guard, tables, frames>>

(* route: a frame the guard or the signature refuses, or one for a node that is
   unknown or not dialled in.  The connection goes on. *)
RouteRefused(c) ==
    /\ At(c, "routing") /\ guard = NoConn
    /\ Back(c)
    /\ UNCHANGED <<guard, tables, frames>>

(* route, forward_to: the session is looked up and its map let go; the guard
   stays taken while the frame is written. *)
RouteCarry(c) ==
    /\ At(c, "routing") /\ guard = NoConn
    /\ thread[c].frame.kind = "carry" /\ sessions[thread[c].frame.about] # NoConn
    /\ guard' = c
    /\ Goto(c, "pushing")
    /\ UNCHANGED <<tables, frames>>

(* The write ends. *)
Push(c) ==
    /\ At(c, "pushing")
    /\ guard' = NoConn
    /\ thread' = [thread EXCEPT ![c] = Routed(c)]
    /\ UNCHANGED <<tables, frames>>

(* mutant: a push that failed leaves the guard taken *)
PushFails_KeepsGuard(c) ==
    /\ At(c, "pushing")
    /\ Back(c)
    /\ UNCHANGED <<guard, tables, frames>>

(* The write fails, at the latest with the write timeout: the frame is refused. *)
PushFails(c) ==
    /\ At(c, "pushing")
    /\ guard' = NoConn
    /\ Back(c)
    /\ UNCHANGED <<tables, frames>>

(* SessionTable::bind replaces whatever session the node had. *)
Bind(c) ==
    /\ At(c, "binding")
    /\ sessions' = [sessions EXCEPT ![Owner[c]] = c]
    /\ last' = [last EXCEPT ![Owner[c]] = c]
    /\ thread' = [thread EXCEPT ![c] = AfterBind(c)]
    /\ UNCHANGED <<guard, rows, reports, sink, frames>>

(* writer_clone fails: the frame is answered all the same. *)
BindFails(c) ==
    /\ At(c, "binding")
    /\ thread' = [thread EXCEPT ![c] = [AfterBind(c) EXCEPT !.bound = FALSE]]
    /\ UNCHANGED <<guard, tables, frames>>

-----------------------------------------------------------------------------
(* answer_local *)

(* A hello asks for nothing.  Digests, key events, address and registry queries
   and unrecognised frames touch none of these tables either. *)
AnswerHello(c) ==
    /\ At(c, "answering") /\ thread[c].frame.kind = "hello"
    /\ Back(c)
    /\ UNCHANGED <<guard, tables, frames>>

(* OnlineTable::register; a judgement stays.  The result of the answer that
   goes down the session is ignored. *)
AnswerRegister(c) ==
    /\ At(c, "answering") /\ thread[c].frame.kind = "register"
    /\ rows' = [rows EXCEPT ![Owner[c]].state = "online"]
    /\ Back(c)
    /\ UNCHANGED <<guard, sessions, reports, sink, frames, last>>

(* OnlineTable::beat: a beat without a row places nobody. *)
AnswerBeat(c) ==
    /\ At(c, "answering") /\ thread[c].frame.kind = "beat"
    /\ IF rows[Owner[c]].state = "none"
       THEN Back(c) /\ UNCHANGED rows
       ELSE Goto(c, "clearing") /\ rows' = [rows EXCEPT ![Owner[c]].state = "online"]
    /\ UNCHANGED <<guard, sessions, reports, sink, frames, last>>

(* WitnessTable::record: the latest report of a witness replaces its earlier one. *)
AnswerReport(c) ==
    /\ At(c, "answering") /\ thread[c].frame.kind \in {"unreachable", "reachable"}
    /\ reports' = [reports EXCEPT ![About(c)][Owner[c]] = thread[c].frame.kind]
    /\ Goto(c, IF thread[c].frame.kind = "reachable" THEN "clearing" ELSE "judging")
    /\ UNCHANGED <<guard, sessions, rows, sink, frames, last>>

(* mutant: a node may testify about itself *)
Witnesses_Itself(p) == {w \in Node : reports[p][w] # "none" /\ rows[w].state = "online"}

(* The witnesses that remain when the threshold is read: a fresh report, online, and not the subject. *)
Witnesses(p) == {w \in Node \ {p} : reports[p][w] \in {"unreachable", "reachable"}
                                    /\ rows[w].state = "online"}

(* WitnessTable::judge: unanimity among them, and one of life vetoes. *)
JudgedGone(p) == /\ Witnesses(p) # {}
                 /\ \A w \in Witnesses(p) : reports[p][w] = "unreachable"

(* mutant: the report waits until the witnesses agree *)
Judge_WaitsForAgreement(c) ==
    /\ At(c, "judging") /\ JudgedGone(About(c))
    /\ Goto(c, "marking")
    /\ UNCHANGED <<guard, tables, frames>>

(* judge: what the threshold says now; the row is marked in a call of its own. *)
Judge(c) ==
    /\ At(c, "judging")
    /\ IF JudgedGone(About(c)) THEN Goto(c, "marking") ELSE Back(c)
    /\ UNCHANGED <<guard, tables, frames>>

ToFire(c, loc, what) == thread' = [thread EXCEPT ![c].at = loc, ![c].what = what]

(* mutant: every report that still holds is a transition of its own *)
MarkJudged_Again(c) ==
    /\ At(c, "marking")
    /\ rows' = [rows EXCEPT ![About(c)].judged = rows[About(c)].state # "none"]
    /\ IF rows[About(c)].state # "none" THEN ToFire(c, "firing", "offline") ELSE Back(c)
    /\ UNCHANGED <<guard, sessions, reports, sink, frames, last>>

(* OnlineTable::mark_judged: set once, and only where there is a row. *)
MarkJudged(c) ==
    /\ At(c, "marking")
    /\ IF rows[About(c)].state # "none" /\ ~rows[About(c)].judged
       THEN rows' = [rows EXCEPT ![About(c)].judged = TRUE] /\ ToFire(c, "firing", "offline")
       ELSE Back(c) /\ UNCHANGED rows
    /\ UNCHANGED <<guard, sessions, reports, sink, frames, last>>

(* OnlineTable::clear_judged. *)
ClearJudged(c) ==
    /\ At(c, "clearing")
    /\ IF rows[About(c)].judged
       THEN /\ rows' = [rows EXCEPT ![About(c)].judged = FALSE]
            /\ ToFire(c, IF thread[c].frame.kind = "reachable" THEN "hearing" ELSE "firing", "recovered")
       ELSE Back(c) /\ UNCHANGED rows
    /\ UNCHANGED <<guard, sessions, reports, sink, frames, last>>

(* OnlineTable::heard_from: a prober's answer counts as a beat. *)
HeardFrom(c) ==
    /\ At(c, "hearing")
    /\ rows' = [rows EXCEPT ![About(c)].state = "online"]
    /\ Goto(c, "firing")
    /\ UNCHANGED <<guard, sessions, reports, sink, frames, last>>

(* fire: the deployment's sink writes its row. *)
Fire(c) ==
    /\ At(c, "firing")
    /\ sink' = Append(sink, [what |-> thread[c].what, peer |-> About(c)])
    /\ Back(c)
    /\ UNCHANGED <<guard, sessions, rows, reports, frames, last>>

-----------------------------------------------------------------------------
(* The connection ends, at either side. *)
Hangup(c) ==
    /\ c \in Ends /\ At(c, "reading")
    /\ Goto(c, "ended")
    /\ UNCHANGED <<guard, tables, frames>>

(* mutant: the session of the node goes, whoever's it is *)
Unbind_AnySession(c) ==
    /\ At(c, "ended")
    /\ sessions' = [sessions EXCEPT ![Owner[c]] = NoConn]
    /\ thread' = [thread EXCEPT ![c] = Gone]
    /\ UNCHANGED <<guard, rows, reports, sink, frames, last>>

(* SessionTable::unbind: only if the session is still this connection's. *)
Unbind(c) ==
    /\ At(c, "ended")
    /\ sessions' = IF thread[c].bound /\ sessions[Owner[c]] = c
                   THEN [sessions EXCEPT ![Owner[c]] = NoConn] ELSE sessions
    /\ thread' = [thread EXCEPT ![c] = Gone]
    /\ UNCHANGED <<guard, rows, reports, sink, frames, last>>

(* A row, or a report, leaves its window. *)
RowAges(n) ==
    /\ rows[n].state = "online"
    /\ rows' = [rows EXCEPT ![n].state = "offline"]
    /\ UNCHANGED <<thread, guard, sessions, reports, sink, frames, last>>

ReportAges(p, w) ==
    /\ reports[p][w] \in {"unreachable", "reachable"}
    /\ reports' = [reports EXCEPT ![p][w] = "stale"]
    /\ UNCHANGED <<thread, guard, sessions, rows, sink, frames, last>>

-----------------------------------------------------------------------------
(* What a thread does once it has read a frame, or its connection ended. *)
Works(c) == \/ RouteLocal(c) \/ RouteRefused(c) \/ RouteCarry(c) \/ Push(c) \/ PushFails(c)
            \/ Bind(c) \/ BindFails(c)
            \/ AnswerHello(c) \/ AnswerRegister(c) \/ AnswerBeat(c) \/ AnswerReport(c)
            \/ Judge(c) \/ MarkJudged(c) \/ ClearJudged(c) \/ HeardFrom(c) \/ Fire(c)
            \/ Unbind(c)

Next == \/ \E c \in Conn : \/ AcceptConnection(c) \/ Hangup(c) \/ Works(c)
                           \/ \E f \in Talk[c] : ReadFrame(c, f)
        \/ \E n \in Node : RowAges(n)
        \/ \E p, w \in Node : ReportAges(p, w)

(* Every thread goes on with what it has begun: a push ends with the write
   timeout at the latest, and no other call waits. *)
Spec == Init /\ [][Next]_vars /\ \A c \in Conn : WF_vars(Works(c))

-----------------------------------------------------------------------------
Locs == {"gone", "reading", "routing", "pushing", "binding", "answering", "judging",
         "marking", "clearing", "hearing", "firing", "ended"}

TypeOK ==
    /\ \A c \in Conn : /\ thread[c].at \in Locs /\ thread[c].bound \in BOOLEAN
                       /\ thread[c].frame \in Frame \cup {NoFrame}
                       /\ thread[c].what \in {"-", "offline", "recovered"}
    /\ guard \in Conn \cup {NoConn}
    /\ \A c \in Conn : guard = c <=> thread[c].at = "pushing"
    /\ sessions \in [Node -> Conn \cup {NoConn}]
    /\ rows \in [Node -> [state : {"none", "online", "offline"}, judged : BOOLEAN]]
    /\ reports \in [Node -> [Node -> {"none", "unreachable", "reachable", "stale"}]]
    /\ frames \in 0 .. MaxFrames

(***************************************************************************)
(* A node's session is the one it bound last, for as long as that          *)
(* connection's thread lives, and none after it: an older connection that  *)
(* ends later cannot evict its successor, and no entry outlives its socket *)
(* (SessionTable, bind and unbind by id).                                  *)
(***************************************************************************)
SessionIsNewest ==
    \A n \in Node : sessions[n] = IF last[n] # NoConn /\ thread[last[n]].bound
                                  THEN last[n] ELSE NoConn

(***************************************************************************)
(* Every judgement is handed out once and every recovery once ("the row's  *)
(* judged_at_ms is set once, so a report that keeps arriving is not a      *)
(* second transition", judge): what was and is being handed out about a    *)
(* node adds up to what its row says, whichever threads report and beat.   *)
(***************************************************************************)
Handed(p, what) ==
    Cardinality({i \in DOMAIN sink : sink[i] = [what |-> what, peer |-> p]})
    + Cardinality({c \in Conn : thread[c].what = what /\ About(c) = p})

TransitionsMatchRows ==
    \A p \in Node :
        Handed(p, "offline") = Handed(p, "recovered") + (IF rows[p].judged THEN 1 ELSE 0)

(***************************************************************************)
(* Nobody is judged on his own word, and a node alone never: somebody else *)
(* registered and reported (connection.md 6.7, "a solo node is never       *)
(* judged", WitnessTable::judge).                                          *)
(***************************************************************************)
JudgedByOthers ==
    \A p \in Node : rows[p].judged =>
        \E w \in Node \ {p} : reports[p][w] # "none" /\ rows[w].state # "none"

(***************************************************************************)
(* Judgements and recoveries are handed out once each, by witnesses other  *)
(* than the judged node (mark_judged, clear_judged, judge).                *)
(***************************************************************************)
JudgementsInv == TypeOK /\ TransitionsMatchRows /\ JudgedByOthers

(***************************************************************************)
(* A frame that was read is dealt with: no thread waits for ever on the    *)
(* guard or on a table, whatever the other threads do and however slowly   *)
(* a destination reads.                                                    *)
(***************************************************************************)
EveryFrameEnds == \A c \in Conn : At(c, "routing") ~> At(c, "reading")

(***************************************************************************)
(* "peer_offline when the judgement is reached ... and peer_recovered when *)
(* the node is heard from again" (connection.md 6.7): with nothing under   *)
(* way about a node, the last row written about it says what the table     *)
(* says.                                                                   *)
(***************************************************************************)
LastSaid(p) ==
    LET about == SelectSeq(sink, LAMBDA t : t.peer = p)
    IN  IF about = << >> THEN "recovered" ELSE about[Len(about)].what

ChainTellsRow ==
    \A p \in Node : (\A c \in Conn : thread[c].what # "-" => About(c) # p) =>
        (LastSaid(p) = "offline" <=> rows[p].judged)
=============================================================================
