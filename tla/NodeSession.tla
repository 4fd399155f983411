---------------------------- MODULE NodeSession ----------------------------
(***************************************************************************)
(* A node's one session with its cross-region server (net relay.rs,        *)
(* RelayClient and RelaySession), and the threads of the host that share   *)
(* it (host-core state.rs): the beat, which registers and then beats; the  *)
(* prober, which sends and is the only reader; the digest reporter.  Every *)
(* call goes through with_session: the client's lock is taken, a session   *)
(* is dialled if there is none, and one that fails is forgotten.           *)
(*                                                                         *)
(* The server is what it is to this node: up or not, with or without the   *)
(* node's row in its online table.  It may stop and come back, and the     *)
(* network may cut a connection; a frame arrives in up to two pieces.      *)
(***************************************************************************)
EXTENDS Naturals, Sequences

CONSTANTS Loops,      \* the sets of threads a node may run: with peers it probes, and it may report
          MaxStops,   \* bound: how often the server stops
          MaxCuts,    \* bound: how often the network cuts a connection
          MaxSent,    \* bound: frames a socket takes before the server reads one
          MaxDown     \* bound: pieces of frames on their way to the node

Thread == {"beat", "probe", "digest"}

ASSUME SessionAssumption == Loops \subseteq SUBSET Thread /\ MaxDown \in Nat

Free == "-"

VARIABLES threads,     \* the threads this node runs
          stop,        \* per thread: "run", "asked" to stop, or "gone"
          lock,        \* RelayClient.session's lock
          session,     \* what the slot holds: "none", "live", or a socket whose other end is gone
          at,          \* per thread: where it is
          does,        \* per thread: the call it makes
          registered,  \* Heartbeat::start's own flag
          up,          \* the server runs
          row,         \* the server's online table has a row for this node
          sent,        \* frames written that the server has not read
          down,        \* pieces the server wrote that the node has not read
          half,        \* the server has written the first piece of a frame only
          part,        \* receive_frame holds the first piece of a frame
          since,       \* history: per thread, who signed after it did and before it wrote
          late,        \* history: a frame was written after one that was signed later
          stops, cuts

client == <<lock, session, at, does, registered, part, since, late>>
pushed == <<down, half>>
server == <<up, row, stops, cuts>>
vars == <<threads, stop, client, server, sent, pushed>>

Init == /\ threads \in Loops
        /\ stop = [t \in Thread |-> IF t \in threads THEN "run" ELSE "gone"]
        /\ lock = Free /\ session = "none"
        /\ at = [t \in Thread |-> "idle"]
        /\ does = [t \in Thread |-> "-"]
        /\ registered = FALSE
        /\ up = TRUE /\ row = FALSE
        /\ sent = << >> /\ down = << >> /\ half = FALSE /\ part = FALSE
        /\ since = [t \in Thread |-> {}] /\ late = FALSE
        /\ stops = 0 /\ cuts = 0

Goto(t, loc) == at' = [at EXCEPT ![t] = loc]
Call(t, what) == Goto(t, "waiting") /\ does' = [does EXCEPT ![t] = what]

-----------------------------------------------------------------------------
(* The loops *)

(* Heartbeat::start: is_connected takes the lock for itself; what it answered
   decides the call that follows. *)
BeatDecides ==
    /\ stop["beat"] = "run" /\ at["beat"] = "idle" /\ lock = Free
    /\ Call("beat", IF session = "none" \/ ~registered THEN "register" ELSE "heartbeat")
    /\ UNCHANGED <<threads, stop, lock, session, registered, part, since, late, server, sent, pushed>>

(* Probe::start: the probes of a round, the answers and the reports are sends;
   between them the session is drained. *)
ProbeWakes ==
    /\ stop["probe"] = "run" /\ at["probe"] = "idle"
    /\ \E what \in {"probe", "receive"} : Call("probe", what)
    /\ UNCHANGED <<threads, stop, lock, session, registered, part, since, late, server, sent, pushed>>

(* DigestReporter::start; a chain that cannot be read skips the turn. *)
DigestWakes ==
    /\ stop["digest"] = "run" /\ at["digest"] = "idle"
    /\ Call("digest", "digest")
    /\ UNCHANGED <<threads, stop, lock, session, registered, part, since, late, server, sent, pushed>>

(* Dropping a handle asks the loop to stop and joins its thread. *)
StopThread(t) ==
    /\ stop[t] = "run"
    /\ stop' = [stop EXCEPT ![t] = "asked"]
    /\ UNCHANGED <<threads, client, server, sent, pushed>>

(* mutant: the loop looks for the signal only after a call that worked *)
ThreadEndsWhenServed(t) ==
    /\ stop[t] = "asked" /\ at[t] = "idle" /\ session = "live"
    /\ stop' = [stop EXCEPT ![t] = "gone"]
    /\ UNCHANGED <<threads, client, server, sent, pushed>>

ThreadEnds(t) ==
    /\ stop[t] = "asked" /\ at[t] = "idle"
    /\ stop' = [stop EXCEPT ![t] = "gone"]
    /\ UNCHANGED <<threads, client, server, sent, pushed>>

-----------------------------------------------------------------------------
(* with_session *)

(* mutant: the frame is signed before the lock is taken *)
TakeLockAfterSigning(t) ==
    \/ /\ at[t] = "waiting" /\ does[t] # "receive"
       /\ Goto(t, "signed")
       /\ since' = [u \in Thread |-> IF u # t /\ at[u] = "signed" THEN since[u] \cup {t} ELSE since[u]]
       /\ UNCHANGED <<threads, stop, lock, session, does, registered, part, late, server, sent, pushed>>
    \/ /\ at[t] \in {"signed", "waiting"} /\ lock = Free
       /\ (at[t] = "waiting" => does[t] = "receive")
       /\ lock' = t
       /\ Goto(t, IF session = "none" THEN "dialling" ELSE
                  IF does[t] = "receive" THEN "reading" ELSE "writing")
       /\ part' = FALSE
       /\ UNCHANGED <<threads, stop, session, does, registered, since, late, server, sent, pushed>>

TakeLock(t) ==
    /\ at[t] = "waiting" /\ lock = Free
    /\ lock' = t
    /\ Goto(t, IF session = "none" THEN "dialling" ELSE
               IF does[t] = "receive" THEN "reading" ELSE "signing")
    /\ part' = FALSE
    /\ UNCHANGED <<threads, stop, session, does, registered, since, late, server, sent, pushed>>

(* What the beat makes of its call; the other loops make nothing of theirs. *)
Outcome(t, ok) ==
    IF t = "beat" THEN IF does[t] = "register" THEN ok ELSE registered /\ ok
    ELSE registered

(* The call is over and the lock is let go. *)
Done(t, ok) ==
    /\ lock' = Free /\ Goto(t, "idle") /\ does' = [does EXCEPT ![t] = "-"]
    /\ registered' = Outcome(t, ok)
    /\ since' = [since EXCEPT ![t] = {}]

(* mutant: a session that failed stays in its slot *)
FailedKeepsSession(t) == Done(t, FALSE) /\ UNCHANGED <<session, pushed>> /\ part' = FALSE

(* "A session that failed is not a session: forget it so the next call dials." *)
Failed(t) == /\ Done(t, FALSE) /\ session' = "none" /\ part' = FALSE
             /\ down' = << >> /\ half' = FALSE

(* open_session: an address answers; the hello says whose socket it is, and
   nothing to the table. *)
Dial(t) ==
    /\ at[t] = "dialling" /\ up
    /\ session' = "live"
    /\ Goto(t, IF does[t] = "receive" THEN "reading" ELSE "signing")
    /\ UNCHANGED <<threads, stop, lock, does, registered, part, since, late, server, sent, pushed>>

(* No address answers within its connect timeout. *)
DialFails(t) ==
    /\ at[t] = "dialling"
    /\ ~up
    /\ Failed(t)
    /\ UNCHANGED <<threads, stop, late, server, sent>>

(* send_body_to: the frame is signed, with the time, while the lock is held. *)
Sign(t) ==
    /\ at[t] = "signing"
    /\ Goto(t, "writing")
    /\ since' = [u \in Thread |-> IF u # t /\ at[u] \in {"signed", "writing"} THEN since[u] \cup {t} ELSE since[u]]
    /\ UNCHANGED <<threads, stop, lock, session, does, registered, part, late, server, sent, pushed>>

(* The bytes are taken by the socket: the server's if it is still there, and
   otherwise lost -- the first write after the other end went is one of those. *)
Write(t) ==
    /\ at[t] = "writing" /\ session \in {"live", "cut"} /\ Len(sent) < MaxSent
    /\ sent' = IF session = "live" THEN Append(sent, does[t]) ELSE sent
    /\ session' = IF session = "live" THEN "live" ELSE "reset"
    /\ late' = (late \/ \E u \in Thread : at[u] \in {"signed", "writing"} /\ t \in since[u])
    /\ Done(t, TRUE)
    /\ UNCHANGED <<threads, stop, part, server, pushed>>

(* write_error: the socket refuses, or the write timeout passes. *)
WriteFails(t) ==
    /\ at[t] = "writing"
    /\ session \in {"cut", "reset"} \/ Len(sent) = MaxSent
    /\ Failed(t)
    /\ UNCHANGED <<threads, stop, late, server, sent>>

-----------------------------------------------------------------------------
(* receive *)

(* receive_frame: a piece is read.  The last piece of a frame ends the call
   with the frame; a last piece whose beginning is gone does not parse, and
   that ends the session. *)
Read(t) ==
    /\ at[t] = "reading" /\ down # << >>
    /\ IF Head(down) = "begin"
       THEN /\ part' = TRUE /\ down' = Tail(down)
            /\ UNCHANGED <<lock, session, at, does, registered, since, half>>
       ELSE IF part THEN /\ Done(t, TRUE) /\ part' = FALSE /\ down' = Tail(down)
                         /\ UNCHANGED <<session, half>>
       ELSE Failed(t)
    /\ UNCHANGED <<threads, stop, late, server, sent>>

(* mutant: only a frame that has begun has a timeout *)
ReadTimesOutInAFrame(t) ==
    /\ at[t] = "reading" /\ down = << >> /\ session = "live" /\ part
    /\ Done(t, TRUE) /\ part' = FALSE
    /\ UNCHANGED <<threads, stop, session, late, server, sent, pushed>>

(* The read timeout passes: "nothing yet".  What the call had read is dropped
   with its buffer. *)
ReadTimesOut(t) ==
    /\ at[t] = "reading" /\ down = << >> /\ session = "live"
    /\ Done(t, TRUE) /\ part' = FALSE
    /\ UNCHANGED <<threads, stop, session, late, server, sent, pushed>>

(* The other end is gone and everything it wrote is read. *)
ReadCloses(t) ==
    /\ at[t] = "reading" /\ down = << >> /\ session \in {"cut", "reset"}
    /\ Failed(t)
    /\ UNCHANGED <<threads, stop, late, server, sent>>

-----------------------------------------------------------------------------
(* The server *)

(* answer_local: a registration makes the row, a beat without a row places
   nobody; a registration is acknowledged down the session. *)
ServerReads ==
    /\ up /\ sent # << >>
    /\ sent' = Tail(sent)
    /\ row' = (row \/ Head(sent) = "register")
    /\ IF Head(sent) = "register" /\ session = "live" /\ ~half /\ Len(down) < MaxDown
       THEN down' = Append(down, "begin") /\ half' = TRUE
       ELSE UNCHANGED pushed
    /\ UNCHANGED <<threads, stop, client, up, stops, cuts>>

(* A frame for the node is handed down its session, in two pieces. *)
ServerPushes ==
    /\ up /\ session = "live" /\ Len(down) < MaxDown
    /\ down' = Append(down, IF half THEN "end" ELSE "begin")
    /\ half' = ~half
    /\ UNCHANGED <<threads, stop, client, server, sent>>

Gone == IF session = "live" THEN "cut" ELSE session

(* The process ends: its table is memory and is forgotten. *)
ServerStops ==
    /\ up /\ stops < MaxStops
    /\ up' = FALSE /\ row' = FALSE /\ sent' = << >> /\ session' = Gone
    /\ stops' = stops + 1
    /\ UNCHANGED <<threads, stop, lock, at, does, registered, part, since, late, cuts, pushed>>

ServerStarts ==
    /\ ~up
    /\ up' = TRUE
    /\ UNCHANGED <<threads, stop, client, row, stops, cuts, sent, pushed>>

(* The network drops the connection; what was on its way is lost. *)
Cut ==
    /\ session = "live" /\ cuts < MaxCuts
    /\ session' = "cut" /\ sent' = << >> /\ cuts' = cuts + 1
    /\ UNCHANGED <<threads, stop, lock, at, does, registered, part, since, late, up, row, stops, pushed>>

-----------------------------------------------------------------------------
Calls(t) == \/ Dial(t) \/ DialFails(t) \/ Sign(t) \/ Write(t) \/ WriteFails(t)
            \/ Read(t) \/ ReadTimesOut(t) \/ ReadCloses(t)

Next == \/ BeatDecides \/ ProbeWakes \/ DigestWakes
        \/ \E t \in Thread : StopThread(t) \/ ThreadEnds(t) \/ TakeLock(t) \/ Calls(t)
        \/ ServerReads \/ ServerPushes \/ ServerStops \/ ServerStarts \/ Cut

Spec == Init /\ [][Next]_vars

(* The loops go round, a call that has the lock ends (every socket has its
   timeouts), and a server that was stopped is started again.  The lock is a
   std Mutex, given to whom it pleases: who asks again and again is assumed to
   get it in the end, which is strong fairness. *)
FairSpec == /\ Spec
            /\ SF_vars(BeatDecides) /\ WF_vars(ProbeWakes) /\ WF_vars(DigestWakes)
            /\ \A t \in Thread : /\ SF_vars(TakeLock(t)) /\ WF_vars(Calls(t))
                                 /\ WF_vars(ThreadEnds(t))
            /\ WF_vars(ServerReads) /\ WF_vars(ServerStarts)

-----------------------------------------------------------------------------
TypeOK ==
    /\ threads \subseteq Thread /\ stop \in [Thread -> {"run", "asked", "gone"}]
    /\ lock \in Thread \cup {Free}
    /\ \A t \in Thread : lock = t <=> at[t] \in {"dialling", "signing", "writing", "reading"}
    /\ session \in {"none", "live", "cut", "reset"}
    /\ registered \in BOOLEAN /\ half \in BOOLEAN /\ up \in BOOLEAN /\ row \in BOOLEAN
    /\ Len(down) <= MaxDown /\ (session = "none" => down = << >>)

(***************************************************************************)
(* Frames leave in the order they were signed in, whichever threads send:  *)
(* the server's replay record refuses a frame older than the last it took  *)
(* from a node, so two loops that signed and wrote in different orders     *)
(* would refuse each other's frames (send_body_to, under with_session).    *)
(***************************************************************************)
WrittenAsSigned == ~late

(***************************************************************************)
(* The lock is with the thread whose call goes on, and frames leave in     *)
(* order (with_session, send_body_to).                                     *)
(***************************************************************************)
SessionInv == TypeOK /\ WrittenAsSigned

(***************************************************************************)
(* A node that only beats is registered again after every stop of its      *)
(* server and every cut ("a restart forgets the whole table (a node        *)
(* re-registers when it reconnects)", OnlineTable).                        *)
(***************************************************************************)
AloneComesBack ==
    (threads = {"beat"} /\ []<>(stop["beat"] = "run")) => []<>row

(***************************************************************************)
(* Who wants to send, sends: no call of a loop waits for ever behind the   *)
(* reader, a dead session or a server that is down.                        *)
(***************************************************************************)
CallsEnd == \A t \in Thread : at[t] = "waiting" ~> at[t] = "idle"

(***************************************************************************)
(* A loop that was asked to stop, stops: a host that is dropped joins its  *)
(* threads (Heartbeat::stop, Probe::stop, DigestReporter::stop).           *)
(***************************************************************************)
StopsReturn == \A t \in Thread : stop[t] = "asked" ~> stop[t] = "gone"

(***************************************************************************)
(* No call on the shared session and no stop of a loop waits for ever      *)
(* (with_session, receive_frame, Heartbeat::stop).                         *)
(***************************************************************************)
ThreadsReturn == CallsEnd /\ StopsReturn

(***************************************************************************)
(* The same promise for a node that also probes or reports: another thread *)
(* may redial before the beat looks.                                       *)
(***************************************************************************)
ComesBack == ([]<>(stop["beat"] = "run")) => []<>row

(***************************************************************************)
(* "net's session already keeps its reader and writer separately locked,   *)
(* so a read here and a beat there do not collide" (state.rs, Probe): who  *)
(* has something to send does not wait for a read to time out.             *)
(***************************************************************************)
SendersDoNotWait ==
    \A t, u \in Thread : at[t] = "reading" /\ down = << >> =>
                         ~(at[u] = "waiting" /\ does[u] # "receive")

(***************************************************************************)
(* "A connection that cannot deliver a complete frame in this long is      *)
(* closed" (transport.rs, DEFAULT_READ_TIMEOUT): a read never begins in    *)
(* the middle of a frame.                                                  *)
(***************************************************************************)
ReadsBeginAtAFrame ==
    \A t \in Thread : at[t] = "reading" /\ down # << >> /\ ~part => Head(down) = "begin"
=============================================================================
