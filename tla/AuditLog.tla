------------------------------ MODULE AuditLog ------------------------------
(***************************************************************************)
(* What an audit store promises the processes that share one audit.db: a   *)
(* log that only grows, one entry per accepted append and none for a       *)
(* refused one, whatever the number of writers, retries and crashes.       *)
(* AuditChain (the SQLite hash chain of audit/src/store.rs) implements it. *)
(***************************************************************************)
EXTENDS Sequences

CONSTANTS Proc,     \* the processes (one store connection each)
          Event,    \* what can be appended
          NoEvent   \* no append under way

VARIABLES log,    \* the accepted events, oldest first
          call,   \* per process: the event of the append under way
          phase,  \* per process: "idle", "pending", "accepted" or "down"
          reply   \* per process: what its last append returned

absVars == <<log, call, phase, reply>>

Init == /\ log = << >>
        /\ call = [p \in Proc |-> NoEvent]
        /\ phase = [p \in Proc |-> "idle"]
        /\ reply = [p \in Proc |-> "none"]

(* A process calls append. *)
Request(p, e) ==
    /\ phase[p] = "idle"
    /\ call' = [call EXCEPT ![p] = e]
    /\ phase' = [phase EXCEPT ![p] = "pending"]
    /\ reply' = [reply EXCEPT ![p] = "none"]
    /\ UNCHANGED log

(* The one moment the event becomes part of the log. *)
Accept(p) ==
    /\ phase[p] = "pending"
    /\ log' = Append(log, call[p])
    /\ phase' = [phase EXCEPT ![p] = "accepted"]
    /\ UNCHANGED <<call, reply>>

(* Ok is only answered for an accepted event, Err only for a refused one. *)
AnswerOk(p) ==
    /\ phase[p] = "accepted"
    /\ call' = [call EXCEPT ![p] = NoEvent]
    /\ phase' = [phase EXCEPT ![p] = "idle"]
    /\ reply' = [reply EXCEPT ![p] = "ok"]
    /\ UNCHANGED log

AnswerErr(p) ==
    /\ phase[p] = "pending"
    /\ call' = [call EXCEPT ![p] = NoEvent]
    /\ phase' = [phase EXCEPT ![p] = "idle"]
    /\ reply' = [reply EXCEPT ![p] = "error"]
    /\ UNCHANGED log

(* A crash loses the call under way, never an entry of the log. *)
Crash(p) ==
    /\ phase[p] # "down"
    /\ call' = [call EXCEPT ![p] = NoEvent]
    /\ phase' = [phase EXCEPT ![p] = "down"]
    /\ reply' = [reply EXCEPT ![p] = "none"]
    /\ UNCHANGED log

Restart(p) ==
    /\ phase[p] = "down"
    /\ phase' = [phase EXCEPT ![p] = "idle"]
    /\ UNCHANGED <<log, call, reply>>

Next == \E p \in Proc : \/ \E e \in Event : Request(p, e)
                        \/ Accept(p)
                        \/ AnswerOk(p)
                        \/ AnswerErr(p)
                        \/ Crash(p)
                        \/ Restart(p)

Spec == Init /\ [][Next]_absVars
=============================================================================
