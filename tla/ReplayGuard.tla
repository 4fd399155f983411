----------------------------- MODULE ReplayGuard -----------------------------
(***************************************************************************)
(* Replay protection of the connection layer (net/src/replay.rs, called    *)
(* last by verify_at in net/src/sign.rs): per peer a high-water mark and   *)
(* the bodies accepted at that very timestamp, behind a time window.       *)
(*                                                                         *)
(* Frames may be delayed, reordered and delivered any number of times (a   *)
(* frame goes direct and then by relay, and a send that failed may still   *)
(* have arrived); a peer's clock may be off and may step back; a restart   *)
(* forgets the record.                                                     *)
(***************************************************************************)
EXTENDS Naturals

CONSTANTS Peer,      \* senders the receiver knows
          Body,      \* body hashes
          BACK_MS,   \* REPLAY_WINDOW_BACK_MS
          AHEAD_MS,  \* REPLAY_WINDOW_AHEAD_MS
          MaxTime,   \* bound: the receiver's clock
          MaxSkew    \* bound: how far ahead a peer's clock runs

ASSUME GuardAssumption ==
    /\ BACK_MS \in Nat /\ AHEAD_MS \in Nat
    /\ MaxTime \in Nat /\ MaxSkew \in Nat

Message == [from : Peer, ts : Nat, body : Body]

VARIABLES now,     \* the receiver's clock
          marks,   \* per peer: its PeerRecord
          seen,    \* history: the messages accepted since the receiver started
          repeats  \* history: those of them accepted more than once

vars == <<now, marks, seen, repeats>>

(* PeerRecord::default(). *)
NoRecord == [high_water |-> 0, at_water |-> {}]

Init == /\ now = 0
        /\ marks = [p \in Peer |-> NoRecord]
        /\ seen = {} /\ repeats = {}

-----------------------------------------------------------------------------
Tick == /\ now < MaxTime
        /\ now' = now + 1
        /\ UNCHANGED <<marks, seen, repeats>>

(* mutant: the window has no forward side *)
InWindow_NoAhead(m) == m.ts + BACK_MS >= now

(* Neither older nor further ahead than the window. *)
InWindow(m) == m.ts + BACK_MS >= now /\ m.ts <= now + AHEAD_MS

(* mutant: what was accepted at the mark itself is not remembered *)
IsReplay_NoSet(m) == m.ts < marks[m.from].high_water

(* Older than the mark, or at it with a body already accepted there. *)
IsReplay(m) == \/ m.ts < marks[m.from].high_water
               \/ /\ m.ts = marks[m.from].high_water
                  /\ m.body \in marks[m.from].at_water

(* mutant: the set outlives the mark it belongs to *)
Recorded_KeepsSet(r, m) ==
    [high_water |-> IF m.ts > r.high_water THEN m.ts ELSE r.high_water,
     at_water |-> r.at_water \cup {m.body}]

(* A newer timestamp advances the mark and discards the set. *)
Recorded(r, m) ==
    IF m.ts > r.high_water
    THEN [high_water |-> m.ts, at_water |-> {m.body}]
    ELSE [high_water |-> r.high_water, at_water |-> r.at_water \cup {m.body}]

(* accept: the window first, then the record, then the message is let in. *)
Accept(m) ==
    /\ m.ts <= now + MaxSkew
    /\ InWindow(m)
    /\ ~IsReplay(m)
    /\ marks' = [marks EXCEPT ![m.from] = Recorded(marks[m.from], m)]
    /\ seen' = seen \cup {m}
    /\ repeats' = IF m \in seen THEN repeats \cup {m} ELSE repeats
    /\ UNCHANGED now

(* accept: Stale, Future or Replay, and the mark of the peer stays. *)
Refuse(m) ==
    /\ m.ts <= now + MaxSkew
    /\ ~InWindow(m) \/ IsReplay(m)
    /\ UNCHANGED vars

(* The record lives in memory. *)
Restart ==
    /\ marks' = [p \in Peer |-> NoRecord]
    /\ seen' = {} /\ repeats' = {}
    /\ UNCHANGED now

(* The timestamps a run can meet. *)
Times == 0 .. MaxTime + MaxSkew
Frames == [from : Peer, ts : Times, body : Body]

Next == \/ Tick
        \/ \E m \in Frames : Accept(m) \/ Refuse(m)
        \/ Restart

Spec == Init /\ [][Next]_vars

-----------------------------------------------------------------------------
TypeOK == /\ now \in Nat
          /\ marks \in [Peer -> [high_water : Nat, at_water : SUBSET Body]]
          /\ seen \subseteq Message /\ repeats \subseteq Message

(***************************************************************************)
(* No message is let in twice while the receiver runs, whatever the network*)
(* repeats and however the messages of a peer overtake each other          *)
(* (connection.md 3.2; the set may be discarded when the mark advances).   *)
(***************************************************************************)
AtMostOnce == repeats = {}

(***************************************************************************)
(* Nothing legitimate is called a replay: what the record refuses is a     *)
(* message accepted before, or one older than something accepted from the  *)
(* same peer ("two messages minted in the same millisecond share a ts and  *)
(* are both legitimate", replay.rs).                                       *)
(***************************************************************************)
RefusesOnlyOldOrSame ==
    \A m \in Frames : IsReplay(m) =>
        m \in seen \/ \E x \in seen : x.from = m.from /\ x.ts > m.ts

(***************************************************************************)
(* A message from the future cannot lock its peer out: the mark is never   *)
(* further ahead than the window's forward side ("a stale or future        *)
(* message can never advance a peer's mark", ReplayGuard::accept).         *)
(***************************************************************************)
MarkWithinReach == \A p \in Peer : marks[p].high_water <= now + AHEAD_MS

(* Why: the record is exactly what the accepted messages say. *)
RecordIsHistory ==
    \A p \in Peer :
        /\ \A m \in seen : m.from = p => m.ts <= marks[p].high_water
        /\ marks[p].at_water =
             {b \in Body : \E m \in seen : m.from = p /\ m.ts = marks[p].high_water /\ m.body = b}
        /\ marks[p].high_water = 0 \/ \E m \in seen : m.from = p /\ m.ts = marks[p].high_water

GuardInv == TypeOK /\ RecordIsHistory /\ AtMostOnce /\ MarkWithinReach

(***************************************************************************)
(* The guard lets no message in twice and refuses none but what is old,    *)
(* the same, or out of the window, and no peer locks itself out for good   *)
(* (ReplayGuard::accept).                                                  *)
(***************************************************************************)
GuardIsFair == GuardInv /\ RefusesOnlyOldOrSame
=============================================================================
