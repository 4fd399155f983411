----------------------------- MODULE AuditChain -----------------------------
(***************************************************************************)
(* The append path of audit/src/store.rs and the hash chain of             *)
(* audit/src/hash.rs: several processes, one connection each, append to    *)
(* one audit.db.                                                           *)
(*                                                                         *)
(* A hash is modelled ideally (no collisions): compute_hash is injective   *)
(* in the previous hash and the event, so a hash value is the sequence of  *)
(* the events it covers and GENESIS_PREV_HASH is the empty sequence.  The  *)
(* id of a row is its position: AUTOINCREMENT ids of a table no row leaves *)
(* (the append-only triggers) and no rolled-back insert consumes.          *)
(***************************************************************************)
EXTENDS Naturals, Sequences

CONSTANTS Proc,               \* processes writing the same file
          Event,              \* timestamp, actor, action and detail, as one value
          NoEvent,            \* no append under way
          NoProc,             \* nobody holds the write lock
          APPEND_MAX_ATTEMPTS,\* the retry budget of append
          MaxRows             \* bound: no append is called once the log has this many rows

ASSUME ChainAssumption ==
    /\ NoEvent \notin Event
    /\ NoProc \notin Proc
    /\ APPEND_MAX_ATTEMPTS \in Nat \ {0}
    /\ MaxRows \in Nat

VARIABLES rows,     \* the committed rows of audit_events
          lock,     \* who holds SQLite's write lock
          pc,       \* per process: where its append_with is
          attempt,  \* per process: the attempt counter of append_with
          arg,      \* per process: the event being appended
          head,     \* per process: the head read inside the transaction
          result    \* per process: what its last append returned

vars == <<rows, lock, pc, attempt, arg, head, result>>

Hash == Seq(Event)

GENESIS_PREV_HASH == << >>

compute_hash(prev_hash, event) == Append(prev_hash, event)

Row == [event : Event, prev_hash : Hash, hash : Hash]

(* last_hash, with the genesis value of an empty log. *)
LastHash(rs) == IF rs = << >> THEN GENESIS_PREV_HASH ELSE rs[Len(rs)].hash

RowFor(prev_hash, event) ==
    [event |-> event, prev_hash |-> prev_hash, hash |-> compute_hash(prev_hash, event)]

-----------------------------------------------------------------------------
(* verify_chain: the first row whose prev_hash is not the hash of the row  *)
(* before it, or whose own hash does not recompute.                        *)

ExpectedPrev(rs, i) == IF i = 1 THEN GENESIS_PREV_HASH ELSE rs[i - 1].hash

(* mutant: the row's own hash is not recomputed *)
RowBroken_LinkOnly(rs, i) == rs[i].prev_hash # ExpectedPrev(rs, i)

RowBroken(rs, i) == \/ rs[i].prev_hash # ExpectedPrev(rs, i)
                    \/ rs[i].hash # compute_hash(rs[i].prev_hash, rs[i].event)

BrokenRows(rs) == {i \in 1 .. Len(rs) : RowBroken(rs, i)}

verify_chain(rs) ==
    IF BrokenRows(rs) = {}
    THEN [status |-> "intact", at |-> Len(rs)]
    ELSE [status |-> "broken",
          at |-> CHOOSE i \in BrokenRows(rs) : \A j \in BrokenRows(rs) : i <= j]

-----------------------------------------------------------------------------

Init == /\ rows = << >>
        /\ lock = NoProc
        /\ pc = [p \in Proc |-> "idle"]
        /\ attempt = [p \in Proc |-> 1]
        /\ arg = [p \in Proc |-> NoEvent]
        /\ head = [p \in Proc |-> GENESIS_PREV_HASH]
        /\ result = [p \in Proc |-> "none"]

(* Bound: an append is only started while the log is short. *)
Room == Len(rows) < MaxRows

(* append / append_with: the loop is entered with attempt 1. *)
CallAppend(p, e) ==
    /\ pc[p] = "idle"
    /\ Room
    /\ pc' = [pc EXCEPT ![p] = "trying"]
    /\ attempt' = [attempt EXCEPT ![p] = 1]
    /\ arg' = [arg EXCEPT ![p] = e]
    /\ result' = [result EXCEPT ![p] = "none"]
    /\ UNCHANGED <<rows, lock, head>>

(* mutant: a deferred transaction reads the head without the write lock *)
BeginImmediate_Deferred(p) ==
    /\ pc[p] = "trying"
    /\ pc' = [pc EXCEPT ![p] = "begun"]
    /\ UNCHANGED <<rows, lock, attempt, arg, head, result>>

(* append_once: BEGIN IMMEDIATE takes the write lock before anything is read. *)
BeginImmediate(p) ==
    /\ pc[p] = "trying"
    /\ lock = NoProc
    /\ lock' = p
    /\ pc' = [pc EXCEPT ![p] = "begun"]
    /\ UNCHANGED <<rows, attempt, arg, head, result>>

(* mutant: the attempt counter is not advanced *)
LockBusyRetry_Forever(p) ==
    /\ pc[p] = "trying"
    /\ lock \notin {NoProc, p}
    /\ attempt[p] < APPEND_MAX_ATTEMPTS
    /\ UNCHANGED vars

(* mutant: one retry too many *)
LockBusyRetry_OffByOne(p) ==
    /\ pc[p] = "trying"
    /\ lock \notin {NoProc, p}
    /\ attempt[p] <= APPEND_MAX_ATTEMPTS
    /\ attempt' = [attempt EXCEPT ![p] = attempt[p] + 1]
    /\ UNCHANGED <<rows, lock, pc, arg, head, result>>

(* The lock outlasted the busy timeout: retried until the budget is spent. *)
LockBusyRetry(p) ==
    /\ pc[p] = "trying"
    /\ lock \notin {NoProc, p}
    /\ attempt[p] < APPEND_MAX_ATTEMPTS
    /\ attempt' = [attempt EXCEPT ![p] = attempt[p] + 1]
    /\ UNCHANGED <<rows, lock, pc, arg, head, result>>

(* mutant: an event the budget could not place is dropped silently *)
ReturnErr_SilentDrop(p) ==
    /\ pc' = [pc EXCEPT ![p] = "idle"]
    /\ arg' = [arg EXCEPT ![p] = NoEvent]
    /\ result' = [result EXCEPT ![p] = "ok"]

ReturnErr(p) ==
    /\ pc' = [pc EXCEPT ![p] = "idle"]
    /\ arg' = [arg EXCEPT ![p] = NoEvent]
    /\ result' = [result EXCEPT ![p] = "error"]

LockBusyGiveUp(p) ==
    /\ pc[p] = "trying"
    /\ lock \notin {NoProc, p}
    /\ attempt[p] >= APPEND_MAX_ATTEMPTS
    /\ ReturnErr(p)
    /\ UNCHANGED <<rows, lock, attempt, head>>

(* SELECT hash ... ORDER BY id DESC LIMIT 1, inside the transaction. *)
ReadHead(p) ==
    /\ pc[p] = "begun"
    /\ head' = [head EXCEPT ![p] = LastHash(rows)]
    /\ pc' = [pc EXCEPT ![p] = "read"]
    /\ UNCHANGED <<rows, lock, attempt, arg, result>>

(* INSERT: visible to nobody else before the commit.  The row is RowFor(head, arg). *)
Insert(p) ==
    /\ pc[p] = "read"
    /\ pc' = [pc EXCEPT ![p] = "inserted"]
    /\ UNCHANGED <<rows, lock, attempt, arg, head, result>>

Commit(p) ==
    /\ pc[p] = "inserted"
    /\ rows' = Append(rows, RowFor(head[p], arg[p]))
    /\ lock' = NoProc
    /\ pc' = [pc EXCEPT ![p] = "committed"]
    /\ UNCHANGED <<attempt, arg, head, result>>

ReturnOk(p) ==
    /\ pc[p] = "committed"
    /\ pc' = [pc EXCEPT ![p] = "idle"]
    /\ arg' = [arg EXCEPT ![p] = NoEvent]
    /\ result' = [result EXCEPT ![p] = "ok"]
    /\ UNCHANGED <<rows, lock, attempt, head>>

(* Any other SQLite error: dropping the transaction rolls it back, and an
   error that is not a lock error is returned without a retry. *)
StorageError(p) ==
    /\ pc[p] \in {"trying", "begun", "read", "inserted"}
    /\ lock' = IF lock = p THEN NoProc ELSE lock
    /\ ReturnErr(p)
    /\ UNCHANGED <<rows, attempt, head>>

(* The process dies; SQLite drops its lock and its uncommitted insert. *)
Crash(p) ==
    /\ pc[p] # "down"
    /\ pc' = [pc EXCEPT ![p] = "down"]
    /\ lock' = IF lock = p THEN NoProc ELSE lock
    /\ arg' = [arg EXCEPT ![p] = NoEvent]
    /\ result' = [result EXCEPT ![p] = "none"]
    /\ UNCHANGED <<rows, attempt, head>>

(* The process comes back with a fresh connection (AuditOpen models open). *)
Restart(p) ==
    /\ pc[p] = "down"
    /\ pc' = [pc EXCEPT ![p] = "idle"]
    /\ UNCHANGED <<rows, lock, attempt, arg, head, result>>

Step(p) == \/ BeginImmediate(p) \/ LockBusyRetry(p) \/ LockBusyGiveUp(p)
           \/ ReadHead(p) \/ Insert(p) \/ Commit(p) \/ ReturnOk(p)

Next == \E p \in Proc : \/ \E e \in Event : CallAppend(p, e)
                        \/ Step(p)
                        \/ StorageError(p)
                        \/ Crash(p)
                        \/ Restart(p)

(* A process that is inside append keeps running; calls, errors, crashes and
   restarts are the environment's. *)
Fairness == \A p \in Proc : WF_vars(Step(p))

SafeSpec == Init /\ [][Next]_vars
Spec == SafeSpec /\ Fairness

-----------------------------------------------------------------------------
Locs == {"idle", "trying", "begun", "read", "inserted", "committed", "down"}

TypeOK == /\ rows \in Seq(Row)
          /\ lock \in Proc \cup {NoProc}
          /\ pc \in [Proc -> Locs]
          /\ attempt \in [Proc -> 1 .. APPEND_MAX_ATTEMPTS]
          /\ arg \in [Proc -> Event \cup {NoEvent}]
          /\ head \in [Proc -> Hash]
          /\ result \in [Proc -> {"none", "ok", "error"}]

(***************************************************************************)
(* The hash chain never forks: at every moment verify_chain (hash.rs) over *)
(* what is committed answers Intact with the full length, though several   *)
(* processes append, retry, fail and crash at any point of append_once.    *)
(***************************************************************************)
ChainIntact == verify_chain(rows) = [status |-> "intact", at |-> Len(rows)]

(***************************************************************************)
(* Why: inside append_once the write lock is exclusive, and the head a     *)
(* writer read is still the head when it inserts and commits.              *)
(***************************************************************************)
LockHeld == \A p \in Proc : pc[p] \in {"begun", "read", "inserted"} <=> lock = p

HeadCurrent == \A p \in Proc : pc[p] \in {"read", "inserted"} => head[p] = LastHash(rows)

ArgKnown == \A p \in Proc :
    (pc[p] \in {"trying", "begun", "read", "inserted", "committed"}) <=> (arg[p] # NoEvent)

(* The inductive invariant behind ChainIntact and the refinement. *)
ChainInv == TypeOK /\ LockHeld /\ HeadCurrent /\ ArgKnown /\ BrokenRows(rows) = {}

(***************************************************************************)
(* What an Intact answer is worth: on the chain append built, verify_chain *)
(* reports an edited event at its own row, and a removed or displaced row  *)
(* at the first place the chain no longer links (hash.rs).                 *)
(***************************************************************************)
Edited(rs, i, e) == [rs EXCEPT ![i].event = e]
Removed(rs, i) == SubSeq(rs, 1, i - 1) \o SubSeq(rs, i + 1, Len(rs))
Swapped(rs, i) == [rs EXCEPT ![i] = rs[i + 1], ![i + 1] = rs[i]]

TamperEvident ==
    \A i \in 1 .. Len(rows) :
      LET brokenAt == [status |-> "broken", at |-> i]
      IN  /\ \A e \in Event \ {rows[i].event} : verify_chain(Edited(rows, i, e)) = brokenAt
          /\ i < Len(rows) => /\ verify_chain(Removed(rows, i)) = brokenAt
                              /\ verify_chain(Swapped(rows, i)) = brokenAt

(***************************************************************************)
(* An append always returns (Ok or Err) unless its process dies: the retry *)
(* loop of append_with is bounded whoever holds the lock.                  *)
(***************************************************************************)
AppendReturns == \A p \in Proc : pc[p] = "trying" ~> pc[p] \in {"idle", "down"}

(***************************************************************************)
(* The store implements the append-only log: Ok means stored exactly once, *)
(* Err means not stored, a crash loses no committed row (append_with,      *)
(* append_once, the append-only triggers).                                 *)
(***************************************************************************)
Phase(loc) == IF loc \in {"trying", "begun", "read", "inserted"} THEN "pending"
              ELSE IF loc = "committed" THEN "accepted"
              ELSE loc

Log == INSTANCE AuditLog
         WITH log <- [i \in 1 .. Len(rows) |-> rows[i].event],
              call <- arg,
              phase <- [p \in Proc |-> Phase(pc[p])],
              reply <- result

ImplementsLog == Log!Spec
=============================================================================
