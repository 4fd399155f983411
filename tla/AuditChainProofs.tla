-------------------------- MODULE AuditChainProofs --------------------------
(* Proofs about AuditChain and, after it, about AuditOpen and              *)
(* AuditSegments: for any number of processes, any set of events, any retry *)
(* budget, a log of any length, any segments and files of any length.       *)
EXTENDS AuditChain, SequenceTheorems, FiniteSets, FiniteSetTheorems, TLAPS

(* What append_once adds is a well-typed row. *)
LEMMA RowForType ==
    ASSUME NEW h \in Hash, NEW e \in Event
    PROVE  RowFor(h, e) \in Row
BY DEF Row, RowFor, compute_hash, Hash

LEMMA LastHashType ==
    ASSUME NEW rs \in Seq(Row)
    PROVE  LastHash(rs) \in Hash
<1>1. CASE rs = << >>
  BY <1>1 DEF LastHash, GENESIS_PREV_HASH, Hash
<1>2. CASE rs # << >>
  <2>1. Len(rs) \in 1 .. Len(rs)
    BY <1>2
  <2>2. rs[Len(rs)] \in Row
    BY <2>1
  <2> QED
    BY <1>2, <2>2 DEF LastHash, Row
<1> QED
  BY <1>1, <1>2

(* Extending an unbroken chain at its head leaves it unbroken: the heart of *)
(* the argument that append never forks the chain.                          *)
LEMMA AppendKeepsLinks ==
    ASSUME NEW rs \in Seq(Row), BrokenRows(rs) = {}, NEW e \in Event
    PROVE  BrokenRows(Append(rs, RowFor(LastHash(rs), e))) = {}
<1> DEFINE row == RowFor(LastHash(rs), e)
           new == Append(rs, row)
<1>1. row \in Row
  BY LastHashType, RowForType
<1>2. /\ Len(new) = Len(rs) + 1
      /\ \A j \in 1 .. Len(rs) : new[j] = rs[j]
      /\ new[Len(rs) + 1] = row
  BY <1>1
<1> HIDE DEF row, new
<1>3. ASSUME NEW i \in 1 .. Len(rs)
      PROVE  ~RowBroken(new, i)
  <2>1. ~RowBroken(rs, i)
    BY DEF BrokenRows
  <2>2. new[i] = rs[i] /\ (i # 1 => new[i - 1] = rs[i - 1])
    BY <1>2
  <2> QED
    BY <2>1, <2>2 DEF RowBroken, ExpectedPrev
<1>4. ~RowBroken(new, Len(rs) + 1)
  <2>1. /\ row.prev_hash = LastHash(rs)
        /\ row.hash = compute_hash(row.prev_hash, row.event)
    BY DEF row, RowFor
  <2>2. ExpectedPrev(new, Len(rs) + 1) = LastHash(rs)
    <3>1. CASE rs = << >>
      BY <3>1 DEF ExpectedPrev, LastHash
    <3>2. CASE rs # << >>
      <4>1. Len(rs) \in Nat /\ Len(rs) # 0
        BY <3>2
      <4>2. new[Len(rs)] = rs[Len(rs)]
        BY <4>1, <1>2
      <4> QED
        BY <3>2, <4>1, <4>2 DEF ExpectedPrev, LastHash
    <3> QED
      BY <3>1, <3>2
  <2> QED
    BY <1>2, <2>1, <2>2 DEF RowBroken
<1>5. \A i \in 1 .. Len(new) : ~RowBroken(new, i)
  BY <1>2, <1>3, <1>4
<1>6. BrokenRows(new) = {}
  BY <1>5 DEF BrokenRows
<1> QED
  BY <1>6 DEF new, row

-----------------------------------------------------------------------------
LEMMA InitChainInv == Init => ChainInv
<1> SUFFICES ASSUME Init PROVE ChainInv
  OBVIOUS
<1> USE DEF Init, GENESIS_PREV_HASH
<1>1. TypeOK
  BY ChainAssumption DEF TypeOK, Locs, Hash
<1>2. LockHeld
  BY ChainAssumption DEF LockHeld
<1>3. HeadCurrent /\ ArgKnown
  BY DEF HeadCurrent, ArgKnown
<1>4. BrokenRows(rows) = {}
  BY DEF BrokenRows
<1> QED
  BY <1>1, <1>2, <1>3, <1>4 DEF ChainInv

(* One step per action; Commit is the only one that touches rows. *)
LEMMA NextChainInv == ChainInv /\ [Next]_vars => ChainInv'
<1> SUFFICES ASSUME ChainInv, [Next]_vars PROVE ChainInv'
  OBVIOUS
<1> USE ChainAssumption DEF ChainInv, TypeOK, LockHeld, HeadCurrent, ArgKnown, Locs
<1>1. ASSUME NEW p \in Proc, NEW e \in Event, CallAppend(p, e)
      PROVE  ChainInv'
  BY <1>1 DEF CallAppend
<1>2. ASSUME NEW p \in Proc, BeginImmediate(p)
      PROVE  ChainInv'
  BY <1>2 DEF BeginImmediate
<1>3. ASSUME NEW p \in Proc, LockBusyRetry(p)
      PROVE  ChainInv'
  BY <1>3 DEF LockBusyRetry
<1>4. ASSUME NEW p \in Proc, LockBusyGiveUp(p)
      PROVE  ChainInv'
  BY <1>4 DEF LockBusyGiveUp, ReturnErr
<1>5. ASSUME NEW p \in Proc, ReadHead(p)
      PROVE  ChainInv'
  <2>1. LastHash(rows) \in Hash
    BY LastHashType
  <2> QED
    BY <1>5, <2>1 DEF ReadHead
<1>6. ASSUME NEW p \in Proc, Insert(p)
      PROVE  ChainInv'
  BY <1>6 DEF Insert
<1>7. ASSUME NEW p \in Proc, Commit(p)
      PROVE  ChainInv'
  <2>1. lock = p /\ head[p] = LastHash(rows) /\ arg[p] \in Event
    BY <1>7 DEF Commit
  <2>2. RowFor(head[p], arg[p]) \in Row
    BY <2>1, RowForType
  <2>3. rows' \in Seq(Row)
    BY <1>7, <2>2 DEF Commit
  <2>4. BrokenRows(rows') = {}
    <3>1. rows' = Append(rows, RowFor(LastHash(rows), arg[p]))
      BY <1>7, <2>1 DEF Commit
    <3>2. rows \in Seq(Row) /\ BrokenRows(rows) = {}
      OBVIOUS
    <3> QED
      BY ONLY <3>1, <3>2, <2>1, AppendKeepsLinks
  <2>5. \A q \in Proc : q # p => pc[q] \notin {"begun", "read", "inserted"}
    BY <2>1
  <2>6. TypeOK'
    BY <1>7, <2>3 DEF Commit
  <2>7. LockHeld' /\ ArgKnown'
    BY <1>7, <2>1, <2>5 DEF Commit
  <2>8. HeadCurrent'
    BY <1>7, <2>5 DEF Commit
  <2> QED
    BY <2>4, <2>6, <2>7, <2>8
<1>8. ASSUME NEW p \in Proc, ReturnOk(p)
      PROVE  ChainInv'
  BY <1>8 DEF ReturnOk
<1>9. ASSUME NEW p \in Proc, StorageError(p)
      PROVE  ChainInv'
  BY <1>9 DEF StorageError, ReturnErr
<1>10. ASSUME NEW p \in Proc, Crash(p)
       PROVE  ChainInv'
  BY <1>10 DEF Crash
<1>11. ASSUME NEW p \in Proc, Restart(p)
       PROVE  ChainInv'
  BY <1>11 DEF Restart
<1>12. CASE UNCHANGED vars
  BY <1>12 DEF vars
<1> QED
  BY <1>1, <1>2, <1>3, <1>4, <1>5, <1>6, <1>7, <1>8, <1>9, <1>10, <1>11, <1>12 DEF Next, Step

(* ChainInv is an invariant of the append path of store.rs. *)
THEOREM ChainInvariant == SafeSpec => []ChainInv
<1>1. Init => ChainInv
  BY InitChainInv
<1>2. ChainInv /\ [Next]_vars => ChainInv'
  BY NextChainInv
<1> QED
  BY <1>1, <1>2, PTL DEF SafeSpec

(* verify_chain answers Intact, with the full length, in every reachable state. *)
THEOREM ChainAlwaysIntact == SafeSpec => []ChainIntact
<1>1. ChainInv => ChainIntact
  BY DEF ChainInv, ChainIntact, verify_chain
<1> QED
  BY <1>1, ChainInvariant, PTL

-----------------------------------------------------------------------------
(* What an Intact answer is worth.  First what verify_chain reports: the    *)
(* row that is broken when no row before it is.                             *)
LEMMA FirstBroken ==
    ASSUME NEW rs, Len(rs) \in Nat, NEW i \in 1 .. Len(rs), RowBroken(rs, i),
           \A j \in 1 .. Len(rs) : j < i => ~RowBroken(rs, j)
    PROVE  verify_chain(rs) = [status |-> "broken", at |-> i]
<1>1. i \in BrokenRows(rs) /\ \A j \in BrokenRows(rs) : j \in 1 .. Len(rs) /\ i <= j
  BY DEF BrokenRows
<1>2. \A k \in BrokenRows(rs) : (\A j \in BrokenRows(rs) : k <= j) => k = i
  BY <1>1
<1>3. (CHOOSE k \in BrokenRows(rs) : \A j \in BrokenRows(rs) : k <= j) = i
  BY <1>1, <1>2
<1> QED
  BY <1>1, <1>3 DEF verify_chain

(* A change that leaves the rows before i alone and whose row i no longer   *)
(* links or recomputes is reported at i.                                    *)
LEMMA BrokenAtFirstChange ==
    ASSUME NEW rs \in Seq(Row), BrokenRows(rs) = {}, NEW new, Len(new) \in Nat,
           NEW i \in 1 .. Len(rs), i <= Len(new),
           \A j \in 1 .. Len(rs) : j < i => new[j] = rs[j],
           RowBroken(new, i)
    PROVE  verify_chain(new) = [status |-> "broken", at |-> i]
<1>1. ASSUME NEW j \in 1 .. Len(new), j < i
      PROVE  ~RowBroken(new, j)
  <2>1. j \in 1 .. Len(rs) /\ ~RowBroken(rs, j)
    BY <1>1 DEF BrokenRows
  <2>2. new[j] = rs[j] /\ (j # 1 => new[j - 1] = rs[j - 1])
    BY <1>1, <2>1
  <2> QED
    BY <2>1, <2>2 DEF RowBroken, ExpectedPrev
<1> QED
  BY <1>1, FirstBroken

(* The hash is injective in the event and never the one it extends.         *)
LEMMA HashTells ==
    ASSUME NEW h \in Hash, NEW e \in Event
    PROVE  /\ compute_hash(h, e) # h
           /\ \A f \in Event : f # e => compute_hash(h, f) # compute_hash(h, e)
<1>1. Len(Append(h, e)) = Len(h) + 1 /\ Len(h) \in Nat
  BY DEF Hash
<1>2. ASSUME NEW f \in Event
      PROVE  Append(h, f)[Len(h) + 1] = f
  BY DEF Hash
<1> QED
  BY <1>1, <1>2 DEF compute_hash

(* In an unbroken chain a row that follows row i does not link to what row  *)
(* i itself linked to.                                                      *)
LEMMA SuccessorDoesNotFit ==
    ASSUME NEW rs \in Seq(Row), BrokenRows(rs) = {}, NEW i \in 1 .. Len(rs), i < Len(rs)
    PROVE  rs[i + 1].prev_hash # ExpectedPrev(rs, i)
<1>1. rs[i].prev_hash = ExpectedPrev(rs, i) /\ rs[i].hash = compute_hash(rs[i].prev_hash, rs[i].event)
  BY DEF BrokenRows, RowBroken
<1>2. i + 1 \in 1 .. Len(rs)
  OBVIOUS
<1>3. rs[i + 1].prev_hash = ExpectedPrev(rs, i + 1)
  BY <1>2 DEF BrokenRows, RowBroken
<1>4. ExpectedPrev(rs, i + 1) = rs[i].hash
  BY DEF ExpectedPrev
<1>5. rs[i] \in Row
  OBVIOUS
<1>6. rs[i].prev_hash \in Hash /\ rs[i].event \in Event
  BY <1>5 DEF Row
<1> QED
  BY <1>1, <1>3, <1>4, <1>6, HashTells

LEMMA EditedIsReported ==
    ASSUME NEW rs \in Seq(Row), BrokenRows(rs) = {}, NEW i \in 1 .. Len(rs),
           NEW e \in Event, e # rs[i].event
    PROVE  verify_chain(Edited(rs, i, e)) = [status |-> "broken", at |-> i]
<1> DEFINE new == Edited(rs, i, e)
<1>1. rs[i] \in Row
  OBVIOUS
<1>2. /\ rs[i].prev_hash \in Hash /\ rs[i].event \in Event
      /\ rs[i].hash = compute_hash(rs[i].prev_hash, rs[i].event)
  BY <1>1 DEF Row, BrokenRows, RowBroken
<1>3. Len(new) = Len(rs) /\ \A j \in 1 .. Len(rs) : j # i => new[j] = rs[j]
  BY DEF Edited
<1>4. new[i].prev_hash = rs[i].prev_hash /\ new[i].hash = rs[i].hash /\ new[i].event = e
  BY <1>1 DEF Edited, Row
<1>5. RowBroken(new, i)
  BY <1>2, <1>4, HashTells DEF RowBroken
<1> QED
  BY <1>3, <1>5, BrokenAtFirstChange

LEMMA RemovedIsReported ==
    ASSUME NEW rs \in Seq(Row), BrokenRows(rs) = {}, NEW i \in 1 .. Len(rs), i < Len(rs)
    PROVE  verify_chain(Removed(rs, i)) = [status |-> "broken", at |-> i]
<1> DEFINE new == Removed(rs, i)
           front == SubSeq(rs, 1, i - 1)
           back == SubSeq(rs, i + 1, Len(rs))
<1>1. /\ front \in Seq(Row) /\ Len(front) = i - 1
      /\ \A j \in 1 .. i - 1 : front[j] = rs[j]
  OBVIOUS
<1>2. back \in Seq(Row) /\ Len(back) = Len(rs) - i /\ back[1] = rs[i + 1]
  OBVIOUS
<1> HIDE DEF front, back
<1>3. new = front \o back
  BY DEF Removed, front, back
<1> HIDE DEF new
<1>4. Len(new) = Len(rs) - 1 /\ i - 1 \in Nat
  BY <1>1, <1>2, <1>3
<1>5. \A j \in 1 .. i - 1 : new[j] = rs[j]
  BY <1>1, <1>2, <1>3
<1>6. new[i] = rs[i + 1]
  <2>1. i \in 1 .. Len(front) + Len(back) /\ ~(i <= Len(front)) /\ i - Len(front) = 1
    BY <1>1, <1>2
  <2>2. (front \o back)[i] = back[i - Len(front)]
    BY <1>1, <1>2, <2>1, ConcatProperties
  <2> QED
    BY <1>2, <1>3, <2>1, <2>2
<1>7. ExpectedPrev(new, i) = ExpectedPrev(rs, i)
  BY <1>4, <1>5 DEF ExpectedPrev
<1>8. RowBroken(new, i)
  BY <1>6, <1>7, SuccessorDoesNotFit DEF RowBroken
<1>9. verify_chain(new) = [status |-> "broken", at |-> i]
  BY <1>4, <1>5, <1>8, BrokenAtFirstChange
<1> QED
  BY <1>9 DEF new

LEMMA SwappedIsReported ==
    ASSUME NEW rs \in Seq(Row), BrokenRows(rs) = {}, NEW i \in 1 .. Len(rs), i < Len(rs)
    PROVE  verify_chain(Swapped(rs, i)) = [status |-> "broken", at |-> i]
<1> DEFINE new == Swapped(rs, i)
<1>1. /\ Len(new) = Len(rs) /\ new[i] = rs[i + 1]
      /\ \A j \in 1 .. Len(rs) : j < i => new[j] = rs[j]
  BY DEF Swapped
<1>2. ExpectedPrev(new, i) = ExpectedPrev(rs, i)
  BY <1>1 DEF ExpectedPrev
<1>3. RowBroken(new, i)
  BY <1>1, <1>2, SuccessorDoesNotFit DEF RowBroken
<1> QED
  BY <1>1, <1>3, BrokenAtFirstChange

(* Whatever append, crashes and retries built: an edited, a removed or a    *)
(* displaced row is reported by verify_chain at its own place (hash.rs).    *)
THEOREM ChainIsTamperEvident == SafeSpec => []TamperEvident
<1>1. ChainInv => TamperEvident
  <2> SUFFICES ASSUME ChainInv, NEW i \in 1 .. Len(rows)
               PROVE  LET brokenAt == [status |-> "broken", at |-> i]
                      IN  /\ \A e \in Event \ {rows[i].event} : verify_chain(Edited(rows, i, e)) = brokenAt
                          /\ i < Len(rows) => /\ verify_chain(Removed(rows, i)) = brokenAt
                                              /\ verify_chain(Swapped(rows, i)) = brokenAt
    BY DEF TamperEvident
  <2>1. rows \in Seq(Row) /\ BrokenRows(rows) = {}
    BY DEF ChainInv, TypeOK
  <2> QED
    BY <2>1, EditedIsReported, RemovedIsReported, SwappedIsReported
<1> QED
  BY <1>1, ChainInvariant, PTL

-----------------------------------------------------------------------------
(* Committing a row appends its event to the abstract log. *)
LEMMA CommitAppendsEvent ==
    ASSUME NEW rs \in Seq(Row), NEW row \in Row
    PROVE  [i \in 1 .. Len(Append(rs, row)) |-> Append(rs, row)[i].event]
             = Append([i \in 1 .. Len(rs) |-> rs[i].event], row.event)
<1> DEFINE new == Append(rs, row)
           evs == [i \in 1 .. Len(rs) |-> rs[i].event]
<1>1. /\ Len(new) = Len(rs) + 1
      /\ \A j \in 1 .. Len(rs) : new[j] = rs[j]
      /\ new[Len(rs) + 1] = row
  OBVIOUS
<1>2. evs \in Seq(Event) /\ Len(evs) = Len(rs)
  <2>1. Len(rs) \in Nat /\ \A i \in 1 .. Len(rs) : rs[i] \in Row
    OBVIOUS
  <2>2. \A i \in 1 .. Len(rs) : rs[i].event \in Event
    BY <2>1 DEF Row
  <2> QED
    BY <2>1, <2>2, IsASeq
<1>3. row.event \in Event
  BY DEF Row
<1>4. /\ Append(evs, row.event) = [i \in 1 .. Len(rs) + 1 |->
                                    IF i = Len(rs) + 1 THEN row.event ELSE evs[i]]
  BY <1>2, <1>3
<1> HIDE DEF new, evs
<1>5. [i \in 1 .. Len(new) |-> new[i].event] = Append(evs, row.event)
  <2>1. \A i \in 1 .. Len(rs) + 1 :
          new[i].event = IF i = Len(rs) + 1 THEN row.event ELSE evs[i]
    BY <1>1 DEF evs
  <2> QED
    BY <1>1, <1>4, <2>1
<1> QED
  BY <1>5 DEF new, evs

(* The store of store.rs is an append-only log in the sense of AuditLog: the *)
(* initial states map to initial states and every step to a step or stutter. *)
THEOREM StoreImplementsLog == SafeSpec => ImplementsLog
<1> DEFINE absLog == [i \in 1 .. Len(rows) |-> rows[i].event]
           absPhase == [p \in Proc |-> Phase(pc[p])]
<1>1. Init => Log!Init
  BY DEF Init, Log!Init, Phase
<1>2. ChainInv /\ [Next]_vars => [Log!Next]_(Log!absVars)
  <2> SUFFICES ASSUME ChainInv, [Next]_vars
               PROVE  Log!Next \/ UNCHANGED Log!absVars
    OBVIOUS
  <2> USE DEF ChainInv, TypeOK, Locs
  <2>1. ASSUME NEW p \in Proc, NEW e \in Event, CallAppend(p, e)
        PROVE  Log!Request(p, e)
    BY <2>1 DEF CallAppend, Log!Request, Phase
  <2>2. ASSUME NEW p \in Proc, BeginImmediate(p) \/ LockBusyRetry(p) \/ ReadHead(p) \/ Insert(p)
        PROVE  UNCHANGED Log!absVars
    <3>1. rows' = rows /\ arg' = arg /\ result' = result
      BY <2>2 DEF BeginImmediate, LockBusyRetry, ReadHead, Insert
    <3>2. absPhase' = absPhase
      BY <2>2 DEF BeginImmediate, LockBusyRetry, ReadHead, Insert, Phase
    <3> QED
      BY <3>1, <3>2 DEF Log!absVars
  <2>3. ASSUME NEW p \in Proc, LockBusyGiveUp(p) \/ StorageError(p)
        PROVE  Log!AnswerErr(p)
    BY <2>3 DEF LockBusyGiveUp, StorageError, ReturnErr, Log!AnswerErr, Phase
  <2>4. ASSUME NEW p \in Proc, Commit(p)
        PROVE  Log!Accept(p)
    <3>1. arg[p] \in Event /\ head[p] \in Hash
      BY <2>4 DEF Commit, ArgKnown
    <3>2. RowFor(head[p], arg[p]) \in Row /\ RowFor(head[p], arg[p]).event = arg[p]
      BY <3>1, RowForType DEF RowFor
    <3>3. absLog' = Append(absLog, arg[p])
      BY <2>4, <3>2, CommitAppendsEvent DEF Commit
    <3>4. absPhase[p] = "pending" /\ absPhase' = [absPhase EXCEPT ![p] = "accepted"]
      BY <2>4 DEF Commit, Phase
    <3>5. arg' = arg /\ result' = result
      BY <2>4 DEF Commit
    <3> QED
      BY <3>3, <3>4, <3>5 DEF Log!Accept
  <2>5. ASSUME NEW p \in Proc, ReturnOk(p)
        PROVE  Log!AnswerOk(p)
    BY <2>5 DEF ReturnOk, Log!AnswerOk, Phase
  <2>6. ASSUME NEW p \in Proc, Crash(p)
        PROVE  Log!Crash(p)
    BY <2>6 DEF Crash, Log!Crash, Phase
  <2>7. ASSUME NEW p \in Proc, Restart(p)
        PROVE  Log!Restart(p)
    BY <2>7 DEF Restart, Log!Restart, Phase
  <2>8. CASE UNCHANGED vars
    BY <2>8 DEF vars, Log!absVars
  <2> QED
    BY <2>1, <2>2, <2>3, <2>4, <2>5, <2>6, <2>7, <2>8 DEF Next, Step, Log!Next
<1> QED
  BY <1>1, <1>2, ChainInvariant, PTL DEF SafeSpec, ImplementsLog, Log!Spec


-----------------------------------------------------------------------------
(* AuditOpen: opening the file.  A process that has read the version works  *)
(* on a file no newer than this build, and what it has executed of the plan *)
(* is in the file, whoever put it there.                                    *)
CONSTANT OPEN_MAX_ATTEMPTS
VARIABLES file, openPc, openAttempt, found, step

O == INSTANCE AuditOpen WITH pc <- openPc, attempt <- openAttempt

Migrating == {"plan", "alter", "stamp", "open"}

(* The tables and columns the first n statements of the plan leave behind.  *)
Executed(f, n) ==
    /\ \A k \in 1 .. n : k \in 1 .. 3 => O!Plan[k].what \in f.tables
    /\ \A k \in 1 .. n : k \in 4 .. 7 => O!Plan[k].what \in f.cols

OpenKnown(p) ==
    /\ openPc[p] \in {"version"} \cup Migrating => file.wal = TRUE
    /\ openPc[p] \in Migrating =>
         /\ file.version <= 1 /\ found[p] <= 1
         /\ found[p] = 1 => file.version = 1
    /\ openPc[p] \in {"plan", "alter"} => step[p] \in 1 .. 7 /\ Executed(file, step[p] - 1)
    /\ openPc[p] = "alter" => step[p] \in 4 .. 7
    /\ openPc[p] \in {"stamp", "open"} => Executed(file, 7)
    /\ openPc[p] = "open" => file.version = 1
    /\ openPc[p] = "failed" => openAttempt[p] = OPEN_MAX_ATTEMPTS

OpenIInv == O!TypeOK /\ \A p \in Proc : OpenKnown(p)

LEMMA PlanIs ==
    /\ Len(O!Plan) = 7
    /\ \A k \in 1 .. 7 : O!Plan[k].do = IF k \in 1 .. 3 THEN "create" ELSE "column"
    /\ O!Plan[1].what = "audit_events" /\ O!Plan[2].what = "runs" /\ O!Plan[3].what = "segments"
    /\ O!Plan[4].what = "agent_id" /\ O!Plan[5].what = "segment_id"
    /\ O!Plan[6].what = "resumed_from_snapshot" /\ O!Plan[7].what = "head_prev_length"
BY DEF O!Plan

LEMMA PlanTypes ==
    ASSUME NEW k \in 1 .. 7
    PROVE  /\ k \in 1 .. 3 => /\ O!Plan[k].what \in O!Tables
                            /\ O!CreatedWith(O!Plan[k].what) \subseteq O!Columns
           /\ k \in 4 .. 7 => O!Plan[k].what \in O!Columns
<1>1. \/ k = 1 \/ k = 2 \/ k = 3 \/ k = 4 \/ k = 5 \/ k = 6 \/ k = 7
  OBVIOUS
<1> QED
  BY <1>1, PlanIs DEF O!Tables, O!Columns, O!CreatedWith

(* All seven statements make the file complete. *)
LEMMA ExecutedIsComplete ==
    ASSUME Executed(file, 7), O!TypeOK
    PROVE  file.tables = O!Tables /\ file.cols = O!Columns
<1>1. /\ file.tables \subseteq O!Tables /\ file.cols \subseteq O!Columns
  BY DEF O!TypeOK
<1>2. /\ \A k \in 1 .. 3 : O!Plan[k].what \in file.tables
      /\ \A k \in 4 .. 7 : O!Plan[k].what \in file.cols
  BY DEF Executed
<1>3. O!Tables \subseteq file.tables /\ O!Columns \subseteq file.cols
  <2>1. O!Tables \subseteq file.tables
    BY <1>2, PlanIs DEF O!Tables
  <2>2. O!Columns \subseteq file.cols
    BY <1>2, PlanIs DEF O!Columns
  <2> QED
    BY <2>1, <2>2
<1> QED
  BY <1>1, <1>3

(* What a step may do to the file: it only adds, and the version only goes  *)
(* from an older one to this build's.                                       *)
FileGrows ==
    /\ file' \in [wal : BOOLEAN, version : 0 .. 2, tables : SUBSET O!Tables, cols : SUBSET O!Columns]
    /\ file.wal = TRUE => file'.wal = TRUE
    /\ file'.version = file.version \/ (file.version <= 1 /\ file'.version = 1)
    /\ file.tables \subseteq file'.tables /\ file.cols \subseteq file'.cols

LEMMA OthersStayKnown ==
    ASSUME NEW p \in Proc, OpenKnown(p), O!TypeOK, FileGrows,
           openPc'[p] = openPc[p], openAttempt'[p] = openAttempt[p],
           found'[p] = found[p], step'[p] = step[p]
    PROVE  OpenKnown(p)'
<1>1. file.version \in 0 .. 2 /\ file'.version \in 0 .. 2 /\ found[p] \in 0 .. 2
  BY DEF FileGrows, O!TypeOK
<1>2. \A n : Executed(file, n) => Executed(file', n)
  BY DEF Executed, FileGrows
<1> QED
  BY <1>1, <1>2 DEF OpenKnown, FileGrows, Migrating

(* A step of p keeps the invariant when it types p's own state and p's part *)
(* of the invariant holds after it.                                         *)
LEMMA OpenStepKeeps ==
    ASSUME OpenIInv, NEW p \in Proc, O!TypeOK', FileGrows, OpenKnown(p)',
           \A q \in Proc \ {p} : /\ openPc'[q] = openPc[q] /\ openAttempt'[q] = openAttempt[q]
                                 /\ found'[q] = found[q] /\ step'[q] = step[q]
    PROVE  OpenIInv'
<1>1. \A q \in Proc \ {p} : OpenKnown(q)'
  BY OthersStayKnown DEF OpenIInv
<1> QED
  BY <1>1 DEF OpenIInv

(* Steps that leave the file alone. *)
LEMMA OpenMoves ==
    ASSUME OpenIInv, O!OpenAssumption, NEW p \in Proc,
           \/ O!Open(p) \/ O!ReadVersion(p) \/ O!ColumnExists(p) \/ O!LockError(p)
           \/ O!StorageError(p) \/ O!Exit(p)
    PROVE  OpenIInv'
<1>1. O!TypeOK /\ OpenKnown(p) /\ OPEN_MAX_ATTEMPTS \in Nat \ {0}
  BY DEF OpenIInv, O!OpenAssumption
<1>2. file' = file
  BY DEF O!Open, O!ReadVersion, O!ColumnExists, O!LockError, O!StorageError, O!Exit
<1>3. FileGrows
  BY <1>1, <1>2 DEF FileGrows, O!TypeOK
<1>4. \A n : Executed(file', n) <=> Executed(file, n)
  BY <1>2 DEF Executed
<1>5. \A q \in Proc \ {p} : /\ openPc'[q] = openPc[q] /\ openAttempt'[q] = openAttempt[q]
                            /\ found'[q] = found[q] /\ step'[q] = step[q]
  BY <1>1 DEF O!TypeOK, O!Open, O!ReadVersion, O!ColumnExists, O!LockError, O!StorageError, O!Exit,
              O!Goto, O!Advance
<1>6. Len(O!Plan) = 7
  BY PlanIs
<1> DEFINE Places == O!Opening \cup O!Gone \cup {"open"}
<1>8. /\ openPc \in [Proc -> Places] /\ openAttempt \in [Proc -> 1 .. OPEN_MAX_ATTEMPTS]
      /\ found \in [Proc -> 0 .. 2] /\ step \in [Proc -> 1 .. 8] /\ file.version \in 0 .. 2
  BY <1>1, <1>6 DEF O!TypeOK
<1>9. /\ {"configure", "version", "plan", "alter", "stamp", "open"} \subseteq Places
      /\ {"closed", "refused", "failed", "io_failed"} \subseteq Places
  BY DEF O!Opening, O!Gone
<1>10. ASSUME openPc' \in [Proc -> Places], openAttempt' \in [Proc -> 1 .. OPEN_MAX_ATTEMPTS],
              found' \in [Proc -> 0 .. 2], step' \in [Proc -> 1 .. 8]
       PROVE  O!TypeOK'
  BY <1>1, <1>2, <1>6, <1>10 DEF O!TypeOK
<1> HIDE DEF Places
<1>7. O!TypeOK' /\ OpenKnown(p)'
  <2>1. CASE O!Open(p)
    <3>1. O!TypeOK'
      BY <1>1, <1>8, <1>9, <1>10, <2>1 DEF O!Open, O!Goto
    <3>2. OpenKnown(p)'
      BY <1>1, <2>1 DEF O!Open, O!Goto, O!TypeOK, OpenKnown, Migrating
    <3> QED
      BY <3>1, <3>2
  <2>2. CASE O!ReadVersion(p)
    <3>1. O!TypeOK'
      <4>1. openPc' \in [Proc -> Places] /\ step' \in [Proc -> 1 .. 8]
        BY <1>8, <1>9, <2>2 DEF O!ReadVersion, O!Goto
      <4>2. found' \in [Proc -> 0 .. 2] /\ openAttempt' = openAttempt
        BY <1>8, <2>2 DEF O!ReadVersion
      <4> QED
        BY <1>8, <1>10, <4>1, <4>2
    <3>2. openPc'[p] \in {"refused", "plan"} /\ found'[p] = file.version
      BY <1>1, <2>2 DEF O!ReadVersion, O!Goto, O!TypeOK
    <3>3. CASE openPc'[p] = "plan"
      <4>1. file.version <= 1 /\ step'[p] = 1 /\ file.wal = TRUE
        BY <1>1, <2>2, <3>3 DEF O!ReadVersion, O!Goto, O!TypeOK, O!AUDIT_SCHEMA_VERSION, OpenKnown
      <4>2. Executed(file', 0)
        BY DEF Executed
      <4> QED
        BY <1>2, <1>8, <3>1, <3>2, <3>3, <4>1, <4>2 DEF OpenKnown, Migrating
    <3>4. CASE openPc'[p] = "refused"
      BY <3>1, <3>4 DEF OpenKnown, Migrating
    <3> QED
      BY <3>1, <3>2, <3>3, <3>4
  <2>3. CASE O!ColumnExists(p)
    <3>1. step[p] \in 1 .. 7 /\ O!Plan[step[p]].do = "column" /\ openPc[p] = "plan"
          /\ file.version <= 1 /\ found[p] <= 1 /\ (found[p] = 1 => file.version = 1) /\ file.wal = TRUE
          /\ Executed(file, step[p] - 1)
      BY <1>1, <2>3 DEF O!ColumnExists, O!Statement, OpenKnown, Migrating
    <3>2. step[p] \in 4 .. 7
      BY <3>1, PlanIs
    <3>3. O!TypeOK'
      <4>1. openPc' \in [Proc -> Places] /\ step' \in [Proc -> 1 .. 8]
        BY <1>6, <1>8, <1>9, <2>3, <3>1 DEF O!ColumnExists, O!Advance, O!Goto
      <4> QED
        BY <1>8, <1>10, <2>3, <4>1 DEF O!ColumnExists
    <3>4. CASE O!Statement(p).what \in file.cols
      <4>1. openPc'[p] = (IF step[p] = 7 THEN "stamp" ELSE "plan") /\ step'[p] = step[p] + 1
            /\ found' = found
        BY <1>1, <1>6, <2>3, <3>4 DEF O!ColumnExists, O!Advance, O!Goto, O!TypeOK
      <4>2. Executed(file, step[p])
        BY <3>1, <3>2, <3>4 DEF Executed, O!Statement
      <4>3. Executed(file', step[p]) /\ (step[p] = 7 => Executed(file', 7))
        BY <1>4, <4>2
      <4> QED
        BY <1>2, <1>8, <3>1, <3>2, <3>3, <4>1, <4>3 DEF OpenKnown, Migrating
    <3>5. CASE O!Statement(p).what \notin file.cols
      <4>1. openPc'[p] = "alter" /\ step' = step /\ found' = found
        BY <1>1, <2>3, <3>5 DEF O!ColumnExists, O!Goto, O!TypeOK
      <4> QED
        BY <1>2, <1>4, <1>8, <3>1, <3>2, <3>3, <4>1 DEF OpenKnown, Migrating
    <3> QED
      BY <3>3, <3>4, <3>5
  <2>4. CASE O!LockError(p)
    <3>1. O!TypeOK'
      <4>1. openPc' \in [Proc -> Places] /\ found' = found /\ step' = step
        BY <1>8, <1>9, <2>4 DEF O!LockError, O!Goto
      <4>2. openAttempt' \in [Proc -> 1 .. OPEN_MAX_ATTEMPTS]
        BY <1>1, <1>8, <2>4 DEF O!LockError
      <4> QED
        BY <1>8, <1>10, <4>1, <4>2
    <3>2. OpenKnown(p)'
      BY <1>1, <2>4 DEF O!LockError, O!Goto, O!TypeOK, OpenKnown, Migrating
    <3> QED
      BY <3>1, <3>2
  <2>5. CASE O!StorageError(p) \/ O!Exit(p)
    <3>1. O!TypeOK'
      BY <1>8, <1>9, <1>10, <2>5 DEF O!StorageError, O!Exit, O!Goto
    <3>2. OpenKnown(p)'
      BY <1>1, <2>5 DEF O!StorageError, O!Exit, O!Goto, O!TypeOK, OpenKnown, Migrating
    <3> QED
      BY <3>1, <3>2
  <2> QED
    BY <2>1, <2>2, <2>3, <2>4, <2>5
<1> QED
  BY <1>3, <1>5, <1>7, OpenStepKeeps

(* Steps that write to the file.  Two processes that both found a column    *)
(* missing both come through AlterTable, and both find it there.            *)
LEMMA OpenWrites ==
    ASSUME OpenIInv, NEW p \in Proc,
           O!Configure(p) \/ O!CreateTable(p) \/ O!AlterTable(p) \/ O!Stamp(p)
    PROVE  OpenIInv'
<1>1. O!TypeOK /\ OpenKnown(p)
  BY DEF OpenIInv
<1>2. /\ file \in [wal : BOOLEAN, version : 0 .. 2, tables : SUBSET O!Tables, cols : SUBSET O!Columns]
      /\ file.version \in 0 .. 2 /\ file.tables \subseteq O!Tables /\ file.cols \subseteq O!Columns
      /\ openPc \in [Proc -> O!Opening \cup O!Gone \cup {"open"}]
      /\ openAttempt \in [Proc -> 1 .. OPEN_MAX_ATTEMPTS]
      /\ found \in [Proc -> 0 .. 2] /\ step \in [Proc -> 1 .. 8]
  BY <1>1, PlanIs DEF O!TypeOK
<1>3. \A q \in Proc \ {p} : /\ openPc'[q] = openPc[q] /\ openAttempt'[q] = openAttempt[q]
                            /\ found'[q] = found[q] /\ step'[q] = step[q]
  BY <1>2 DEF O!Configure, O!CreateTable, O!AlterTable, O!Stamp, O!Goto, O!Advance
<1>4. ASSUME FileGrows, openPc'[p] \in O!Opening \cup {"open"}, step' \in [Proc -> 1 .. 8]
      PROVE  O!TypeOK'
  BY <1>2, <1>4, PlanIs DEF O!TypeOK, FileGrows, O!Configure, O!CreateTable, O!AlterTable, O!Stamp,
     O!Goto, O!Advance, O!Opening
<1>5. CASE O!Configure(p)
  <2>1. file' = [file EXCEPT !.wal = TRUE] /\ openPc'[p] = "version" /\ step' = step
    BY <1>2, <1>5 DEF O!Configure, O!Goto
  <2>2. file'.wal = TRUE
    BY <1>2, <2>1, Zenon
  <2>3. FileGrows
    BY <1>2, <2>1, <2>2 DEF FileGrows
  <2>4. OpenKnown(p)'
    BY <2>1, <2>2 DEF OpenKnown, Migrating
  <2> QED
    BY <1>2, <1>3, <1>4, <2>1, <2>3, <2>4, OpenStepKeeps DEF O!Opening
<1>6. CASE O!CreateTable(p)
  <2> DEFINE t == O!Plan[step[p]].what
  <2>1. step[p] \in 1 .. 7 /\ O!Plan[step[p]].do = "create" /\ openPc[p] = "plan"
        /\ file.version <= 1 /\ found[p] <= 1 /\ (found[p] = 1 => file.version = 1) /\ file.wal = TRUE
        /\ Executed(file, step[p] - 1)
    BY <1>1, <1>6 DEF O!CreateTable, O!Statement, OpenKnown, Migrating
  <2>2. step[p] \in 1 .. 3
    BY <2>1, PlanIs
  <2>3. t \in O!Tables /\ O!CreatedWith(t) \subseteq O!Columns
    BY <2>1, <2>2, PlanTypes
  <2>4. file' = IF t \in file.tables THEN file
                ELSE [file EXCEPT !.tables = @ \cup {t}, !.cols = @ \cup O!CreatedWith(t)]
    BY <1>6 DEF O!CreateTable, O!Statement
  <2>5. /\ file'.tables = file.tables \cup {t} /\ file'.version = file.version
        /\ file'.wal = file.wal /\ file.cols \subseteq file'.cols
        /\ file' \in [wal : BOOLEAN, version : 0 .. 2, tables : SUBSET O!Tables, cols : SUBSET O!Columns]
    <3> HIDE DEF t
    <3> QED
      BY <1>2, <2>3, <2>4
  <2>6. FileGrows
    BY <1>2, <2>5 DEF FileGrows
  <2>7. openPc'[p] = "plan" /\ step'[p] = step[p] + 1 /\ found' = found
        /\ step' \in [Proc -> 1 .. 8]
    BY <1>2, <1>6, <2>1, <2>2, PlanIs DEF O!CreateTable, O!Advance, O!Goto
  <2>8. Executed(file', step[p])
    <3>1. \A k \in 1 .. step[p] : k \in 1 .. 3 => O!Plan[k].what \in file'.tables
      <4> SUFFICES ASSUME NEW k \in 1 .. step[p], k \in 1 .. 3 PROVE O!Plan[k].what \in file'.tables
        OBVIOUS
      <4>1. k = step[p] \/ k \in 1 .. step[p] - 1
        BY <2>1
      <4> QED
        BY <2>1, <2>5, <4>1 DEF Executed
    <3>2. \A k \in 1 .. step[p] : k \notin 4 .. 7
      BY <2>2
    <3>3. step'[p] - 1 = step[p]
      BY <2>1, <2>7
    <3> QED
      BY <3>1, <3>2 DEF Executed
  <2>9. OpenKnown(p)'
    <3>1. step'[p] \in 1 .. 7 /\ Executed(file', step'[p] - 1)
      <4>1. step'[p] - 1 = step[p]
        BY <2>1, <2>7
      <4> QED
        BY <2>2, <2>7, <2>8, <4>1 DEF Executed
    <3> QED
      BY <2>1, <2>5, <2>7, <3>1 DEF OpenKnown, Migrating
  <2> QED
    BY <1>3, <1>4, <2>6, <2>7, <2>9, OpenStepKeeps DEF O!Opening
<1>7. CASE O!AlterTable(p)
  <2> DEFINE c == O!Plan[step[p]].what
  <2>1. step[p] \in 4 .. 7 /\ openPc[p] = "alter" /\ file.version <= 1 /\ found[p] <= 1
        /\ (found[p] = 1 => file.version = 1) /\ file.wal = TRUE /\ Executed(file, step[p] - 1)
    BY <1>1, <1>7 DEF O!AlterTable, OpenKnown, Migrating
  <2>2. c \in O!Columns
    BY <2>1, PlanTypes
  <2>3. file' = [file EXCEPT !.cols = @ \cup {c}]
    BY <1>7 DEF O!AlterTable, O!Statement
  <2>4. /\ file'.cols = file.cols \cup {c} /\ file'.version = file.version
        /\ file'.wal = file.wal /\ file'.tables = file.tables
        /\ file' \in [wal : BOOLEAN, version : 0 .. 2, tables : SUBSET O!Tables, cols : SUBSET O!Columns]
    <3> HIDE DEF c
    <3> QED
      BY <1>2, <2>2, <2>3
  <2>5. FileGrows
    BY <1>2, <2>4 DEF FileGrows
  <2>6. openPc'[p] = (IF step[p] = 7 THEN "stamp" ELSE "plan") /\ step'[p] = step[p] + 1 /\ found' = found
        /\ step' \in [Proc -> 1 .. 8]
    BY <1>2, <1>7, <2>1, PlanIs DEF O!AlterTable, O!Advance, O!Goto
  <2>7. \A n : n = step[p] => Executed(file', n)
    <3>1. \A k \in 1 .. step[p] : k \in 1 .. 3 => O!Plan[k].what \in file'.tables
      BY <2>1, <2>4 DEF Executed
    <3>2. \A k \in 1 .. step[p] : k \in 4 .. 7 => O!Plan[k].what \in file'.cols
      <4> SUFFICES ASSUME NEW k \in 1 .. step[p], k \in 4 .. 7 PROVE O!Plan[k].what \in file'.cols
        OBVIOUS
      <4>1. k = step[p] \/ k \in 1 .. step[p] - 1
        BY <2>1
      <4> QED
        BY <2>1, <2>4, <4>1 DEF Executed
    <3> QED
      BY <3>1, <3>2 DEF Executed
  <2>8. OpenKnown(p)'
    <3>1. step[p] # 7 => step'[p] \in 1 .. 7 /\ step'[p] - 1 = step[p]
      BY <2>1, <2>6
    <3>2. step[p] # 7 => Executed(file', step'[p] - 1)
      BY <2>7, <3>1
    <3>3. step[p] = 7 => Executed(file', 7)
      BY <2>7
    <3> QED
      BY <2>1, <2>4, <2>6, <3>1, <3>2, <3>3 DEF OpenKnown, Migrating
  <2> QED
    BY <1>3, <1>4, <2>1, <2>5, <2>6, <2>8, OpenStepKeeps DEF O!Opening
<1>8. CASE O!Stamp(p)
  <2>1. openPc[p] = "stamp" /\ file.version <= 1 /\ found[p] <= 1
        /\ (found[p] = 1 => file.version = 1) /\ file.wal = TRUE /\ Executed(file, 7)
    BY <1>1, <1>8 DEF O!Stamp, OpenKnown, Migrating
  <2>2. file' = (IF found[p] < 1 THEN [file EXCEPT !.version = 1] ELSE file)
        /\ openPc'[p] = "open" /\ step' = step /\ found' = found
    BY <1>2, <1>8 DEF O!Stamp, O!Goto, O!AUDIT_SCHEMA_VERSION
  <2>3. /\ file'.cols = file.cols /\ file'.wal = file.wal /\ file'.tables = file.tables
        /\ file'.version = 1
        /\ file' \in [wal : BOOLEAN, version : 0 .. 2, tables : SUBSET O!Tables, cols : SUBSET O!Columns]
    BY <1>2, <2>1, <2>2
  <2>4. FileGrows
    BY <1>2, <2>1, <2>3 DEF FileGrows
  <2>5. Executed(file', 7)
    BY <2>1, <2>3 DEF Executed
  <2>6. OpenKnown(p)'
    BY <1>2, <2>1, <2>2, <2>3, <2>5 DEF OpenKnown, Migrating
  <2> QED
    BY <1>2, <1>3, <1>4, <2>2, <2>4, <2>6, OpenStepKeeps DEF O!Opening
<1> QED
  BY <1>5, <1>6, <1>7, <1>8

LEMMA OpenIInvNext ==
    ASSUME O!OpenAssumption, OpenIInv, [O!Next]_(O!vars)
    PROVE  OpenIInv'
<1>1. CASE UNCHANGED O!vars
  <2>1. file' = file /\ openPc' = openPc /\ openAttempt' = openAttempt /\ found' = found /\ step' = step
    BY <1>1 DEF O!vars
  <2> QED
    BY <2>1 DEF OpenIInv, O!TypeOK, OpenKnown, Executed
<1>2. CASE O!Next
  BY <1>2, OpenMoves, OpenWrites DEF O!Next, O!OpenStep
<1> QED
  BY <1>1, <1>2

LEMMA OpenIInvInit == O!OpenAssumption /\ O!Init => OpenIInv
<1> SUFFICES ASSUME O!OpenAssumption, O!Init PROVE OpenIInv
  OBVIOUS
<1>1. file \in [wal : BOOLEAN, version : 0 .. 2, tables : SUBSET O!Tables, cols : SUBSET O!Columns]
  <2>1. ASSUME NEW w \in BOOLEAN, NEW v \in 0 .. 2, NEW t \in SUBSET O!Tables, NEW c \in SUBSET O!Columns
        PROVE  O!OldFile(w, v, t, c) \in [wal : BOOLEAN, version : 0 .. 2,
                                         tables : SUBSET O!Tables, cols : SUBSET O!Columns]
    BY DEF O!OldFile
  <2>2. /\ {} \in SUBSET O!Tables /\ {"audit_events"} \in SUBSET O!Tables
        /\ {"audit_events", "runs"} \in SUBSET O!Tables /\ O!Tables \in SUBSET O!Tables
    BY DEF O!Tables
  <2>3. /\ {} \in SUBSET O!Columns /\ {"agent_id", "resumed_from_snapshot"} \in SUBSET O!Columns
        /\ O!Columns \in SUBSET O!Columns /\ O!Columns \ {"head_prev_length"} \in SUBSET O!Columns
    BY DEF O!Columns
  <2>4. CASE file \in O!Files
    <3>1. \A v \in {0, 1} : v \in 0 .. 2
      OBVIOUS
    <3>2. \E w \in BOOLEAN, v \in {0, 1}, t \in SUBSET O!Tables, c \in SUBSET O!Columns :
             file = O!OldFile(w, v, t, c)
      BY <2>2, <2>3, <2>4, Zenon DEF O!Files
    <3> QED
      BY <2>1, <3>1, <3>2
  <2>5. CASE file \in O!NewerFiles
    BY <2>1, <2>2, <2>3, <2>5 DEF O!NewerFiles
  <2> QED
    BY <2>4, <2>5 DEF O!Init
<1>2. O!TypeOK
  BY <1>1, PlanIs DEF O!Init, O!TypeOK, O!OpenAssumption, O!Gone
<1> QED
  BY <1>2 DEF O!Init, OpenIInv, OpenKnown, Migrating

(***************************************************************************)
(* However many processes migrate one file at once, are sent back by its   *)
(* lock and die between two statements, whatever earlier build the file is *)
(* of: a store that is handed out has every table and column, and an open  *)
(* fails only with its budget spent (open_with, init_schema).              *)
(***************************************************************************)
THEOREM OpenedStoresAreComplete == ASSUME O!OpenAssumption PROVE O!Spec => []O!OpeningInv
<1>1. O!Init => OpenIInv
  BY OpenIInvInit
<1>2. OpenIInv /\ [O!Next]_(O!vars) => OpenIInv'
  BY OpenIInvNext
<1>3. OpenIInv => O!OpeningInv
  <2> SUFFICES ASSUME OpenIInv PROVE O!OpeningInv
    OBVIOUS
  <2>1. ASSUME NEW p \in Proc, openPc[p] = "open"
        PROVE  file.wal /\ file.version = 1 /\ file.tables = O!Tables /\ file.cols = O!Columns
    BY <2>1, ExecutedIsComplete DEF OpenIInv, OpenKnown, Migrating
  <2> QED
    BY <2>1 DEF OpenIInv, OpenKnown, O!OpeningInv, O!OpenedIsComplete, O!FailsOnlyByLock,
       O!AUDIT_SCHEMA_VERSION
<1> QED
  BY <1>1, <1>2, <1>3, PTL DEF O!Spec

(***************************************************************************)
(* No step of this build changes the version, the tables or the columns of *)
(* a file a newer build has stamped, though others of this build were on   *)
(* their way into it (init_schema).                                        *)
(***************************************************************************)
THEOREM NewerFilesAreKept == ASSUME O!OpenAssumption PROVE O!Spec => O!NewerSchemaKept
<1>1. O!Init => OpenIInv
  BY OpenIInvInit
<1>2. OpenIInv /\ [O!Next]_(O!vars) => OpenIInv'
  BY OpenIInvNext
<1> DEFINE Kept == file.version > O!AUDIT_SCHEMA_VERSION =>
                     file'.version = file.version /\ file'.tables = file.tables /\ file'.cols = file.cols
<1>3. OpenIInv /\ [O!Next]_(O!vars) => [Kept]_(O!vars)
  <2> SUFFICES ASSUME OpenIInv, O!Next, file.version > 1
               PROVE  file'.version = file.version /\ file'.tables = file.tables /\ file'.cols = file.cols
    BY DEF O!AUDIT_SCHEMA_VERSION
  <2>1. PICK p \in Proc : O!Open(p) \/ O!OpenStep(p) \/ O!StorageError(p) \/ O!Exit(p)
    BY DEF O!Next
  <2>2. openPc[p] \notin Migrating
    BY DEF OpenIInv, OpenKnown, O!TypeOK
  <2>3. CASE O!Configure(p)
    <3>1. /\ file' = [file EXCEPT !.wal = TRUE]
          /\ file \in [wal : BOOLEAN, version : 0 .. 2, tables : SUBSET O!Tables, cols : SUBSET O!Columns]
      BY <2>3 DEF O!Configure, OpenIInv, O!TypeOK
    <3> QED
      BY <3>1
  <2>4. CASE ~O!Configure(p)
    <3>1. file' = file
      BY <2>1, <2>2, <2>4 DEF O!Open, O!OpenStep, O!ReadVersion, O!CreateTable, O!ColumnExists, O!AlterTable,
         O!Stamp, O!LockError, O!StorageError, O!Exit, Migrating
    <3> QED
      BY <3>1
  <2> QED
    BY <2>3, <2>4
<1> QED
  BY <1>1, <1>2, <1>3, PTL DEF O!Spec, O!NewerSchemaKept


-----------------------------------------------------------------------------
(* AuditSegments: opening, closing and merging, for any segments, any chain *)
(* and files of any length, whatever fails, dies or writes in between.      *)
CONSTANTS OwnSeg, TheirSeg, NoSeg, MaxChain, MaxFile
VARIABLES chain, segs, files, op, shared

S == INSTANCE AuditSegments

OpenAts == {"open_length", "open_row", "open_event", "open_undo"}
CloseAts == {"close_event", "close_undo"}
MergeAts == {"fork_event", "fork_row", "copy", "partial_note", "merged_event", "folded_row"}

ChainRows == [kind : S!RowKinds, src : S!Seg \cup {NoSeg}, event : Event \cup {NoEvent}]

OpOK(o) ==
    /\ o \in [at : OpenAts \cup CloseAts \cup MergeAts \cup {"idle"}, seg : S!Seg \cup {NoSeg},
              hash : Nat, length : Nat, copied : 0 .. MaxFile]
    /\ o.at = "idle" => o = S!Idle
    /\ o.at \in OpenAts \cup CloseAts => o.seg \in OwnSeg
    /\ o.at \in MergeAts => o.seg \in TheirSeg

SegRows == [state : S!States, partial : BOOLEAN, hash : Nat, length : Nat]

SegsTyped ==
    /\ chain \in Seq(ChainRows) /\ segs \in [S!Seg -> SegRows]
    /\ files \in [TheirSeg -> Seq(Event)] /\ shared \in BOOLEAN
    /\ OpOK(op)

(* Where a merge stands, what the chain and the row say of its segment.  A  *)
(* transcription has begun with none of the segment's events on the chain:  *)
(* one that was begun before is found as a conflict.                        *)
MergeKnown(s) ==
    op.at \in MergeAts /\ op.seg = s =>
      /\ segs[s].state \in {"open", "closed"} /\ segs[s].partial = FALSE
      /\ op.at # "folded_row" => S!RowsAbout(s, "merged") = {}
      /\ op.at = "folded_row" => S!RowsAbout(s, "merged") # {}
      /\ op.at = "fork_row" => S!RowsAbout(s, "forked") # {}
      /\ op.at = "copy" => op.copied = Cardinality(S!Transcribed(s)) /\ op.copied <= Len(files[s])
      /\ op.at = "merged_event" => Cardinality(S!Transcribed(s)) = Len(files[s])
      /\ op.at = "copy" /\ ~shared =>
           \A j \in DOMAIN chain : chain[j].kind = "event" /\ chain[j].src # s =>
             \A i \in DOMAIN files[s] : files[s][i] # chain[j].event

(* What the chain and the row of a delivered segment say at any time.       *)
TheirKnown(s) ==
    /\ Len(files[s]) <= MaxFile
    /\ segs[s].state = "none" => /\ S!Transcribed(s) = {} /\ S!RowsAbout(s, "merged") = {}
                                 /\ segs[s].partial = FALSE
    /\ \A i \in S!Transcribed(s) :
         S!Place(s, i) \in 1 .. Len(files[s]) /\ chain[i].event = files[s][S!Place(s, i)]
    /\ \A i, j \in S!RowsAbout(s, "merged") : i = j
    /\ S!RowsAbout(s, "merged") # {} => Cardinality(S!Transcribed(s)) = Len(files[s])
    /\ segs[s].state = "folded" => S!RowsAbout(s, "merged") # {}
    /\ segs[s].state = "forked" => S!RowsAbout(s, "forked") # {}
    /\ ~shared => \A i \in S!Transcribed(s) : \A j \in 1 .. i - 1 :
         chain[j].kind = "event" /\ chain[j].src # s => chain[j].event # chain[i].event

(* An anchor is read before the opening event it is for is written.         *)
OwnKnown(s) ==
    /\ op.at \in OpenAts /\ op.seg = s => S!RowsAbout(s, "opened") = {}
    /\ op.at \in {"open_length", "open_row"} /\ op.seg = s => segs[s].state = "none"
    /\ segs[s].state = "none" => S!RowsAbout(s, "opened") = {}
    /\ op.at = "open_length" /\ op.seg = s =>
         op.hash <= Len(chain) /\ (~shared => op.hash = Len(chain))
    /\ op.at = "open_row" /\ op.seg = s =>
         /\ op.hash <= op.length /\ op.length <= Len(chain)
         /\ ~shared => op.hash = Len(chain) /\ op.length = Len(chain)
    /\ op.at = "open_event" /\ op.seg = s =>
         /\ segs[s].state = "open" /\ segs[s].hash <= segs[s].length /\ segs[s].length <= Len(chain)
         /\ ~shared => segs[s].hash = Len(chain) /\ segs[s].length = Len(chain)
    /\ \A i \in S!RowsAbout(s, "opened") :
         /\ segs[s].hash <= segs[s].length /\ segs[s].length < i
         /\ ~shared => segs[s].hash = i - 1 /\ segs[s].length = i - 1

SegIInv ==
    /\ S!SegmentsAssumption /\ SegsTyped
    /\ \A s \in TheirSeg : TheirKnown(s) /\ MergeKnown(s)
    /\ \A s \in OwnSeg : OwnKnown(s)

(* AuditSegments counts with the same Cardinality.                          *)
LEMMA SameCount == \A X : S!Cardinality(X) = Cardinality(X)
BY DEF S!Cardinality, Cardinality

(* The rows about a segment are finitely many, and a place among them is a  *)
(* number that counts the row itself.                                       *)
LEMMA RowsAreFinite ==
    ASSUME chain \in Seq(ChainRows), NEW s
    PROVE  /\ IsFiniteSet(S!Transcribed(s)) /\ Cardinality(S!Transcribed(s)) \in Nat
           /\ \A i \in S!Transcribed(s) : S!Place(s, i) \in Nat \ {0}
<1>1. IsFiniteSet(1 .. Len(chain))
  BY FS_Interval
<1>2. S!Transcribed(s) \subseteq 1 .. Len(chain)
  BY DEF S!Transcribed, S!RowsAbout
<1>3. IsFiniteSet(S!Transcribed(s)) /\ Cardinality(S!Transcribed(s)) \in Nat
  BY <1>1, <1>2, FS_Subset, FS_CardinalityType
<1>4. ASSUME NEW i \in S!Transcribed(s) PROVE S!Place(s, i) \in Nat \ {0}
  <2> DEFINE T == {j \in S!Transcribed(s) : j <= i}
  <2>1. T \subseteq S!Transcribed(s) /\ i \in T
    BY <1>2
  <2>2. IsFiniteSet(T) /\ Cardinality(T) \in Nat
    BY <1>3, <2>1, FS_Subset, FS_CardinalityType
  <2>3. Cardinality(T) # 0
    BY <2>1, <2>2, FS_EmptySet
  <2>4. S!Place(s, i) = Cardinality(T)
    BY SameCount DEF S!Place
  <2> HIDE DEF T
  <2> QED
    BY <2>2, <2>3, <2>4
<1> QED
  BY <1>3, <1>4

(* What one more row changes.                                               *)
LEMMA RowAppended ==
    ASSUME chain \in Seq(ChainRows), NEW r \in ChainRows, chain' = Append(chain, r)
    PROVE  /\ chain' \in Seq(ChainRows) /\ Len(chain') = Len(chain) + 1 /\ Len(chain) \in Nat
           /\ \A i \in 1 .. Len(chain) : chain'[i] = chain[i]
           /\ chain'[Len(chain) + 1] = r
           /\ \A s, k : S!RowsAbout(s, k)' = S!RowsAbout(s, k) \cup
                          (IF r.kind = k /\ r.src = s THEN {Len(chain) + 1} ELSE {})
<1>1. /\ chain' \in Seq(ChainRows) /\ Len(chain') = Len(chain) + 1 /\ Len(chain) \in Nat
      /\ \A i \in 1 .. Len(chain) : chain'[i] = chain[i]
      /\ chain'[Len(chain) + 1] = r
  OBVIOUS
<1>2. DOMAIN chain = 1 .. Len(chain) /\ DOMAIN chain' = 1 .. Len(chain) + 1
  BY <1>1
<1>3. ASSUME NEW s, NEW k
      PROVE  S!RowsAbout(s, k)' = S!RowsAbout(s, k) \cup
               (IF r.kind = k /\ r.src = s THEN {Len(chain) + 1} ELSE {})
  BY <1>1, <1>2 DEF S!RowsAbout
<1> QED
  BY <1>1, <1>3

(* The places of the earlier rows stay.                                     *)
LEMMA PlacesStay ==
    ASSUME chain \in Seq(ChainRows), NEW r \in ChainRows, chain' = Append(chain, r),
           NEW s, NEW i \in S!Transcribed(s)
    PROVE  S!Place(s, i)' = S!Place(s, i) /\ i \in 1 .. Len(chain) /\ chain'[i] = chain[i]
<1>1. i \in 1 .. Len(chain)
  BY DEF S!Transcribed, S!RowsAbout
<1>2. S!Transcribed(s)' = S!Transcribed(s) \cup
        (IF r.kind = "event" /\ r.src = s THEN {Len(chain) + 1} ELSE {})
  BY RowAppended DEF S!Transcribed
<1>3. {j \in S!Transcribed(s)' : j <= i} = {j \in S!Transcribed(s) : j <= i}
  BY <1>1, <1>2
<1> QED
  BY <1>1, <1>3, RowAppended DEF S!Place

(* Where the chain stays, everything said of its rows stays.                *)
LEMMA ChainStays ==
    ASSUME chain' = chain, NEW s
    PROVE  /\ \A k : S!RowsAbout(s, k)' = S!RowsAbout(s, k)
           /\ S!Transcribed(s)' = S!Transcribed(s)
           /\ \A i : S!Place(s, i)' = S!Place(s, i)
BY DEF S!RowsAbout, S!Transcribed, S!Place

(* What is known of a delivered segment outlives a step that leaves the     *)
(* chain and its file alone and takes its row no further than the chain.    *)
LEMMA TheirRowMoves ==
    ASSUME NEW s \in TheirSeg, TheirKnown(s), UNCHANGED <<chain, files, shared>>,
           segs'[s].state = "none" => segs'[s] = segs[s],
           segs'[s].state = "folded" => S!RowsAbout(s, "merged") # {},
           segs'[s].state = "forked" => S!RowsAbout(s, "forked") # {}
    PROVE  TheirKnown(s)'
<1>1. /\ \A k : S!RowsAbout(s, k)' = S!RowsAbout(s, k)
      /\ S!Transcribed(s)' = S!Transcribed(s)
      /\ \A i : S!Place(s, i)' = S!Place(s, i)
  BY ChainStays
<1> QED
  BY <1>1 DEF TheirKnown

(* It outlives a new row too, if that row is not about the segment, or is   *)
(* the next event of its file, or the one row that says all of it is there. *)
LEMMA TheirRowAppended ==
    ASSUME chain \in Seq(ChainRows), files \in [TheirSeg -> Seq(Event)],
           NEW r \in ChainRows, chain' = Append(chain, r),
           UNCHANGED <<segs, files, shared>>, NEW s \in TheirSeg, TheirKnown(s),
           r.src = s => segs[s].state # "none",
           r.src = s /\ r.kind = "event" =>
              /\ Cardinality(S!Transcribed(s)) < Len(files[s])
              /\ r.event = files[s][Cardinality(S!Transcribed(s)) + 1]
              /\ S!RowsAbout(s, "merged") = {}
              /\ ~shared => \A j \in DOMAIN chain :
                   chain[j].kind = "event" /\ chain[j].src # s => chain[j].event # r.event,
           r.src = s /\ r.kind = "merged" =>
              S!RowsAbout(s, "merged") = {} /\ Cardinality(S!Transcribed(s)) = Len(files[s])
    PROVE  TheirKnown(s)'
<1> DEFINE T == S!Transcribed(s)
<1>0. PICK n \in Nat : n = Len(chain) + 1
  OBVIOUS
<1>1. /\ chain' \in Seq(ChainRows) /\ Len(chain') = n /\ Len(chain) \in Nat
      /\ \A i \in 1 .. Len(chain) : chain'[i] = chain[i]
      /\ chain'[n] = r /\ n = Len(chain) + 1
  BY <1>0, RowAppended
<1>2. /\ S!RowsAbout(s, "merged")' = S!RowsAbout(s, "merged") \cup
           (IF r.kind = "merged" /\ r.src = s THEN {n} ELSE {})
      /\ S!RowsAbout(s, "forked")' = S!RowsAbout(s, "forked") \cup
           (IF r.kind = "forked" /\ r.src = s THEN {n} ELSE {})
      /\ T' = T \cup (IF r.kind = "event" /\ r.src = s THEN {n} ELSE {})
  BY <1>0, RowAppended DEF S!Transcribed
<1>3. IsFiniteSet(T) /\ Cardinality(T) \in Nat
  BY RowsAreFinite
<1>4. /\ T \subseteq 1 .. Len(chain)
      /\ \A i \in T : S!Place(s, i)' = S!Place(s, i) /\ chain'[i] = chain[i]
  BY PlacesStay
<1>5. r.src = s /\ r.kind = "event" =>
        T' = T \cup {n} /\ Cardinality(T') = Cardinality(T) + 1 /\ S!Place(s, n)' = Cardinality(T) + 1
  <2> SUFFICES ASSUME r.src = s, r.kind = "event"
               PROVE  /\ T' = T \cup {n} /\ Cardinality(T') = Cardinality(T) + 1
                      /\ S!Place(s, n)' = Cardinality(T) + 1
    OBVIOUS
  <2>1. T' = T \cup {n} /\ n \notin T
    BY <1>1, <1>2, <1>4
  <2>2. Cardinality(T \cup {n}) = Cardinality(T) + 1
    BY <1>3, <2>1, FS_AddElement
  <2>3. {j \in T' : j <= n} = T'
    BY <1>1, <1>4, <2>1
  <2>4. S!Place(s, n)' = Cardinality({j \in T' : j <= n})
    BY SameCount, <1>1 DEF S!Place
  <2> QED
    BY <2>1, <2>2, <2>3, <2>4
<1>6. ~(r.src = s /\ r.kind = "event") => T' = T
  BY <1>2
<1>7. Len(files[s]) \in Nat /\ files'[s] = files[s] /\ segs'[s] = segs[s]
  OBVIOUS
<1> HIDE DEF T
<1>8. segs[s].state = "none" =>
        T' = {} /\ S!RowsAbout(s, "merged")' = {} /\ segs[s].partial = FALSE
  BY <1>2, <1>6 DEF TheirKnown, T
<1>9. ASSUME NEW i \in T'
      PROVE  /\ S!Place(s, i)' \in 1 .. Len(files[s])
             /\ chain'[i].event = files[s][S!Place(s, i)']
  <2>1. CASE i \in T
    BY <1>4, <2>1 DEF TheirKnown, T
  <2>2. CASE i \notin T
    <3>1. r.src = s /\ r.kind = "event" /\ i = n
      BY <1>5, <1>6, <2>2
    <3>2. Cardinality(T) < Len(files[s]) /\ r.event = files[s][Cardinality(T) + 1]
      BY <3>1 DEF T
    <3>3. S!Place(s, i)' = Cardinality(T) + 1 /\ chain'[i] = r
      BY <1>1, <1>5, <3>1
    <3>4. Cardinality(T) + 1 \in 1 .. Len(files[s])
      BY <1>3, <1>7, <3>2
    <3> QED
      BY <3>2, <3>3, <3>4
  <2> QED
    BY <2>1, <2>2
<1>10. \A i, j \in S!RowsAbout(s, "merged")' : i = j
  BY <1>2 DEF TheirKnown
<1>11. S!RowsAbout(s, "merged")' # {} => Cardinality(T') = Len(files[s])
  BY <1>2, <1>6 DEF TheirKnown, T
<1>12. /\ segs[s].state = "folded" => S!RowsAbout(s, "merged")' # {}
       /\ segs[s].state = "forked" => S!RowsAbout(s, "forked")' # {}
  BY <1>2 DEF TheirKnown
<1>13. ASSUME ~shared, NEW i \in T', NEW j \in 1 .. i - 1,
              chain'[j].kind = "event", chain'[j].src # s
       PROVE  chain'[j].event # chain'[i].event
  <2>1. CASE i \in T
    <3>1. i \in 1 .. Len(chain) /\ j \in 1 .. Len(chain) /\ chain'[j] = chain[j] /\ chain'[i] = chain[i]
      BY <1>1, <1>4, <2>1
    <3> QED
      BY <1>13, <2>1, <3>1 DEF TheirKnown, T
  <2>2. CASE i \notin T
    <3>1. r.src = s /\ r.kind = "event" /\ i = n
      BY <1>5, <1>6, <2>2
    <3>2. j \in DOMAIN chain /\ chain'[j] = chain[j] /\ chain'[i] = r
      BY <1>1, <3>1
    <3> QED
      BY <1>13, <3>1, <3>2
  <2> QED
    BY <2>1, <2>2
<1> QED
  BY <1>7, <1>8, <1>9, <1>10, <1>11, <1>12, <1>13 DEF TheirKnown, T

(* What is known of a segment of this node outlives a step that adds no     *)
(* opening row of it and is not at work on it.                              *)
LEMMA OwnStays ==
    ASSUME chain \in Seq(ChainRows), NEW s \in OwnSeg, OwnKnown(s), shared' = shared,
           \/ chain' = chain
           \/ \E r \in ChainRows : chain' = Append(chain, r) /\ (r.kind = "opened" => r.src # s),
           \/ segs'[s] = segs[s]
           \/ /\ segs'[s].state # "none"
              /\ segs'[s].hash = segs[s].hash /\ segs'[s].length = segs[s].length,
           ~(op'.at \in OpenAts /\ op'.seg = s)
    PROVE  OwnKnown(s)'
<1>1. S!RowsAbout(s, "opened")' = S!RowsAbout(s, "opened")
  <2>1. CASE chain' = chain
    BY <2>1, ChainStays
  <2>2. CASE \E r \in ChainRows : chain' = Append(chain, r) /\ (r.kind = "opened" => r.src # s)
    <3>1. PICK r \in ChainRows : chain' = Append(chain, r) /\ (r.kind = "opened" => r.src # s)
      BY <2>2
    <3>2. S!RowsAbout(s, "opened")' = S!RowsAbout(s, "opened") \cup
            (IF r.kind = "opened" /\ r.src = s THEN {Len(chain) + 1} ELSE {})
      BY <3>1, RowAppended
    <3> QED
      BY <3>1, <3>2
  <2> QED
    BY <2>1, <2>2
<1>2. ~(op'.at \in {"open_length", "open_row"} /\ op'.seg = s)
      /\ ~(op'.at = "open_length" /\ op'.seg = s)
      /\ ~(op'.at = "open_row" /\ op'.seg = s) /\ ~(op'.at = "open_event" /\ op'.seg = s)
  BY DEF OpenAts
<1>3. segs'[s].state = "none" => segs[s].state = "none"
  OBVIOUS
<1>4. segs'[s].hash = segs[s].hash /\ segs'[s].length = segs[s].length
  OBVIOUS
<1> QED
  BY <1>1, <1>2, <1>3, <1>4 DEF OwnKnown

(* An operation that has returned says nothing of any segment.              *)
LEMMA Finished ==
    ASSUME MaxFile \in Nat, S!Finish
    PROVE  /\ OpOK(op') /\ op'.at = "idle" /\ op'.at \notin OpenAts
           /\ \A s : MergeKnown(s)'
<1>1. op' = S!Idle /\ op'.at = "idle"
  BY DEF S!Finish, S!Idle
<1>2. op' \in [at : OpenAts \cup CloseAts \cup MergeAts \cup {"idle"}, seg : S!Seg \cup {NoSeg},
               hash : Nat, length : Nat, copied : 0 .. MaxFile]
  <2>1. 0 \in 0 .. MaxFile /\ 0 \in Nat
    OBVIOUS
  <2> QED
    BY <1>1, <2>1 DEF S!Idle
<1>3. op'.at \notin OpenAts /\ op'.at \notin CloseAts /\ op'.at \notin MergeAts
  BY <1>1 DEF OpenAts, CloseAts, MergeAts
<1>4. OpOK(op')
  BY <1>1, <1>2, <1>3 DEF OpOK
<1> QED
  BY <1>1, <1>3, <1>4 DEF MergeKnown

(* The operation moves on, within opening, closing or merging.              *)
LEMMA MovesOn ==
    ASSUME OpOK(op), NEW l, S!Goto(l),
           \/ op.at \in OpenAts /\ l \in OpenAts
           \/ op.at \in CloseAts /\ l \in CloseAts
           \/ op.at \in MergeAts /\ l \in MergeAts
    PROVE  /\ OpOK(op') /\ op'.at = l /\ op'.seg = op.seg /\ op'.hash = op.hash
           /\ op'.length = op.length /\ op'.copied = op.copied
           /\ l \in OpenAts => op.at \in OpenAts
<1>1. /\ op'.at = l /\ op'.seg = op.seg /\ op'.hash = op.hash
      /\ op'.length = op.length /\ op'.copied = op.copied
  BY DEF S!Goto, OpOK
<1>2. op' \in [at : OpenAts \cup CloseAts \cup MergeAts \cup {"idle"}, seg : S!Seg \cup {NoSeg},
               hash : Nat, length : Nat, copied : 0 .. MaxFile]
  BY DEF S!Goto, OpOK
<1>3. l # "idle" /\ (l \in OpenAts => op.at \in OpenAts)
  BY DEF OpenAts, CloseAts, MergeAts
<1>4. l \in OpenAts \cup CloseAts => op.seg \in OwnSeg
  BY DEF OpOK, OpenAts, CloseAts, MergeAts
<1>5. l \in MergeAts => op.seg \in TheirSeg
  BY DEF OpOK, OpenAts, CloseAts, MergeAts
<1> QED
  BY <1>1, <1>2, <1>3, <1>4, <1>5 DEF OpOK

LEMMA SegInit == ASSUME S!SegmentsAssumption, S!Init PROVE SegIInv
<1>1. chain = << >> /\ op = S!Idle /\ shared \in BOOLEAN
      /\ segs = [s \in S!Seg |-> S!NoRow] /\ files = [s \in TheirSeg |-> << >>]
  BY DEF S!Init
<1>2. \A s, k : S!RowsAbout(s, k) = {}
  BY <1>1 DEF S!RowsAbout
<1>3. op.at = "idle" /\ op.seg = NoSeg /\ op.hash = 0 /\ op.length = 0 /\ op.copied = 0
  BY <1>1 DEF S!Idle
<1>4. SegsTyped
  <2>1. S!NoRow \in SegRows
    BY DEF S!NoRow, S!States, SegRows
  <2>2. OpOK(op)
    <3>1. 0 \in 0 .. MaxFile /\ 0 \in Nat
      BY DEF S!SegmentsAssumption
    <3>2. op \in [at : OpenAts \cup CloseAts \cup MergeAts \cup {"idle"}, seg : S!Seg \cup {NoSeg},
                  hash : Nat, length : Nat, copied : 0 .. MaxFile]
      BY <1>1, <3>1 DEF S!Idle
    <3> QED
      BY <1>1, <1>3, <3>2 DEF OpOK, OpenAts, CloseAts, MergeAts
  <2>3. segs \in [S!Seg -> SegRows]
    BY <1>1, <2>1
  <2>4. chain \in Seq(ChainRows) /\ files \in [TheirSeg -> Seq(Event)]
    BY <1>1
  <2> QED
    BY <1>1, <2>2, <2>3, <2>4 DEF SegsTyped
<1>5. ASSUME NEW s \in TheirSeg PROVE TheirKnown(s) /\ MergeKnown(s)
  <2>1. S!Transcribed(s) = {} /\ Len(files[s]) = 0
    BY <1>1, <1>2 DEF S!Transcribed
  <2>2. segs[s].state = "none" /\ segs[s].partial = FALSE
    BY <1>1 DEF S!Seg, S!NoRow
  <2>3. TheirKnown(s)
    BY <1>2, <2>1, <2>2 DEF TheirKnown, S!SegmentsAssumption
  <2>4. MergeKnown(s)
    BY <1>3 DEF MergeKnown, MergeAts
  <2> QED
    BY <2>3, <2>4
<1>6. ASSUME NEW s \in OwnSeg PROVE OwnKnown(s)
  BY <1>2, <1>3 DEF OwnKnown, OpenAts
<1> QED
  BY <1>4, <1>5, <1>6 DEF SegIInv

(* Steps that move the operation on and write nothing.                      *)
LEMMA NothingWritten ==
    ASSUME SegIInv, UNCHANGED <<chain, segs, files, shared>>, OpOK(op'),
           \A s \in TheirSeg : MergeKnown(s)',
           \A s \in OwnSeg : op'.at \in OpenAts /\ op'.seg = s => OwnKnown(s)'
    PROVE  SegIInv'
<1>1. SegsTyped'
  BY DEF SegIInv, SegsTyped
<1>2. ASSUME NEW s \in TheirSeg PROVE TheirKnown(s)'
  BY TheirRowMoves DEF SegIInv, TheirKnown
<1>3. ASSUME NEW s \in OwnSeg PROVE OwnKnown(s)'
  <2>1. CASE op'.at \in OpenAts /\ op'.seg = s
    BY <2>1
  <2>2. CASE ~(op'.at \in OpenAts /\ op'.seg = s)
    <3>1. OwnKnown(s) /\ chain \in Seq(ChainRows) /\ segs'[s] = segs[s]
      BY DEF SegIInv, SegsTyped
    <3> QED
      BY <2>2, <3>1, OwnStays
  <2> QED
    BY <2>1, <2>2
<1> QED
  BY <1>1, <1>2, <1>3 DEF SegIInv, S!SegmentsAssumption

(* Steps that write one row of the segments table, or deliver a file.       *)
LEMMA RowWritten ==
    ASSUME SegIInv, UNCHANGED <<chain, shared>>, OpOK(op'), \A s \in TheirSeg : MergeKnown(s)',
           NEW a \in S!Seg, NEW row \in SegRows, segs' = [segs EXCEPT ![a] = row],
           files' \in [TheirSeg -> Seq(Event)], \A s \in TheirSeg : s # a => files'[s] = files[s],
           a \in TheirSeg => TheirKnown(a)',
           \A s \in OwnSeg : s # a => ~(op'.at \in OpenAts /\ op'.seg = s),
           a \in OwnSeg => OwnKnown(a)'
    PROVE  SegIInv'
<1>1. segs' \in [S!Seg -> SegRows] /\ \A s \in S!Seg : s # a => segs'[s] = segs[s]
  BY DEF SegIInv, SegsTyped
<1>2. SegsTyped'
  BY <1>1 DEF SegIInv, SegsTyped
<1>3. ASSUME NEW s \in TheirSeg PROVE TheirKnown(s)'
  <2>1. CASE s = a
    BY <2>1
  <2>2. CASE s # a
    <3>1. segs'[s] = segs[s] /\ files'[s] = files[s]
      BY <1>1, <2>2 DEF S!Seg
    <3>2. /\ \A k : S!RowsAbout(s, k)' = S!RowsAbout(s, k)
          /\ S!Transcribed(s)' = S!Transcribed(s)
          /\ \A i : S!Place(s, i)' = S!Place(s, i)
      BY ChainStays
    <3>3. TheirKnown(s)
      BY DEF SegIInv
    <3> QED
      BY <3>1, <3>2, <3>3 DEF TheirKnown
  <2> QED
    BY <2>1, <2>2
<1>4. ASSUME NEW s \in OwnSeg PROVE OwnKnown(s)'
  <2>1. CASE s = a
    BY <2>1
  <2>2. CASE s # a
    <3>1. OwnKnown(s) /\ chain \in Seq(ChainRows) /\ segs'[s] = segs[s]
          /\ ~(op'.at \in OpenAts /\ op'.seg = s)
      BY <1>1, <2>2 DEF SegIInv, SegsTyped, S!Seg
    <3> QED
      BY <3>1, OwnStays
  <2> QED
    BY <2>1, <2>2
<1> QED
  BY <1>2, <1>3, <1>4 DEF SegIInv, S!SegmentsAssumption

(* What the invariant says of the operation under way.                      *)
LEMMA UnderWay ==
    ASSUME SegIInv
    PROVE  /\ OpOK(op) /\ MaxFile \in Nat /\ Len(chain) \in Nat /\ OwnSeg \cap TheirSeg = {}
           /\ op.at \in OpenAts => op.seg \in OwnSeg /\ OwnKnown(op.seg)
           /\ op.at \in CloseAts => op.seg \in OwnSeg /\ OwnKnown(op.seg)
           /\ op.at \in MergeAts => op.seg \in TheirSeg /\ MergeKnown(op.seg) /\ TheirKnown(op.seg)
BY DEF SegIInv, SegsTyped, OpOK, S!SegmentsAssumption

(* An operation that starts on segment a.                                   *)
Start(l, a, h) == [at |-> l, seg |-> a, hash |-> h, length |-> 0, copied |-> 0]

LEMMA Starts ==
    ASSUME SegIInv, NEW a, NEW l, NEW h \in Nat,
           op' = Start(l, a, h),
           \/ l \in OpenAts \cup CloseAts /\ a \in OwnSeg
           \/ l \in MergeAts /\ a \in TheirSeg
    PROVE  /\ OpOK(op') /\ op'.at = l /\ op'.seg = a /\ op'.hash = h /\ op'.length = 0 /\ op'.copied = 0
           /\ a \in OwnSeg => \A s : MergeKnown(s)'
<1>1. op'.at = l /\ op'.seg = a /\ op'.hash = h /\ op'.length = 0 /\ op'.copied = 0
  BY DEF Start
<1>2. 0 \in 0 .. MaxFile /\ 0 \in Nat
  BY UnderWay
<1>3. op' \in [at : OpenAts \cup CloseAts \cup MergeAts \cup {"idle"}, seg : S!Seg \cup {NoSeg},
               hash : Nat, length : Nat, copied : 0 .. MaxFile]
  BY <1>2 DEF Start, S!Seg
<1>4. l # "idle" /\ ~(l \in OpenAts \cup CloseAts /\ l \in MergeAts)
  BY DEF OpenAts, CloseAts, MergeAts
<1>5. OpOK(op')
  BY <1>1, <1>3, <1>4 DEF OpOK
<1>6. a \in OwnSeg => l \notin MergeAts
  BY <1>4, UnderWay
<1> QED
  BY <1>1, <1>5, <1>6 DEF MergeKnown

LEMMA StepOpenRead ==
    ASSUME SegIInv, (\E s \in OwnSeg : S!OpenReadHash(s)) \/ S!OpenReadLength
    PROVE  SegIInv'
<1>1. ASSUME NEW s \in OwnSeg, S!OpenReadHash(s) PROVE SegIInv'
  <2>1. /\ UNCHANGED <<chain, segs, files, shared>> /\ segs[s].state = "none"
        /\ op' = Start("open_length", s, Len(chain))
    BY <1>1 DEF S!OpenReadHash, S!Idle, Start
  <2>2. "open_length" \in OpenAts /\ Len(chain) \in Nat
    BY UnderWay DEF OpenAts
  <2>3. /\ OpOK(op') /\ op'.at = "open_length" /\ op'.seg = s /\ op'.hash = Len(chain)
        /\ \A t : MergeKnown(t)'
    BY <2>1, <2>2, Starts
  <2>4. S!RowsAbout(s, "opened")' = S!RowsAbout(s, "opened") /\ OwnKnown(s)
    BY <2>1, ChainStays DEF SegIInv
  <2>5. OwnKnown(s)'
    BY <2>1, <2>2, <2>3, <2>4 DEF OwnKnown
  <2> QED
    BY <2>1, <2>3, <2>5, NothingWritten
<1>2. ASSUME S!OpenReadLength PROVE SegIInv'
  <2>1. /\ UNCHANGED <<chain, segs, files, shared>> /\ op.at = "open_length"
        /\ op' = [op EXCEPT !.at = "open_row", !.length = Len(chain)]
    BY <1>2 DEF S!OpenReadLength, S!At
  <2>2. OpOK(op) /\ op.seg \in OwnSeg /\ OwnKnown(op.seg) /\ Len(chain) \in Nat
    BY <2>1, UnderWay DEF OpenAts
  <2>3. /\ op'.at = "open_row" /\ op'.seg = op.seg /\ op'.hash = op.hash
        /\ op'.length = Len(chain)
    BY <2>1, <2>2 DEF OpOK
  <2>4. OpOK(op')
    BY <2>1, <2>2, <2>3 DEF OpOK, OpenAts, CloseAts, MergeAts
  <2>5. \A t : MergeKnown(t)'
    BY <2>3 DEF MergeKnown, MergeAts
  <2>6. S!RowsAbout(op.seg, "opened")' = S!RowsAbout(op.seg, "opened")
    BY <2>1, ChainStays
  <2>7. ASSUME NEW s \in OwnSeg, op'.at \in OpenAts, op'.seg = s PROVE OwnKnown(s)'
    <3>1. s = op.seg /\ S!RowsAbout(s, "opened")' = S!RowsAbout(s, "opened")
      BY <2>3, <2>6, <2>7
    <3>2. /\ S!RowsAbout(s, "opened") = {} /\ segs[s].state = "none"
          /\ op.hash <= Len(chain) /\ (~shared => op.hash = Len(chain))
      BY <2>1, <2>2, <3>1 DEF OwnKnown, OpenAts
    <3> QED
      BY <2>1, <2>2, <2>3, <3>1, <3>2 DEF OwnKnown
  <2> QED
    BY <2>1, <2>4, <2>5, <2>7, NothingWritten
<1> QED
  BY <1>1, <1>2

(* A failed append moves the operation to where it is undone.               *)
LEMMA StepAppendFails ==
    ASSUME SegIInv, S!OpenAppendFails \/ S!CloseAppendFails PROVE SegIInv'
<1>1. CASE S!OpenAppendFails
  <2>1. UNCHANGED <<chain, segs, files, shared>> /\ op.at = "open_event" /\ S!Goto("open_undo")
    BY <1>1 DEF S!OpenAppendFails, S!At
  <2>2. OpOK(op) /\ op.at \in OpenAts /\ "open_undo" \in OpenAts
        /\ op.seg \in OwnSeg /\ OwnKnown(op.seg)
    BY <2>1, UnderWay DEF OpenAts
  <2>3. OpOK(op') /\ op'.at = "open_undo" /\ op'.seg = op.seg
    BY <2>1, <2>2, MovesOn
  <2>4. \A t : MergeKnown(t)'
    BY <2>3 DEF MergeKnown, MergeAts
  <2>5. ASSUME NEW s \in OwnSeg, op'.at \in OpenAts, op'.seg = s PROVE OwnKnown(s)'
    <3>1. s = op.seg /\ S!RowsAbout(s, "opened")' = S!RowsAbout(s, "opened")
      BY <2>1, <2>3, <2>5, ChainStays
    <3> QED
      BY <2>1, <2>2, <2>3, <3>1 DEF OwnKnown
  <2> QED
    BY <2>1, <2>3, <2>4, <2>5, NothingWritten
<1>2. CASE S!CloseAppendFails
  <2>1. UNCHANGED <<chain, segs, files, shared>> /\ op.at = "close_event" /\ S!Goto("close_undo")
    BY <1>2 DEF S!CloseAppendFails, S!At
  <2>2. OpOK(op) /\ op.at \in CloseAts /\ "close_undo" \in CloseAts
    BY <2>1, UnderWay DEF CloseAts
  <2>3. OpOK(op') /\ op'.at = "close_undo"
    BY <2>1, <2>2, MovesOn
  <2>4. op'.at \notin OpenAts /\ \A t : MergeKnown(t)'
    BY <2>3 DEF MergeKnown, MergeAts, OpenAts
  <2> QED
    BY <2>1, <2>3, <2>4, NothingWritten
<1> QED
  BY <1>1, <1>2

(* The operation returns, or the process dies, with nothing written.        *)
LEMMA StepReturns ==
    ASSUME SegIInv, S!Finish, UNCHANGED <<chain, segs, files, shared>> PROVE SegIInv'
<1>1. OpOK(op') /\ op'.at \notin OpenAts /\ \A s : MergeKnown(s)'
  BY Finished, UnderWay
<1> QED
  BY <1>1, NothingWritten

(* The steps of a merge that write nothing.  A scan that finds no conflict  *)
(* proves that none of the segment's events is on the chain yet.            *)
LEMMA StepMergeMoves ==
    ASSUME SegIInv, (\E s \in TheirSeg : S!MergeScan(s)) \/ S!CopyFails \/ S!CopyDone
    PROVE  SegIInv'
<1>1. ASSUME NEW s \in TheirSeg, S!MergeScan(s) PROVE SegIInv'
  <2>1. /\ UNCHANGED <<chain, segs, files, shared>> /\ S!Mergeable(s)
        /\ op' = [S!Idle EXCEPT !.seg = s, !.at = IF S!Conflict(s) THEN "fork_event" ELSE "copy"]
    BY <1>1 DEF S!MergeScan
  <2> DEFINE l == IF S!Conflict(s) THEN "fork_event" ELSE "copy"
  <2>2. op' = Start(l, s, 0)
    <3>1. op' = [S!Idle EXCEPT !.seg = s, !.at = l]
      BY <2>1
    <3> HIDE DEF l
    <3> QED
      BY <3>1 DEF S!Idle, Start
  <2>3. l \in MergeAts /\ l \in {"fork_event", "copy"} /\ l \notin OpenAts
    BY DEF MergeAts, OpenAts
  <2> HIDE DEF l
  <2>4. OpOK(op') /\ op'.at = l /\ op'.seg = s /\ op'.copied = 0
    BY <2>2, <2>3, Starts
  <2>5. TheirKnown(s) /\ segs[s].state \in {"open", "closed"} /\ segs[s].partial = FALSE
    <3>1. segs[s] \in SegRows
      BY DEF SegIInv, SegsTyped, S!Seg
    <3> QED
      BY <2>1, <3>1 DEF SegIInv, S!Mergeable, SegRows
  <2>6. S!RowsAbout(s, "merged") = {}
    BY <2>1 DEF S!Mergeable, S!merged_already, S!RowsAbout
  <2>7. l = "copy" => ~S!Conflict(s)
    BY DEF l
  <2>8. ~S!Conflict(s) => \A j \in DOMAIN chain : chain[j].kind = "event" =>
                            \A i \in DOMAIN files[s] : files[s][i] # chain[j].event
    BY DEF S!Conflict, S!OnMainChain
  <2>9. ~S!Conflict(s) => Cardinality(S!Transcribed(s)) = 0
    <3> SUFFICES ASSUME ~S!Conflict(s) PROVE S!Transcribed(s) = {}
      BY FS_EmptySet
    <3> SUFFICES ASSUME NEW i \in S!Transcribed(s) PROVE FALSE
      OBVIOUS
    <3>1. S!Place(s, i) \in 1 .. Len(files[s]) /\ chain[i].event = files[s][S!Place(s, i)]
      BY <2>5 DEF TheirKnown
    <3>2. i \in DOMAIN chain /\ chain[i].kind = "event"
      BY DEF S!Transcribed, S!RowsAbout
    <3>3. S!Place(s, i) \in DOMAIN files[s]
      BY <3>1 DEF SegIInv, SegsTyped
    <3> QED
      BY <2>8, <3>1, <3>2, <3>3
  <2>10. ASSUME NEW t \in TheirSeg PROVE MergeKnown(t)'
    <3>1. CASE t = s
      <4>1. /\ \A k : S!RowsAbout(s, k)' = S!RowsAbout(s, k)
            /\ S!Transcribed(s)' = S!Transcribed(s)
        BY <2>1, ChainStays
      <4>2. Len(files[s]) \in Nat
        BY DEF SegIInv, SegsTyped
      <4> QED
        BY <2>1, <2>3, <2>4, <2>5, <2>6, <2>7, <2>8, <2>9, <3>1, <4>1, <4>2 DEF MergeKnown
    <3>2. CASE t # s
      BY <2>4, <3>2 DEF MergeKnown
    <3> QED
      BY <3>1, <3>2
  <2> QED
    BY <2>1, <2>3, <2>4, <2>10, NothingWritten
<1>2. ASSUME S!CopyFails \/ S!CopyDone PROVE SegIInv'
  <2>1. PICK l \in {"partial_note", "merged_event"} :
           /\ UNCHANGED <<chain, segs, files, shared>> /\ op.at = "copy" /\ S!Goto(l)
           /\ l = "merged_event" => op.copied = Len(files[op.seg])
    BY <1>2 DEF S!CopyFails, S!CopyDone, S!At
  <2>2. op.at \in MergeAts /\ l \in MergeAts /\ l \notin OpenAts
    BY <2>1 DEF MergeAts, OpenAts
  <2>3. OpOK(op) /\ op.seg \in TheirSeg /\ MergeKnown(op.seg)
    BY <2>2, UnderWay
  <2>4. OpOK(op') /\ op'.at = l /\ op'.seg = op.seg
    BY <2>1, <2>2, <2>3, MovesOn
  <2>5. ASSUME NEW t \in TheirSeg PROVE MergeKnown(t)'
    <3>1. CASE t = op.seg
      <4>1. /\ \A k : S!RowsAbout(t, k)' = S!RowsAbout(t, k)
            /\ S!Transcribed(t)' = S!Transcribed(t)
        BY <2>1, ChainStays
      <4> QED
        BY <2>1, <2>2, <2>3, <2>4, <3>1, <4>1 DEF MergeKnown
    <3>2. CASE t # op.seg
      BY <2>4, <3>2 DEF MergeKnown
    <3> QED
      BY <3>1, <3>2
  <2> QED
    BY <2>1, <2>2, <2>4, <2>5, NothingWritten
<1> QED
  BY <1>1, <1>2

(* The row of the segment under way, marked, is a row.                      *)
LEMMA RowMarked ==
    ASSUME segs \in [S!Seg -> SegRows], NEW a \in S!Seg, NEW st \in S!States, S!SetState(a, st)
    PROVE  /\ [segs[a] EXCEPT !.state = st] \in SegRows
           /\ segs' = [segs EXCEPT ![a] = [segs[a] EXCEPT !.state = st]]
           /\ segs'[a].state = st /\ segs'[a].partial = segs[a].partial
           /\ segs'[a].hash = segs[a].hash /\ segs'[a].length = segs[a].length
BY DEF S!SetState, SegRows

(* Opening writes the row with the anchor it read, or takes it back.        *)
LEMMA StepOpenRow ==
    ASSUME SegIInv, S!OpenInsertRow \/ S!OpenDeleteRow PROVE SegIInv'
<1>1. CASE S!OpenInsertRow
  <2> DEFINE row == [state |-> "open", partial |-> FALSE, hash |-> op.hash, length |-> op.length]
  <2>1. /\ UNCHANGED <<chain, files, shared>> /\ op.at = "open_row" /\ S!Goto("open_event")
        /\ segs' = [segs EXCEPT ![op.seg] = row]
    BY <1>1 DEF S!OpenInsertRow, S!At
  <2>2. OpOK(op) /\ op.seg \in OwnSeg /\ OwnKnown(op.seg) /\ op.at \in OpenAts
        /\ "open_event" \in OpenAts
    BY <2>1, UnderWay DEF OpenAts
  <2>3. OpOK(op') /\ op'.at = "open_event" /\ op'.seg = op.seg
    BY <2>1, <2>2, MovesOn
  <2>4. op.seg \in S!Seg /\ op.seg \notin TheirSeg /\ segs'[op.seg] = row
    BY <2>1, <2>2, UnderWay DEF S!Seg, SegIInv, SegsTyped
  <2>5. row \in SegRows
    BY <2>2 DEF OpOK, SegRows, S!States
  <2>6. \A t : MergeKnown(t)'
    BY <2>3 DEF MergeKnown, MergeAts
  <2>7. OwnKnown(op.seg)'
    <3>1. PICK a \in OwnSeg : a = op.seg
      BY <2>2
    <3>2. S!RowsAbout(a, "opened")' = S!RowsAbout(a, "opened")
      BY <2>1, ChainStays
    <3>3. segs'[a].state = "open" /\ segs'[a].hash = op.hash /\ segs'[a].length = op.length
      BY <2>4, <3>1
    <3>4. OwnKnown(a)'
      BY <2>1, <2>2, <2>3, <3>1, <3>2, <3>3 DEF OwnKnown
    <3> QED
      BY <2>3, <3>1, <3>4
  <2>8. \A s \in OwnSeg : s # op.seg => ~(op'.at \in OpenAts /\ op'.seg = s)
    BY <2>3
  <2> HIDE DEF row
  <2>9. files' \in [TheirSeg -> Seq(Event)] /\ \A s \in TheirSeg : files'[s] = files[s]
    BY <2>1 DEF SegIInv, SegsTyped
  <2>10. PICK a \in S!Seg : a = op.seg
    BY <2>4
  <2>11. OwnKnown(a)'
    BY <2>3, <2>7, <2>10
  <2> QED
    BY <2>1, <2>3, <2>4, <2>5, <2>6, <2>8, <2>9, <2>10, <2>11, RowWritten
<1>2. CASE S!OpenDeleteRow
  <2>1. /\ UNCHANGED <<chain, files, shared>> /\ op.at = "open_undo" /\ S!Finish
        /\ segs' = [segs EXCEPT ![op.seg] = S!NoRow]
    BY <1>2 DEF S!OpenDeleteRow, S!At
  <2>2. OpOK(op) /\ op.seg \in OwnSeg /\ OwnKnown(op.seg) /\ op.at \in OpenAts
    BY <2>1, UnderWay DEF OpenAts
  <2>3. OpOK(op') /\ op'.at \notin OpenAts /\ \A t : MergeKnown(t)'
    BY <2>1, Finished, UnderWay
  <2>4. PICK a \in S!Seg : a = op.seg /\ a \in OwnSeg /\ a \notin TheirSeg
    BY <2>2, UnderWay DEF S!Seg
  <2>5. S!NoRow \in SegRows /\ segs'[a] = S!NoRow
    BY <2>1, <2>4 DEF SegRows, S!NoRow, S!States, SegIInv, SegsTyped
  <2>6. S!RowsAbout(a, "opened")' = {}
    BY <2>1, <2>2, <2>4, ChainStays DEF OwnKnown
  <2>7. OwnKnown(a)'
    BY <2>3, <2>6 DEF OwnKnown, OpenAts
  <2>8. files' \in [TheirSeg -> Seq(Event)] /\ \A s \in TheirSeg : files'[s] = files[s]
    BY <2>1 DEF SegIInv, SegsTyped
  <2> QED
    BY <2>1, <2>3, <2>4, <2>5, <2>7, <2>8, RowWritten
<1> QED
  BY <1>1, <1>2

(* Closing marks the row of a segment of this node, and may take that back. *)
LEMMA StepCloseRow ==
    ASSUME SegIInv, (\E s \in OwnSeg : S!CloseSetRow(s)) \/ S!CloseUndo PROVE SegIInv'
<1>1. PICK a \in OwnSeg, st \in {"open", "closed"} :
         /\ UNCHANGED <<chain, files, shared>> /\ S!SetState(a, st)
         /\ OpOK(op') /\ op'.at \notin OpenAts /\ \A t : MergeKnown(t)'
  <2>1. ASSUME NEW s \in OwnSeg, S!CloseSetRow(s)
        PROVE  /\ UNCHANGED <<chain, files, shared>> /\ S!SetState(s, "closed")
               /\ OpOK(op') /\ op'.at \notin OpenAts /\ \A t : MergeKnown(t)'
    <3>1. /\ UNCHANGED <<chain, files, shared>> /\ S!SetState(s, "closed")
          /\ op' = [S!Idle EXCEPT !.at = "close_event", !.seg = s]
      BY <2>1 DEF S!CloseSetRow
    <3>2. op' = Start("close_event", s, 0)
      BY <3>1 DEF S!Idle, Start
    <3>3. "close_event" \in CloseAts /\ "close_event" \notin OpenAts
      BY DEF CloseAts, OpenAts
    <3>4. OpOK(op') /\ op'.at = "close_event" /\ \A t : MergeKnown(t)'
      BY <3>2, <3>3, Starts
    <3> QED
      BY <3>1, <3>3, <3>4
  <2>2. ASSUME S!CloseUndo
        PROVE  /\ UNCHANGED <<chain, files, shared>> /\ S!SetState(op.seg, "open")
               /\ OpOK(op') /\ op'.at \notin OpenAts /\ (\A t : MergeKnown(t)')
               /\ op.seg \in OwnSeg
    <3>1. /\ UNCHANGED <<chain, files, shared>> /\ op.at = "close_undo" /\ S!Finish
          /\ S!SetState(op.seg, "open")
      BY <2>2 DEF S!CloseUndo, S!At
    <3> QED
      BY <3>1, UnderWay, Finished DEF CloseAts
  <2> QED
    BY <2>1, <2>2
<1>2. a \in S!Seg /\ a \notin TheirSeg /\ st \in S!States /\ st # "none"
      /\ segs \in [S!Seg -> SegRows]
  BY UnderWay DEF S!Seg, S!States, SegIInv, SegsTyped
<1>3. /\ [segs[a] EXCEPT !.state = st] \in SegRows
      /\ segs' = [segs EXCEPT ![a] = [segs[a] EXCEPT !.state = st]]
      /\ segs'[a].state # "none"
      /\ segs'[a].hash = segs[a].hash /\ segs'[a].length = segs[a].length
  BY <1>1, <1>2, RowMarked
<1>4. OwnKnown(a)'
  <2>1. OwnKnown(a) /\ chain \in Seq(ChainRows) /\ ~(op'.at \in OpenAts /\ op'.seg = a)
    BY <1>1 DEF SegIInv, SegsTyped
  <2> QED
    BY <1>1, <1>3, <2>1, OwnStays
<1>5. files' \in [TheirSeg -> Seq(Event)] /\ \A s \in TheirSeg : files'[s] = files[s]
  BY <1>1 DEF SegIInv, SegsTyped
<1> QED
  BY <1>1, <1>2, <1>3, <1>4, <1>5, RowWritten

(* A delivered segment's row is marked at the end of its merge, with what   *)
(* the chain already says.                                                  *)
LEMMA StepMergeRow ==
    ASSUME SegIInv, S!ForkMark \/ S!NotePartial \/ S!MarkFolded PROVE SegIInv'
<1>1. /\ UNCHANGED <<chain, files, shared>> /\ S!Finish
      /\ op.at \in {"fork_row", "partial_note", "folded_row"} /\ op.at \in MergeAts
  BY DEF S!ForkMark, S!NotePartial, S!MarkFolded, S!At, MergeAts
<1>2. PICK a \in TheirSeg : a = op.seg /\ MergeKnown(a) /\ TheirKnown(a)
  BY <1>1, UnderWay
<1>3. a \in S!Seg /\ a \notin OwnSeg /\ segs \in [S!Seg -> SegRows]
  BY UnderWay DEF S!Seg, SegIInv, SegsTyped
<1>4. OpOK(op') /\ op'.at \notin OpenAts /\ \A s : MergeKnown(s)'
  BY <1>1, Finished, UnderWay
<1>5. PICK row \in SegRows :
        /\ segs' = [segs EXCEPT ![a] = row] /\ segs'[a] = row /\ row.state # "none"
        /\ row.state = "folded" => S!RowsAbout(a, "merged") # {}
        /\ row.state = "forked" => S!RowsAbout(a, "forked") # {}
  <2>1. CASE S!ForkMark
    <3>1. S!SetState(a, "forked") /\ op.at = "fork_row"
      BY <1>2, <2>1 DEF S!ForkMark, S!At
    <3>2. "forked" \in S!States
      BY DEF S!States
    <3>3. /\ [segs[a] EXCEPT !.state = "forked"] \in SegRows
          /\ segs' = [segs EXCEPT ![a] = [segs[a] EXCEPT !.state = "forked"]]
          /\ segs'[a].state = "forked"
      BY <1>3, <3>1, <3>2, RowMarked
    <3>4. S!RowsAbout(a, "forked") # {}
      BY <1>1, <1>2, <3>1 DEF MergeKnown
    <3>5. segs'[a] = [segs[a] EXCEPT !.state = "forked"]
      BY <1>3, <3>3
    <3> QED
      BY <3>3, <3>4, <3>5
  <2>2. CASE S!MarkFolded
    <3>1. S!SetState(a, "folded") /\ op.at = "folded_row"
      BY <1>2, <2>2 DEF S!MarkFolded, S!At
    <3>2. "folded" \in S!States
      BY DEF S!States
    <3>3. /\ [segs[a] EXCEPT !.state = "folded"] \in SegRows
          /\ segs' = [segs EXCEPT ![a] = [segs[a] EXCEPT !.state = "folded"]]
          /\ segs'[a].state = "folded"
      BY <1>3, <3>1, <3>2, RowMarked
    <3>4. S!RowsAbout(a, "merged") # {}
      BY <1>1, <1>2, <3>1 DEF MergeKnown
    <3>5. segs'[a] = [segs[a] EXCEPT !.state = "folded"]
      BY <1>3, <3>3
    <3> QED
      BY <3>3, <3>4, <3>5
  <2>3. CASE S!NotePartial
    <3> DEFINE row == [segs[a] EXCEPT !.partial = TRUE]
    <3>1. segs' = [segs EXCEPT ![a] = row] /\ op.at = "partial_note"
      <4>1. segs' = [segs EXCEPT ![a].partial = TRUE] /\ op.at = "partial_note"
        BY <1>2, <2>3 DEF S!NotePartial, S!At
      <4> QED
        BY <4>1, Zenon
    <3>2. segs[a] \in SegRows
      BY <1>3
    <3>3. row \in SegRows /\ row.state = segs[a].state
      BY <3>2 DEF SegRows
    <3>4. segs[a].state \in {"open", "closed"}
      BY <1>1, <1>2, <3>1 DEF MergeKnown
    <3> HIDE DEF row
    <3>5. segs'[a] = row
      BY <1>3, <3>1
    <3> QED
      BY <3>1, <3>3, <3>4, <3>5
  <2> QED
    BY <2>1, <2>2, <2>3
<1>6. TheirKnown(a)'
  BY <1>1, <1>2, <1>5, TheirRowMoves
<1>7. files' \in [TheirSeg -> Seq(Event)] /\ \A s \in TheirSeg : files'[s] = files[s]
  BY <1>1 DEF SegIInv, SegsTyped
<1> QED
  BY <1>1, <1>3, <1>4, <1>5, <1>6, <1>7, RowWritten

(* A segment that arrives is on the chain nowhere.                          *)
LEMMA StepAdopt ==
    ASSUME SegIInv, NEW a \in TheirSeg, NEW events \in S!Deliveries, S!Adopt(a, events)
    PROVE  SegIInv'
<1>1. /\ UNCHANGED <<chain, op, shared>> /\ op.at = "idle" /\ segs[a].state = "none"
      /\ S!SetState(a, "closed") /\ files' = [files EXCEPT ![a] = events]
  BY DEF S!Adopt, S!At
<1>2. a \in S!Seg /\ a \notin OwnSeg /\ segs \in [S!Seg -> SegRows] /\ "closed" \in S!States
      /\ files \in [TheirSeg -> Seq(Event)]
  BY UnderWay DEF S!Seg, SegIInv, SegsTyped, S!States
<1>3. events \in Seq(Event) /\ Len(events) \in Nat /\ Len(events) <= MaxFile
  <2>1. PICK n \in 0 .. MaxFile : events \in [1 .. n -> Event]
    BY DEF S!Deliveries
  <2>2. n \in Nat /\ n <= MaxFile
    BY <2>1, UnderWay
  <2> QED
    BY <2>1, <2>2
<1>4. /\ [segs[a] EXCEPT !.state = "closed"] \in SegRows
      /\ segs' = [segs EXCEPT ![a] = [segs[a] EXCEPT !.state = "closed"]]
      /\ segs'[a].state = "closed"
  BY <1>1, <1>2, RowMarked
<1>5. /\ files' \in [TheirSeg -> Seq(Event)] /\ files'[a] = events
      /\ \A s \in TheirSeg : s # a => files'[s] = files[s]
  BY <1>1, <1>2, <1>3
<1>6. OpOK(op') /\ op'.at \notin OpenAts /\ \A s : MergeKnown(s)'
  BY <1>1 DEF SegIInv, SegsTyped, MergeKnown, OpenAts, MergeAts
<1>7. TheirKnown(a)'
  <2>1. /\ S!Transcribed(a)' = {} /\ S!RowsAbout(a, "merged")' = {}
    BY <1>1, ChainStays DEF SegIInv, TheirKnown
  <2> QED
    BY <1>3, <1>4, <1>5, <2>1 DEF TheirKnown
<1> QED
  BY <1>1, <1>2, <1>4, <1>5, <1>6, <1>7, RowWritten

(* Steps that append one row to the chain.                                  *)
LEMMA ChainGrows ==
    ASSUME SegIInv, NEW r \in ChainRows, chain' = Append(chain, r),
           UNCHANGED <<segs, files, shared>>, OpOK(op'), \A s \in TheirSeg : MergeKnown(s)',
           \A s \in OwnSeg : OwnKnown(s)',
           r.src \in TheirSeg => op.at \in MergeAts /\ r.src = op.seg,
           r.src \in TheirSeg /\ r.kind = "event" =>
              /\ op.at = "copy" /\ op.copied < Len(files[op.seg])
              /\ r.event = files[op.seg][op.copied + 1],
           r.kind = "merged" => op.at = "merged_event"
    PROVE  SegIInv'
<1>1. SegsTyped'
  BY RowAppended DEF SegIInv, SegsTyped
<1>2. ASSUME NEW s \in TheirSeg PROVE TheirKnown(s)'
  <2>1. chain \in Seq(ChainRows) /\ files \in [TheirSeg -> Seq(Event)] /\ TheirKnown(s) /\ OpOK(op)
    BY DEF SegIInv, SegsTyped
  <2>2. r.src = s => op.at \in MergeAts /\ op.seg = s /\ MergeKnown(s)
    BY UnderWay
  <2>3. r.src = s => segs[s].state # "none"
    BY <2>2 DEF MergeKnown
  <2>4. r.src = s /\ r.kind = "event" =>
              /\ Cardinality(S!Transcribed(s)) < Len(files[s])
              /\ r.event = files[s][Cardinality(S!Transcribed(s)) + 1]
              /\ S!RowsAbout(s, "merged") = {}
              /\ ~shared => \A j \in DOMAIN chain :
                   chain[j].kind = "event" /\ chain[j].src # s => chain[j].event # r.event
    <3> SUFFICES ASSUME r.src = s, r.kind = "event"
                 PROVE  /\ Cardinality(S!Transcribed(s)) < Len(files[s])
                        /\ r.event = files[s][Cardinality(S!Transcribed(s)) + 1]
                        /\ S!RowsAbout(s, "merged") = {}
                        /\ ~shared => \A j \in DOMAIN chain :
                             chain[j].kind = "event" /\ chain[j].src # s => chain[j].event # r.event
      OBVIOUS
    <3>1. /\ op.at = "copy" /\ op.copied < Len(files[s]) /\ r.event = files[s][op.copied + 1]
          /\ op.copied = Cardinality(S!Transcribed(s)) /\ S!RowsAbout(s, "merged") = {}
          /\ ~shared => \A j \in DOMAIN chain : chain[j].kind = "event" /\ chain[j].src # s =>
                          \A i \in DOMAIN files[s] : files[s][i] # chain[j].event
      BY <2>2 DEF MergeKnown
    <3>2. op.copied + 1 \in DOMAIN files[s]
      <4>1. op.copied \in Nat /\ DOMAIN files[s] = 1 .. Len(files[s]) /\ Len(files[s]) \in Nat
        BY <2>1 DEF OpOK
      <4> QED
        BY <3>1, <4>1
    <3> QED
      BY <3>1, <3>2
  <2>5. r.src = s /\ r.kind = "merged" =>
              S!RowsAbout(s, "merged") = {} /\ Cardinality(S!Transcribed(s)) = Len(files[s])
    BY <2>2 DEF MergeKnown
  <2> QED
    BY <2>1, <2>3, <2>4, <2>5, TheirRowAppended
<1> QED
  BY <1>1, <1>2 DEF SegIInv, S!SegmentsAssumption

(* A row of the main chain's own.                                           *)
LEMMA StepOtherAppend ==
    ASSUME SegIInv, NEW e \in Event, S!OtherAppend(e) PROVE SegIInv'
<1> DEFINE r == S!ChainRow("event", NoSeg, e)
<1>1. /\ shared \/ op.at = "idle"
      /\ chain' = Append(chain, r) /\ UNCHANGED <<segs, files, op, shared>>
  BY DEF S!OtherAppend, S!AppendRow, S!At
<1>2. r \in ChainRows /\ r.kind = "event" /\ r.src = NoSeg
  BY DEF S!ChainRow, ChainRows, S!RowKinds
<1>3. NoSeg \notin TheirSeg /\ NoSeg \notin OwnSeg /\ chain \in Seq(ChainRows)
      /\ Len(chain) \in Nat
  BY DEF SegIInv, SegsTyped, S!SegmentsAssumption
<1> HIDE DEF r
<1>4. /\ Len(chain') = Len(chain) + 1
      /\ \A s, k : S!RowsAbout(s, k)' = S!RowsAbout(s, k) \cup
                     (IF r.kind = k /\ r.src = s THEN {Len(chain) + 1} ELSE {})
  BY <1>1, <1>2, <1>3, RowAppended
<1>5. ASSUME NEW s \in OwnSeg \cup TheirSeg, NEW k PROVE S!RowsAbout(s, k)' = S!RowsAbout(s, k)
  BY <1>2, <1>3, <1>4
<1>6. ASSUME NEW s \in TheirSeg PROVE MergeKnown(s)'
  <2>1. MergeKnown(s) /\ S!Transcribed(s)' = S!Transcribed(s)
    BY <1>5 DEF SegIInv, S!Transcribed
  <2>2. op.at = "copy" /\ ~shared => FALSE
    BY <1>1
  <2>3. /\ S!RowsAbout(s, "merged")' = S!RowsAbout(s, "merged")
        /\ S!RowsAbout(s, "forked")' = S!RowsAbout(s, "forked")
    BY <1>5
  <2> QED
    BY <1>1, <2>1, <2>2, <2>3 DEF MergeKnown
<1>7. ASSUME NEW s \in OwnSeg PROVE OwnKnown(s)'
  <2>1. OwnKnown(s) /\ S!RowsAbout(s, "opened")' = S!RowsAbout(s, "opened")
    BY <1>5 DEF SegIInv
  <2>2. op.at # "idle" => shared
    BY <1>1
  <2>3. op.hash \in Nat /\ op.length \in Nat /\ segs[s].hash \in Nat /\ segs[s].length \in Nat
    BY DEF SegIInv, SegsTyped, OpOK, SegRows, S!Seg
  <2>4. op.at \in OpenAts => op.at # "idle"
    BY DEF OpenAts
  <2> QED
    BY <1>1, <1>3, <1>4, <2>1, <2>2, <2>3, <2>4 DEF OwnKnown
<1>8. OpOK(op')
  BY <1>1 DEF SegIInv, SegsTyped
<1> QED
  BY <1>1, <1>2, <1>3, <1>6, <1>7, <1>8, ChainGrows

(* The opening event stands right behind the anchor of its row.             *)
LEMMA StepOpenAppend == ASSUME SegIInv, S!OpenAppend PROVE SegIInv'
<1> DEFINE r == S!ChainRow("opened", op.seg, NoEvent)
<1>1. /\ op.at = "open_event" /\ S!Finish
      /\ chain' = Append(chain, r) /\ UNCHANGED <<segs, files, shared>>
  BY DEF S!OpenAppend, S!AppendRow, S!At
<1>2. OpOK(op) /\ op.seg \in OwnSeg /\ OwnKnown(op.seg) /\ op.seg \notin TheirSeg
      /\ "open_event" \in OpenAts
  BY <1>1, UnderWay DEF OpenAts
<1>3. r \in ChainRows /\ r.kind = "opened" /\ r.src = op.seg
  BY <1>2 DEF S!ChainRow, ChainRows, S!RowKinds, S!Seg
<1> HIDE DEF r
<1>4. OpOK(op') /\ op'.at = "idle" /\ op'.at \notin OpenAts /\ \A s : MergeKnown(s)'
  BY <1>1, Finished, UnderWay
<1>5. chain \in Seq(ChainRows) /\ Len(chain) \in Nat
  BY DEF SegIInv, SegsTyped
<1>6. ASSUME NEW s \in OwnSeg PROVE OwnKnown(s)'
  <2>1. CASE s # op.seg
    <3>1. OwnKnown(s) /\ ~(op'.at \in OpenAts /\ op'.seg = s) /\ segs'[s] = segs[s]
          /\ \E x \in ChainRows : chain' = Append(chain, x) /\ (x.kind = "opened" => x.src # s)
      BY <1>1, <1>3, <1>4, <2>1 DEF SegIInv
    <3> QED
      BY <1>1, <1>5, <3>1, OwnStays
  <2>2. CASE s = op.seg
    <3>1. S!RowsAbout(s, "opened")' = S!RowsAbout(s, "opened") \cup {Len(chain) + 1}
      BY <1>1, <1>3, <1>5, <2>2, RowAppended
    <3>2. /\ segs[s].hash <= segs[s].length /\ segs[s].length <= Len(chain)
          /\ ~shared => segs[s].hash = Len(chain) /\ segs[s].length = Len(chain)
          /\ S!RowsAbout(s, "opened") = {} /\ segs[s].state # "none"
      BY <1>1, <1>2, <2>2 DEF OwnKnown
    <3>3. segs[s].hash \in Nat /\ segs[s].length \in Nat
      BY DEF SegIInv, SegsTyped, SegRows, S!Seg
    <3>4. S!RowsAbout(s, "opened")' = {Len(chain) + 1}
      BY <3>1, <3>2
    <3>5. \A i \in S!RowsAbout(s, "opened")' :
              /\ segs[s].hash <= segs[s].length /\ segs[s].length < i
              /\ ~shared => segs[s].hash = i - 1 /\ segs[s].length = i - 1
      BY <1>5, <3>2, <3>3, <3>4
    <3> QED
      BY <1>1, <1>4, <3>2, <3>5 DEF OwnKnown
  <2> QED
    BY <2>1, <2>2
<1> QED
  BY <1>1, <1>2, <1>3, <1>4, <1>6, ChainGrows

(* Closing, a conflict, an event of the file, the end of a merge.           *)
LEMMA StepOpAppend ==
    ASSUME SegIInv, S!CloseAppend \/ S!ForkAppend \/ S!CopyEvent \/ S!MergedAppend
    PROVE  SegIInv'
<1>1. PICK r \in ChainRows :
        /\ chain' = Append(chain, r) /\ UNCHANGED <<segs, files, shared>>
        /\ r.src = op.seg /\ r.kind # "opened"
        /\ S!CloseAppend => op.at = "close_event" /\ S!Finish /\ r.kind = "closed"
        /\ S!ForkAppend => op.at = "fork_event" /\ S!Goto("fork_row") /\ r.kind = "forked"
        /\ S!CopyEvent => /\ op.at = "copy" /\ op.copied < Len(files[op.seg]) /\ r.kind = "event"
                          /\ r.event = files[op.seg][op.copied + 1]
                          /\ op' = [op EXCEPT !.copied = @ + 1]
        /\ S!MergedAppend => op.at = "merged_event" /\ S!Goto("folded_row") /\ r.kind = "merged"
  <2>1. OpOK(op) /\ op.seg \in S!Seg \cup {NoSeg}
    BY UnderWay DEF OpOK
  <2>2. ASSUME NEW k \in {"closed", "forked", "merged"}
        PROVE  /\ S!ChainRow(k, op.seg, NoEvent) \in ChainRows
               /\ S!ChainRow(k, op.seg, NoEvent).kind = k
               /\ S!ChainRow(k, op.seg, NoEvent).src = op.seg
    BY <2>1 DEF S!ChainRow, ChainRows, S!RowKinds
  <2>3. CASE S!CloseAppend
    <3>1. /\ op.at = "close_event" /\ S!Finish /\ UNCHANGED <<segs, files, shared>>
          /\ chain' = Append(chain, S!ChainRow("closed", op.seg, NoEvent))
      BY <2>3 DEF S!CloseAppend, S!AppendRow, S!At
    <3> QED
      BY <2>2, <3>1 DEF S!ForkAppend, S!CopyEvent, S!MergedAppend, S!At
  <2>4. CASE S!ForkAppend
    <3>1. /\ op.at = "fork_event" /\ S!Goto("fork_row") /\ UNCHANGED <<segs, files, shared>>
          /\ chain' = Append(chain, S!ChainRow("forked", op.seg, NoEvent))
      BY <2>4 DEF S!ForkAppend, S!AppendRow, S!At
    <3> QED
      BY <2>2, <3>1 DEF S!CloseAppend, S!CopyEvent, S!MergedAppend, S!At
  <2>5. CASE S!MergedAppend
    <3>1. /\ op.at = "merged_event" /\ S!Goto("folded_row") /\ UNCHANGED <<segs, files, shared>>
          /\ chain' = Append(chain, S!ChainRow("merged", op.seg, NoEvent))
      BY <2>5 DEF S!MergedAppend, S!AppendRow, S!At
    <3> QED
      BY <2>2, <3>1 DEF S!CloseAppend, S!CopyEvent, S!ForkAppend, S!At
  <2>6. CASE S!CopyEvent
    <3> DEFINE e == files[op.seg][op.copied + 1]
               r == S!ChainRow("event", op.seg, e)
    <3>1. /\ op.at = "copy" /\ op.copied < Len(files[op.seg])
          /\ op' = [op EXCEPT !.copied = @ + 1] /\ UNCHANGED <<segs, files, shared>>
          /\ chain' = Append(chain, r)
      BY <2>6 DEF S!CopyEvent, S!AppendRow, S!At
    <3>2. op.seg \in TheirSeg /\ op.copied \in Nat
      BY <2>1, <3>1 DEF OpOK, MergeAts
    <3>3. e \in Event
      <4>1. files[op.seg] \in Seq(Event)
        BY <3>2 DEF SegIInv, SegsTyped
      <4>2. op.copied + 1 \in 1 .. Len(files[op.seg])
        BY <3>1, <3>2, <4>1
      <4> QED
        BY <4>1, <4>2
    <3> HIDE DEF e
    <3>4. r \in ChainRows /\ r.kind = "event" /\ r.src = op.seg /\ r.event = e
      BY <2>1, <3>3 DEF S!ChainRow, ChainRows, S!RowKinds
    <3> HIDE DEF r
    <3>5. r.event = files[op.seg][op.copied + 1]
      BY <3>4 DEF e
    <3>6. ~S!CloseAppend /\ ~S!ForkAppend /\ ~S!MergedAppend
      BY <3>1 DEF S!CloseAppend, S!ForkAppend, S!MergedAppend, S!At
    <3> QED
      BY <3>1, <3>4, <3>5, <3>6
  <2> QED
    BY <2>3, <2>4, <2>5, <2>6
<1>2. OpOK(op) /\ chain \in Seq(ChainRows) /\ Len(chain) \in Nat /\ segs \in [S!Seg -> SegRows]
      /\ files \in [TheirSeg -> Seq(Event)]
  BY DEF SegIInv, SegsTyped
<1>3. /\ S!CloseAppend => op.at \in CloseAts
      /\ S!ForkAppend \/ S!CopyEvent \/ S!MergedAppend => op.at \in MergeAts
  BY <1>1 DEF CloseAts, MergeAts
<1>4. OpOK(op') /\ op'.at \notin OpenAts
  <2>1. CASE S!CloseAppend
    BY <1>1, <2>1, Finished, UnderWay
  <2>2. CASE S!ForkAppend
    <3>1. "fork_row" \in MergeAts /\ "fork_row" \notin OpenAts
      BY DEF MergeAts, OpenAts
    <3> QED
      BY <1>1, <1>2, <1>3, <2>2, <3>1, MovesOn
  <2>3. CASE S!MergedAppend
    <3>1. "folded_row" \in MergeAts /\ "folded_row" \notin OpenAts
      BY DEF MergeAts, OpenAts
    <3> QED
      BY <1>1, <1>2, <1>3, <2>3, <3>1, MovesOn
  <2>4. CASE S!CopyEvent
    <3>1. op.seg \in TheirSeg /\ Len(files[op.seg]) \in Nat /\ Len(files[op.seg]) <= MaxFile
          /\ MaxFile \in Nat
      <4>1. op.seg \in TheirSeg /\ TheirKnown(op.seg) /\ MaxFile \in Nat
        BY <1>3, <2>4, UnderWay
      <4> QED
        BY <1>2, <4>1 DEF TheirKnown
    <3>2. op.copied + 1 \in 0 .. MaxFile
      BY <1>1, <1>2, <2>4, <3>1 DEF OpOK
    <3>3. op' = [op EXCEPT !.copied = op.copied + 1] /\ op.at = "copy"
      BY <1>1, <2>4
    <3>4. /\ op'.at = "copy" /\ op'.seg = op.seg
          /\ op' \in [at : OpenAts \cup CloseAts \cup MergeAts \cup {"idle"}, seg : S!Seg \cup {NoSeg},
                      hash : Nat, length : Nat, copied : 0 .. MaxFile]
      BY <1>2, <3>2, <3>3 DEF OpOK
    <3>5. "copy" \notin OpenAts /\ "copy" \notin CloseAts
      BY DEF OpenAts, CloseAts
    <3> QED
      BY <3>1, <3>4, <3>5 DEF OpOK
  <2> QED
    BY <2>1, <2>2, <2>3, <2>4
<1>5. ASSUME NEW s \in OwnSeg PROVE OwnKnown(s)'
  <2>1. OwnKnown(s) /\ ~(op'.at \in OpenAts /\ op'.seg = s) /\ segs'[s] = segs[s]
        /\ \E x \in ChainRows : chain' = Append(chain, x) /\ (x.kind = "opened" => x.src # s)
    BY <1>1, <1>4 DEF SegIInv
  <2> QED
    BY <1>1, <1>2, <2>1, OwnStays
<1>6. ASSUME NEW s \in TheirSeg PROVE MergeKnown(s)'
  <2>1. CASE S!CloseAppend
    BY <1>1, <2>1, Finished, UnderWay
  <2>2. CASE ~S!CloseAppend
    <3>1. op.at \in MergeAts /\ op.seg \in TheirSeg /\ MergeKnown(op.seg)
      BY <1>3, <2>2, UnderWay
    <3>2. op'.seg = op.seg
      BY <1>1, <1>2, <2>2 DEF S!Goto, OpOK
    <3>3. CASE s # op.seg
      BY <3>2, <3>3 DEF MergeKnown
    <3>4. CASE s = op.seg
      <4>1. MergeKnown(s) /\ op.at \in MergeAts
        BY <3>1, <3>4
      <4>2. \A k : S!RowsAbout(s, k)' = S!RowsAbout(s, k) \cup
                     (IF r.kind = k THEN {Len(chain) + 1} ELSE {})
        BY <1>1, <1>2, <3>4, RowAppended
      <4>3. CASE S!ForkAppend
        <5>1. op.at = "fork_event" /\ op'.at = "fork_row" /\ r.kind = "forked"
          BY <1>1, <1>2, <4>3 DEF S!Goto, OpOK
        <5>2. S!RowsAbout(s, "forked")' # {} /\ S!RowsAbout(s, "merged")' = S!RowsAbout(s, "merged")
          BY <4>2, <5>1
        <5> QED
          BY <1>1, <3>4, <4>1, <5>1, <5>2 DEF MergeKnown
      <4>4. CASE S!MergedAppend
        <5>1. op.at = "merged_event" /\ op'.at = "folded_row" /\ r.kind = "merged"
          BY <1>1, <1>2, <4>4 DEF S!Goto, OpOK
        <5>2. S!RowsAbout(s, "merged")' # {}
          BY <4>2, <5>1
        <5> QED
          BY <1>1, <3>4, <4>1, <5>1, <5>2 DEF MergeKnown
      <4>5. CASE S!CopyEvent
        <5>1. /\ op.at = "copy" /\ op'.at = "copy" /\ r.kind = "event" /\ r.src = s
              /\ op'.copied = op.copied + 1 /\ op.copied < Len(files[s])
          BY <1>1, <1>2, <3>4, <4>5 DEF OpOK
        <5>2. /\ S!RowsAbout(s, "merged")' = S!RowsAbout(s, "merged")
              /\ S!Transcribed(s)' = S!Transcribed(s) \cup {Len(chain) + 1}
          <6>1. S!RowsAbout(s, "merged")' = S!RowsAbout(s, "merged")
            <7>1. S!RowsAbout(s, "merged")' = S!RowsAbout(s, "merged") \cup
                    (IF r.kind = "merged" THEN {Len(chain) + 1} ELSE {})
              BY <4>2
            <7>2. r.kind # "merged"
              BY <5>1
            <7> QED
              BY <7>1, <7>2
          <6>2. S!RowsAbout(s, "event")' = S!RowsAbout(s, "event") \cup {Len(chain) + 1}
            BY <4>2, <5>1
          <6> QED
            BY <6>1, <6>2 DEF S!Transcribed
        <5>3. Len(chain) + 1 \notin S!Transcribed(s) /\ IsFiniteSet(S!Transcribed(s))
              /\ Cardinality(S!Transcribed(s)) \in Nat
          <6>1. Len(chain) + 1 \notin S!Transcribed(s)
            BY <1>2 DEF S!Transcribed, S!RowsAbout
          <6> QED
            BY <1>2, <6>1, RowsAreFinite
        <5>4. Cardinality(S!Transcribed(s))' = Cardinality(S!Transcribed(s)) + 1
          BY <5>2, <5>3, FS_AddElement
        <5>5. op'.copied = Cardinality(S!Transcribed(s))' /\ op'.copied <= Len(files'[s])
          <6>1. op.copied = Cardinality(S!Transcribed(s)) /\ op.copied \in Nat
                /\ Len(files[s]) \in Nat /\ files'[s] = files[s]
            BY <1>1, <1>2, <4>1, <5>1 DEF MergeKnown, OpOK
          <6> QED
            BY <5>1, <5>4, <6>1
        <5>6. ~shared' => \A j \in DOMAIN chain' : chain'[j].kind = "event" /\ chain'[j].src # s =>
                 \A i \in DOMAIN files'[s] : files'[s][i] # chain'[j].event
          <6> SUFFICES ASSUME ~shared, NEW j \in DOMAIN chain', chain'[j].kind = "event",
                              chain'[j].src # s, NEW i \in DOMAIN files[s]
                       PROVE  files[s][i] # chain'[j].event
            BY <1>1
          <6>1. j \in 1 .. Len(chain) + 1 /\ chain'[Len(chain) + 1] = r
                /\ \A x \in 1 .. Len(chain) : chain'[x] = chain[x]
            BY <1>1, <1>2
          <6>2. j # Len(chain) + 1
            BY <5>1, <6>1
          <6>3. j \in DOMAIN chain /\ chain'[j] = chain[j]
            BY <1>2, <6>1, <6>2
          <6> QED
            BY <3>4, <4>1, <5>1, <6>3 DEF MergeKnown
        <5>7. segs'[s] = segs[s] /\ op'.at \notin {"folded_row", "fork_row", "merged_event"}
              /\ segs[s].state \in {"open", "closed"} /\ segs[s].partial = FALSE
              /\ S!RowsAbout(s, "merged") = {}
          BY <1>1, <3>4, <4>1, <5>1 DEF MergeKnown
        <5> QED
          BY <5>1, <5>2, <5>5, <5>6, <5>7 DEF MergeKnown
      <4> QED
        BY <2>2, <4>3, <4>4, <4>5
    <3> QED
      BY <3>3, <3>4
  <2> QED
    BY <2>1, <2>2
<1>7. r.src \in TheirSeg => op.at \in MergeAts
  BY <1>1, <1>3, UnderWay
<1>8. r.src \in TheirSeg /\ r.kind = "event" =>
        op.at = "copy" /\ op.copied < Len(files[op.seg]) /\ r.event = files[op.seg][op.copied + 1]
  BY <1>1
<1>9. r.kind = "merged" => op.at = "merged_event"
  BY <1>1
<1> QED
  BY <1>1, <1>4, <1>5, <1>6, <1>7, <1>8, <1>9, ChainGrows

LEMMA SegNext == ASSUME SegIInv, S!Next PROVE SegIInv'
<1>1. CASE \E e \in Event : S!OtherAppend(e)
  BY <1>1, StepOtherAppend
<1>2. CASE \E s \in TheirSeg, events \in S!Deliveries : S!Adopt(s, events)
  BY <1>2, StepAdopt
<1>3. CASE S!Open
  BY <1>3, StepOpenRead, StepOpenRow, StepOpenAppend, StepAppendFails DEF S!Open
<1>4. CASE S!Close
  BY <1>4, StepCloseRow, StepOpAppend, StepAppendFails DEF S!Close
<1>5. CASE S!Merge
  <2>1. CASE S!MergeAppendFails
    BY <2>1, StepReturns DEF S!MergeAppendFails
  <2> QED
    BY <1>5, <2>1, StepMergeMoves, StepMergeRow, StepOpAppend DEF S!Merge
<1>6. CASE S!WriteFails \/ S!Crash
  BY <1>6, StepReturns DEF S!WriteFails, S!Crash
<1> QED
  BY <1>1, <1>2, <1>3, <1>4, <1>5, <1>6 DEF S!Next

LEMMA SegInductive == ASSUME S!SegmentsAssumption PROVE S!Spec => []SegIInv
<1>1. S!Init => SegIInv
  BY SegInit
<1>2. SegIInv /\ [S!Next]_S!vars => SegIInv'
  <2> SUFFICES ASSUME SegIInv, S!vars' = S!vars PROVE SegIInv'
    BY SegNext
  <2>1. UNCHANGED <<chain, segs, files, op, shared>>
    BY DEF S!vars
  <2>2. OpOK(op') /\ \A s \in TheirSeg : MergeKnown(s)'
    <3>1. OpOK(op')
      BY <2>1 DEF SegIInv, SegsTyped
    <3>2. ASSUME NEW s \in TheirSeg PROVE MergeKnown(s)'
      <4>1. MergeKnown(s) /\ (\A k : S!RowsAbout(s, k)' = S!RowsAbout(s, k))
            /\ S!Transcribed(s)' = S!Transcribed(s)
        BY <2>1, ChainStays DEF SegIInv
      <4> QED
        BY <2>1, <4>1 DEF MergeKnown
    <3> QED
      BY <3>1, <3>2
  <2>3. ASSUME NEW s \in OwnSeg PROVE OwnKnown(s)'
    <3>1. OwnKnown(s) /\ S!RowsAbout(s, "opened")' = S!RowsAbout(s, "opened")
      BY <2>1, ChainStays DEF SegIInv
    <3> QED
      BY <2>1, <3>1 DEF OwnKnown
  <2> QED
    BY <2>1, <2>2, <2>3, NothingWritten
<1> QED
  BY <1>1, <1>2, PTL DEF S!Spec

(* Nothing of a delivered segment is transcribed twice or out of order,     *)
(* whatever fails, dies or is called again: the n-th event of it on the     *)
(* chain is the n-th of its file, segment_merged stands for all of it and   *)
(* stands once, the row says no more than the chain, a folded segment       *)
(* repeats nothing where the host is alone on its file, and an anchor names *)
(* a point before its opening event (open_segment_inner, merge_segment).    *)
THEOREM SegmentsAgree == ASSUME S!SegmentsAssumption PROVE S!Spec => []S!SegmentsInv
<1>1. ASSUME SegIInv PROVE S!SegmentsInv
  <2>1. S!TypeOK
    <3>1. OpOK(op) /\ (op = S!Idle => op.at = "idle")
      BY <1>1 DEF SegIInv, SegsTyped, S!Idle
    <3>2. /\ op.seg \in S!Seg \cup {NoSeg} /\ (op.at = "idle" <=> op = S!Idle)
          /\ op.hash \in Nat /\ op.length \in Nat /\ op.copied \in 0 .. MaxFile
      BY <3>1 DEF OpOK
    <3> QED
      BY <1>1, <3>2 DEF SegIInv, SegsTyped, S!TypeOK, S!At, ChainRows, SegRows
  <2>2. S!NeverTwice
    <3> SUFFICES ASSUME NEW s \in TheirSeg, NEW i \in S!Transcribed(s)
                 PROVE  S!Place(s, i) <= Len(files[s]) /\ chain[i].event = files[s][S!Place(s, i)]
      BY DEF S!NeverTwice
    <3>1. S!Place(s, i) \in 1 .. Len(files[s]) /\ chain[i].event = files[s][S!Place(s, i)]
      BY <1>1 DEF SegIInv, TheirKnown
    <3> QED
      BY <3>1
  <2>3. S!MergedMeansWhole
    BY <1>1, SameCount DEF SegIInv, TheirKnown, S!MergedMeansWhole
  <2>4. S!RowFollowsChain
    BY <1>1 DEF SegIInv, TheirKnown, S!RowFollowsChain
  <2>5. S!NeverSilentMerge
    <3> SUFFICES ASSUME ~shared, NEW s \in TheirSeg, NEW i \in DOMAIN chain,
                        chain[i].kind = "event", chain[i].src = s, NEW j \in 1 .. i - 1,
                        chain[j].kind = "event", chain[j].src # s
                 PROVE  chain[j].event # chain[i].event
      BY DEF S!NeverSilentMerge
    <3>1. i \in S!Transcribed(s)
      BY DEF S!Transcribed, S!RowsAbout
    <3> QED
      BY <1>1, <3>1 DEF SegIInv, TheirKnown
  <2>6. S!AnchorBeforeOpening
    BY <1>1 DEF SegIInv, OwnKnown, S!AnchorBeforeOpening
  <2> QED
    BY <2>1, <2>2, <2>3, <2>4, <2>5, <2>6 DEF S!SegmentsInv
<1> QED
  BY <1>1, SegInductive, PTL

(* A merge that stopped part way and said so is never taken up again: its   *)
(* row and its events on the chain stay as they are (set_segment_note).     *)
THEOREM PartialMergesAreFrozen ==
    ASSUME S!SegmentsAssumption PROVE S!Spec => S!PartialIsFrozen
<1> DEFINE Frozen == \A s \in TheirSeg : segs[s].partial =>
                       segs'[s] = segs[s] /\ S!Transcribed(s)' = S!Transcribed(s)
<1>1. ASSUME SegIInv, S!Next PROVE Frozen
  <2> SUFFICES ASSUME NEW s \in TheirSeg, segs[s].partial
               PROVE  segs'[s] = segs[s] /\ S!Transcribed(s)' = S!Transcribed(s)
    OBVIOUS
  <2>1. ~(op.at \in MergeAts /\ op.seg = s)
    BY <1>1 DEF SegIInv, MergeKnown
  <2>2. /\ segs \in [S!Seg -> SegRows] /\ chain \in Seq(ChainRows) /\ OpOK(op) /\ s \notin OwnSeg
        /\ s \in S!Seg
    BY <1>1, UnderWay DEF SegIInv, SegsTyped, S!Seg
  <2>3. ASSUME NEW a, NEW row, a # s, segs' = [segs EXCEPT ![a] = row] PROVE segs'[s] = segs[s]
    BY <2>2, <2>3
  <2>4. ASSUME NEW a, NEW st, a # s, S!SetState(a, st) PROVE segs'[s] = segs[s]
    BY <2>2, <2>4 DEF S!SetState
  <2>5. ASSUME NEW r \in ChainRows, chain' = Append(chain, r), r.kind = "event" => r.src # s
        PROVE  S!Transcribed(s)' = S!Transcribed(s)
    <3>1. S!RowsAbout(s, "event")' = S!RowsAbout(s, "event") \cup
            (IF r.kind = "event" /\ r.src = s THEN {Len(chain) + 1} ELSE {})
      BY <2>2, <2>5, RowAppended
    <3>2. ~(r.kind = "event" /\ r.src = s)
      BY <2>5
    <3> QED
      BY <3>1, <3>2 DEF S!Transcribed
  <2>6. chain' = chain => S!Transcribed(s)' = S!Transcribed(s)
    BY ChainStays
  <2>7. op.at \in OpenAts \cup CloseAts => op.seg # s
    BY <1>1, <2>2, UnderWay
  <2>8. CASE chain' # chain
    <3>1. segs' = segs /\ \E r \in ChainRows : chain' = Append(chain, r) /\ (r.kind = "event" => r.src # s)
      <4>1. ASSUME NEW e \in Event, S!OtherAppend(e)
            PROVE  segs' = segs /\ \E r \in ChainRows :
                     chain' = Append(chain, r) /\ (r.kind = "event" => r.src # s)
        <5>1. S!ChainRow("event", NoSeg, e) \in ChainRows /\ S!ChainRow("event", NoSeg, e).src # s
          BY <1>1, <2>2 DEF S!ChainRow, ChainRows, S!RowKinds, SegIInv, S!SegmentsAssumption, S!Seg
        <5> QED
          BY <4>1, <5>1 DEF S!OtherAppend, S!AppendRow
      <4>2. CASE S!OpenAppend \/ S!CloseAppend \/ S!ForkAppend \/ S!MergedAppend
        <5>1. segs' = segs /\ \E k \in {"opened", "closed", "forked", "merged"} :
                chain' = Append(chain, S!ChainRow(k, op.seg, NoEvent))
          BY <4>2 DEF S!OpenAppend, S!CloseAppend, S!ForkAppend, S!MergedAppend, S!AppendRow
        <5>2. \A k \in {"opened", "closed", "forked", "merged"} :
                /\ S!ChainRow(k, op.seg, NoEvent) \in ChainRows
                /\ S!ChainRow(k, op.seg, NoEvent).kind # "event"
          BY <2>2 DEF S!ChainRow, ChainRows, S!RowKinds, OpOK
        <5> QED
          BY <5>1, <5>2
      <4>3. CASE S!CopyEvent
        <5>1. /\ op.at = "copy" /\ op.copied < Len(files[op.seg]) /\ segs' = segs
              /\ chain' = Append(chain, S!ChainRow("event", op.seg, files[op.seg][op.copied + 1]))
          BY <4>3 DEF S!CopyEvent, S!AppendRow, S!At
        <5>2. op.seg \in TheirSeg /\ op.seg # s /\ op.copied \in Nat
          BY <1>1, <2>1, <5>1, UnderWay DEF MergeAts, OpOK
        <5>3. files[op.seg][op.copied + 1] \in Event
          <6>1. files[op.seg] \in Seq(Event)
            BY <1>1, <5>2 DEF SegIInv, SegsTyped
          <6>2. op.copied + 1 \in 1 .. Len(files[op.seg])
            BY <5>1, <5>2, <6>1
          <6> QED
            BY <6>1, <6>2
        <5>4. \A e \in Event : /\ S!ChainRow("event", op.seg, e) \in ChainRows
                               /\ S!ChainRow("event", op.seg, e).src = op.seg
          BY <5>2 DEF S!ChainRow, ChainRows, S!RowKinds, S!Seg
        <5> QED
          BY <5>1, <5>2, <5>3, <5>4
      <4> QED
        BY <1>1, <2>8, <4>1, <4>2, <4>3
           DEF S!Next, S!Open, S!Close, S!Merge, S!Adopt, S!WriteFails, S!Crash,
               S!OpenReadHash, S!OpenReadLength, S!OpenInsertRow, S!OpenAppendFails, S!OpenDeleteRow,
               S!CloseSetRow, S!CloseAppendFails, S!CloseUndo, S!MergeScan, S!MergeAppendFails,
               S!ForkMark, S!CopyFails, S!NotePartial, S!CopyDone, S!MarkFolded
    <3> QED
      BY <2>5, <3>1
  <2>9. CASE chain' = chain /\ segs' # segs
    <3>1. ASSUME NEW a \in TheirSeg, NEW events \in S!Deliveries, S!Adopt(a, events)
          PROVE  segs'[s] = segs[s]
      <4>1. segs[a].state = "none" /\ S!SetState(a, "closed")
        BY <3>1 DEF S!Adopt
      <4>2. a # s
        BY <1>1, <4>1 DEF SegIInv, TheirKnown
      <4> QED
        BY <2>4, <4>1, <4>2
    <3>2. ASSUME S!OpenInsertRow \/ S!OpenDeleteRow PROVE segs'[s] = segs[s]
      <4>1. op.at \in OpenAts /\ \E row : segs' = [segs EXCEPT ![op.seg] = row]
        BY <3>2 DEF S!OpenInsertRow, S!OpenDeleteRow, S!At, OpenAts
      <4> QED
        BY <2>3, <2>7, <4>1
    <3>3. ASSUME NEW a \in OwnSeg, S!CloseSetRow(a) PROVE segs'[s] = segs[s]
      BY <2>2, <2>4, <3>3 DEF S!CloseSetRow
    <3>4. ASSUME S!CloseUndo \/ S!ForkMark \/ S!MarkFolded PROVE segs'[s] = segs[s]
      <4>1. op.at \in CloseAts \cup MergeAts /\ \E st : S!SetState(op.seg, st)
        BY <3>4 DEF S!CloseUndo, S!ForkMark, S!MarkFolded, S!At, CloseAts, MergeAts
      <4> QED
        BY <2>1, <2>4, <2>7, <4>1
    <3>5. ASSUME S!NotePartial PROVE segs'[s] = segs[s]
      <4>1. op.at \in MergeAts /\ segs' = [segs EXCEPT ![op.seg].partial = TRUE]
        BY <3>5 DEF S!NotePartial, S!At, MergeAts
      <4>2. op.seg # s
        BY <2>1, <4>1
      <4> QED
        BY <2>2, <4>1, <4>2
    <3>6. segs'[s] = segs[s]
      BY <1>1, <2>9, <3>1, <3>2, <3>3, <3>4, <3>5
         DEF S!Next, S!Open, S!Close, S!Merge, S!OtherAppend, S!WriteFails, S!Crash,
             S!OpenReadHash, S!OpenReadLength, S!OpenAppend, S!OpenAppendFails,
             S!CloseAppend, S!CloseAppendFails, S!MergeScan, S!MergeAppendFails, S!ForkAppend,
             S!CopyEvent, S!CopyFails, S!CopyDone, S!MergedAppend
    <3> QED
      BY <2>6, <2>9, <3>6
  <2> QED
    BY <2>6, <2>8, <2>9
<1>2. SegIInv /\ [S!Next]_S!vars => [Frozen]_S!vars
  BY <1>1
<1> QED
  BY <1>2, SegInductive, PTL DEF S!Spec, S!PartialIsFrozen
=============================================================================
