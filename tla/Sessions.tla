------------------------------ MODULE Sessions ------------------------------
(***************************************************************************)
(* Conversations that survive a restart: the session store (session.rs),   *)
(* its migration, the current session of each executor and what a run      *)
(* loads from and appends to it (state.rs).  The store is behind one       *)
(* mutex, the pointer behind another: a run's ensure_session takes them    *)
(* one after the other, and the run itself holds neither.                  *)
(***************************************************************************)
EXTENDS ContextWindow, FiniteSets

CONSTANTS Executors, Node,   \* executors; the node's own one, which runs agents
          Ids, Old, NoId,    \* session ids (never reused); the one found in the file
          Threads,           \* run_agent calls at a time
          HistoryLimit,      \* HISTORY_LIMIT
          MaxRuns, MaxIters, \* bounds on runs, and on the iterations of one
          MaxBoots           \* bound on the starts of the process

ASSUME SessionsAssumption == Node \in Executors /\ Old \in Ids /\ NoId \notin Ids

Unnamed == "unnamed"      \* a row that predates executor_id
Absent  == "absent"       \* no such row

VARIABLES owner,    \* sessions table: id -> executor, Unnamed or Absent
          rows,     \* session_messages: id -> sequence of messages
          disk,     \* the file: column added, version stamped, the .bak copy
          boot,     \* where SessionStore::open stands
          current,  \* current_session_id, by executor
          used,     \* ids handed out so far
          run,      \* the runs in progress, by thread
          runs, boots

vars == <<owner, rows, disk, boot, current, used, run, runs, boots>>
Store == <<owner, rows, disk, boot, used, boots>>

NoBak  == <<>>
NoRun  == [at |-> "none", id |-> NoId, pre |-> 0, conv |-> <<>>, made |-> <<>>,
           iters |-> 0]
Msg(k) == [role |-> "message", n |-> k]
Live(id)       == owner[id] # Absent
Belongs(id, e) == owner[id] = e \/ (owner[id] = Unnamed /\ e = Node)

(* The process meets a file of an older build, with one session.           *)
Init ==
    /\ owner = [i \in Ids |-> IF i = Old THEN Unnamed ELSE Absent]
    /\ rows = [i \in Ids |-> IF i = Old THEN <<Msg(0)>> ELSE <<>>]
    /\ used = {Old}
    /\ disk = [column |-> FALSE, version |-> 0, bak |-> NoBak]
    /\ boot = "closed" /\ current = [e \in Executors |-> NoId]
    /\ run = [t \in Threads |-> NoRun] /\ runs = 0 /\ boots = 0

---------------------------------------------------------------------------
(* SessionStore::open: copy, add the column, stamp.                        *)

\* mutant: every open takes a backup
OpenCopiesAlways ==
    /\ boot = "closed" /\ boots < MaxBoots
    /\ boots' = boots + 1 /\ boot' = "copied"
    /\ disk' = [disk EXCEPT !.bak = rows]
    /\ UNCHANGED <<owner, rows, current, used, run, runs>>

(* A file whose version is older than this build's is copied first.        *)
OpenCopies ==
    /\ boot = "closed" /\ boots < MaxBoots
    /\ boots' = boots + 1 /\ boot' = "copied"
    /\ disk' = IF disk.version < 1 THEN [disk EXCEPT !.bak = rows] ELSE disk
    /\ UNCHANGED <<owner, rows, current, used, run, runs>>

\* mutant: the version is stamped first
OpenStampsFirst ==
    /\ boot = "copied"
    /\ disk' = [disk EXCEPT !.version = 1]
    /\ boot' = "altered"
    /\ UNCHANGED <<owner, rows, current, used, run, runs, boots>>

(* init: the schema, then add_column_if_missing.                           *)
OpenAlters ==
    /\ boot = "copied"
    /\ disk' = IF disk.version < 1 THEN [disk EXCEPT !.column = TRUE] ELSE disk
    /\ boot' = "altered"
    /\ UNCHANGED <<owner, rows, current, used, run, runs, boots>>

OpenStamps ==
    /\ boot = "altered"
    /\ disk' = [disk EXCEPT !.version = 1]
    /\ boot' = "open"
    /\ UNCHANGED <<owner, rows, current, used, run, runs, boots>>

(* The process dies: the pointers and the runs are gone.  A run that was   *)
(* persisting has written some of its messages, one transaction each.      *)
Crash ==
    /\ boot # "closed" /\ boots < MaxBoots
    /\ boot' = "closed" /\ current' = [e \in Executors |-> NoId]
    /\ run' = [t \in Threads |-> NoRun]
    /\ UNCHANGED <<owner, rows, disk, used, runs, boots>>

---------------------------------------------------------------------------
(* The sessions an interface works on.                                     *)

Made(id, e) ==
    /\ id \in Ids \ used
    /\ used' = used \cup {id}
    /\ owner' = [owner EXCEPT ![id] = e]
    /\ current' = [current EXCEPT ![e] = id]
    /\ UNCHANGED <<rows, disk, boot, boots>>

CreateSession(id, e) == boot = "open" /\ Made(id, e) /\ UNCHANGED <<run, runs>>

\* mutant: whose the session is is not asked
OpenSessionAnyone(id, e) ==
    /\ boot = "open" /\ Live(id)
    /\ current' = [current EXCEPT ![e] = id]
    /\ UNCHANGED <<Store, run, runs>>

(* open_session: another executor's session is not found.                  *)
OpenSession(id, e) ==
    /\ boot = "open" /\ Live(id) /\ Belongs(id, e)
    /\ current' = [current EXCEPT ![e] = id]
    /\ UNCHANGED <<Store, run, runs>>

\* mutant: the messages of a deleted session stay
DeleteSessionKeepsRows(id, e) ==
    /\ boot = "open" /\ Live(id) /\ Belongs(id, e)
    /\ owner' = [owner EXCEPT ![id] = Absent]
    /\ current' = [current EXCEPT ![e] = IF @ = id THEN NoId ELSE @]
    /\ UNCHANGED <<rows, disk, boot, used, boots, run, runs>>

(* delete_session: the messages cascade; the pointer of that executor is   *)
(* cleared if it is the one.                                               *)
DeleteSession(id, e) ==
    /\ boot = "open" /\ Live(id) /\ Belongs(id, e)
    /\ owner' = [owner EXCEPT ![id] = Absent]
    /\ rows' = [rows EXCEPT ![id] = <<>>]
    /\ current' = [current EXCEPT ![e] = IF @ = id THEN NoId ELSE @]
    /\ UNCHANGED <<disk, boot, used, boots, run, runs>>

(* clear_all_sessions: this executor's rows, and for the node's own the    *)
(* unnamed ones.                                                           *)
ClearAll(e) ==
    /\ boot = "open"
    /\ LET gone == {i \in Ids : Live(i) /\ Belongs(i, e)}
       IN /\ owner' = [i \in Ids |-> IF i \in gone THEN Absent ELSE owner[i]]
          /\ rows' = [i \in Ids |-> IF i \in gone THEN <<>> ELSE rows[i]]
    /\ current' = [current EXCEPT ![e] = NoId]
    /\ UNCHANGED <<disk, boot, used, boots, run, runs>>

---------------------------------------------------------------------------
(* A run.                                                                  *)

(* ensure_session: the pointer is read, then the row is asked for.  A      *)
(* pointer that names no row of this executor is stale.                    *)
RunEnsures(t) ==
    /\ boot = "open" /\ run[t].at = "none" /\ runs < MaxRuns
    /\ runs' = runs + 1
    /\ LET id == current[Node]
       IN run' = [run EXCEPT ![t] =
                    [NoRun EXCEPT !.at = IF id = NoId THEN "create"
                                         ELSE IF Live(id) /\ Belongs(id, Node) THEN "load"
                                         ELSE "forget",
                                  !.id = id]]
    /\ UNCHANGED <<Store, current>>

(* The stale pointer is dropped: whatever it names by now.                 *)
RunForgets(t) ==
    /\ run[t].at = "forget"
    /\ current' = [current EXCEPT ![Node] = NoId]
    /\ run' = [run EXCEPT ![t].at = "create"]
    /\ UNCHANGED <<Store, runs>>

RunCreates(t) ==
    /\ run[t].at = "create"
    /\ \E id \in Ids : Made(id, Node) /\ run' = [run EXCEPT ![t].at = "load", ![t].id = id]
    /\ UNCHANGED runs

History(id) == SubSeq(rows[id], IF Len(rows[id]) > HistoryLimit
                                THEN Len(rows[id]) - HistoryLimit + 1 ELSE 1, Len(rows[id]))

(* load_session_history, push_history: the last rows, behind the system    *)
(* prompt; pre_len is the length at this point.                            *)
RunLoads(t) ==
    /\ run[t].at = "load"
    /\ LET conv == <<System>> \o History(run[t].id)
       IN run' = [run EXCEPT ![t].at = "ask", ![t].conv = conv, ![t].pre = Len(conv)]
    /\ UNCHANGED <<Store, current, runs>>

Numbered(t, k) == Msg(10 * runs + Len(run[t].made) + k)

(* The user's message; then, every iteration, the context is trimmed and   *)
(* the answer of the model is pushed, with the result of its call if any.  *)
RunAsks(t) ==
    /\ run[t].at = "ask"
    /\ LET m == Numbered(t, 1)
       IN run' = [run EXCEPT ![t].at = "loop", ![t].conv = Append(@, m), ![t].made = <<m>>]
    /\ UNCHANGED <<Store, current, runs>>
RunIterates(t) ==
    /\ run[t].at = "loop" /\ run[t].iters < MaxIters
    /\ \E n \in 1 .. 2 :
         LET new == [k \in 1 .. n |-> Numbered(t, k)]
         IN run' = [run EXCEPT ![t].conv = TrimContext(@) \o new, ![t].made = @ \o new,
                               ![t].iters = @ + 1,
                               ![t].at = IF n = 1 THEN "persist" ELSE "loop"]
    /\ UNCHANGED <<Store, current, runs>>
RunStops(t) ==
    /\ run[t].at = "loop" /\ run[t].iters > 0
    /\ run' = [run EXCEPT ![t].at = "persist"]
    /\ UNCHANGED <<Store, current, runs>>

(* persist_turn: everything from pre_len on that is not a system message,  *)
(* under one lock of the store.  A session deleted meanwhile refuses the   *)
(* first of them.                                                          *)
Turn(t) == SelectSeq(SubSeq(run[t].conv, run[t].pre + 1, Len(run[t].conv)),
                     LAMBDA m : m.role = "message")
RunPersists(t) ==
    /\ run[t].at = "persist"
    /\ rows' = IF Live(run[t].id) THEN [rows EXCEPT ![run[t].id] = @ \o Turn(t)] ELSE rows
    /\ run' = [run EXCEPT ![t] = NoRun]
    /\ UNCHANGED <<owner, disk, boot, used, boots, current, runs>>
(* ... or the process dies in the middle of it.                            *)
PersistCrashes(t) ==
    /\ run[t].at = "persist" /\ boots < MaxBoots /\ Live(run[t].id) /\ Turn(t) # <<>>
    /\ rows' = [rows EXCEPT ![run[t].id] = Append(@, Turn(t)[1])]
    /\ boot' = "closed" /\ current' = [e \in Executors |-> NoId]
    /\ run' = [u \in Threads |-> NoRun]
    /\ UNCHANGED <<owner, disk, used, runs, boots>>

RunStep(t) == \/ RunEnsures(t) \/ RunForgets(t) \/ RunCreates(t) \/ RunLoads(t) \/ RunAsks(t)
              \/ RunIterates(t) \/ RunStops(t) \/ RunPersists(t) \/ PersistCrashes(t)

Next ==
    \/ OpenCopies \/ OpenAlters \/ OpenStamps \/ Crash
    \/ \E e \in Executors : \/ ClearAll(e)
                            \/ \E id \in Ids : CreateSession(id, e) \/ OpenSession(id, e)
                                               \/ DeleteSession(id, e)
    \/ \E t \in Threads : RunStep(t)

Spec == Init /\ [][Next]_vars

---------------------------------------------------------------------------
(* Properties.                                                             *)

(* A pointer never names another executor's session, whatever is opened,   *)
(* deleted or created around it.                                           *)
CurrentIsOwn == \A e \in Executors :
    current[e] # NoId /\ Live(current[e]) => Belongs(current[e], e)

(* Messages belong to a session that is there, and a run writes only into  *)
(* a session of the node.                                                  *)
MessagesHaveASession == \A i \in Ids : rows[i] # <<>> => Live(i) /\ Belongs(i, Node)

(* A database stamped with the version has its column: an interrupted      *)
(* migration is taken up again by the next open.                           *)
StampedMeansMigrated == disk.version = 1 => disk.column

(* The backup is the file as it was before the migration, whatever happens *)
(* to the sessions afterwards.                                             *)
BackupIsOld == disk.bak # NoBak =>
    disk.bak = [i \in Ids |-> IF i = Old THEN <<Msg(0)>> ELSE <<>>]

(***************************************************************************)
(* Sessions stay with their executor, messages with their session, and a   *)
(* migration that dies half-way is neither taken for done nor loses the    *)
(* old file (open_session, SessionStore::open).                            *)
(***************************************************************************)
ConversationsInv ==
    /\ CurrentIsOwn /\ MessagesHaveASession /\ StampedMeansMigrated /\ BackupIsOld

(* "Persist everything the turn produced" (persist_turn): what a run stores *)
(* is its own messages, all of them, also when its history was trimmed.     *)
TurnIsPersisted ==
    [][\A t \in Threads : run[t].at = "persist" /\ run'[t].at = "none" /\ boot' = "open"
                          /\ Live(run[t].id)
         => rows'[run[t].id] = rows[run[t].id] \o run[t].made]_vars
=============================================================================
