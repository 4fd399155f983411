------------------------------ MODULE Dispatch ------------------------------
(***************************************************************************)
(* Handing a task to an executor (agent dispatch.rs; host-core dispatch.rs *)
(* and executor.rs, and the dispatch sections of state.rs; net task.rs;    *)
(* the worker and its supervisor).  A local dispatch runs a child process  *)
(* over its stdio.  A dispatch to a node sends one frame and polls a slot; *)
(* at the far side the one thread that reads the node's session runs the   *)
(* task itself, with the list of executors locked, before it reads on.     *)
(***************************************************************************)
EXTENDS Integers, Sequences, FiniteSets

CONSTANTS Nodes,          \* device names
          Ids,            \* task ids; a caller may bring its own, and bring it again
          Routes,         \* <<from, to>> pairs that tasks take
          MaxDispatches   \* bound: dispatches

DispatchAssumption == Routes \subseteq Nodes \X Nodes

Attempts == 1..MaxDispatches
NoAttempt == 0

VARIABLES
  call,      \* [Attempts -> record]: a thread inside dispatch_task
  run,       \* [Attempts -> record]: StdioExecutorHandle::run for it, wherever that is
  child,     \* [Attempts -> state]: the executor process it spawned
  events,    \* [Nodes -> Seq(Attempts)]: worker:ready lines of the node's handle
  net,       \* frames in flight
  reader,    \* [Nodes -> attempt]: the task the reader thread is running, or NoAttempt
  replies,   \* [Nodes -> [Ids -> reply]]: task_replies
  allowed,   \* [Nodes -> BOOLEAN]: the peer's entry in this node's table may dispatch
  rows       \* [Nodes -> SUBSET Attempts]: m.task.dispatch and host.dispatch.received

vars == <<call, run, child, events, net, reader, replies, allowed, rows>>

NoReply == [ok |-> FALSE, why |-> "none", of |-> NoAttempt, by |-> NoAttempt]
Failed(why, a) == [ok |-> FALSE, why |-> why, of |-> a, by |-> NoAttempt]
Answered(a, by) == [ok |-> TRUE, why |-> "ran", of |-> a, by |-> by]

Home == CHOOSE n \in Nodes : TRUE
Idle == [pc |-> "off", at |-> Home, to |-> Home, id |-> CHOOSE i \in Ids : TRUE, known |-> TRUE,
         result |-> NoReply]

Init ==
  /\ call = [a \in Attempts |-> Idle]
  /\ run = [a \in Attempts |-> [pc |-> "off", seen |-> 0, read |-> "nothing", shared |-> FALSE]]
  /\ child = [a \in Attempts |-> "none"]
  /\ events = [n \in Nodes |-> <<>>] /\ net = {}
  /\ reader = [n \in Nodes |-> NoAttempt]
  /\ replies = [n \in Nodes |-> [i \in Ids |-> NoReply]]
  /\ allowed = [n \in Nodes |-> TRUE]
  /\ rows = [n \in Nodes |-> {}]

-----------------------------------------------------------------------------
(* The executor list of a node is locked while its reader runs a peer's task. *)
ListIsFree(n) == reader[n] = NoAttempt

(* A handle is shared behind an Arc: a run notes how many event lines there are, and whether
   another run is on the same handle (shared, a history). *)
StartRun(a) ==
  LET others == {b \in Attempts : run[b].pc \in {"spawn", "read", "reap"} /\ call[b].to = call[a].to} IN
  run' = [b \in Attempts |->
            IF b = a THEN [pc |-> "spawn", seen |-> Len(events[call[a].to]), read |-> "nothing",
                           shared |-> others # {}]
            ELSE [run[b] EXCEPT !.shared = @ \/ b \in others]]

(* dispatch_task: the id is the caller's, or a fresh one. *)
DispatchTask(a, at, to, id, known) ==
  /\ call[a].pc = "off" /\ \A b \in Attempts : b < a => call[b].pc # "off"
  /\ call' = [call EXCEPT ![a] = [pc |-> IF to = at THEN "lock" ELSE "send", at |-> at, to |-> to, id |-> id,
                                  known |-> known, result |-> NoReply]]
  /\ UNCHANGED <<run, child, events, net, reader, replies, allowed, rows>>

(* An answered dispatch leaves a row; a refused or broken one leaves none. *)
Return(a, result) ==
  /\ call' = [call EXCEPT ![a].pc = "done", ![a].result = result]
  /\ rows' = IF result.ok THEN [rows EXCEPT ![call[a].at] = @ \cup {a}] ELSE rows

(* LocalDispatcher::dispatch, the list cloned under the lock: route by target or refuse. *)
DispatchLocally(a) ==
  /\ call[a].pc = "lock" /\ ListIsFree(call[a].at)
  /\ IF call[a].known
     THEN /\ call' = [call EXCEPT ![a].pc = "running"]
          /\ StartRun(a)
          /\ UNCHANGED rows
     ELSE Return(a, Failed("nobody", a)) /\ UNCHANGED run
  /\ UNCHANGED <<child, events, net, reader, replies, allowed>>

(* RemoteAgentHandle::run: one frame ... *)
SendTask(a) ==
  /\ call[a].pc = "send"
  /\ \/ /\ net' = net \cup {[kind |-> "task", a |-> a, reply |-> NoReply]}
        /\ call' = [call EXCEPT ![a].pc = "wait"] /\ UNCHANGED rows
     \/ Return(a, Failed("unreachable", a)) /\ UNCHANGED net
  /\ UNCHANGED <<run, child, events, reader, replies, allowed>>

(* ... then the slot, looked at until the deadline. *)
AnySlot(a) == LET held == {i \in Ids : replies[call[a].at][i] # NoReply}
              IN IF held = {} THEN NoReply ELSE replies[call[a].at][CHOOSE i \in held : TRUE]
Slot(a) == replies[call[a].at][call[a].id]
TakeReply(a) ==
  /\ call[a].pc = "wait" /\ Slot(a) # NoReply
  /\ replies' = [replies EXCEPT ![call[a].at][call[a].id] = NoReply]
  /\ Return(a, Slot(a))
  /\ UNCHANGED <<run, child, events, net, reader, allowed>>
TimeOutNever(a) == FALSE /\ UNCHANGED vars
TimeOut(a) ==
  /\ call[a].pc = "wait" /\ Slot(a) = NoReply
  /\ Return(a, Failed("silence", a))
  /\ UNCHANGED <<run, child, events, net, reader, replies, allowed>>

-----------------------------------------------------------------------------
(* StdioExecutorHandle::run, up to the task line on the child's stdin. *)
FinishRunAsksLast(a, result) ==
  IF call[a].at = call[a].to
  THEN Return(a, result) /\ UNCHANGED <<net, reader>>
  ELSE /\ net' = net \cup {[kind |-> "reply", a |-> a,
                reply |-> IF allowed[call[a].to] THEN result ELSE Failed("unauthorised", a)]}
       /\ reader' = [reader EXCEPT ![call[a].to] = NoAttempt]
       /\ rows' = [rows EXCEPT ![call[a].to] = @ \cup {a}]
       /\ UNCHANGED call
FinishRunSilently(a, result) ==
  IF call[a].at = call[a].to
  THEN Return(a, result) /\ UNCHANGED <<net, reader>>
  ELSE /\ net' = net \cup {[kind |-> "reply", a |-> a, reply |-> result]}
       /\ reader' = [reader EXCEPT ![call[a].to] = NoAttempt]
       /\ UNCHANGED <<call, rows>>
FinishRun(a, result) ==
  IF call[a].at = call[a].to
  THEN Return(a, result) /\ UNCHANGED <<net, reader>>
  ELSE /\ net' = net \cup {[kind |-> "reply", a |-> a, reply |-> result]}
       /\ reader' = [reader EXCEPT ![call[a].to] = NoAttempt]
       /\ rows' = [rows EXCEPT ![call[a].to] = @ \cup {a}]
       /\ UNCHANGED call

Spawn(a) ==
  /\ run[a].pc = "spawn"
  /\ \/ /\ child' = [child EXCEPT ![a] = "live"]
        /\ run' = [run EXCEPT ![a].pc = "read"]
        /\ UNCHANGED <<call, net, reader, rows>>
     \/ /\ run' = [run EXCEPT ![a].pc = "done"] /\ UNCHANGED child
        /\ FinishRun(a, Failed("spawn", a))
  /\ UNCHANGED <<events, replies, allowed>>

(* The worker: worker:ready on stderr, where the handle's drain thread stores it. *)
ChildAnnounces(a) ==
  /\ child[a] = "live"
  /\ child' = [child EXCEPT ![a] = "ready"]
  /\ events' = [events EXCEPT ![call[a].to] = Append(@, a)]
  /\ UNCHANGED <<call, run, net, reader, replies, allowed, rows>>
(* One outcome line, for the task or, when the task could not be read, for none ... *)
ChildAnswers(a) ==
  /\ child[a] \in {"live", "ready"}
  /\ child' = [child EXCEPT ![a] = IF child[a] = "ready" THEN "answered" ELSE "unparsed"]
  /\ UNCHANGED <<call, run, events, net, reader, replies, allowed, rows>>
(* ... and the process ends, or dies before it answered. *)
Leaves(s) == CASE s = "answered" -> "gone" [] s = "unparsed" -> "goneUnparsed" [] OTHER -> "dead"
ChildExits(a) ==
  /\ child[a] \in {"live", "ready", "answered", "unparsed"}
  /\ child' = [child EXCEPT ![a] = Leaves(@)]
  /\ UNCHANGED <<call, run, events, net, reader, replies, allowed, rows>>

(* recv_timeout on the one stdout line. *)
ReadAnswer(a) ==
  /\ run[a].pc = "read" /\ child[a] \notin {"none", "live", "ready"}
  /\ run' = [run EXCEPT ![a].pc = "reap",
                        ![a].read = CASE child[a] \in {"answered", "gone"} -> "own"
                                      [] child[a] = "dead" -> "eof" [] OTHER -> "other"]
  /\ UNCHANGED <<call, child, events, net, reader, replies, allowed, rows>>
(* The deadline: the child is killed before it is waited for. *)
GiveUpWithoutKill(a) ==
  /\ run[a].pc = "read" /\ child[a] \in {"live", "ready"}
  /\ run' = [run EXCEPT ![a].pc = "done"]
  /\ FinishRun(a, Failed("late", a))
  /\ UNCHANGED <<child, events, replies, allowed>>
GiveUp(a) ==
  /\ run[a].pc = "read" /\ child[a] \in {"live", "ready"}
  /\ child' = [child EXCEPT ![a] = "dead"]
  /\ run' = [run EXCEPT ![a].pc = "reap", ![a].read = "late"]
  /\ UNCHANGED <<call, events, net, reader, replies, allowed, rows>>

(* announced_identity: the first worker:ready since the handle's buffer was looked at. *)
AnnouncedAtAll(a) == LET e == events[call[a].to] IN IF e = <<>> THEN NoAttempt ELSE Head(e)
Announced(a) ==
  LET e == events[call[a].to] IN IF Len(e) > run[a].seen THEN e[run[a].seen + 1] ELSE NoAttempt

(* wait, join the drain thread, then believe the child about itself and nothing else. *)
Reap(a) ==
  /\ run[a].pc = "reap" /\ child[a] \in {"gone", "goneUnparsed", "dead"}
  /\ run' = [run EXCEPT ![a].pc = "done"]
  /\ FinishRun(a, IF run[a].read = "own" /\ Announced(a) # NoAttempt
                  THEN Answered(a, Announced(a)) ELSE Failed(run[a].read, a))
  /\ UNCHANGED <<child, events, replies, allowed>>

-----------------------------------------------------------------------------
(* receive_task on the reader thread: authorise, route, run; the list stays locked. *)
ReceiveTask(n, f) ==
  /\ f \in net /\ f.kind = "task" /\ call[f.a].to = n /\ reader[n] = NoAttempt
  /\ IF allowed[n] /\ call[f.a].known
     THEN /\ net' = net \ {f}
          /\ reader' = [reader EXCEPT ![n] = f.a]
          /\ StartRun(f.a)
          /\ UNCHANGED rows
     ELSE /\ net' = (net \ {f}) \cup {[kind |-> "reply", a |-> f.a,
                       reply |-> Failed(IF allowed[n] THEN "nobody" ELSE "unauthorised", f.a)]}
          /\ rows' = [rows EXCEPT ![n] = @ \cup {f.a}]
          /\ UNCHANGED <<reader, run>>
  /\ UNCHANGED <<call, child, events, replies, allowed>>

(* A reply is filed under the id it names, over whatever was there. *)
ReceiveReply(n, f) ==
  /\ f \in net /\ f.kind = "reply" /\ call[f.a].at = n /\ reader[n] = NoAttempt
  /\ net' = net \ {f}
  /\ replies' = [replies EXCEPT ![n][call[f.a].id] = f.reply]
  /\ UNCHANGED <<call, run, child, events, reader, allowed, rows>>

Lose(f) ==
  /\ f \in net /\ net' = net \ {f}
  /\ UNCHANGED <<call, run, child, events, reader, replies, allowed, rows>>

(* A person takes the capability out of peers.json. *)
Authorise(n) ==
  /\ allowed[n] /\ \E r \in Routes : r[1] # n /\ r[2] = n
  /\ allowed' = [allowed EXCEPT ![n] = FALSE]
  /\ UNCHANGED <<call, run, child, events, net, reader, replies, rows>>

Handle(a) == Spawn(a) \/ ReadAnswer(a) \/ GiveUp(a) \/ Reap(a)
Next ==
  \/ \E a \in Attempts :
       \/ \E r \in Routes, id \in Ids, known \in BOOLEAN : DispatchTask(a, r[1], r[2], id, known)
       \/ DispatchLocally(a) \/ SendTask(a) \/ TakeReply(a) \/ TimeOut(a)
       \/ Handle(a) \/ ChildAnnounces(a) \/ ChildAnswers(a) \/ ChildExits(a)
  \/ \E n \in Nodes : Authorise(n)
  \/ \E n \in Nodes, f \in net : ReceiveTask(n, f) \/ ReceiveReply(n, f)
  \/ \E f \in net : Lose(f)

Spec == Init /\ [][Next]_vars

(* The threads of the node are scheduled, a deadline passes, and a child that answered or was
   killed ends; a child that only runs owes nothing. *)
FairSpec ==
  /\ Spec
  /\ \A a \in Attempts :
       /\ WF_vars(DispatchLocally(a)) /\ WF_vars(SendTask(a)) /\ WF_vars(TakeReply(a))
       /\ WF_vars(TimeOut(a)) /\ WF_vars(Handle(a))
       /\ WF_vars(child[a] \in {"answered", "unparsed"} /\ ChildExits(a))

-----------------------------------------------------------------------------
Done(a) == call[a].pc = "done"
(* An id brought by one dispatch only. *)
OwnId(a) == \A b \in Attempts \ {a} : call[b].pc = "off" \/ call[b].id # call[a].id

(* An answer belongs to the task it is returned for, and when its id was used once, to this
   very dispatch (RemoteAgentHandle.run, StdioExecutorHandle.run): a late answer of another
   task is never handed up. *)
AnswerIsForTheTask ==
  \A a \in Attempts : Done(a) /\ call[a].result.of # NoAttempt =>
    /\ call[call[a].result.of].id = call[a].id
    /\ OwnId(a) => call[a].result.of = a

(* An outcome names the process that did the work, as long as the node's handle ran one task
   at a time (announced_identity). *)
AloneOutcomeNamesItsExecutor ==
  \A a \in Attempts : Done(a) /\ call[a].result.ok =>
    LET of == call[a].result.of IN
    ~run[of].shared => call[a].result.by = of

(* A caller told that it was not authorised, or that nobody answers to the target, knows that
   no process ever worked on that dispatch. *)
RefusedMeansNeverRun ==
  \A a \in Attempts : Done(a) /\ call[a].result.why \in {"unauthorised", "nobody"} =>
    child[call[a].result.of] = "none"

(* A process works only while a dispatch holds it: none outlives the run that spawned it. *)
NoOrphanWorker ==
  \A a \in Attempts : child[a] \in {"live", "ready", "answered", "unparsed"} =>
    run[a].pc \in {"read", "reap"}

(* What a peer's task did here is in this node's records by the time the peer can know. *)
AnswerIsRecordedFirst ==
  \A f \in net : f.kind = "reply" => f.a \in rows[call[f.a].to]

(***************************************************************************)
(* An answer belongs to its task and names who did it, a refused task was  *)
(* never run, no worker outlives its task, and an answer is recorded       *)
(* before it is sent (RemoteAgentHandle.run, handle_task, Supervisor).     *)
(***************************************************************************)
DispatchInv ==
    /\ AnswerIsForTheTask /\ AloneOutcomeNamesItsExecutor /\ RefusedMeansNeverRun
    /\ NoOrphanWorker /\ AnswerIsRecordedFirst

(* Every dispatch returns, whatever is lost and however long the child takes. *)
DispatchReturns == \A a \in Attempts : call[a].pc \notin {"off", "done"} ~> Done(a)

(* As executor.rs has it: the identity is looked up only among the lines this run produced. *)
OutcomeNamesItsExecutor ==
  \A a \in Attempts : Done(a) /\ call[a].result.ok => call[a].result.by = call[a].result.of
=============================================================================
