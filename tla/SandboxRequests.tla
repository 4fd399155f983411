-------------------------- MODULE SandboxRequests --------------------------
(***************************************************************************)
(* The asks for a sandbox change (host-core/src/sandbox_request.rs and the *)
(* request section of state.rs): a queue that dies with its process, the   *)
(* m.request.* rows of the audit chain it is rebuilt from, and the answer  *)
(* that travels from a centre to the stand-in that asked.                  *)
(*                                                                         *)
(* Every operation changes the queue first and writes its row later; the   *)
(* rows still to be written are the set ops, so a decision may overtake    *)
(* the row of its ask and a crash may come in between.  An id is           *)
(* req-<pid>-<seq>: the counter starts over in every process.              *)
(***************************************************************************)
EXTENDS Naturals, Sequences, FiniteSets, SequencesExt, FiniteSetsExt

CONSTANTS Centre, StandIn,   \* the node that merges and decides, and one whose segments it merges
          Pids,              \* the process ids a node may be given
          MaxAsks,           \* bound: asks in a behaviour
          MaxDecisions,      \* bound: decisions and removals taken by an actor
          MaxBoots           \* bound: restarts in a behaviour

Nodes == {Centre, StandIn}
Verdicts == {"approved", "rejected"}

RequestsAssumption == Centre # StandIn /\ Pids # {}

VARIABLES
  up,       \* [Nodes -> BOOLEAN]
  proc,     \* [Nodes -> [pid, seq]]: the process and its REQ_SEQ
  queue,    \* [Nodes -> Seq([id, status, by])]: SandboxRequests.requests
  chain,    \* [Nodes -> Seq([kind, id, by])]: the m.request.* rows
  ops,      \* rows whose queue change is made and that are still to be written
  wire,     \* decisions on their way to the asker
  merged,   \* how much of the stand-in's chain the centre has merged
  asks, decisions, boots,   \* the bounded counters
  past,     \* history: process ids used, ids asked through the tool, ids removed,
            \* ids decided before their ask was written, ids whose row was refused
  told      \* history: the decisions a node has taken itself, [node, id, verdict]

vars == <<up, proc, queue, chain, ops, wire, merged, asks, decisions, boots, past, told>>

Row(n, kind, id, by) == [node |-> n, kind |-> kind, id |-> id, by |-> by]
Pending(id) == [id |-> id, status |-> "pending", by |-> "nobody"]
Queued(q, id) == {i \in DOMAIN q : q[i].id = id}

(* SandboxRequests::decide: the first entry of that id, once. *)
DecidedAgain(q, id, verdict, by) ==
  IF Queued(q, id) = {} THEN q
  ELSE [q EXCEPT ![Min(Queued(q, id))] = [id |-> id, status |-> verdict, by |-> by]]
Decided(q, id, verdict, by) ==
  IF Queued(q, id) = {} \/ q[Min(Queued(q, id))].status # "pending" THEN q
  ELSE [q EXCEPT ![Min(Queued(q, id))] = [id |-> id, status |-> verdict, by |-> by]]

\* mutant: a decision before any ask opens a record
RecordedOrphan(found, row) ==
  IF Queued(found, row.id) = {}
  THEN Append(found, IF row.kind = "ask" THEN Pending(row.id)
                     ELSE [id |-> row.id, status |-> row.kind, by |-> row.by])
  ELSE IF row.kind = "ask" THEN found ELSE Decided(found, row.id, row.kind, row.by)

(* derive_requests_from, one row at a time: the first ask opens a record, the first
   decision after it closes it, and a decision before any ask is an orphan. *)
Recorded(found, row) ==
  IF row.kind # "ask" THEN Decided(found, row.id, row.kind, row.by)
  ELSE IF Queued(found, row.id) = {} THEN Append(found, Pending(row.id)) ELSE found

DeriveRequests(c) ==
  LET found[k \in 0 .. Len(c)] == IF k = 0 THEN <<>> ELSE Recorded(found[k - 1], c[k])
  IN found[Len(c)]

(* restore: the pending records that are not queued yet; a queued id is left as it stands. *)
Restored(q, r) ==
  IF r.status = "pending" /\ Queued(q, r.id) = {} THEN Append(q, r) ELSE q

Restore(q, derived) ==
  LET seeded[k \in 0 .. Len(derived)] ==
        IF k = 0 THEN q ELSE Restored(seeded[k - 1], derived[k])
  IN seeded[Len(derived)]

Init ==
  /\ up = [n \in Nodes |-> TRUE]
  /\ proc = [n \in Nodes |-> [pid |-> CHOOSE p \in Pids : TRUE, seq |-> 0]]
  /\ queue = [n \in Nodes |-> <<>>] /\ chain = [n \in Nodes |-> <<>>]
  /\ ops = {} /\ wire = {} /\ merged = 0 /\ asks = 0 /\ decisions = 0 /\ boots = 0 /\ told = {}
  /\ past = [pids |-> {<<n, proc[n].pid>> : n \in Nodes}, reused |-> {}, tool |-> {},
             removed |-> {}, early |-> {}, refused |-> {}]

(* enqueue: the next id of this process, pending, at the end of the queue. *)
NewId(n) == <<n, proc[n].pid, proc[n].seq + 1>>
Enqueue(n) ==
  /\ up[n] /\ asks < MaxAsks
  /\ asks' = asks + 1
  /\ proc' = [proc EXCEPT ![n].seq = @ + 1]
  /\ queue' = [queue EXCEPT ![n] = Append(@, Pending(NewId(n)))]

(* request_sandbox: the ask is queued and announced, then its row is written. *)
Ask(n) ==
  /\ Enqueue(n)
  /\ ops' = ops \cup {Row(n, "ask", NewId(n), n)}
  /\ UNCHANGED <<up, chain, wire, merged, decisions, boots, past, told>>

(* The agent's tool gateway (ToolSandboxRequests.request): the same queue, and no row. *)
ToolAsk(n) ==
  /\ Enqueue(n)
  /\ past' = [past EXCEPT !.tool = @ \cup {NewId(n)}]
  /\ UNCHANGED <<up, chain, ops, wire, merged, decisions, boots, told>>

Unwritten(id) == \E o \in ops : o.kind = "ask" /\ o.id = id

(* approve_sandbox_request and reject_sandbox_request. *)
Decide(n, id, verdict) ==
  /\ up[n] /\ decisions < MaxDecisions
  /\ Decided(queue[n], id, verdict, n) # queue[n]
  /\ queue' = [queue EXCEPT ![n] = Decided(@, id, verdict, n)]
  /\ ops' = ops \cup {Row(n, verdict, id, n)}
  /\ decisions' = decisions + 1
  /\ told' = told \cup {[node |-> n, id |-> id, verdict |-> verdict]}
  /\ past' = [past EXCEPT !.early = IF Unwritten(id) THEN @ \cup {id} ELSE @]
  /\ UNCHANGED <<up, proc, chain, wire, merged, asks, boots>>

(* emit_m_action, then tell_asker: the row is appended, or refused and only counted; a
   decision about another node's ask is sent down that node's session, if it holds one. *)
WriteRow(o, accepted, sent) ==
  /\ o \in ops /\ up[o.node]
  /\ ops' = ops \ {o}
  /\ chain' = IF accepted THEN [chain EXCEPT ![o.node] = Append(@, [kind |-> o.kind, id |-> o.id, by |-> o.by])]
              ELSE chain
  /\ past' = IF accepted THEN past ELSE [past EXCEPT !.refused = @ \cup {o.id}]
  /\ sent => /\ o.kind \in Verdicts /\ o.by = o.node
             /\ o.node = Centre /\ o.id[1] # o.node
  /\ wire' = IF sent THEN wire \cup {[id |-> o.id, verdict |-> o.kind, by |-> o.by]} ELSE wire
  /\ UNCHANGED <<up, proc, queue, merged, asks, decisions, boots, told>>

(* The word on the wire names the verdict. *)
PeerVerdictAlways(m) == "approved"
PeerVerdict(m) == m.verdict

(* decide_request_from_peer: a decision for an ask this node holds and nobody decided. *)
HearUnchecked(m, w) == IF Queued(queue[StandIn], m.id) = {} THEN {} ELSE w
Hear(m, w) == IF Decided(queue[StandIn], m.id, PeerVerdict(m), m.by) = queue[StandIn] THEN {} ELSE w
PeerDecision(m) ==
  /\ m \in wire /\ up[StandIn]
  /\ wire' = wire \ {m}
  /\ queue' = [queue EXCEPT ![StandIn] = Decided(@, m.id, PeerVerdict(m), m.by)]
  /\ ops' = ops \cup Hear(m, {Row(StandIn, PeerVerdict(m), m.id, m.by)})
  /\ past' = [past EXCEPT !.early =
                IF Hear(m, {m}) # {} /\ Unwritten(m.id) THEN @ \cup {m.id} ELSE @]
  /\ UNCHANGED <<up, proc, chain, merged, asks, decisions, boots, told>>

(* send_to is best effort: a session that drops takes its frame with it. *)
Lose(m) ==
  /\ m \in wire
  /\ wire' = wire \ {m}
  /\ UNCHANGED <<up, proc, queue, chain, ops, merged, asks, decisions, boots, past, told>>

(* delete_sandbox_request: the queue loses the entry and the chain does not. *)
RemoveFromQueue(q, id) == RemoveAt(q, Min(Queued(q, id)))
DeleteRequest(n, id) ==
  /\ up[n] /\ decisions < MaxDecisions /\ Queued(queue[n], id) # {}
  /\ queue' = [queue EXCEPT ![n] = RemoveFromQueue(@, id)]
  /\ decisions' = decisions + 1
  /\ past' = [past EXCEPT !.removed = @ \cup {<<n, id>>}]
  /\ UNCHANGED <<up, proc, chain, ops, wire, merged, asks, boots, told>>

(* A segment of the stand-in reaches the centre: the rows join its chain and the live
   queue does not move (AuditSegments models the merge itself). *)
MergeSegment ==
  /\ up[Centre] /\ merged < Len(chain[StandIn])
  /\ chain' = [chain EXCEPT ![Centre] = @ \o SubSeq(chain[StandIn], merged + 1, Len(chain[StandIn]))]
  /\ merged' = Len(chain[StandIn])
  /\ UNCHANGED <<up, proc, queue, ops, wire, asks, decisions, boots, past, told>>

Crash(n) ==
  /\ up[n] /\ boots < MaxBoots
  /\ up' = [up EXCEPT ![n] = FALSE]
  /\ queue' = [queue EXCEPT ![n] = <<>>]
  /\ ops' = {o \in ops : o.node # n}
  /\ past' = [past EXCEPT !.refused = @ \cup {o.id : o \in {x \in ops : x.node = n}}]
  /\ boots' = boots + 1
  /\ UNCHANGED <<proc, chain, wire, merged, asks, decisions, told>>

(* A new process: REQ_SEQ starts at zero and restore_pending_requests seeds the queue. *)
Boot(n, pid) ==
  /\ ~up[n]
  /\ up' = [up EXCEPT ![n] = TRUE]
  /\ proc' = [proc EXCEPT ![n] = [pid |-> pid, seq |-> 0]]
  /\ queue' = [queue EXCEPT ![n] = Restore(<<>>, DeriveRequests(chain[n]))]
  /\ past' = [past EXCEPT !.pids = @ \cup {<<n, pid>>},
                          !.reused = IF <<n, pid>> \in past.pids THEN @ \cup {n} ELSE @,
                          !.removed = {r \in @ : r[1] # n}]
  /\ UNCHANGED <<chain, ops, wire, merged, asks, decisions, boots, told>>

QueuedIds(n) == {queue[n][i].id : i \in DOMAIN queue[n]}

Next ==
  \/ \E n \in Nodes : Ask(n) \/ ToolAsk(n) \/ Crash(n)
  \/ \E n \in Nodes : \E id \in QueuedIds(n) : DeleteRequest(n, id) \/ \E v \in Verdicts : Decide(n, id, v)
  \/ \E o \in ops, accepted, sent \in BOOLEAN : WriteRow(o, accepted, sent)
  \/ \E m \in wire : PeerDecision(m) \/ Lose(m)
  \/ MergeSegment
  \/ \E n \in Nodes, pid \in Pids : Boot(n, pid)

Spec == Init /\ [][Next]_vars

-----------------------------------------------------------------------------
Fresh(n) == n \notin past.reused
InFlight(n, id) == \E o \in ops : o.node = n /\ o.id = id

AskRows(c, id) == {i \in DOMAIN c : c[i].kind = "ask" /\ c[i].id = id}
DecisionRows(c, id, from) ==
  {i \in DOMAIN c : i > from /\ c[i].kind \in Verdicts /\ c[i].id = id}

(* What the chain says of a request that was asked: the first decision after the first ask. *)
Said(c, id) ==
  LET found == DecisionRows(c, id, Min(AskRows(c, id)))
  IN IF found = {} THEN Pending(id)
     ELSE [id |-> id, status |-> c[Min(found)].kind, by |-> c[Min(found)].by]

(* What is read back is what the chain says, one record for each id that was asked. *)
RecordsAreTheChain ==
  \A n \in Nodes :
    LET records == DeriveRequests(chain[n]) IN
    /\ \A i \in DOMAIN records :
         AskRows(chain[n], records[i].id) # {} /\ records[i] = Said(chain[n], records[i].id)
    /\ \A i \in DOMAIN chain[n] :
         chain[n][i].kind = "ask" => Cardinality(Queued(records, chain[n][i].id)) = 1

(* Of the ask's life on the node it was made on, as long as process ids are not reused:
   once its row is written and before it is decided or removed, it is in the queue,
   whatever crashes and restarts came in between. *)
RecordedAskIsQueued ==
  \A n \in Nodes : up[n] /\ Fresh(n) =>
    \A i \in DOMAIN chain[n] :
      LET id == chain[n][i].id IN
      /\ chain[n][i].kind = "ask" /\ id[1] = n
      /\ Said(chain[n], id).status = "pending"
      /\ <<n, id>> \notin past.removed
      => id \in QueuedIds(n)

(* What the queue answers is what the chain will say after a restart: a decided entry
   whose rows are all written is decided the same way on the chain of its node. *)
DecisionSurvives ==
  \A n \in Nodes : up[n] /\ Fresh(n) =>
    \A i \in DOMAIN queue[n] :
      LET r == queue[n][i] IN
      /\ r.status \in Verdicts /\ r.id[1] = n /\ ~InFlight(n, r.id)
      /\ r.id \notin past.early \cup past.refused \cup past.tool
      => Said(chain[n], r.id) = r

(* Nobody contradicts himself: two rows that name one decider of one request carry one
   verdict (the second is the answer coming back in a segment), unless the decision overtook
   its ask, a row was refused, or a process id came back. *)
NobodyContradictsHimself ==
  \A n \in Nodes : Fresh(Centre) /\ Fresh(StandIn) =>
    \A i, j \in DOMAIN chain[n] :
      /\ i < j /\ chain[n][i].kind \in Verdicts /\ chain[n][j].kind \in Verdicts
      /\ chain[n][i].id = chain[n][j].id /\ chain[n][i].by = chain[n][j].by
      => chain[n][i].kind = chain[n][j].kind \/ chain[n][i].id \in past.early \cup past.refused

(* The asker believes only what the decider decided. *)
AskerIsToldTheTruth ==
  \A i \in DOMAIN queue[StandIn] :
    LET r == queue[StandIn][i] IN
    r.status \in Verdicts => [node |-> r.by, id |-> r.id, verdict |-> r.status] \in told

(***************************************************************************)
(* Across restarts no recorded question is lost and no decision is         *)
(* forgotten, contradicted or told wrongly, and what is read back is what  *)
(* the chain says (request_sandbox, decide, derive_requests_from, restore).*)
(***************************************************************************)
RequestsInv ==
    /\ RecordedAskIsQueued /\ DecisionSurvives /\ NobodyContradictsHimself
    /\ AskerIsToldTheTruth /\ RecordsAreTheChain

(* As the doc of restore_pending_requests has it: no pending ask is lost by a restart. *)
AskSurvivesRestart ==
  [][\A n \in Nodes : up'[n] /\ ~up[n] => \A id \in past.tool : id[1] = n => id \in QueuedIds(n)']_vars
=============================================================================
