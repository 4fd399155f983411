------------------------------ MODULE AgentLoop ------------------------------
(***************************************************************************)
(* The agent loop (agent.rs) with its tools (tools.rs), the workspace      *)
(* policy (policy.rs) and the audit rows it leaves (audit_hook.rs).  A     *)
(* turn is a request to the model, the tool calls of its answer, and again *)
(* until the model answers without a call or the cap is reached.  The VM   *)
(* slot belongs to the host: it is locked for one call at a time, so the   *)
(* host may act on it between two calls of one answer.                     *)
(***************************************************************************)
EXTENDS ContextWindow, FiniteSets

CONSTANTS Caps,          \* values of max_iterations
          Kinds,         \* the calls a model makes (see Tool)
          MaxCalls,      \* calls of one answer
          MaxTurns,      \* bound on the turns of a behaviour
          ReadWait,      \* SERIAL_READ_WAIT, in polls
          SettleQuiet    \* SERIAL_SETTLE_QUIET, in polls

(* A trimmed conversation, with its two system messages, is within the limit *)
(* ("CONTEXT_KEEP + 2", agent.rs): 30 of 40.                                 *)
LoopAssumption ==
    /\ Caps \subseteq Nat /\ MaxCalls \in Nat
    /\ ContextMax \in Nat /\ ContextKeep \in Nat \ {0} /\ ContextKeep + 2 <= ContextMax

VARIABLES msgs,     \* the conversation
          pc,       \* where the turn is
          iter,     \* iterations of this turn
          cap,      \* config.max_iterations
          calls,    \* the calls of the answer not executed yet
          rows,     \* audit rows of this turn, by action
          vm,       \* the shared slot: "none", "up", or "dead" (a handle whose QEMU died)
          files,    \* sources and ELFs the tools left in the workspace
          guest,    \* bytes on the serial console
          read,     \* a read_serial in progress
          turns

vars == <<msgs, pc, iter, cap, calls, rows, vm, files, guest, read, turns>>

Actions == {"llm.request", "stream.start", "stream.end", "llm.response",
            "tool.call", "tool.result", "policy.deny", "file.write"}

User   == [role |-> "user", n |-> 0]
Assistant(k) == [role |-> "assistant", n |-> k]   \* with k tool calls
ToolMsg(k)   == [role |-> "tool", n |-> k]        \* the result of its k-th call

NoRead == [waited |-> 0, seen |-> 0, quiet |-> 0, answer |-> "none"]
NoRows == [a \in Actions |-> 0]
Add(as) == [a \in Actions |-> rows[a] + (IF a \in as THEN 1 ELSE 0)]

(* AgentLoop::build: the conversation is the system prompt.  The slot may  *)
(* hold a VM an earlier run left.                                          *)
Init ==
    /\ msgs = <<System>> /\ pc = "idle" /\ iter = 0 /\ cap \in Caps
    /\ calls = <<>> /\ rows = NoRows /\ vm \in {"none", "up"} /\ files = {}
    /\ guest = 0 /\ read = NoRead /\ turns = 0

---------------------------------------------------------------------------
(* The turn.                                                               *)

(* run(), the readiness gate: an unusable configuration ends the turn      *)
(* before a row or a message is written.                                   *)
RunRefused ==
    /\ pc = "idle" /\ turns < MaxTurns
    /\ turns' = turns + 1 /\ iter' = 0 /\ rows' = NoRows
    /\ UNCHANGED <<msgs, pc, cap, calls, vm, files, guest, read>>

(* run(): the user's message joins the conversation.                       *)
RunBegins ==
    /\ pc = "idle" /\ turns < MaxTurns
    /\ turns' = turns + 1 /\ iter' = 0
    /\ rows' = NoRows
    /\ msgs' = Append(msgs, User)
    /\ pc' = "request"
    /\ UNCHANGED <<cap, calls, vm, files, guest, read>>

\* mutant: the context is never trimmed
RequestUntrimmed ==
    /\ pc = "request"
    /\ iter' = iter + 1
    /\ rows' = Add({"llm.request", "stream.start"})
    /\ pc' = "stream"
    /\ UNCHANGED <<msgs, cap, calls, vm, files, guest, read, turns>>

(* The request is built from the trimmed conversation and recorded; the    *)
(* stream opens.                                                           *)
Request ==
    /\ pc = "request"
    /\ msgs' = TrimContext(msgs)
    /\ iter' = iter + 1
    /\ rows' = Add({"llm.request", "stream.start"})
    /\ pc' = "stream"
    /\ UNCHANGED <<cap, calls, vm, files, guest, read, turns>>

(* chat_stream fails, at any point of the stream: the turn is over.        *)
StreamFails ==
    /\ pc = "stream" /\ pc' = "idle"
    /\ UNCHANGED <<msgs, iter, cap, calls, rows, vm, files, guest, read, turns>>

(* An answer without a choice.                                             *)
NoChoices ==
    /\ pc = "stream" /\ pc' = "idle"
    /\ rows' = Add({"stream.end", "llm.response"})
    /\ UNCHANGED <<msgs, iter, cap, calls, vm, files, guest, read, turns>>

(* An answer: the assistant's message is pushed; without calls it is the   *)
(* final one.                                                              *)
Answer(cs) ==
    /\ pc = "stream"
    /\ rows' = Add({"stream.end", "llm.response"})
    /\ msgs' = Append(msgs, Assistant(Len(cs)))
    /\ calls' = cs
    /\ pc' = IF cs = <<>> THEN "idle" ELSE "tools"
    /\ UNCHANGED <<iter, cap, vm, files, guest, read, turns>>

(* The k-th result of the answer joins the conversation, an error as much  *)
(* as a success.                                                           *)
Asked == CHOOSE i \in 1 .. Len(msgs) :
            /\ msgs[i].role = "assistant"
            /\ \A j \in (i + 1) .. Len(msgs) : msgs[j].role = "tool"
PushResult ==
    /\ msgs' = Append(msgs, ToolMsg(msgs[Asked].n - Len(calls) + 1))
    /\ calls' = Tail(calls)
    /\ pc' = "tools"

\* mutant: the cap is compared after one more round
LimitLate ==
    /\ pc = "tools" /\ calls = <<>>
    /\ pc' = IF iter > cap THEN "idle" ELSE "request"
    /\ UNCHANGED <<msgs, iter, cap, calls, rows, vm, files, guest, read, turns>>

(* After the calls of an answer: the cap ends the turn, or the model is    *)
(* asked again.                                                            *)
Limit ==
    /\ pc = "tools" /\ calls = <<>>
    /\ pc' = IF iter >= cap THEN "idle" ELSE "request"
    /\ UNCHANGED <<msgs, iter, cap, calls, rows, vm, files, guest, read, turns>>

---------------------------------------------------------------------------
(* The tools.  execute_tool records the call, runs it, records the result. *)

Calling(k) == pc = "tools" /\ calls # <<>> /\ Head(calls) = k
Bracket    == {"tool.call", "tool.result"}

\* mutant: an argument error leaves the loop without a result message
BadArgumentsDropped ==
    /\ Calling("bad_json")
    /\ calls' = Tail(calls)
    /\ UNCHANGED <<msgs, pc, rows, iter, cap, vm, files, guest, read, turns>>

(* Arguments that are not JSON are refused before the call is recorded.    *)
BadArguments ==
    /\ Calling("bad_json")
    /\ PushResult
    /\ UNCHANGED <<rows, iter, cap, vm, files, guest, read, turns>>

(* A refusal that changes nothing: an unknown tool, a missing argument, no *)
(* request surface.  A path the policy denies leaves one more row.         *)
Refused(k) ==
    /\ Calling(k)
    /\ \E denied \in BOOLEAN : rows' = Add(Bracket \cup (IF denied THEN {"policy.deny"} ELSE {}))
    /\ PushResult
    /\ UNCHANGED <<iter, cap, vm, files, guest, read, turns>>

(* tool_write_source: a path check_write accepts is written and recorded;  *)
(* a write the file system refuses leaves nothing but the error.           *)
WriteSource ==
    /\ Calling("write")
    /\ \/ files' = files \cup {"source"} /\ rows' = Add(Bracket \cup {"file.write"})
       \/ files' = files /\ rows' = Add(Bracket)
    /\ PushResult
    /\ UNCHANGED <<iter, cap, vm, guest, read, turns>>

(* tool_compile: paths checked and the suffix; the compiler is missing or  *)
(* fails, or leaves an ELF.                                                *)
Compile ==
    /\ Calling("compile")
    /\ files' \in {files} \cup (IF "source" \in files THEN {files \cup {"elf"}} ELSE {})
    /\ rows' = Add(Bracket)
    /\ PushResult
    /\ UNCHANGED <<iter, cap, vm, guest, read, turns>>

(* tool_start_vm: an occupied slot is refused, live or dead; otherwise the *)
(* VM comes up, or its attempts run out.                                   *)
StartVm ==
    /\ Calling("start")
    /\ \/ vm # "none" /\ vm' = vm /\ guest' = guest
       \/ vm = "none" /\ "elf" \in files /\ vm' = "up" /\ guest' = 0
       \/ vm = "none" /\ vm' = vm /\ guest' = guest
    /\ rows' = Add(Bracket)
    /\ PushResult
    /\ UNCHANGED <<iter, cap, files, read, turns>>

(* tool_stop_vm: a stop that fails leaves the handle in the slot.          *)
StopVm ==
    /\ Calling("stop")
    /\ vm' \in (IF vm = "none" THEN {"none"} ELSE {"none", vm})
    /\ guest' = IF vm' = "none" THEN 0 ELSE guest
    /\ rows' = Add(Bracket)
    /\ PushResult
    /\ UNCHANGED <<iter, cap, files, read, turns>>

(* tool_list_workspace, tool_sandbox_status, tool_request_sandbox: they    *)
(* change nothing of the loop.                                             *)
Inspect(k) ==
    /\ Calling(k)
    /\ rows' = Add(Bracket)
    /\ PushResult
    /\ UNCHANGED <<iter, cap, vm, files, guest, read, turns>>

(* read_serial with no VM is an error; with one, the wait begins.  The     *)
(* slot stays locked until it returns.                                     *)
ReadBegins ==
    /\ Calling("read")
    /\ rows' = Add({"tool.call"})
    /\ IF vm = "none" THEN read' = [NoRead EXCEPT !.answer = "error"] ELSE read' = NoRead
    /\ pc' = "reading"
    /\ UNCHANGED <<msgs, iter, cap, calls, vm, files, guest, turns>>

\* mutant: a console that never goes quiet is reported as silent
PollGivesUpEmpty ==
    /\ pc = "reading" /\ read.answer = "none"
    /\ LET grew  == guest > read.seen
           quiet == IF grew THEN 0 ELSE read.quiet + 1
       IN read' = [read EXCEPT !.seen = guest, !.quiet = quiet, !.waited = @ + 1,
                               !.answer = IF guest > 0 /\ quiet >= SettleQuiet THEN "output"
                                          ELSE IF read.waited + 1 >= ReadWait THEN "silent"
                                          ELSE "none"]
    /\ UNCHANGED <<msgs, pc, iter, cap, calls, rows, vm, files, guest, turns>>

\* mutant: only a quiet console ends the wait
PollWaitsForQuiet ==
    /\ pc = "reading" /\ read.answer = "none"
    /\ LET grew  == guest > read.seen
           quiet == IF grew THEN 0 ELSE read.quiet + 1
       IN read' = [read EXCEPT !.seen = guest, !.quiet = IF quiet > SettleQuiet THEN @ ELSE quiet,
                               !.answer = IF guest > 0 /\ quiet >= SettleQuiet THEN "output"
                                          ELSE "none"]
    /\ UNCHANGED <<msgs, pc, iter, cap, calls, rows, vm, files, guest, turns>>

(* One poll: a console that has grown restarts the quiet period; one that  *)
(* has settled is returned; at the deadline, whatever there is.            *)
Poll ==
    /\ pc = "reading" /\ read.answer = "none"
    /\ LET grew  == guest > read.seen
           quiet == IF grew THEN 0 ELSE read.quiet + 1
       IN read' = [read EXCEPT !.seen = guest, !.quiet = quiet, !.waited = @ + 1,
                               !.answer = IF guest > 0 /\ quiet >= SettleQuiet THEN "output"
                                          ELSE IF read.waited + 1 >= ReadWait
                                          THEN IF guest > 0 THEN "output" ELSE "silent"
                                          ELSE "none"]
    /\ UNCHANGED <<msgs, pc, iter, cap, calls, rows, vm, files, guest, turns>>

\* mutant: the result of a read is not recorded
ReadEndsUnrecorded ==
    /\ pc = "reading" /\ read.answer # "none"
    /\ PushResult
    /\ UNCHANGED <<rows, iter, cap, vm, files, guest, read, turns>>

(* The read returns; its result is recorded and pushed.                    *)
ReadEnds ==
    /\ pc = "reading" /\ read.answer # "none"
    /\ rows' = Add({"tool.result"})
    /\ PushResult
    /\ UNCHANGED <<iter, cap, vm, files, guest, read, turns>>

---------------------------------------------------------------------------
(* What happens around the loop.                                           *)

(* The guest prints, also while it is being read.                          *)
GuestPrints ==
    /\ vm = "up" /\ guest <= ReadWait
    /\ guest' = guest + 1
    /\ UNCHANGED <<msgs, pc, iter, cap, calls, rows, vm, files, read, turns>>

(* QEMU dies; its handle stays in the slot.                                *)
VmDies ==
    /\ vm = "up" /\ vm' = "dead"
    /\ UNCHANGED <<msgs, pc, iter, cap, calls, rows, files, guest, read, turns>>

(* The host stops the VM between two calls: a call holds the slot's lock.  *)
HostStops ==
    /\ vm # "none" /\ pc # "reading"
    /\ vm' = "none" /\ guest' = 0
    /\ UNCHANGED <<msgs, pc, iter, cap, calls, rows, files, read, turns>>

AnswersOf(n) == UNION {[1 .. k -> Kinds] : k \in 0 .. n}

Tool == \/ BadArguments \/ WriteSource \/ Compile \/ StartVm \/ StopVm
        \/ \E k \in {"list", "ask"} : Inspect(k)
        \/ \E k \in {"write", "compile", "start", "ask", "unknown"} : Refused(k)
        \/ ReadBegins \/ Poll \/ ReadEnds

Loop == \/ RunBegins \/ Request \/ Limit \/ Tool
        \/ StreamFails \/ NoChoices \/ \E cs \in AnswersOf(MaxCalls) : Answer(cs)

Next == Loop \/ RunRefused \/ GuestPrints \/ VmDies \/ HostStops

Turn == Request \/ Limit \/ Tool \/ StreamFails \/ NoChoices
        \/ \E cs \in AnswersOf(MaxCalls) : Answer(cs)

Spec == Init /\ [][Next]_vars /\ WF_vars(Turn)

---------------------------------------------------------------------------
(* Properties.                                                             *)

(* Every call the conversation shows is answered by the time the model is  *)
(* asked again: an assistant's message with n calls is followed by its n   *)
(* results, in order, whatever became of each call.                        *)
CallsAreAnswered ==
    pc \in {"request", "stream", "idle"} =>
      \A i \in 1 .. Len(msgs) : msgs[i].role = "assistant" =>
        \A k \in 1 .. msgs[i].n : i + k <= Len(msgs) /\ msgs[i + k] = ToolMsg(k)

(* A result without its call is possible only where the trimming cut: right*)
(* after the notice, never further down.                                   *)
OrphansFollowTheNotice ==
    \A i \in 1 .. Len(msgs) : msgs[i].role = "tool" =>
      LET b == CHOOSE j \in 1 .. i : msgs[j].role # "tool" /\ \A h \in (j + 1) .. i : msgs[h].role = "tool"
      IN \/ msgs[b].role = "assistant" /\ msgs[i].n = i - b
         \/ msgs[b] = Notice /\ b <= 2

(* What the model is sent: within the limit, the constitution first, and   *)
(* the newest message last.                                                *)
RequestIsBounded ==
    pc = "stream" =>
      /\ Len(msgs) <= ContextMax
      /\ msgs[1] = System
      /\ msgs[Len(msgs)].role \in {"user", "tool"}

(* The cap holds: a turn never asks the model more often than allowed, and *)
(* once even when the cap is zero.                                         *)
CapHolds == iter <= (IF cap = 0 THEN 1 ELSE cap)

(* The audit rows tell the turn: one request per iteration, one answer per *)
(* request that was answered, a result for every recorded call, and a row  *)
(* for every file the model wrote.                                         *)
RowsTellTheTurn ==
    /\ rows["llm.request"] = rows["stream.start"] /\ rows["llm.response"] = rows["stream.end"]
    /\ rows["llm.request"] - rows["llm.response"] \in 0 .. 1
    /\ pc \in {"idle", "request", "stream"} => rows["tool.call"] = rows["tool.result"]

(* read_serial says "no output" only of a console that has shown nothing   *)
(* up to its deadline, however busy it is.                                 *)
SilentMeansSilent == read.answer = "silent" => read.seen = 0

(***************************************************************************)
(* Whatever a model answers, every call gets its result, requests and      *)
(* iterations stay within their limits, the chain tells the turn, and an   *)
(* empty read means a silent guest (Agent::run, trim_context,              *)
(* execute_tool, tool_read_serial).                                        *)
(***************************************************************************)
LoopInv ==
    /\ CallsAreAnswered /\ OrphansFollowTheNotice /\ RequestIsBounded /\ CapHolds
    /\ RowsTellTheTurn /\ SilentMeansSilent

(* A turn ends: every request is answered or fails, every call returns     *)
(* (read_serial has a deadline), and the iterations are capped.            *)
TurnEnds == (pc = "request") ~> (pc = "idle")
=============================================================================
