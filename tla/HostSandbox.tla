---------------------------- MODULE HostSandbox ----------------------------
(***************************************************************************)
(* The VM slot of a node's own instance, and everything that reaches for   *)
(* it: sandbox switches, agent runs and the VM tools they call, snapshot   *)
(* restores, saves and the status badge.  host-core/src/state.rs takes one *)
(* mutex per field and releases it between two steps, so every step below  *)
(* is what happens under one lock (or between two).                        *)
(*                                                                         *)
(* A thread is a caller inside one AppState operation; `pc` is where it    *)
(* stands, `loc` its local variables.                                      *)
(***************************************************************************)
EXTENDS Naturals, Sequences, FiniteSets, SequencesExt

CONSTANTS Threads,        \* concurrent callers of AppState
          Defs,           \* the sandbox definitions the registry resolves
          Default,        \* settings.default_sandbox, a member of Defs
          NoDef,          \* "no definition": None
          StartAttempts,  \* START_ATTEMPTS / RESUME_ATTEMPTS
          MaxVms,         \* bound on the QEMU processes a behaviour starts
          MaxOps,         \* bound on the switches, runs, restores and polls
          MaxAuditFailures \* bound on the refused run.start / run.end rows

ASSUME SandboxAssumption ==
    /\ Default \in Defs /\ NoDef \notin Defs
    /\ StartAttempts \in Nat \ {0}
    /\ MaxVms \in Nat /\ MaxOps \in Nat /\ MaxAuditFailures \in Nat

NoVm  == [id |-> 0, def |-> NoDef]
NoRun == 0

VARIABLES slot,       \* instance.vm_slot: the handle the node holds, or NoVm
          procs,      \* the QEMU processes that are alive
          nextVm,     \* the next process id
          started,    \* vm_started_at_ms is Some
          active,     \* active_sandbox
          current,    \* current_sandbox
          ownDef,     \* the definition the instance table has for the own instance
          switchSlot, \* switch_slot: the target of the switch in progress
          currentRun, \* current_run_id
          runsOpen,   \* runs whose run.start is in the chain and run.end is not
          rows,       \* the m.sandbox.switch rows of the chain
          snapshot,   \* the snapshot file: "absent", "partial" or "whole"
          failures,   \* audit rows refused so far
          ops,        \* operations called so far
          pc, loc     \* per thread

nodeVars == <<slot, procs, nextVm, started, active, current, ownDef>>
runVars  == <<currentRun, runsOpen, failures>>
vars     == <<nodeVars, switchSlot, runVars, rows, snapshot, ops, pc, loc>>

NoLoc == [name |-> NoDef, from |-> NoDef, attempt |-> 0, vm |-> NoVm,
          run |-> NoRun, before |-> FALSE, then |-> "idle",
          alone |-> FALSE, ok |-> FALSE, was |-> NoVm, call |-> 0]

Init ==
    /\ slot = NoVm /\ procs = {} /\ nextVm = 1 /\ started = FALSE
    /\ active = NoDef /\ current = NoDef /\ ownDef = NoDef
    /\ switchSlot = NoDef
    /\ currentRun = NoRun /\ runsOpen = {} /\ failures = 0
    /\ rows = <<>> /\ snapshot \in {"absent", "whole"}
    /\ ops = 0
    /\ pc = [t \in Threads |-> "idle"] /\ loc = [t \in Threads |-> NoLoc]

---------------------------------------------------------------------------
(* Threads.  A call counts as alone when no other thread was inside an     *)
(* operation between its first step and its last: an auxiliary fact the    *)
(* sequential contracts below are stated with.                             *)

Busy(t) == pc[t] # "idle"

Call(t, where, rec) ==
    /\ ~Busy(t) /\ ops < MaxOps
    /\ ops' = ops + 1
    /\ pc' = [pc EXCEPT ![t] = where]
    /\ loc' = [u \in Threads |->
                 IF u = t
                 THEN [rec EXCEPT !.alone = \A v \in Threads : ~Busy(v), !.was = slot]
                 ELSE [loc[u] EXCEPT !.alone = FALSE]]

Goto(t, where, rec) ==
    /\ pc' = [pc EXCEPT ![t] = where]
    /\ loc' = [loc EXCEPT ![t] = IF where = "idle" THEN NoLoc ELSE rec]
    /\ UNCHANGED ops

At(t, where) == pc[t] = where

Alive(vm) == vm.id \in procs

---------------------------------------------------------------------------
(* The slot.  Overwriting or emptying it drops the handle that was there,  *)
(* and Drop kills its child (sandbox/src/vm.rs).                           *)

\* Mutant: the handle that is overwritten leaves its child running.
PutKeepsChild(vm) == slot' = vm /\ procs' = procs

Put(vm) == /\ slot' = vm
           /\ procs' = procs \ {slot.id}

Spawned(def) == [id |-> nextVm, def |-> def]

(* vm_is_running, first half: the child is checked under the slot's lock.  *)
(* Nothing there, or a live VM: the answer is known.  A dead one: the lock *)
(* is released and the caller comes back to clean up.                      *)
Look(t, next, rec) ==
    IF slot = NoVm \/ Alive(slot)
    THEN Goto(t, next, [rec EXCEPT !.ok = Alive(slot)])
    ELSE Goto(t, "clean", [rec EXCEPT !.then = next, !.ok = FALSE])

(* vm_is_running, second half: the slot is emptied, whatever it holds now. *)
CleanUp(t) ==
    /\ At(t, "clean")
    /\ Put(NoVm)
    /\ started' = FALSE
    /\ Goto(t, loc[t].then, loc[t])
    /\ UNCHANGED <<nextVm, active, current, ownDef, switchSlot, runVars, rows, snapshot>>

(* vm_status: the badge's poll is vm_is_running and nothing else.          *)
VmStatus(t) ==
    /\ Call(t, "poll", NoLoc)
    /\ UNCHANGED <<nodeVars, switchSlot, runVars, rows, snapshot>>

PollLook(t) ==
    /\ At(t, "poll")
    /\ Look(t, "idle", NoLoc)
    /\ UNCHANGED <<nodeVars, switchSlot, runVars, rows, snapshot>>

(* The guest shuts down, QEMU crashes or is killed from outside.           *)
GuestDies ==
    /\ \E p \in procs : procs' = procs \ {p}
    /\ UNCHANGED <<slot, nextVm, started, active, current, ownDef, switchSlot,
                   runVars, rows, snapshot, ops, pc, loc>>

(* stop_current_vm, first half: the handle is taken out under the lock and *)
(* stopped (RiscVVirtualMachine::stop asks QEMU to quit, then kills it).   *)
StopTake(t, next) ==
    /\ Put(NoVm)
    /\ Goto(t, next, loc[t])
    /\ UNCHANGED <<nextVm, started, active, current, ownDef>>

\* Mutant: the provenance of the stopped VM stays.
StopClearKeepsActive(t, next) ==
    /\ started' = FALSE
    /\ Goto(t, next, loc[t])
    /\ UNCHANGED <<slot, procs, nextVm, active, current, ownDef>>

(* stop_current_vm, second half: no start time, no provenance.             *)
StopClear(t, next) ==
    /\ started' = FALSE /\ active' = NoDef
    /\ Goto(t, next, loc[t])
    /\ UNCHANGED <<slot, procs, nextVm, current, ownDef>>

(* One attempt to start a VM: it fails (RiscVVirtualMachine::new or start; *)
(* the handle is dropped and its child killed), or a QEMU process is up.   *)
StartFails(t, again, failed) ==
    /\ LET n == loc[t].attempt + 1 IN
       Goto(t, IF n < StartAttempts THEN again ELSE failed,
            [loc[t] EXCEPT !.attempt = n])
    /\ UNCHANGED nodeVars

StartSucceeds(t, def, next) ==
    /\ nextVm <= MaxVms
    /\ nextVm' = nextVm + 1
    /\ procs' = procs \cup {nextVm}
    /\ Goto(t, next, [loc[t] EXCEPT !.vm = Spawned(def)])
    /\ UNCHANGED <<slot, started, active, current, ownDef>>

---------------------------------------------------------------------------
(* switch_sandbox.                                                         *)

(* `from` is read before the slot is claimed; an unknown name is refused.  *)
SwitchCall(t, name) ==
    /\ Call(t, "sw_begin", [NoLoc EXCEPT !.name = name, !.from = current])
    /\ UNCHANGED <<nodeVars, switchSlot, runVars, rows, snapshot>>

(* begin_sandbox_switch: one switch at a time.                             *)
SwitchBegin(t) ==
    /\ At(t, "sw_begin")
    /\ IF switchSlot # NoDef
       THEN Goto(t, "idle", NoLoc) /\ UNCHANGED switchSlot
       ELSE Goto(t, "sw_check", loc[t]) /\ switchSlot' = loc[t].name
    /\ UNCHANGED <<nodeVars, runVars, rows, snapshot>>

\* Mutant: a refusal returns without giving the slot back.
SwitchCheckLeaks(t) ==
    /\ At(t, "sw_check")
    /\ \/ Goto(t, "idle", loc[t])
       \/ currentRun = NoRun /\ Goto(t, "sw_stop", loc[t])
    /\ UNCHANGED <<nodeVars, switchSlot, runVars, rows, snapshot>>

(* run_in_flight, then sandbox_check and the kernel: a refusal gives the   *)
(* slot back before anything was touched.                                  *)
SwitchCheck(t) ==
    /\ At(t, "sw_check")
    /\ \/ Goto(t, "sw_finish", loc[t])
       \/ currentRun = NoRun /\ Goto(t, "sw_stop", loc[t])
    /\ UNCHANGED <<nodeVars, switchSlot, runVars, rows, snapshot>>

SwitchStop(t) ==
    /\ \/ At(t, "sw_stop") /\ StopTake(t, "sw_clear")
       \/ At(t, "sw_clear") /\ StopClear(t, "sw_start")
    /\ UNCHANGED <<switchSlot, runVars, rows, snapshot>>

(* Three attempts; a lease that cannot be had ends the switch at once.     *)
SwitchStart(t) ==
    /\ At(t, "sw_start")
    /\ \/ StartSucceeds(t, loc[t].name, "sw_adopt")
       \/ StartFails(t, "sw_start", "sw_finish")
       \/ Goto(t, "sw_finish", loc[t]) /\ UNCHANGED nodeVars
    /\ UNCHANGED <<switchSlot, runVars, rows, snapshot>>

SwitchAdopt(t) ==
    /\ At(t, "sw_adopt")
    /\ Put(loc[t].vm)
    /\ Goto(t, "sw_record", [loc[t] EXCEPT !.ok = TRUE])
    /\ UNCHANGED <<nextVm, started, active, current, ownDef, switchSlot, runVars, rows, snapshot>>

\* Mutant: the instance table is not told what the instance runs now.
SwitchRecordForgetsTable(t) ==
    /\ At(t, "sw_record")
    /\ started' = TRUE
    /\ current' = loc[t].name /\ active' = loc[t].name
    /\ rows' = Append(rows, [name |-> loc[t].name, from |-> loc[t].from])
    /\ Goto(t, "sw_finish", loc[t])
    /\ UNCHANGED <<slot, procs, nextVm, ownDef, switchSlot, runVars, snapshot>>

(* What the node says about the VM it adopted, and the chain's row.        *)
SwitchRecord(t) ==
    /\ At(t, "sw_record")
    /\ started' = TRUE
    /\ current' = loc[t].name /\ ownDef' = loc[t].name /\ active' = loc[t].name
    /\ rows' = Append(rows, [name |-> loc[t].name, from |-> loc[t].from])
    /\ Goto(t, "sw_finish", loc[t])
    /\ UNCHANGED <<slot, procs, nextVm, switchSlot, runVars, snapshot>>

(* finish_sandbox_switch empties the slot without asking whose it is.      *)
SwitchFinish(t) ==
    /\ At(t, "sw_finish")
    /\ switchSlot' = NoDef
    /\ Goto(t, "idle", NoLoc)
    /\ UNCHANGED <<nodeVars, runVars, rows, snapshot>>

(* cancel_sandbox_switch gives the slot back; the switch itself goes on.   *)
CancelSwitch ==
    /\ switchSlot # NoDef
    /\ switchSlot' = NoDef
    /\ UNCHANGED <<nodeVars, runVars, rows, snapshot, ops, pc, loc>>

---------------------------------------------------------------------------
(* Run provenance.  A row the audit refuses leaves the rest undone.        *)

Refused == failures < MaxAuditFailures /\ failures' = failures + 1

(* begin_run: run.start, then current_run_id.  With a refused row the      *)
(* operation goes on without a run id.  Run ids are unique (new_run_id): a *)
(* run has the number of the call that made it.                            *)
BeginRun(t, next, rec) ==
    \/ /\ Goto(t, next, [rec EXCEPT !.run = rec.call])
       /\ currentRun' = rec.call
       /\ runsOpen' = runsOpen \cup {rec.call}
       /\ UNCHANGED failures
    \/ /\ Goto(t, next, rec)
       /\ Refused
       /\ UNCHANGED <<currentRun, runsOpen>>

\* Mutant: the run ends without clearing current_run_id.
FinishRunKeepsId(t) ==
    /\ Goto(t, "idle", NoLoc)
    /\ runsOpen' = runsOpen \ {loc[t].run}
    /\ UNCHANGED <<currentRun, failures>>

(* finish_run: run.end; a refused row returns before current_run_id is     *)
(* cleared, and it is only cleared by the run it names.                    *)
FinishRun(t) ==
    /\ Goto(t, "idle", NoLoc)
    /\ \/ loc[t].run = NoRun /\ UNCHANGED <<currentRun, runsOpen, failures>>
       \/ /\ loc[t].run # NoRun
          /\ runsOpen' = runsOpen \ {loc[t].run}
          /\ currentRun' = IF currentRun = loc[t].run THEN NoRun ELSE currentRun
          /\ UNCHANGED failures
       \/ loc[t].run # NoRun /\ Refused /\ UNCHANGED <<currentRun, runsOpen>>

---------------------------------------------------------------------------
(* run_agent_for, from the host's side of the slot.                        *)

\* Mutant: a task that names nothing gets the node's current sandbox, or none.
ResolveNoDefault(declared) == IF declared # NoDef THEN declared ELSE current

(* resolve_task_sandbox: the task's own, the node's current, the default.  *)
Resolve(declared) ==
    IF declared # NoDef THEN declared ELSE IF current # NoDef THEN current ELSE Default

RunCall(t, declared) ==
    /\ Call(t, IF declared = NoDef THEN "run_before" ELSE "run_look",
            [NoLoc EXCEPT !.name = Resolve(declared), !.call = ops + 1])
    /\ UNCHANGED <<nodeVars, switchSlot, runVars, rows, snapshot>>

(* check_task_sandbox: is a VM running, and is it the declared one's?      *)
RunCheck(t) ==
    /\ \/ At(t, "run_look") /\ Look(t, "run_check", loc[t])
       \/ /\ At(t, "run_check")
          /\ IF loc[t].ok /\ active # loc[t].name
             THEN Goto(t, "idle", NoLoc)
             ELSE Goto(t, "run_before", loc[t])
    /\ UNCHANGED <<nodeVars, switchSlot, runVars, rows, snapshot>>

(* vm_before, after the readiness gate and the probes (either may refuse). *)
RunBefore(t) ==
    /\ \/ At(t, "run_before") /\ Look(t, "run_begin", loc[t])
       \/ At(t, "run_before") /\ Goto(t, "idle", NoLoc)
    /\ UNCHANGED <<nodeVars, switchSlot, runVars, rows, snapshot>>

RunBegin(t) ==
    /\ At(t, "run_begin")
    /\ BeginRun(t, "run_loop", [loc[t] EXCEPT !.before = loc[t].ok])
    /\ UNCHANGED <<nodeVars, switchSlot, rows, snapshot>>

(* tool_start_vm and tool_stop_vm hold the slot's lock for the whole call. *)
ToolStartVm(t) ==
    /\ At(t, "run_loop") /\ slot = NoVm /\ nextVm <= MaxVms
    /\ slot' = Spawned(loc[t].name)
    /\ procs' = procs \cup {nextVm} /\ nextVm' = nextVm + 1
    /\ UNCHANGED <<started, active, current, ownDef, switchSlot, runVars, rows,
                   snapshot, ops, pc, loc>>

ToolStopVm(t) ==
    /\ At(t, "run_loop") /\ slot # NoVm
    /\ Put(NoVm)
    /\ UNCHANGED <<nextVm, started, active, current, ownDef, switchSlot, runVars,
                   rows, snapshot, ops, pc, loc>>

(* The loop is over: the badge and the provenance follow the slot.         *)
RunAfter(t) ==
    /\ At(t, "run_loop")
    /\ Look(t, "run_mark", loc[t])
    /\ UNCHANGED <<nodeVars, switchSlot, runVars, rows, snapshot>>

RunMark(t) ==
    /\ At(t, "run_mark")
    /\ started' = loc[t].ok
    /\ active' = IF loc[t].ok /\ ~loc[t].before THEN loc[t].name ELSE active
    /\ Goto(t, "run_finish", loc[t])
    /\ UNCHANGED <<slot, procs, nextVm, current, ownDef, switchSlot, runVars, rows, snapshot>>

RunFinish(t) ==
    /\ At(t, "run_finish")
    /\ FinishRun(t)
    /\ UNCHANGED <<nodeVars, switchSlot, rows, snapshot>>

---------------------------------------------------------------------------
(* Snapshots.                                                              *)

(* save_snapshot_real, under the slot's lock: an existing file is refused; *)
(* a migration that fails may already have written part of the stream.     *)
SaveSnapshot ==
    /\ slot # NoVm /\ snapshot = "absent"
    /\ \/ Alive(slot) /\ snapshot' = "whole"
       \/ snapshot' = "partial"
    /\ UNCHANGED <<nodeVars, switchSlot, runVars, rows, ops, pc, loc>>

DeleteSnapshot ==
    /\ snapshot # "absent"
    /\ snapshot' = "absent"
    /\ UNCHANGED <<nodeVars, switchSlot, runVars, rows, ops, pc, loc>>

(* resume_from_snapshot_real: a restore is a run of its own.               *)
RestoreCall(t) ==
    /\ snapshot # "absent"
    /\ Call(t, "rs_begin", [NoLoc EXCEPT !.call = ops + 1])
    /\ UNCHANGED <<nodeVars, switchSlot, runVars, rows, snapshot>>

RestoreBegin(t) ==
    /\ At(t, "rs_begin")
    /\ BeginRun(t, "rs_lease", loc[t])
    /\ UNCHANGED <<nodeVars, switchSlot, rows, snapshot>>

\* Mutant: the VM is stopped before the leases and the kernel are known.
RestoreStopFirst(t) ==
    /\ \/ At(t, "rs_lease") /\ StopTake(t, "rs_clear")
       \/ At(t, "rs_clear") /\ Goto(t, "rs_finish", loc[t]) /\ UNCHANGED nodeVars
       \/ At(t, "rs_clear") /\ StopClear(t, "rs_start")
    /\ UNCHANGED <<switchSlot, runVars, rows, snapshot>>

(* The leases and the kernel come first; only then is the VM stopped.      *)
RestoreStop(t) ==
    /\ \/ At(t, "rs_lease") /\ Goto(t, "rs_finish", loc[t]) /\ UNCHANGED nodeVars
       \/ At(t, "rs_lease") /\ StopTake(t, "rs_clear")
       \/ At(t, "rs_clear") /\ StopClear(t, "rs_start")
    /\ UNCHANGED <<switchSlot, runVars, rows, snapshot>>

(* RiscVVirtualMachine::resume_from_snapshot_real: no definition started   *)
(* the VM it answers, and only a whole stream brings one up.               *)
RestoreStart(t) ==
    /\ At(t, "rs_start")
    /\ \/ snapshot = "whole" /\ StartSucceeds(t, NoDef, "rs_adopt")
       \/ StartFails(t, "rs_start", "rs_finish")
    /\ UNCHANGED <<switchSlot, runVars, rows, snapshot>>

RestoreAdopt(t) ==
    /\ \/ /\ At(t, "rs_adopt")
          /\ Put(loc[t].vm)
          /\ Goto(t, "rs_record", [loc[t] EXCEPT !.ok = TRUE])
          /\ UNCHANGED <<nextVm, started, active, current, ownDef>>
       \/ /\ At(t, "rs_record")
          /\ started' = TRUE /\ active' = current
          /\ Goto(t, "rs_finish", loc[t])
          /\ UNCHANGED <<slot, procs, nextVm, current, ownDef>>
    /\ UNCHANGED <<switchSlot, runVars, rows, snapshot>>

RestoreFinish(t) ==
    /\ At(t, "rs_finish")
    /\ FinishRun(t)
    /\ UNCHANGED <<nodeVars, switchSlot, rows, snapshot>>

---------------------------------------------------------------------------
Step(t) ==
    \/ CleanUp(t) \/ PollLook(t)
    \/ SwitchBegin(t) \/ SwitchCheck(t) \/ SwitchStop(t) \/ SwitchStart(t)
    \/ SwitchAdopt(t) \/ SwitchRecord(t) \/ SwitchFinish(t)
    \/ RunCheck(t) \/ RunBefore(t) \/ RunBegin(t) \/ RunAfter(t) \/ RunMark(t) \/ RunFinish(t)
    \/ RestoreBegin(t) \/ RestoreStop(t) \/ RestoreStart(t) \/ RestoreAdopt(t) \/ RestoreFinish(t)

Next ==
    \/ \E t \in Threads :
         \/ Step(t)
         \/ VmStatus(t) \/ RestoreCall(t)
         \/ \E n \in Defs : SwitchCall(t, n) \/ RunCall(t, n)
         \/ RunCall(t, NoDef)
         \/ ToolStartVm(t) \/ ToolStopVm(t)
    \/ CancelSwitch \/ GuestDies \/ SaveSnapshot \/ DeleteSnapshot

(* Each caller is an OS thread that keeps running: every timeout below it  *)
(* (connect, quit, migrate) is bounded, and an agent run has an iteration  *)
(* cap.                                                                    *)
Spec == Init /\ [][Next]_vars /\ \A t \in Threads : WF_vars(Step(t))

---------------------------------------------------------------------------
TypeOK ==
    /\ slot.id \in 0..MaxVms /\ slot.def \in Defs \cup {NoDef}
    /\ procs \subseteq 1..MaxVms /\ nextVm \in 1..(MaxVms + 1)
    /\ started \in BOOLEAN
    /\ {active, current, ownDef, switchSlot} \subseteq Defs \cup {NoDef}
    /\ {currentRun} \cup runsOpen \subseteq 0..MaxOps
    /\ rows \in Seq([name : Defs, from : Defs \cup {NoDef}])
    /\ snapshot \in {"absent", "partial", "whole"}
    /\ \A t \in Threads : /\ At(t, "idle") => loc[t] = NoLoc
                          /\ At(t, "run_loop") => loc[t].name \in Defs

(* No QEMU process is ever lost: each one alive is the one in the slot, or *)
(* one a thread has started and is about to put there, whatever switches,  *)
(* restores, tools and clean-ups raced (the handle that is overwritten is  *)
(* dropped, and Drop kills its child).                                     *)
NoLostProcess ==
    procs \subseteq {slot.id} \cup {loc[t].vm.id : t \in Threads}

(* current_run_id never names a run that is over, unless the audit refused *)
(* its run.end: finish_run clears it on every path.                        *)
RunIdIsLive ==
    currentRun # NoRun =>
        \/ \E t \in Threads : loc[t].run = currentRun
        \/ failures > 0 /\ currentRun \in runsOpen

(* What the node says it runs is what the chain's last switch row says,    *)
(* and the instance table agrees.                                          *)
CurrentIsLastRow ==
    /\ ownDef = current
    /\ current = IF rows = <<>> THEN NoDef ELSE Last(rows).name

(***************************************************************************)
(* Whatever callers meet at the slot, no QEMU process is forgotten, the    *)
(* current run is one that runs, and the current sandbox is the one the    *)
(* chain names last (switch_sandbox, begin_run, tool_start_vm,             *)
(* vm_is_running).                                                         *)
(***************************************************************************)
SlotInv == TypeOK /\ NoLostProcess /\ RunIdIsLive /\ CurrentIsLastRow

(* A switch nothing else ran beside is all or nothing: when it gives the   *)
(* slot back, either its own VM was adopted and every name says so, or     *)
(* nothing was touched, or the node is stopped and says nothing runs.      *)
AloneSwitchIsWhole ==
    \A t \in Threads : (At(t, "sw_finish") /\ loc[t].alone) =>
        \/ loc[t].ok /\ slot = loc[t].vm /\ {active, current} = {loc[t].name} /\ started
        \/ ~loc[t].ok /\ slot = NoVm /\ active = NoDef /\ ~started
        \/ ~loc[t].ok /\ slot = loc[t].was

(* A restore nothing else ran beside leaves the restored VM, or none: it   *)
(* never leaves a name behind for a VM that is gone.                       *)
AloneRestoreIsWhole ==
    \A t \in Threads : (At(t, "rs_finish") /\ loc[t].alone) =>
        \/ loc[t].ok /\ slot = loc[t].vm /\ active = current /\ started
        \/ ~loc[t].ok /\ slot = NoVm /\ active = NoDef /\ ~started
        \/ ~loc[t].ok /\ slot = loc[t].was

(***************************************************************************)
(* A switch or a restore that nothing else ran beside is done or undone    *)
(* (switch_sandbox, restore_snapshot).                                     *)
(***************************************************************************)
AloneIsWhole == AloneSwitchIsWhole /\ AloneRestoreIsWhole

(* The switch slot always comes back: no refusal, failed start or missing  *)
(* port leaves a switch "in progress" for ever.                            *)
SwitchSlotReturns == (switchSlot # NoDef) ~> (switchSlot = NoDef)

(* active_sandbox is "the definition the running VM came from, if a        *)
(* definition started it" whenever no operation is under way.              *)
ActiveIsOrigin ==
    (\A t \in Threads : ~Busy(t)) =>
        (Alive(slot) /\ slot.def # NoDef /\ active # NoDef => active = slot.def)
=============================================================================
