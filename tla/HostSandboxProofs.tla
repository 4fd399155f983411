------------------------- MODULE HostSandboxProofs -------------------------
(* Proofs about HostSandbox, for any set of callers, any definitions, any   *)
(* number of processes, operations, start attempts and refused rows; and    *)
(* after it about Compiler, for an instance with constants and variables of *)
(* its own.                                                                 *)
EXTENDS HostSandbox, TLAPS

Def == Defs \cup {NoDef}

Vm == [id : 0 .. MaxVms, def : Def]

LocFields == {"name", "from", "attempt", "vm", "run", "before", "then", "alone", "ok", "was", "call"}

SwitchLocs == {"sw_begin", "sw_check", "sw_stop", "sw_clear", "sw_start", "sw_adopt",
               "sw_record", "sw_finish"}

RunLocs == {"run_look", "run_check", "run_before", "run_begin", "run_loop", "run_mark", "run_finish"}

Thens == {"idle", "run_check", "run_begin", "run_mark"}

LocTyped(l) == /\ DOMAIN l = LocFields
               /\ l.name \in Def /\ l.from \in Def
               /\ l.vm \in Vm /\ l.vm.id < nextVm
               /\ l.run \in 0 .. MaxOps /\ l.call \in 0 .. ops
               /\ l.then \in Thens /\ l.ok \in BOOLEAN /\ l.alone \in BOOLEAN

(* The node's own fields. *)
NodeTyped == /\ slot \in Vm /\ slot.id < nextVm
             /\ procs \subseteq 1 .. nextVm - 1 /\ nextVm \in 1 .. MaxVms + 1
             /\ started \in BOOLEAN
             /\ active \in Def /\ current \in Def /\ ownDef \in Def /\ switchSlot \in Def
             /\ ops \in 0 .. MaxOps
             /\ currentRun \in 0 .. MaxOps /\ runsOpen \subseteq 0 .. MaxOps /\ failures \in Nat
             /\ rows \in Seq([name : Defs, from : Def])
             /\ snapshot \in {"absent", "partial", "whole"}

ThreadTyped(t) == /\ LocTyped(loc[t])
                  /\ pc[t] = "idle" => loc[t] = NoLoc
                  /\ pc[t] \in SwitchLocs \cup RunLocs => loc[t].name \in Defs
                  /\ pc[t] = "clean" /\ loc[t].then \in RunLocs => loc[t].name \in Defs

ThreadsTyped == /\ DOMAIN pc = Threads /\ DOMAIN loc = Threads
                /\ \A t \in Threads : ThreadTyped(t)

Types == NodeTyped /\ ThreadsTyped

Adopting == {"sw_adopt", "rs_adopt"}

(* A handle that is not on its way to the slot any more is the slot's, or dead. *)
Adopted == \A t \in Threads :
    pc[t] \notin Adopting /\ loc[t].vm.id \in procs => loc[t].vm.id = slot.id

SlotPart == NoLostProcess /\ Adopted

(* Where a call may have a run open; nobody else closes it, and no two      *)
(* calls have the same one.                                                 *)
WithRun == {"run_loop", "run_mark", "run_finish", "rs_lease", "rs_clear", "rs_start", "rs_adopt",
            "rs_record", "rs_finish"}

RunOwned == \A t \in Threads : loc[t].run # NoRun =>
    /\ pc[t] \in WithRun \/ (pc[t] = "clean" /\ loc[t].then = "run_mark")
    /\ loc[t].run = loc[t].call /\ loc[t].run \in runsOpen

CallsDiffer == \A t, u \in Threads : t # u /\ loc[t].call # 0 => loc[t].call # loc[u].call

RunPart == RunOwned /\ CallsDiffer /\ RunIdIsLive

(* A call that is alone still is, and what it then knows at each step. *)
Alone == \A t, u \in Threads : loc[t].alone /\ u # t => pc[u] = "idle"

Untouched(t) == ~loc[t].ok /\ slot = loc[t].was
Stopped(t) == ~loc[t].ok /\ slot = NoVm /\ active = NoDef /\ ~started

AloneKnows(t) ==
    /\ pc[t] \in {"sw_begin", "sw_check", "sw_stop", "rs_begin", "rs_lease"} => Untouched(t)
    /\ pc[t] \in {"sw_clear", "rs_clear"} => ~loc[t].ok /\ slot = NoVm
    /\ pc[t] \in {"sw_start", "sw_adopt", "rs_start", "rs_adopt"} => Stopped(t)
    /\ pc[t] \in {"sw_record", "rs_record"} => loc[t].ok /\ slot = loc[t].vm
    /\ pc[t] = "sw_finish" =>
         \/ loc[t].ok /\ slot = loc[t].vm /\ active = loc[t].name /\ current = loc[t].name /\ started
         \/ Stopped(t) \/ Untouched(t)
    /\ pc[t] = "rs_finish" =>
         \/ loc[t].ok /\ slot = loc[t].vm /\ active = current /\ started
         \/ Stopped(t) \/ Untouched(t)

AlonePart == Alone /\ \A t \in Threads : loc[t].alone => AloneKnows(t)

(* The inductive invariant. *)
IInv == Types /\ SlotPart /\ RunPart /\ AlonePart /\ CurrentIsLastRow

-----------------------------------------------------------------------------
(* What a step of a thread does to the threads. *)
Others(t) == /\ DOMAIN pc' = Threads /\ DOMAIN loc' = Threads
             /\ \A u \in Threads \ {t} : pc'[u] = pc[u] /\ loc'[u] = loc[u]

(* The thread goes on with a handle and a run; what its call is about stays. *)
Moves(t, where, vm, run) ==
    /\ Others(t) /\ ops' = ops
    /\ pc'[t] = where /\ DOMAIN loc'[t] = LocFields
    /\ loc'[t].name = loc[t].name /\ loc'[t].from = loc[t].from
    /\ loc'[t].vm = vm /\ loc'[t].run = run
    /\ loc'[t].call = loc[t].call /\ loc'[t].was = loc[t].was
    /\ loc'[t].alone = loc[t].alone
    /\ loc'[t].ok \in BOOLEAN

(* The call returns. *)
Rests(t) == /\ Others(t) /\ ops' = ops
            /\ pc'[t] = "idle" /\ loc'[t] = NoLoc

LEMMA GotoStays ==
    ASSUME ThreadsTyped, NEW t \in Threads, NEW where, where # "idle", Goto(t, where, loc[t])
    PROVE  /\ Moves(t, where, loc[t].vm, loc[t].run)
           /\ loc'[t].ok = loc[t].ok /\ loc'[t].then = loc[t].then
<1>1. pc' = [pc EXCEPT ![t] = where] /\ loc' = [loc EXCEPT ![t] = loc[t]] /\ ops' = ops
  BY DEF Goto
<1> QED
  BY <1>1 DEF ThreadsTyped, ThreadTyped, LocTyped, Moves, Others

LEMMA GotoRests ==
    ASSUME ThreadsTyped, NEW t \in Threads, NEW rec, Goto(t, "idle", rec)
    PROVE  Rests(t)
BY DEF Goto, ThreadsTyped, Rests, Others

LEMMA GotoWithOk ==
    ASSUME ThreadsTyped, NEW t \in Threads, NEW where, where # "idle", NEW b \in BOOLEAN,
           Goto(t, where, [loc[t] EXCEPT !.ok = b])
    PROVE  /\ Moves(t, where, loc[t].vm, loc[t].run)
           /\ loc'[t].ok = b /\ loc'[t].then = loc[t].then
<1>1. /\ pc' = [pc EXCEPT ![t] = where] /\ ops' = ops
      /\ loc' = [loc EXCEPT ![t] = [loc[t] EXCEPT !.ok = b]]
  BY DEF Goto
<1> QED
  BY <1>1 DEF ThreadsTyped, ThreadTyped, LocTyped, Moves, Others, LocFields

LEMMA GotoWithVm ==
    ASSUME ThreadsTyped, NEW t \in Threads, NEW where, where # "idle", NEW vm,
           Goto(t, where, [loc[t] EXCEPT !.vm = vm])
    PROVE  /\ Moves(t, where, vm, loc[t].run)
           /\ loc'[t].ok = loc[t].ok /\ loc'[t].then = loc[t].then
<1>1. /\ pc' = [pc EXCEPT ![t] = where] /\ ops' = ops
      /\ loc' = [loc EXCEPT ![t] = [loc[t] EXCEPT !.vm = vm]]
  BY DEF Goto
<1> QED
  BY <1>1 DEF ThreadsTyped, ThreadTyped, LocTyped, Moves, Others, LocFields

LEMMA GotoWithAttempt ==
    ASSUME ThreadsTyped, NEW t \in Threads, NEW where, where # "idle", NEW n,
           Goto(t, where, [loc[t] EXCEPT !.attempt = n])
    PROVE  /\ Moves(t, where, loc[t].vm, loc[t].run)
           /\ loc'[t].ok = loc[t].ok /\ loc'[t].then = loc[t].then
<1>1. /\ pc' = [pc EXCEPT ![t] = where] /\ ops' = ops
      /\ loc' = [loc EXCEPT ![t] = [loc[t] EXCEPT !.attempt = n]]
  BY DEF Goto
<1> QED
  BY <1>1 DEF ThreadsTyped, ThreadTyped, LocTyped, Moves, Others, LocFields

(* vm_is_running: the caller goes on with the answer, or cleans up first. *)
LEMMA LookMoves ==
    ASSUME ThreadsTyped, NEW t \in Threads, NEW next, next # "idle", Look(t, next, loc[t])
    PROVE  \/ /\ Moves(t, next, loc[t].vm, loc[t].run) /\ loc'[t].then = loc[t].then
              /\ loc'[t].ok <=> Alive(slot)
           \/ /\ Moves(t, "clean", loc[t].vm, loc[t].run) /\ loc'[t].then = next
              /\ ~loc'[t].ok
<1>1. CASE slot = NoVm \/ Alive(slot)
  <2>1. Goto(t, next, [loc[t] EXCEPT !.ok = Alive(slot)]) /\ Alive(slot) \in BOOLEAN
    BY <1>1 DEF Look, Alive
  <2> QED
    BY <2>1, GotoWithOk
<1>2. CASE ~(slot = NoVm \/ Alive(slot))
  <2>1. /\ pc' = [pc EXCEPT ![t] = "clean"] /\ ops' = ops
        /\ loc' = [loc EXCEPT ![t] = [loc[t] EXCEPT !.then = next, !.ok = FALSE]]
    BY <1>2 DEF Look, Goto
  <2> QED
    BY <2>1 DEF ThreadsTyped, ThreadTyped, LocTyped, Moves, Others, LocFields
<1> QED
  BY <1>1, <1>2

(* vm_status comes back from a live VM, or cleans up. *)
LEMMA PollMoves ==
    ASSUME ThreadsTyped, NEW t \in Threads, PollLook(t)
    PROVE  \/ Rests(t)
           \/ /\ Others(t) /\ ops' = ops /\ pc'[t] = "clean"
              /\ LocTyped(NoLoc) => LocTyped(loc'[t])
              /\ loc'[t].vm = NoVm /\ loc'[t].run = NoRun /\ loc'[t].call = 0
              /\ loc'[t].then = "idle" /\ ~loc'[t].alone
<1>1. CASE slot = NoVm \/ Alive(slot)
  BY <1>1, GotoRests DEF PollLook, Look
<1>2. CASE ~(slot = NoVm \/ Alive(slot))
  <2>1. /\ pc' = [pc EXCEPT ![t] = "clean"] /\ ops' = ops
        /\ loc' = [loc EXCEPT ![t] = [NoLoc EXCEPT !.then = "idle", !.ok = FALSE]]
    BY <1>2 DEF PollLook, Look, Goto
  <2> QED
    BY <2>1 DEF ThreadsTyped, Others, NoLoc, LocTyped, LocFields
<1> QED
  BY <1>1, <1>2

LEMMA BeginMoves ==
    ASSUME ThreadsTyped, NEW t \in Threads, NEW where, where # "idle", NEW b \in BOOLEAN,
           BeginRun(t, where, [loc[t] EXCEPT !.before = b]) \/ BeginRun(t, where, loc[t])
    PROVE  \/ /\ Moves(t, where, loc[t].vm, loc[t].call) /\ loc'[t].ok = loc[t].ok
              /\ loc'[t].then = loc[t].then
              /\ currentRun' = loc[t].call /\ runsOpen' = runsOpen \cup {loc[t].call}
              /\ failures' = failures
           \/ /\ Moves(t, where, loc[t].vm, loc[t].run) /\ loc'[t].ok = loc[t].ok
              /\ loc'[t].then = loc[t].then
              /\ currentRun' = currentRun /\ runsOpen' = runsOpen /\ failures' = failures + 1
<1>1. PICK rec : /\ rec = [loc[t] EXCEPT !.before = b] \/ rec = loc[t]
                 /\ BeginRun(t, where, rec)
  OBVIOUS
<1>2. /\ DOMAIN rec = LocFields
      /\ rec.name = loc[t].name /\ rec.from = loc[t].from /\ rec.vm = loc[t].vm
      /\ rec.run = loc[t].run /\ rec.call = loc[t].call /\ rec.was = loc[t].was
      /\ rec.alone = loc[t].alone /\ rec.ok = loc[t].ok /\ rec.then = loc[t].then
  BY <1>1 DEF ThreadsTyped, ThreadTyped, LocTyped, LocFields
<1>3. loc[t].ok \in BOOLEAN /\ DOMAIN pc = Threads /\ DOMAIN loc = Threads
  BY DEF ThreadsTyped, ThreadTyped, LocTyped
<1>4. pc' = [pc EXCEPT ![t] = where] /\ ops' = ops
  BY <1>1 DEF BeginRun, Goto
<1>5. CASE /\ Goto(t, where, [rec EXCEPT !.run = rec.call])
           /\ currentRun' = rec.call /\ runsOpen' = runsOpen \cup {rec.call}
           /\ failures' = failures
  <2>1. loc' = [loc EXCEPT ![t] = [rec EXCEPT !.run = rec.call]]
    BY <1>5 DEF Goto
  <2>2. Moves(t, where, loc[t].vm, loc[t].call) /\ loc'[t].ok = loc[t].ok /\ loc'[t].then = loc[t].then
    BY <1>2, <1>3, <1>4, <2>1 DEF Moves, Others, LocFields
  <2> QED
    BY <1>2, <1>5, <2>2
<1>6. CASE /\ Goto(t, where, rec)
           /\ currentRun' = currentRun /\ runsOpen' = runsOpen /\ failures' = failures + 1
  <2>1. loc' = [loc EXCEPT ![t] = rec]
    BY <1>6 DEF Goto
  <2>2. Moves(t, where, loc[t].vm, loc[t].run) /\ loc'[t].ok = loc[t].ok /\ loc'[t].then = loc[t].then
    BY <1>2, <1>3, <1>4, <2>1 DEF Moves, Others, LocFields
  <2> QED
    BY <1>6, <2>2
<1> QED
  BY <1>1, <1>5, <1>6 DEF BeginRun, Refused

(* A record of nothing stays what it is when another call begins. *)
LEMMA NoLocStays == [NoLoc EXCEPT !.alone = FALSE] = NoLoc
<1>1. NoLoc.alone = FALSE /\ NoLoc = [f \in DOMAIN NoLoc |-> NoLoc[f]]
  BY DEF NoLoc
<1>2. ASSUME NEW f, f = [x \in DOMAIN f |-> f[x]], NEW a
      PROVE  [f EXCEPT ![a] = f[a]] = f
  BY <1>2
<1>3. [NoLoc EXCEPT !.alone = NoLoc.alone] = NoLoc
  BY <1>1, <1>2
<1> QED
  BY <1>1, <1>3

(* A call begins: it is alone if nobody else is inside one, and nobody who  *)
(* is stays alone.                                                          *)
Enters(t, where, rec) ==
    /\ pc[t] = "idle" /\ ops < MaxOps /\ ops' = ops + 1
    /\ DOMAIN pc' = Threads /\ DOMAIN loc' = Threads
    /\ pc'[t] = where /\ DOMAIN loc'[t] = LocFields
    /\ loc'[t].name = rec.name /\ loc'[t].from = rec.from /\ loc'[t].vm = rec.vm
    /\ loc'[t].run = rec.run /\ loc'[t].call = rec.call /\ loc'[t].then = rec.then
    /\ loc'[t].ok = rec.ok /\ loc'[t].was = slot
    /\ loc'[t].alone \in BOOLEAN /\ (loc'[t].alone => \A v \in Threads : pc[v] = "idle")

NoLongerAlone(u) ==
    /\ pc'[u] = pc[u] /\ DOMAIN loc'[u] = LocFields
    /\ loc'[u].name = loc[u].name /\ loc'[u].from = loc[u].from
    /\ loc'[u].vm = loc[u].vm /\ loc'[u].run = loc[u].run
    /\ loc'[u].call = loc[u].call /\ loc'[u].then = loc[u].then
    /\ loc'[u].ok = loc[u].ok /\ loc'[u].alone = FALSE
    /\ loc[u] = NoLoc => loc'[u] = NoLoc

LEMMA CallMoves ==
    ASSUME ThreadsTyped, NEW t \in Threads, NEW where, NEW rec, DOMAIN rec = LocFields,
           Call(t, where, rec)
    PROVE  Enters(t, where, rec) /\ \A u \in Threads \ {t} : NoLongerAlone(u)
<1>1. /\ pc[t] = "idle" /\ ops < MaxOps /\ ops' = ops + 1
      /\ pc' = [pc EXCEPT ![t] = where]
      /\ DOMAIN loc' = Threads
      /\ loc'[t] = [rec EXCEPT !.alone = \A v \in Threads : pc[v] = "idle", !.was = slot]
      /\ \A u \in Threads \ {t} : loc'[u] = [loc[u] EXCEPT !.alone = FALSE]
  BY DEF Call, Busy
<1>2. DOMAIN pc' = Threads /\ pc'[t] = where /\ \A u \in Threads \ {t} : pc'[u] = pc[u]
  BY <1>1 DEF ThreadsTyped
<1>3. /\ DOMAIN loc'[t] = LocFields
      /\ loc'[t].name = rec.name /\ loc'[t].from = rec.from /\ loc'[t].vm = rec.vm
      /\ loc'[t].run = rec.run /\ loc'[t].call = rec.call /\ loc'[t].then = rec.then
      /\ loc'[t].ok = rec.ok /\ loc'[t].was = slot
      /\ loc'[t].alone \in BOOLEAN /\ (loc'[t].alone => \A v \in Threads : pc[v] = "idle")
  BY <1>1 DEF LocFields
<1>4. ASSUME NEW u \in Threads \ {t}
      PROVE  /\ DOMAIN loc'[u] = LocFields
             /\ loc'[u].name = loc[u].name /\ loc'[u].from = loc[u].from
             /\ loc'[u].vm = loc[u].vm /\ loc'[u].run = loc[u].run
             /\ loc'[u].call = loc[u].call /\ loc'[u].then = loc[u].then
             /\ loc'[u].ok = loc[u].ok /\ loc'[u].alone = FALSE
  <2>1. loc'[u] = [loc[u] EXCEPT !.alone = FALSE]
    BY <1>1
  <2>2. DOMAIN loc[u] = LocFields
    BY DEF ThreadsTyped, ThreadTyped, LocTyped
  <2> QED
    BY ONLY <2>1, <2>2 DEF LocFields
<1>5. \A u \in Threads \ {t} : loc[u] = NoLoc => loc'[u] = NoLoc
  BY <1>1, NoLocStays
<1>6. \A u \in Threads \ {t} : NoLongerAlone(u)
  BY <1>2, <1>4, <1>5 DEF NoLongerAlone
<1> QED
  BY <1>1, <1>2, <1>3, <1>6 DEF Enters

-----------------------------------------------------------------------------
(* Types is inductive. *)
LEMMA NoLocTyped ==
    ASSUME NodeTyped
    PROVE  /\ DOMAIN NoLoc = LocFields /\ NoLoc.name = NoDef /\ NoLoc.from = NoDef
           /\ NoLoc.vm = NoVm /\ NoLoc.vm.id = 0 /\ NoLoc.run = 0 /\ NoLoc.call = 0
           /\ NoLoc.then = "idle" /\ ~NoLoc.ok /\ ~NoLoc.alone
           /\ NoVm \in Vm /\ NoVm.id = 0 /\ LocTyped(NoLoc)
           /\ nextVm \in Nat /\ 0 < nextVm /\ ops \in Nat
BY SandboxAssumption DEF NoLoc, NoVm, NoRun, Vm, Def, LocTyped, LocFields, Thens, NodeTyped

LEMMA OthersTyped ==
    ASSUME Types, NodeTyped', NEW t \in Threads, Others(t), nextVm <= nextVm', ops <= ops',
           NEW u \in Threads, u # t
    PROVE  ThreadTyped(u)'
<1>1. pc'[u] = pc[u] /\ loc'[u] = loc[u] /\ ThreadTyped(u)
  BY DEF Others, Types, ThreadsTyped
<1>2. nextVm \in Nat /\ nextVm' \in Nat /\ ops \in Nat /\ ops' \in Nat
  BY SandboxAssumption DEF Types, NodeTyped
<1>3. LocTyped(loc[u])'
  BY <1>1, <1>2 DEF ThreadTyped, LocTyped, Vm
<1> QED
  BY <1>1, <1>3 DEF ThreadTyped

LEMMA MovesTyped ==
    ASSUME Types, NodeTyped', nextVm <= nextVm', NEW t \in Threads, NEW where, where # "idle",
           NEW vm \in Vm, vm.id < nextVm', NEW run \in 0 .. MaxOps, Moves(t, where, vm, run),
           loc'[t].then \in Thens,
           \/ loc[t].name \in Defs
           \/ where \notin SwitchLocs \cup RunLocs \cup {"clean"}
           \/ where = "clean" /\ loc'[t].then \notin RunLocs
    PROVE  Types'
<1>1. LocTyped(loc[t])
  BY DEF Types, ThreadsTyped, ThreadTyped
<1>2. LocTyped(loc[t])'
  BY <1>1 DEF Moves, LocTyped
<1>3. ThreadTyped(t)'
  BY <1>2 DEF Moves, ThreadTyped, SwitchLocs, RunLocs
<1>4. ops \in Nat /\ ops' = ops /\ Others(t)
  BY NoLocTyped DEF Moves, Types
<1>5. \A u \in Threads \ {t} : ThreadTyped(u)'
  BY <1>4, OthersTyped
<1> QED
  BY <1>3, <1>5 DEF Moves, Others, Types, ThreadsTyped

LEMMA RestsTyped ==
    ASSUME Types, NodeTyped', nextVm <= nextVm', NEW t \in Threads, Rests(t)
    PROVE  Types'
<1>1. ops \in Nat /\ ops' = ops /\ Others(t) /\ pc'[t] = "idle" /\ loc'[t] = NoLoc
  BY NoLocTyped DEF Rests, Types
<1>2. 0 \in 0 .. ops' /\ 0 \in 0 .. MaxOps /\ 0 < nextVm'
  BY <1>1, SandboxAssumption DEF NodeTyped
<1>3. LocTyped(loc[t])'
  BY <1>1, <1>2, NoLocTyped DEF LocTyped, Types, Def, Thens
<1>4. ThreadTyped(t)'
  BY <1>1, <1>3 DEF ThreadTyped, SwitchLocs, RunLocs
<1>5. \A u \in Threads \ {t} : ThreadTyped(u)'
  BY <1>1, OthersTyped
<1> QED
  BY <1>1, <1>4, <1>5 DEF Others, Types, ThreadsTyped

(* The thread goes on as it is, with its handle and its run. *)
LEMMA StaysTyped ==
    ASSUME Types, NodeTyped', nextVm' = nextVm, NEW t \in Threads, NEW where, where # "idle",
           Moves(t, where, loc[t].vm, loc[t].run), loc'[t].then \in Thens,
           \/ loc[t].name \in Defs
           \/ where \notin SwitchLocs \cup RunLocs \cup {"clean"}
           \/ where = "clean" /\ loc'[t].then \notin RunLocs
    PROVE  Types'
<1>1. LocTyped(loc[t]) /\ nextVm \in Nat
  BY SandboxAssumption DEF Types, NodeTyped, ThreadsTyped, ThreadTyped
<1> QED
  BY <1>1, MovesTyped DEF LocTyped

LEMMA Named ==
    ASSUME Types, NEW t \in Threads
    PROVE  /\ LocTyped(loc[t])
           /\ pc[t] = "idle" => loc[t] = NoLoc
           /\ pc[t] \in SwitchLocs \cup RunLocs => loc[t].name \in Defs
           /\ pc[t] = "clean" /\ loc[t].then \in RunLocs => loc[t].name \in Defs
BY DEF Types, ThreadsTyped, ThreadTyped

-----------------------------------------------------------------------------
(* The slot's part: what each kind of step does to the processes. *)
LEMMA SlotKept ==
    ASSUME Types, SlotPart, NEW t \in Threads, Others(t), pc[t] \notin Adopting,
           loc'[t].vm \in {loc[t].vm, NoVm}, slot' = slot, procs' = procs
    PROVE  SlotPart'
<1>1. 0 \notin procs /\ NoVm.id = 0
  BY NoLocTyped DEF Types, NodeTyped
<1>2. loc[t].vm.id \in procs => loc[t].vm.id = slot.id
  BY DEF SlotPart, Adopted
<1>3. NoLostProcess'
  BY <1>1, <1>2 DEF SlotPart, NoLostProcess, Others
<1>4. Adopted'
  BY <1>1, <1>2 DEF SlotPart, Adopted, Others
<1> QED
  BY <1>3, <1>4 DEF SlotPart

LEMMA SlotEmptied ==
    ASSUME Types, SlotPart, NEW t \in Threads, Others(t), pc[t] \notin Adopting,
           loc'[t].vm \in {loc[t].vm, NoVm}, slot' = NoVm, procs' = procs \ {slot.id}
    PROVE  SlotPart'
<1>1. 0 \notin procs /\ NoVm.id = 0
  BY NoLocTyped DEF Types, NodeTyped
<1>2. loc[t].vm.id \notin procs'
  BY DEF SlotPart, Adopted
<1>3. NoLostProcess'
  BY <1>1, <1>2 DEF SlotPart, NoLostProcess, Others
<1>4. Adopted'
  BY <1>1, <1>2 DEF SlotPart, Adopted, Others
<1> QED
  BY <1>3, <1>4 DEF SlotPart

LEMMA SlotFilled ==
    ASSUME SlotPart, NEW t \in Threads, Others(t), loc'[t].vm = loc[t].vm,
           slot' = loc[t].vm, procs' = procs \ {slot.id}
    PROVE  SlotPart'
<1>1. NoLostProcess'
  BY DEF SlotPart, NoLostProcess, Others
<1>2. Adopted'
  BY DEF SlotPart, Adopted, Others
<1> QED
  BY <1>1, <1>2 DEF SlotPart

LEMMA SlotStarted ==
    ASSUME Types, SlotPart, NEW t \in Threads, Others(t), pc[t] \notin Adopting,
           pc'[t] \in Adopting, loc'[t].vm.id = nextVm, slot' = slot,
           procs' = procs \cup {nextVm}
    PROVE  SlotPart'
<1>1. loc[t].vm.id \in procs => loc[t].vm.id = slot.id
  BY DEF SlotPart, Adopted
<1>2. NoLostProcess'
  BY <1>1 DEF SlotPart, NoLostProcess, Others
<1>3. \A u \in Threads : loc[u].vm.id # nextVm
  BY Named, NoLocTyped DEF LocTyped, Vm, Types
<1>4. Adopted'
  BY <1>3 DEF SlotPart, Adopted, Others
<1> QED
  BY <1>2, <1>4 DEF SlotPart

(* The runs' part. *)
LEMMA RunKept ==
    ASSUME RunPart, NEW t \in Threads, Others(t), UNCHANGED runVars,
           loc'[t].run = loc[t].run, loc'[t].call \in {loc[t].call, 0},
           loc[t].run # NoRun =>
             /\ pc'[t] \in WithRun \/ (pc'[t] = "clean" /\ loc'[t].then = "run_mark")
             /\ loc'[t].call = loc[t].call
    PROVE  RunPart'
<1>1. RunOwned'
  BY DEF RunPart, RunOwned, Others, runVars
<1>2. CallsDiffer'
  BY DEF RunPart, CallsDiffer, Others
<1>3. RunIdIsLive'
  BY DEF RunPart, RunIdIsLive, Others, runVars
<1> QED
  BY <1>1, <1>2, <1>3 DEF RunPart

(* Where a call has no run. *)
LEMMA NoRunYet ==
    ASSUME RunPart, NEW t \in Threads, pc[t] \notin WithRun,
           pc[t] = "clean" => loc[t].then # "run_mark"
    PROVE  loc[t].run = 0
BY DEF RunPart, RunOwned, NoRun

(* The lone call's part: nobody else is alone beside a thread that steps. *)
LEMMA AloneKept ==
    ASSUME AlonePart, NEW t \in Threads, pc[t] # "idle", Others(t),
           loc'[t].alone => loc[t].alone /\ AloneKnows(t)'
    PROVE  AlonePart'
<1>1. \A u \in Threads : loc'[u].alone => u = t
  BY DEF AlonePart, Alone, Others
<1>2. Alone'
  BY <1>1 DEF AlonePart, Alone, Others
<1> QED
  BY <1>1, <1>2 DEF AlonePart

-----------------------------------------------------------------------------
(* A call begins. *)
Entering == {"sw_begin", "rs_begin", "poll", "run_look", "run_before"}

LEMMA CallKeeps ==
    ASSUME IInv, NEW t \in Threads, NEW where \in Entering, NEW rec, DOMAIN rec = LocFields,
           Call(t, where, rec), UNCHANGED <<nodeVars, switchSlot, runVars, rows, snapshot>>,
           rec.name \in Def, rec.from \in Def, rec.vm = NoVm, rec.run = 0,
           rec.call \in {0, ops + 1}, rec.then = "idle", rec.ok = FALSE,
           where \in {"rs_begin", "poll"} \/ rec.name \in Defs
    PROVE  IInv'
<1>1. Types /\ SlotPart /\ RunPart /\ AlonePart /\ CurrentIsLastRow /\ ThreadsTyped
  BY DEF IInv, Types
<1>2. /\ pc[t] = "idle" /\ ops < MaxOps /\ ops' = ops + 1
      /\ DOMAIN pc' = Threads /\ DOMAIN loc' = Threads
      /\ pc'[t] = where /\ DOMAIN loc'[t] = LocFields
      /\ loc'[t].name = rec.name /\ loc'[t].from = rec.from /\ loc'[t].vm = NoVm
      /\ loc'[t].run = 0 /\ loc'[t].call = rec.call /\ loc'[t].then = "idle"
      /\ loc'[t].ok = FALSE /\ loc'[t].was = slot
      /\ loc'[t].alone \in BOOLEAN /\ (loc'[t].alone => \A v \in Threads : pc[v] = "idle")
  <2>1. Enters(t, where, rec)
    BY <1>1, CallMoves
  <2> QED
    BY <2>1 DEF Enters
<1>3. \A u \in Threads \ {t} : NoLongerAlone(u)
  BY <1>1, CallMoves
<1>4. /\ loc[t] = NoLoc /\ loc[t].vm = NoVm /\ loc[t].run = 0 /\ loc[t].call = 0
      /\ ops \in Nat /\ nextVm \in Nat /\ 0 < nextVm /\ NoVm \in Vm /\ NoVm.id = 0
  BY <1>1, <1>2, Named, NoLocTyped DEF Types
<1>5. UNCHANGED <<slot, procs, nextVm, started, active, current, ownDef, switchSlot,
                  currentRun, runsOpen, failures, rows, snapshot>>
  BY DEF nodeVars, runVars
<1>6. NodeTyped'
  BY <1>1, <1>2, <1>5, SandboxAssumption DEF Types, NodeTyped
<1>7. LocTyped(loc[t])'
  <2>1. loc'[t].ok \in BOOLEAN /\ loc'[t].alone \in BOOLEAN
    BY <1>2, Zenon
  <2>2. loc'[t].call \in 0 .. ops' /\ loc'[t].run \in 0 .. MaxOps
    BY <1>2, <1>4, SandboxAssumption
  <2>3. loc'[t].vm \in Vm /\ loc'[t].vm.id < nextVm' /\ loc'[t].then \in Thens
    BY <1>2, <1>4, <1>5 DEF Thens
  <2> QED
    BY ONLY <1>2, <2>1, <2>2, <2>3, rec.name \in Def, rec.from \in Def DEF LocTyped
<1>8. ThreadTyped(t)'
  BY <1>2, <1>7 DEF ThreadTyped, Entering, SwitchLocs, RunLocs
<1>9. ASSUME NEW u \in Threads \ {t}
      PROVE  ThreadTyped(u)'
  <2>1. NoLongerAlone(u) /\ LocTyped(loc[u]) /\ ThreadTyped(u)
    BY <1>1, <1>3 DEF ThreadsTyped, ThreadTyped, NoLongerAlone
  <2>2. loc'[u].alone \in BOOLEAN
    BY <2>1, Zenon DEF NoLongerAlone
  <2>3. loc'[u].call \in 0 .. ops'
    BY <1>2, <1>4, <2>1 DEF LocTyped, NoLongerAlone
  <2>4. LocTyped(loc[u])'
    BY <1>5, <2>1, <2>2, <2>3 DEF LocTyped, NoLongerAlone
  <2> QED
    BY <2>1, <2>4 DEF ThreadTyped, NoLongerAlone
<1>10. Types'
  BY <1>2, <1>6, <1>8, <1>9 DEF Types, ThreadsTyped
<1>11. SlotPart'
  <2>1. \A u \in Threads : loc'[u].vm = loc[u].vm
    BY <1>2, <1>3, <1>4 DEF NoLongerAlone
  <2>2. pc[t] \notin Adopting /\ \A u \in Threads \ {t} : pc'[u] = pc[u]
    BY <1>2, <1>3 DEF Adopting, NoLongerAlone
  <2>3. NoLostProcess'
    BY <1>1, <1>5, <2>1 DEF SlotPart, NoLostProcess
  <2>4. Adopted'
    BY <1>1, <1>5, <2>1, <2>2 DEF SlotPart, Adopted
  <2> QED
    BY <2>3, <2>4 DEF SlotPart
<1>12. RunPart'
  <2>1. \A u \in Threads : loc'[u].run = loc[u].run
    BY <1>2, <1>3, <1>4 DEF NoLongerAlone
  <2>2. \A u \in Threads \ {t} : /\ loc'[u].call = loc[u].call /\ loc[u].call \in 0 .. ops
                                  /\ pc'[u] = pc[u] /\ loc'[u].then = loc[u].then
    BY <1>1, <1>3, Named DEF LocTyped, NoLongerAlone
  <2>3. RunOwned'
    BY <1>1, <1>2, <1>5, <2>1, <2>2 DEF RunPart, RunOwned, NoRun
  <2>4. CallsDiffer'
    BY <1>1, <1>2, <1>4, <2>2 DEF RunPart, CallsDiffer
  <2>5. RunIdIsLive'
    BY <1>1, <1>5, <2>1 DEF RunPart, RunIdIsLive
  <2> QED
    BY <2>3, <2>4, <2>5 DEF RunPart
<1>13. AlonePart'
  <2>1. \A u \in Threads : loc'[u].alone => u = t
    BY <1>3 DEF NoLongerAlone
  <2>2. Alone'
    BY <1>2, <1>3, <2>1 DEF Alone, NoLongerAlone
  <2>3. AloneKnows(t)'
    BY <1>2, <1>5 DEF AloneKnows, Entering, Untouched
  <2> QED
    BY <2>1, <2>2, <2>3 DEF AlonePart
<1>14. CurrentIsLastRow'
  BY <1>1, <1>5 DEF CurrentIsLastRow
<1> QED
  BY <1>10, <1>11, <1>12, <1>13, <1>14 DEF IInv

LEMMA CallsKeep ==
    ASSUME IInv, NEW t \in Threads,
           \/ VmStatus(t) \/ RestoreCall(t) \/ RunCall(t, NoDef)
           \/ \E n \in Defs : SwitchCall(t, n) \/ RunCall(t, n)
    PROVE  IInv'
<1>1. /\ current \in Def /\ Default \in Defs /\ NoDef \in Def /\ NoDef \notin Defs
      /\ Defs \subseteq Def /\ NodeTyped
  BY SandboxAssumption DEF IInv, Types, NodeTyped, Def
<1>2. CASE VmStatus(t)
  <2>1. /\ DOMAIN NoLoc = LocFields /\ NoLoc.name = NoDef /\ NoLoc.from = NoDef
        /\ NoLoc.vm = NoVm /\ NoLoc.run = 0 /\ NoLoc.call = 0 /\ NoLoc.then = "idle"
        /\ NoLoc.ok = FALSE
    BY <1>1, NoLocTyped DEF NoLoc
  <2>2. Call(t, "poll", NoLoc)
    BY <1>2 DEF VmStatus
  <2>3. UNCHANGED <<nodeVars, switchSlot, runVars, rows, snapshot>>
    BY <1>2 DEF VmStatus
  <2> QED
    BY <1>1, <2>1, <2>2, <2>3, CallKeeps DEF Entering
<1>3. CASE RestoreCall(t)
  <2> DEFINE rec == [NoLoc EXCEPT !.call = ops + 1]
  <2>1. /\ DOMAIN rec = LocFields /\ rec.name = NoDef /\ rec.from = NoDef /\ rec.vm = NoVm
        /\ rec.run = 0 /\ rec.call = ops + 1 /\ rec.then = "idle" /\ rec.ok = FALSE
    BY <1>1, NoLocTyped DEF LocFields, NoLoc
  <2>2. Call(t, "rs_begin", rec)
    BY <1>3 DEF RestoreCall
  <2>3. UNCHANGED <<nodeVars, switchSlot, runVars, rows, snapshot>>
    BY <1>3 DEF RestoreCall
  <2> HIDE DEF rec
  <2> QED
    BY <1>1, <2>1, <2>2, <2>3, CallKeeps DEF Entering
<1>4. ASSUME NEW n \in Defs \cup {NoDef}, RunCall(t, n)
      PROVE  IInv'
  <2> DEFINE rec == [NoLoc EXCEPT !.name = Resolve(n), !.call = ops + 1]
  <2>1. Resolve(n) \in Defs
    BY <1>1 DEF Resolve, Def
  <2>2. /\ DOMAIN rec = LocFields /\ rec.name = Resolve(n) /\ rec.from = NoDef /\ rec.vm = NoVm
        /\ rec.run = 0 /\ rec.call = ops + 1 /\ rec.then = "idle" /\ rec.ok = FALSE
    BY <1>1, NoLocTyped DEF LocFields, NoLoc
  <2>3. PICK where \in Entering : Call(t, where, rec)
    BY <1>4 DEF RunCall, Entering
  <2>4. UNCHANGED <<nodeVars, switchSlot, runVars, rows, snapshot>>
    BY <1>4 DEF RunCall
  <2> HIDE DEF rec
  <2> QED
    BY <1>1, <2>1, <2>2, <2>3, <2>4, CallKeeps
<1>5. ASSUME NEW n \in Defs, SwitchCall(t, n)
      PROVE  IInv'
  <2> DEFINE rec == [NoLoc EXCEPT !.name = n, !.from = current]
  <2>1. /\ DOMAIN rec = LocFields /\ rec.name = n /\ rec.from = current /\ rec.vm = NoVm
        /\ rec.run = 0 /\ rec.call = 0 /\ rec.then = "idle" /\ rec.ok = FALSE
    BY <1>1, NoLocTyped DEF LocFields, NoLoc
  <2>2. Call(t, "sw_begin", rec)
    BY <1>5 DEF SwitchCall
  <2>3. UNCHANGED <<nodeVars, switchSlot, runVars, rows, snapshot>>
    BY <1>5 DEF SwitchCall
  <2> HIDE DEF rec
  <2> QED
    BY <1>1, <2>1, <2>2, <2>3, CallKeeps DEF Entering
<1> QED
  BY <1>2, <1>3, <1>4, <1>5

-----------------------------------------------------------------------------
(* A step of a thread keeps the invariant when it keeps the node's parts of *)
(* it and the thread lands where its name, its run and what it knows allow. *)
Lands(t, where) ==
    /\ where # "idle" /\ loc'[t].then \in Thens
    /\ \/ loc[t].name \in Defs
       \/ where \notin SwitchLocs \cup RunLocs \cup {"clean"}
       \/ where = "clean" /\ loc'[t].then \notin RunLocs
    /\ loc[t].run # 0 => where \in WithRun \/ (where = "clean" /\ loc'[t].then = "run_mark")

LEMMA MovesKeep ==
    ASSUME IInv, NEW t \in Threads, pc[t] # "idle", NEW where, Lands(t, where),
           Moves(t, where, loc[t].vm, loc[t].run), nextVm' = nextVm, UNCHANGED runVars,
           NodeTyped', SlotPart', CurrentIsLastRow',
           loc[t].alone => AloneKnows(t)'
    PROVE  IInv'
<1>1. Types'
  BY StaysTyped DEF IInv, Lands
<1>2. RunPart'
  BY RunKept DEF IInv, Lands, Moves, NoRun
<1>3. AlonePart'
  BY AloneKept DEF IInv, Moves
<1> QED
  BY <1>1, <1>2, <1>3 DEF IInv

LEMMA RestsKeep ==
    ASSUME IInv, NEW t \in Threads, pc[t] # "idle", Rests(t), nextVm' = nextVm,
           NodeTyped', SlotPart', RunPart', CurrentIsLastRow'
    PROVE  IInv'
<1>1. Types'
  BY RestsTyped, NoLocTyped DEF IInv, Types
<1>2. AlonePart'
  BY AloneKept, NoLocTyped DEF IInv, Types, Rests
<1> QED
  BY <1>1, <1>2 DEF IInv

(* The same when the node itself is not touched, but for the switch slot. *)
Untouching == UNCHANGED <<nodeVars, runVars, rows, snapshot>> /\ switchSlot' \in Def

LEMMA QuietTyped ==
    ASSUME IInv, Untouching, ops' = ops
    PROVE  NodeTyped' /\ CurrentIsLastRow'
BY DEF IInv, Types, NodeTyped, CurrentIsLastRow, Untouching, nodeVars, runVars

LEMMA QuietMoves ==
    ASSUME IInv, NEW t \in Threads, pc[t] \notin Adopting \cup {"idle"}, NEW where,
           Lands(t, where), Moves(t, where, loc[t].vm, loc[t].run), Untouching,
           loc[t].alone => AloneKnows(t)'
    PROVE  IInv'
<1>1. slot' = slot /\ procs' = procs /\ nextVm' = nextVm /\ UNCHANGED runVars
  BY DEF Untouching, nodeVars
<1>2. SlotPart'
  BY <1>1, SlotKept DEF IInv, Moves
<1>3. NodeTyped' /\ CurrentIsLastRow'
  BY QuietTyped DEF Moves
<1> QED
  BY <1>1, <1>2, <1>3, MovesKeep

LEMMA QuietRests ==
    ASSUME IInv, NEW t \in Threads, pc[t] \notin Adopting \cup {"idle"}, Rests(t), Untouching,
           loc[t].run = 0
    PROVE  IInv'
<1>1. slot' = slot /\ procs' = procs /\ nextVm' = nextVm /\ UNCHANGED runVars
  BY DEF Untouching, nodeVars
<1>2. loc'[t].vm = NoVm /\ loc'[t].run = 0 /\ loc'[t].call = 0
  BY NoLocTyped DEF IInv, Types, Rests
<1>3. SlotPart'
  BY <1>1, <1>2, SlotKept DEF IInv, Rests
<1>4. NodeTyped' /\ CurrentIsLastRow'
  BY QuietTyped DEF Rests
<1>5. RunPart'
  BY <1>1, <1>2, RunKept DEF IInv, Rests, NoRun
<1> QED
  BY <1>1, <1>3, <1>4, <1>5, RestsKeep

(* The slot is emptied: its process ends. *)
LEMMA EmptiedTyped ==
    ASSUME IInv, slot' = NoVm, procs' = procs \ {slot.id}, started' \in BOOLEAN,
           UNCHANGED <<nextVm, active, current, ownDef, switchSlot, runVars, rows, snapshot, ops>>
    PROVE  NodeTyped' /\ CurrentIsLastRow'
<1>1. NoVm \in Vm /\ NoVm.id = 0 /\ 0 < nextVm /\ nextVm \in Nat
  BY NoLocTyped DEF IInv, Types
<1> QED
  BY <1>1 DEF IInv, Types, NodeTyped, CurrentIsLastRow, runVars

LEMMA EmptiedMoves ==
    ASSUME IInv, NEW t \in Threads, pc[t] \notin Adopting \cup {"idle"}, NEW where,
           Lands(t, where), Moves(t, where, loc[t].vm, loc[t].run),
           slot' = NoVm, procs' = procs \ {slot.id}, started' \in BOOLEAN,
           UNCHANGED <<nextVm, active, current, ownDef, switchSlot, runVars, rows, snapshot>>,
           loc[t].alone => AloneKnows(t)'
    PROVE  IInv'
<1>1. SlotPart'
  BY SlotEmptied DEF IInv, Moves
<1>2. NodeTyped' /\ CurrentIsLastRow'
  BY EmptiedTyped DEF Moves
<1> QED
  BY <1>1, <1>2, MovesKeep

-----------------------------------------------------------------------------
(* One lemma per step. *)
LEMMA CleanUpKeeps ==
    ASSUME IInv, NEW t \in Threads, CleanUp(t)
    PROVE  IInv'
<1>1. /\ pc[t] = "clean" /\ Goto(t, loc[t].then, loc[t])
      /\ slot' = NoVm /\ procs' = procs \ {slot.id} /\ started' \in BOOLEAN
      /\ UNCHANGED <<nextVm, active, current, ownDef, switchSlot, runVars, rows, snapshot>>
  BY DEF CleanUp, At, Put
<1>2. /\ ThreadsTyped /\ SlotPart /\ RunPart /\ loc[t].then \in Thens
      /\ loc[t].then \in RunLocs => loc[t].name \in Defs
  BY <1>1, Named DEF IInv, Types, LocTyped
<1>3. CASE loc[t].then = "idle"
  <2>1. Rests(t)
    BY <1>1, <1>2, <1>3, GotoRests
  <2>2. loc'[t].vm = NoVm /\ loc'[t].run = 0 /\ loc'[t].call = 0 /\ loc[t].run = 0
    BY <1>1, <1>2, <1>3, <2>1, NoLocTyped, NoRunYet DEF IInv, Types, Rests, WithRun
  <2>3. SlotPart'
    BY <1>1, <1>2, <2>1, <2>2, SlotEmptied DEF IInv, Rests, Adopting
  <2>4. RunPart'
    BY <1>1, <1>2, <2>1, <2>2, RunKept DEF Rests, NoRun
  <2>5. NodeTyped' /\ CurrentIsLastRow'
    BY <1>1, <2>1, EmptiedTyped DEF Rests
  <2> QED
    BY <1>1, <2>1, <2>3, <2>4, <2>5, RestsKeep
<1>4. CASE loc[t].then # "idle"
  <2> DEFINE where == loc[t].then
  <2>1. where \in {"run_check", "run_begin", "run_mark"}
    BY <1>2, <1>4 DEF Thens
  <2>2. Moves(t, where, loc[t].vm, loc[t].run) /\ loc'[t].then = loc[t].then
    BY <1>1, <1>2, <1>4, GotoStays
  <2>3. loc[t].run # 0 => where = "run_mark"
    BY <1>1, <1>2, NoRunYet DEF WithRun
  <2>4. Lands(t, where)
    BY <1>2, <2>1, <2>2, <2>3 DEF Lands, RunLocs, WithRun
  <2>5. AloneKnows(t)'
    BY <2>1, <2>2 DEF AloneKnows, Moves
  <2> HIDE DEF where
  <2> QED
    BY <1>1, <2>2, <2>4, <2>5, EmptiedMoves DEF Adopting
<1> QED
  BY <1>3, <1>4

LEMMA PollLookKeeps ==
    ASSUME IInv, NEW t \in Threads, PollLook(t)
    PROVE  IInv'
<1>1. pc[t] = "poll" /\ UNCHANGED <<nodeVars, switchSlot, runVars, rows, snapshot>>
  BY DEF PollLook, At
<1>2. Untouching /\ ThreadsTyped /\ loc[t].run = 0
  BY <1>1, NoRunYet DEF Untouching, IInv, Types, NodeTyped, WithRun
<1>3. CASE Rests(t)
  BY <1>1, <1>2, <1>3, QuietRests DEF Adopting
<1>4. CASE /\ Others(t) /\ ops' = ops /\ pc'[t] = "clean"
           /\ LocTyped(NoLoc) => LocTyped(loc'[t])
           /\ loc'[t].vm = NoVm /\ loc'[t].run = NoRun /\ loc'[t].call = 0
           /\ loc'[t].then = "idle" /\ ~loc'[t].alone
  <2>1. slot' = slot /\ procs' = procs /\ nextVm' = nextVm /\ UNCHANGED runVars
    BY <1>1 DEF nodeVars
  <2>2. NodeTyped' /\ CurrentIsLastRow'
    BY <1>2, <1>4, QuietTyped
  <2>3. SlotPart'
    BY <1>1, <1>4, <2>1, SlotKept DEF IInv, Adopting
  <2>4. RunPart'
    BY <1>2, <1>4, <2>1, RunKept DEF IInv, NoRun
  <2>5. AlonePart'
    BY <1>1, <1>4, AloneKept DEF IInv
  <2>6. LocTyped(loc[t])'
    BY <1>4, <2>1, NoLocTyped DEF IInv, Types, LocTyped
  <2>7. ThreadTyped(t)'
    BY <1>4, <2>6 DEF ThreadTyped, SwitchLocs, RunLocs
  <2>8. \A u \in Threads \ {t} : ThreadTyped(u)'
    BY <1>4, <2>1, <2>2, OthersTyped, NoLocTyped DEF IInv, Types
  <2> QED
    BY <1>4, <2>2, <2>3, <2>4, <2>5, <2>7, <2>8 DEF IInv, Types, ThreadsTyped, Others
<1> QED
  BY <1>2, <1>3, <1>4, PollMoves

LEMMA SwitchBeginKeeps ==
    ASSUME IInv, NEW t \in Threads, SwitchBegin(t)
    PROVE  IInv'
<1>1. pc[t] = "sw_begin" /\ UNCHANGED <<nodeVars, runVars, rows, snapshot>>
  BY DEF SwitchBegin, At
<1>2. ThreadsTyped /\ loc[t].run = 0 /\ LocTyped(loc[t]) /\ loc[t].name \in Defs
  BY <1>1, NoRunYet, Named DEF IInv, Types, WithRun, SwitchLocs
<1>3. CASE Goto(t, "idle", NoLoc) /\ switchSlot' = switchSlot
  <2>1. Rests(t) /\ Untouching
    BY <1>1, <1>2, <1>3, GotoRests DEF Untouching, IInv, Types, NodeTyped
  <2> QED
    BY <1>1, <1>2, <2>1, QuietRests DEF Adopting
<1>4. CASE Goto(t, "sw_check", loc[t]) /\ switchSlot' = loc[t].name
  <2>1. /\ Moves(t, "sw_check", loc[t].vm, loc[t].run)
        /\ loc'[t].ok = loc[t].ok /\ loc'[t].then = loc[t].then
    BY <1>2, <1>4, GotoStays
  <2>2. Untouching
    BY <1>1, <1>2, <1>4 DEF Untouching, Def
  <2>3. Lands(t, "sw_check")
    BY <1>2, <2>1 DEF Lands, LocTyped
  <2>4. loc[t].alone => AloneKnows(t)'
    BY <1>1, <2>1 DEF IInv, AlonePart, AloneKnows, Untouched, Moves, nodeVars
  <2> QED
    BY <1>1, <2>1, <2>2, <2>3, <2>4, QuietMoves DEF Adopting
<1> QED
  BY <1>3, <1>4 DEF SwitchBegin

LEMMA SwitchCheckKeeps ==
    ASSUME IInv, NEW t \in Threads, SwitchCheck(t)
    PROVE  IInv'
<1>1. /\ pc[t] = "sw_check" /\ UNCHANGED <<nodeVars, switchSlot, runVars, rows, snapshot>>
      /\ Goto(t, "sw_finish", loc[t]) \/ Goto(t, "sw_stop", loc[t])
  BY DEF SwitchCheck, At
<1>2. ThreadsTyped /\ loc[t].run = 0 /\ LocTyped(loc[t]) /\ loc[t].name \in Defs
  BY <1>1, NoRunYet, Named DEF IInv, Types, WithRun, SwitchLocs
<1>3. Untouching
  BY <1>1 DEF Untouching, IInv, Types, NodeTyped
<1>4. PICK where \in {"sw_finish", "sw_stop"} : Goto(t, where, loc[t])
  BY <1>1
<1>5. Moves(t, where, loc[t].vm, loc[t].run) /\ loc'[t].ok = loc[t].ok /\ loc'[t].then = loc[t].then
  BY <1>2, <1>4, GotoStays
<1>6. Lands(t, where)
  BY <1>2, <1>5 DEF Lands, LocTyped
<1>7. loc[t].alone => AloneKnows(t)'
  BY <1>1, <1>5 DEF IInv, AlonePart, AloneKnows, Untouched, Moves, nodeVars
<1> QED
  BY <1>1, <1>3, <1>5, <1>6, <1>7, QuietMoves DEF Adopting

(* stop_current_vm and the start attempts, in a switch and in a restore. *)
Stopping(t, next) == \/ pc[t] = "sw_stop" /\ next = "sw_clear"
                     \/ pc[t] = "rs_lease" /\ next = "rs_clear"

Clearing(t, next) == \/ pc[t] = "sw_clear" /\ next = "sw_start"
                     \/ pc[t] = "rs_clear" /\ next = "rs_start"

(* What the thread that works on the VM carries. *)
LEMMA Carries ==
    ASSUME IInv, NEW t \in Threads
    PROVE  /\ ThreadsTyped /\ LocTyped(loc[t]) /\ loc[t].then \in Thens
           /\ pc[t] \in SwitchLocs \cup RunLocs => loc[t].name \in Defs
           /\ loc[t].alone => AloneKnows(t)
           /\ pc[t] \in SwitchLocs => loc[t].run = 0
           /\ nextVm \in Nat /\ 0 < nextVm /\ ops \in Nat
<1>1. pc[t] \in SwitchLocs => loc[t].run = 0
  BY NoRunYet DEF IInv, SwitchLocs, WithRun
<1> QED
  BY <1>1, Named, NoLocTyped DEF IInv, Types, LocTyped, AlonePart

LEMMA StopTakeKeeps ==
    ASSUME IInv, NEW t \in Threads, NEW next, Stopping(t, next), StopTake(t, next),
           UNCHANGED <<switchSlot, runVars, rows, snapshot>>
    PROVE  IInv'
<1>1. /\ Goto(t, next, loc[t]) /\ next # "idle" /\ pc[t] \notin Adopting \cup {"idle"}
      /\ slot' = NoVm /\ procs' = procs \ {slot.id} /\ started' \in BOOLEAN
      /\ UNCHANGED <<nextVm, active, current, ownDef, switchSlot, runVars, rows, snapshot>>
  BY DEF StopTake, Put, Stopping, IInv, Types, NodeTyped, Adopting
<1>2. Moves(t, next, loc[t].vm, loc[t].run) /\ loc'[t].ok = loc[t].ok /\ loc'[t].then = loc[t].then
  BY <1>1, Carries, GotoStays
<1>3. Lands(t, next)
  BY <1>1, <1>2, Carries DEF Lands, Stopping, SwitchLocs, RunLocs, WithRun
<1>4. loc[t].alone => AloneKnows(t)'
  BY <1>1, <1>2, Carries DEF AloneKnows, Untouched, Stopping, Moves
<1> QED
  BY <1>1, <1>2, <1>3, <1>4, EmptiedMoves

LEMMA StopClearKeeps ==
    ASSUME IInv, NEW t \in Threads, NEW next, Clearing(t, next), StopClear(t, next),
           UNCHANGED <<switchSlot, runVars, rows, snapshot>>
    PROVE  IInv'
<1>1. /\ Goto(t, next, loc[t]) /\ next # "idle" /\ pc[t] \notin Adopting \cup {"idle"}
      /\ started' = FALSE /\ active' = NoDef
      /\ UNCHANGED <<slot, procs, nextVm, current, ownDef, switchSlot, runVars, rows, snapshot>>
  BY DEF StopClear, Clearing, Adopting
<1>2. Moves(t, next, loc[t].vm, loc[t].run) /\ loc'[t].ok = loc[t].ok /\ loc'[t].then = loc[t].then
  BY <1>1, Carries, GotoStays
<1>3. Lands(t, next)
  BY <1>1, <1>2, Carries DEF Lands, Clearing, SwitchLocs, RunLocs, WithRun
<1>4. loc[t].alone => AloneKnows(t)'
  BY <1>1, <1>2, Carries DEF AloneKnows, Stopped, Clearing, Moves
<1>5. SlotPart'
  BY <1>1, <1>2, SlotKept DEF IInv, Moves
<1>6. NodeTyped' /\ CurrentIsLastRow'
  BY <1>1, <1>2 DEF IInv, Types, NodeTyped, CurrentIsLastRow, Moves, runVars, Def
<1> QED
  BY <1>1, <1>2, <1>3, <1>4, <1>5, <1>6, MovesKeep

LEMMA StartFailsKeeps ==
    ASSUME IInv, NEW t \in Threads, NEW again, NEW failed,
           \/ pc[t] = "sw_start" /\ again = "sw_start" /\ failed = "sw_finish"
           \/ pc[t] = "rs_start" /\ again = "rs_start" /\ failed = "rs_finish",
           StartFails(t, again, failed), UNCHANGED <<switchSlot, runVars, rows, snapshot>>
    PROVE  IInv'
<1>1. PICK where \in {again, failed} :
        Goto(t, where, [loc[t] EXCEPT !.attempt = loc[t].attempt + 1])
  BY DEF StartFails
<1>2. where # "idle" /\ pc[t] \notin Adopting \cup {"idle"} /\ Untouching
  BY <1>1 DEF StartFails, Adopting, Untouching, IInv, Types, NodeTyped
<1>3. Moves(t, where, loc[t].vm, loc[t].run) /\ loc'[t].ok = loc[t].ok /\ loc'[t].then = loc[t].then
  BY <1>1, <1>2, Carries, GotoWithAttempt
<1>4. Lands(t, where)
  BY <1>2, <1>3, Carries DEF Lands, SwitchLocs, RunLocs, WithRun
<1>5. loc[t].alone => AloneKnows(t)'
  BY <1>2, <1>3, Carries DEF AloneKnows, Stopped, Moves, Untouching, nodeVars
<1> QED
  BY <1>2, <1>3, <1>4, <1>5, QuietMoves

LEMMA StartSucceedsKeeps ==
    ASSUME IInv, NEW t \in Threads, NEW next, NEW def \in Def,
           \/ pc[t] = "sw_start" /\ next = "sw_adopt"
           \/ pc[t] = "rs_start" /\ next = "rs_adopt",
           StartSucceeds(t, def, next), UNCHANGED <<switchSlot, runVars, rows, snapshot>>
    PROVE  IInv'
<1>1. /\ nextVm <= MaxVms /\ nextVm' = nextVm + 1 /\ procs' = procs \cup {nextVm}
      /\ Goto(t, next, [loc[t] EXCEPT !.vm = Spawned(def)])
      /\ UNCHANGED <<slot, started, active, current, ownDef, switchSlot, runVars, rows, snapshot>>
      /\ next # "idle" /\ next \in Adopting /\ pc[t] \notin Adopting \cup {"idle"}
  BY DEF StartSucceeds, Adopting
<1>2. /\ Moves(t, next, Spawned(def), loc[t].run)
      /\ loc'[t].ok = loc[t].ok /\ loc'[t].then = loc[t].then
  BY <1>1, Carries, GotoWithVm
<1>3. Spawned(def) \in Vm /\ Spawned(def).id = nextVm /\ nextVm < nextVm' /\ nextVm <= nextVm'
  BY <1>1, Carries, SandboxAssumption DEF Spawned, Vm
<1>4. NodeTyped'
  <2>1. NodeTyped /\ ops' = ops /\ UNCHANGED runVars
    BY <1>2 DEF IInv, Types, Moves
  <2>2. nextVm' \in 1 .. MaxVms + 1 /\ slot'.id < nextVm' /\ slot' \in Vm
    BY <1>1, <2>1, SandboxAssumption DEF NodeTyped, Vm
  <2>3. procs' \subseteq 1 .. nextVm' - 1
    BY <1>1, <2>1, SandboxAssumption DEF NodeTyped
  <2> QED
    BY <1>1, <2>1, <2>2, <2>3 DEF NodeTyped, runVars
<1>5. Types'
  BY <1>1, <1>2, <1>3, <1>4, Carries, MovesTyped DEF IInv, LocTyped, SwitchLocs, RunLocs
<1>6. SlotPart'
  BY <1>1, <1>2, <1>3, SlotStarted DEF IInv, Moves
<1>7. RunPart'
  BY <1>1, <1>2, RunKept, Carries DEF IInv, Moves, WithRun, SwitchLocs, NoRun
<1>8. loc[t].alone => AloneKnows(t)'
  BY <1>1, <1>2, Carries DEF AloneKnows, Stopped, Moves
<1>9. AlonePart'
  BY <1>1, <1>2, <1>8, AloneKept DEF IInv, Moves
<1>10. CurrentIsLastRow'
  BY <1>1 DEF IInv, CurrentIsLastRow
<1> QED
  BY <1>5, <1>6, <1>7, <1>9, <1>10 DEF IInv

LEMMA SwitchStopKeeps ==
    ASSUME IInv, NEW t \in Threads, SwitchStop(t)
    PROVE  IInv'
BY StopTakeKeeps, StopClearKeeps DEF SwitchStop, At, Stopping, Clearing

LEMMA SwitchStartKeeps ==
    ASSUME IInv, NEW t \in Threads, SwitchStart(t)
    PROVE  IInv'
<1>1. pc[t] = "sw_start" /\ UNCHANGED <<switchSlot, runVars, rows, snapshot>>
  BY DEF SwitchStart, At
<1>2. CASE StartSucceeds(t, loc[t].name, "sw_adopt")
  BY <1>1, <1>2, StartSucceedsKeeps, Carries DEF LocTyped
<1>3. CASE StartFails(t, "sw_start", "sw_finish")
  BY <1>1, <1>3, StartFailsKeeps
<1>4. CASE Goto(t, "sw_finish", loc[t]) /\ UNCHANGED nodeVars
  <2>1. /\ Moves(t, "sw_finish", loc[t].vm, loc[t].run)
        /\ loc'[t].ok = loc[t].ok /\ loc'[t].then = loc[t].then
    BY <1>4, Carries, GotoStays
  <2>2. Untouching
    BY <1>1, <1>4 DEF Untouching, IInv, Types, NodeTyped
  <2>3. Lands(t, "sw_finish")
    BY <1>1, <2>1, Carries DEF Lands, SwitchLocs, RunLocs, WithRun
  <2>4. loc[t].alone => AloneKnows(t)'
    BY <1>1, <1>4, <2>1, Carries DEF AloneKnows, Stopped, Moves, nodeVars
  <2> QED
    BY <1>1, <2>1, <2>2, <2>3, <2>4, QuietMoves DEF Adopting
<1> QED
  BY <1>2, <1>3, <1>4 DEF SwitchStart

(* The VM that was started is adopted, in a switch and in a restore. *)
LEMMA AdoptKeeps ==
    ASSUME IInv, NEW t \in Threads, NEW next,
           \/ pc[t] = "sw_adopt" /\ next = "sw_record"
           \/ pc[t] = "rs_adopt" /\ next = "rs_record",
           Put(loc[t].vm), Goto(t, next, [loc[t] EXCEPT !.ok = TRUE]),
           UNCHANGED <<nextVm, started, active, current, ownDef, switchSlot, runVars, rows, snapshot>>
    PROVE  IInv'
<1>1. next # "idle" /\ pc[t] # "idle" /\ slot' = loc[t].vm /\ procs' = procs \ {slot.id}
  BY DEF Put
<1>2. /\ Moves(t, next, loc[t].vm, loc[t].run)
      /\ loc'[t].ok = TRUE /\ loc'[t].then = loc[t].then
  BY <1>1, Carries, GotoWithOk
<1>3. Lands(t, next)
  BY <1>2, Carries DEF Lands, SwitchLocs, RunLocs, WithRun
<1>4. loc[t].alone => AloneKnows(t)'
  BY <1>1, <1>2 DEF AloneKnows, Moves
<1>5. SlotPart'
  BY <1>1, <1>2, SlotFilled DEF IInv, Moves
<1>6. NodeTyped' /\ CurrentIsLastRow'
  BY <1>1, <1>2, Carries DEF IInv, Types, NodeTyped, CurrentIsLastRow, Moves, runVars, LocTyped
<1> QED
  BY <1>1, <1>2, <1>3, <1>4, <1>5, <1>6, MovesKeep

LEMMA SwitchAdoptKeeps ==
    ASSUME IInv, NEW t \in Threads, SwitchAdopt(t)
    PROVE  IInv'
BY AdoptKeeps DEF SwitchAdopt, At

LEMMA SwitchRecordKeeps ==
    ASSUME IInv, NEW t \in Threads, SwitchRecord(t)
    PROVE  IInv'
<1> DEFINE row == [name |-> loc[t].name, from |-> loc[t].from]
<1>1. /\ pc[t] = "sw_record" /\ started' = TRUE /\ rows' = Append(rows, row)
      /\ current' = loc[t].name /\ ownDef' = loc[t].name /\ active' = loc[t].name
      /\ Goto(t, "sw_finish", loc[t])
      /\ UNCHANGED <<slot, procs, nextVm, switchSlot, runVars, snapshot>>
  BY DEF SwitchRecord, At
<1>2. /\ Moves(t, "sw_finish", loc[t].vm, loc[t].run)
      /\ loc'[t].ok = loc[t].ok /\ loc'[t].then = loc[t].then
  BY <1>1, Carries, GotoStays
<1>3. Lands(t, "sw_finish")
  BY <1>1, <1>2, Carries DEF Lands, SwitchLocs, RunLocs, WithRun
<1>4. loc[t].alone => AloneKnows(t)'
  BY <1>1, <1>2, Carries DEF AloneKnows, Moves
<1>5. SlotPart'
  BY <1>1, <1>2, SlotKept DEF IInv, Moves, Adopting
<1>6. /\ loc[t].name \in Defs /\ loc[t].name \in Def /\ row \in [name : Defs, from : Def]
      /\ row.name = loc[t].name
  BY <1>1, Carries DEF LocTyped, SwitchLocs
<1>7. rows \in Seq([name : Defs, from : Def])
  BY DEF IInv, Types, NodeTyped
<1> HIDE DEF row
<1>8. rows' \in Seq([name : Defs, from : Def]) /\ Len(rows') = Len(rows) + 1 /\ rows'[Len(rows')] = row
  BY <1>1, <1>6, <1>7
<1>9. NodeTyped'
  BY <1>1, <1>2, <1>6, <1>8 DEF IInv, Types, NodeTyped, Moves, runVars
<1>10. CurrentIsLastRow'
  <2>1. rows' # <<>>
    BY <1>7, <1>8
  <2> QED
    BY <1>1, <1>6, <1>8, <2>1 DEF CurrentIsLastRow, Last
<1> QED
  BY <1>1, <1>2, <1>3, <1>4, <1>5, <1>9, <1>10, MovesKeep

LEMMA SwitchFinishKeeps ==
    ASSUME IInv, NEW t \in Threads, SwitchFinish(t)
    PROVE  IInv'
<1>1. /\ pc[t] = "sw_finish" /\ switchSlot' = NoDef /\ Goto(t, "idle", NoLoc)
      /\ UNCHANGED <<nodeVars, runVars, rows, snapshot>>
  BY DEF SwitchFinish, At
<1>2. Rests(t) /\ Untouching /\ loc[t].run = 0
  BY <1>1, Carries, GotoRests DEF Untouching, Def, SwitchLocs
<1> QED
  BY <1>1, <1>2, QuietRests DEF Adopting

(* A look at the slot from inside a run. *)
LEMMA LookKeeps ==
    ASSUME IInv, NEW t \in Threads, NEW next, Look(t, next, loc[t]),
           \/ pc[t] = "run_look" /\ next = "run_check"
           \/ pc[t] = "run_before" /\ next = "run_begin"
           \/ pc[t] = "run_loop" /\ next = "run_mark",
           UNCHANGED <<nodeVars, switchSlot, runVars, rows, snapshot>>
    PROVE  IInv'
<1>1. loc[t].name \in Defs /\ next # "idle" /\ pc[t] \notin Adopting \cup {"idle"} /\ Untouching
  BY Carries DEF Adopting, RunLocs, Untouching, IInv, Types, NodeTyped
<1>2. loc[t].run # 0 => next = "run_mark"
  BY NoRunYet DEF IInv, WithRun
<1>3. PICK where \in {next, "clean"} :
        /\ Moves(t, where, loc[t].vm, loc[t].run)
        /\ loc'[t].then = IF where = "clean" THEN next ELSE loc[t].then
  BY <1>1, Carries, LookMoves
<1>4. Lands(t, where)
  BY <1>1, <1>2, <1>3, Carries DEF Lands, WithRun, Thens
<1>5. AloneKnows(t)'
  BY <1>3 DEF AloneKnows, Moves
<1> QED
  BY <1>1, <1>3, <1>4, <1>5, QuietMoves

(* A run is refused before it began. *)
LEMMA RunRefused ==
    ASSUME IInv, NEW t \in Threads, pc[t] \in {"run_check", "run_before"}, NEW rec,
           Goto(t, "idle", rec), UNCHANGED <<nodeVars, switchSlot, runVars, rows, snapshot>>
    PROVE  IInv'
<1>1. Rests(t) /\ Untouching /\ loc[t].run = 0
  BY Carries, GotoRests, NoRunYet DEF Untouching, IInv, Types, NodeTyped, WithRun
<1> QED
  BY <1>1, QuietRests DEF Adopting

LEMMA RunCheckKeeps ==
    ASSUME IInv, NEW t \in Threads, RunCheck(t)
    PROVE  IInv'
<1>1. CASE At(t, "run_look") /\ Look(t, "run_check", loc[t])
  BY <1>1, LookKeeps DEF RunCheck, At
<1>2. CASE At(t, "run_check") /\ Goto(t, "idle", NoLoc)
  BY <1>2, RunRefused DEF RunCheck, At
<1>3. CASE At(t, "run_check") /\ Goto(t, "run_before", loc[t])
  <2>1. pc[t] = "run_check" /\ UNCHANGED <<nodeVars, switchSlot, runVars, rows, snapshot>>
    BY <1>3 DEF RunCheck, At
  <2>2. /\ Moves(t, "run_before", loc[t].vm, loc[t].run)
        /\ loc'[t].ok = loc[t].ok /\ loc'[t].then = loc[t].then
    BY <1>3, Carries, GotoStays
  <2>3. Untouching /\ loc[t].run = 0
    BY <2>1, NoRunYet DEF Untouching, IInv, Types, NodeTyped, WithRun
  <2>4. Lands(t, "run_before")
    BY <2>1, <2>2, <2>3, Carries DEF Lands, RunLocs
  <2>5. AloneKnows(t)'
    BY <2>2 DEF AloneKnows, Moves
  <2> QED
    BY <2>1, <2>2, <2>3, <2>4, <2>5, QuietMoves DEF Adopting
<1> QED
  BY <1>1, <1>2, <1>3 DEF RunCheck

LEMMA RunBeforeKeeps ==
    ASSUME IInv, NEW t \in Threads, RunBefore(t)
    PROVE  IInv'
BY LookKeeps, RunRefused DEF RunBefore, At

LEMMA RunAfterKeeps ==
    ASSUME IInv, NEW t \in Threads, RunAfter(t)
    PROVE  IInv'
BY LookKeeps DEF RunAfter, At

LEMMA RunMarkKeeps ==
    ASSUME IInv, NEW t \in Threads, RunMark(t)
    PROVE  IInv'
<1>1. /\ pc[t] = "run_mark" /\ Goto(t, "run_finish", loc[t])
      /\ started' = loc[t].ok
      /\ active' = IF loc[t].ok /\ ~loc[t].before THEN loc[t].name ELSE active
      /\ UNCHANGED <<slot, procs, nextVm, current, ownDef, switchSlot, runVars, rows, snapshot>>
  BY DEF RunMark, At
<1>2. /\ Moves(t, "run_finish", loc[t].vm, loc[t].run)
      /\ loc'[t].ok = loc[t].ok /\ loc'[t].then = loc[t].then
  BY <1>1, Carries, GotoStays
<1>3. Lands(t, "run_finish")
  BY <1>1, <1>2, Carries DEF Lands, RunLocs, WithRun
<1>4. AloneKnows(t)'
  BY <1>2 DEF AloneKnows, Moves
<1>5. SlotPart'
  BY <1>1, <1>2, SlotKept DEF IInv, Moves, Adopting
<1>6. NodeTyped' /\ CurrentIsLastRow'
  <2>1. NodeTyped /\ loc[t].name \in Def /\ loc[t].ok \in BOOLEAN
    BY Carries DEF IInv, Types, LocTyped
  <2>2. active' \in Def /\ started' \in BOOLEAN
    BY <1>1, <2>1 DEF NodeTyped
  <2> QED
    BY <1>1, <1>2, <2>1, <2>2 DEF IInv, NodeTyped, CurrentIsLastRow, Moves, runVars
<1> QED
  BY <1>1, <1>2, <1>3, <1>4, <1>5, <1>6, MovesKeep

(* begin_run and finish_run, in an agent run and in a restore. *)
LEMMA BeginKeeps ==
    ASSUME IInv, NEW t \in Threads, NEW where, NEW b \in BOOLEAN,
           \/ pc[t] = "run_begin" /\ where = "run_loop"
           \/ pc[t] = "rs_begin" /\ where = "rs_lease",
           BeginRun(t, where, [loc[t] EXCEPT !.before = b]) \/ BeginRun(t, where, loc[t]),
           UNCHANGED <<nodeVars, switchSlot, rows, snapshot>>
    PROVE  IInv'
<1>1. where # "idle" /\ where \in WithRun /\ pc[t] \notin Adopting \cup {"idle"}
  BY DEF WithRun, Adopting
<1>2. PICK run \in {loc[t].call, loc[t].run} :
        /\ Moves(t, where, loc[t].vm, run) /\ loc'[t].ok = loc[t].ok /\ loc'[t].then = loc[t].then
        /\ \/ /\ run = loc[t].call /\ currentRun' = run
              /\ runsOpen' = runsOpen \cup {run} /\ failures' = failures
           \/ /\ run = loc[t].run /\ UNCHANGED <<currentRun, runsOpen>>
              /\ failures' = failures + 1
  BY <1>1, Carries, BeginMoves
<1>3. UNCHANGED <<slot, procs, nextVm, started, active, current, ownDef, switchSlot, rows, snapshot>>
  BY DEF nodeVars
<1>4. loc[t].vm \in Vm /\ loc[t].vm.id < nextVm /\ run \in 0 .. MaxOps /\ loc[t].run = 0
  <2>1. loc[t].run = 0
    BY NoRunYet DEF IInv, WithRun
  <2>2. ops <= MaxOps /\ loc[t].call \in 0 .. ops
    BY Carries, SandboxAssumption DEF IInv, Types, NodeTyped, LocTyped
  <2>3. run \in 0 .. MaxOps
    BY <2>1, <2>2, Carries, SandboxAssumption
  <2> QED
    BY <2>1, <2>3, Carries DEF LocTyped
<1>5. NodeTyped'
  <2>1. NodeTyped /\ ops' = ops
    BY <1>2 DEF IInv, Types, Moves
  <2>2. currentRun' \in 0 .. MaxOps /\ runsOpen' \subseteq 0 .. MaxOps /\ failures' \in Nat
    BY <1>2, <1>4, <2>1 DEF NodeTyped
  <2> QED
    BY <1>3, <2>1, <2>2 DEF NodeTyped
<1>6. Types'
  <2>1. loc[t].name \in Defs \/ where \notin SwitchLocs \cup RunLocs \cup {"clean"}
    BY Carries DEF SwitchLocs, RunLocs
  <2>2. nextVm <= nextVm'
    BY <1>3, Carries
  <2> QED
    BY <1>1, <1>2, <1>3, <1>4, <1>5, <2>1, <2>2, Carries, MovesTyped DEF IInv
<1>7. SlotPart'
  BY <1>1, <1>2, <1>3, SlotKept DEF IInv, Moves
<1>8. RunPart'
  <2>1. /\ RunPart /\ Others(t) /\ loc'[t].run = run /\ loc'[t].call = loc[t].call
        /\ pc'[t] \in WithRun /\ failures \in Nat
    BY <1>1, <1>2 DEF IInv, Moves, Types, NodeTyped
  <2>2. RunOwned'
    BY <1>2, <1>4, <2>1 DEF RunPart, RunOwned, Others, NoRun
  <2>3. CallsDiffer'
    BY <2>1 DEF RunPart, CallsDiffer, Others
  <2>4. RunIdIsLive'
    BY <1>2, <1>4, <2>1 DEF RunPart, RunIdIsLive, Others, NoRun
  <2> QED
    BY <2>2, <2>3, <2>4 DEF RunPart
<1>9. loc[t].alone => AloneKnows(t)'
  BY <1>2, <1>3, Carries DEF AloneKnows, Untouched, Moves
<1>10. AlonePart'
  BY <1>1, <1>2, <1>9, AloneKept DEF IInv, Moves
<1>11. CurrentIsLastRow'
  BY <1>3 DEF IInv, CurrentIsLastRow
<1> QED
  BY <1>6, <1>7, <1>8, <1>10, <1>11 DEF IInv

LEMMA FinishKeeps ==
    ASSUME IInv, NEW t \in Threads, pc[t] \in {"run_finish", "rs_finish"}, FinishRun(t),
           UNCHANGED <<nodeVars, switchSlot, rows, snapshot>>
    PROVE  IInv'
<1>1. Rests(t) /\ UNCHANGED <<slot, procs, nextVm, started, active, current, ownDef, switchSlot,
                              rows, snapshot>>
  BY Carries, GotoRests DEF FinishRun, nodeVars
<1>2. loc'[t].vm = NoVm /\ loc'[t].run = 0 /\ loc'[t].call = 0
  BY <1>1, NoLocTyped DEF IInv, Types, Rests
<1>3. NodeTyped /\ RunPart /\ Others(t) /\ ops' = ops
  BY <1>1 DEF IInv, Types, Rests
<1>4. /\ failures' \in Nat /\ failures' >= failures /\ runsOpen' \subseteq runsOpen
      /\ currentRun' \in {0, currentRun}
  BY <1>3 DEF FinishRun, Refused, NoRun, NodeTyped
<1>5. NodeTyped'
  BY <1>1, <1>3, <1>4, SandboxAssumption DEF NodeTyped
<1>6. SlotPart'
  BY <1>1, <1>2, SlotKept DEF IInv, Rests, Adopting
<1>7. RunPart'
  <2>1. CASE loc[t].run = NoRun /\ UNCHANGED <<currentRun, runsOpen, failures>>
    BY <1>2, <1>3, <2>1, RunKept DEF runVars, NoRun
  <2>2. CASE /\ loc[t].run # NoRun /\ runsOpen' = runsOpen \ {loc[t].run}
             /\ currentRun' = IF currentRun = loc[t].run THEN NoRun ELSE currentRun
             /\ failures' = failures
    <3>1. \A u \in Threads \ {t} : loc[u].run # NoRun => loc[u].run # loc[t].run
      BY <1>3, <2>2 DEF RunPart, RunOwned, CallsDiffer, NoRun
    <3>2. RunOwned'
      BY <1>2, <1>3, <2>2, <3>1 DEF RunPart, RunOwned, Others, NoRun
    <3>3. CallsDiffer'
      BY <1>2, <1>3 DEF RunPart, CallsDiffer, Others
    <3>4. RunIdIsLive'
      BY <1>3, <2>2 DEF RunPart, RunIdIsLive, Others, NoRun
    <3> QED
      BY <3>2, <3>3, <3>4 DEF RunPart
  <2>3. CASE loc[t].run # NoRun /\ Refused /\ UNCHANGED <<currentRun, runsOpen>>
    <3>1. RunOwned'
      BY <1>2, <1>3, <2>3 DEF RunPart, RunOwned, Others, NoRun
    <3>2. CallsDiffer'
      BY <1>2, <1>3 DEF RunPart, CallsDiffer, Others
    <3>3. failures' > 0
      BY <1>3, <2>3 DEF Refused, NodeTyped
    <3>4. loc[t].run \in runsOpen
      BY <1>3, <2>3 DEF RunPart, RunOwned
    <3>5. RunIdIsLive'
      BY <1>3, <2>3, <3>3, <3>4 DEF RunPart, RunIdIsLive, Others
    <3> QED
      BY <3>1, <3>2, <3>5 DEF RunPart
  <2> QED
    BY <2>1, <2>2, <2>3 DEF FinishRun
<1>8. CurrentIsLastRow'
  BY <1>1 DEF IInv, CurrentIsLastRow
<1> QED
  BY <1>1, <1>5, <1>6, <1>7, <1>8, RestsKeep

LEMMA RunBeginKeeps ==
    ASSUME IInv, NEW t \in Threads, RunBegin(t)
    PROVE  IInv'
BY BeginKeeps, Carries DEF RunBegin, At, LocTyped

LEMMA RunFinishKeeps ==
    ASSUME IInv, NEW t \in Threads, RunFinish(t) \/ RestoreFinish(t)
    PROVE  IInv'
BY FinishKeeps DEF RunFinish, RestoreFinish, At

LEMMA RestoreBeginKeeps ==
    ASSUME IInv, NEW t \in Threads, RestoreBegin(t)
    PROVE  IInv'
<1>1. TRUE \in BOOLEAN
  OBVIOUS
<1> QED
  BY <1>1, BeginKeeps DEF RestoreBegin, At

LEMMA RestoreStopKeeps ==
    ASSUME IInv, NEW t \in Threads, RestoreStop(t)
    PROVE  IInv'
<1>1. CASE At(t, "rs_lease") /\ Goto(t, "rs_finish", loc[t]) /\ UNCHANGED nodeVars
  <2>1. pc[t] = "rs_lease" /\ UNCHANGED <<switchSlot, runVars, rows, snapshot>>
    BY <1>1 DEF RestoreStop, At
  <2>2. /\ Moves(t, "rs_finish", loc[t].vm, loc[t].run)
        /\ loc'[t].ok = loc[t].ok /\ loc'[t].then = loc[t].then
    BY <1>1, Carries, GotoStays
  <2>3. Untouching
    BY <1>1, <2>1 DEF Untouching, IInv, Types, NodeTyped
  <2>4. Lands(t, "rs_finish")
    BY <2>2, Carries DEF Lands, SwitchLocs, RunLocs, WithRun
  <2>5. loc[t].alone => AloneKnows(t)'
    BY <1>1, <2>1, <2>2, Carries DEF AloneKnows, Untouched, Moves, nodeVars
  <2> QED
    BY <2>1, <2>2, <2>3, <2>4, <2>5, QuietMoves DEF Adopting
<1>2. CASE At(t, "rs_lease") /\ StopTake(t, "rs_clear")
  BY <1>2, StopTakeKeeps DEF RestoreStop, At, Stopping
<1>3. CASE At(t, "rs_clear") /\ StopClear(t, "rs_start")
  BY <1>3, StopClearKeeps DEF RestoreStop, At, Clearing
<1> QED
  BY <1>1, <1>2, <1>3 DEF RestoreStop

LEMMA RestoreStartKeeps ==
    ASSUME IInv, NEW t \in Threads, RestoreStart(t)
    PROVE  IInv'
BY StartSucceedsKeeps, StartFailsKeeps DEF RestoreStart, At, Def

LEMMA RestoreAdoptKeeps ==
    ASSUME IInv, NEW t \in Threads, RestoreAdopt(t)
    PROVE  IInv'
<1>1. CASE At(t, "rs_adopt")
  <2>1. /\ Put(loc[t].vm) /\ Goto(t, "rs_record", [loc[t] EXCEPT !.ok = TRUE])
        /\ UNCHANGED <<nextVm, started, active, current, ownDef, switchSlot, runVars, rows, snapshot>>
    BY <1>1 DEF RestoreAdopt, At
  <2> QED
    BY <1>1, <2>1, AdoptKeeps DEF At
<1>2. CASE At(t, "rs_record")
  <2>1. /\ pc[t] = "rs_record" /\ started' = TRUE /\ active' = current
        /\ Goto(t, "rs_finish", loc[t])
        /\ UNCHANGED <<slot, procs, nextVm, current, ownDef, switchSlot, runVars, rows, snapshot>>
    BY <1>2 DEF RestoreAdopt, At
  <2>2. /\ Moves(t, "rs_finish", loc[t].vm, loc[t].run)
        /\ loc'[t].ok = loc[t].ok /\ loc'[t].then = loc[t].then
    BY <2>1, Carries, GotoStays
  <2>3. Lands(t, "rs_finish")
    BY <2>2, Carries DEF Lands, SwitchLocs, RunLocs, WithRun
  <2>4. loc[t].alone => AloneKnows(t)'
    BY <2>1, <2>2, Carries DEF AloneKnows, Moves
  <2>5. SlotPart'
    BY <2>1, <2>2, SlotKept DEF IInv, Moves, Adopting
  <2>6. NodeTyped' /\ CurrentIsLastRow'
    BY <2>1, <2>2 DEF IInv, Types, NodeTyped, CurrentIsLastRow, Moves, runVars
  <2> QED
    BY <2>1, <2>2, <2>3, <2>4, <2>5, <2>6, MovesKeep
<1> QED
  BY <1>1, <1>2 DEF RestoreAdopt

LEMMA StepKeeps ==
    ASSUME IInv, NEW t \in Threads, Step(t)
    PROVE  IInv'
BY CleanUpKeeps, PollLookKeeps, SwitchBeginKeeps, SwitchCheckKeeps, SwitchStopKeeps,
   SwitchStartKeeps, SwitchAdoptKeeps, SwitchRecordKeeps, SwitchFinishKeeps, RunCheckKeeps,
   RunBeforeKeeps, RunBeginKeeps, RunAfterKeeps, RunMarkKeeps, RunFinishKeeps,
   RestoreBeginKeeps, RestoreStopKeeps, RestoreStartKeeps, RestoreAdoptKeeps
   DEF Step

-----------------------------------------------------------------------------
(* Steps that leave every thread where it stands. *)
LEMMA ThreadsStand ==
    ASSUME IInv, UNCHANGED <<ops, pc, loc>>, NodeTyped', nextVm <= nextVm', UNCHANGED runVars
    PROVE  Types' /\ RunPart'
<1>1. ASSUME NEW t \in Threads
      PROVE  LocTyped(loc[t])'
  <2>1. LocTyped(loc[t]) /\ nextVm \in Nat /\ loc[t].vm.id \in Nat /\ nextVm' \in Nat
    BY Carries, SandboxAssumption DEF LocTyped, Vm, NodeTyped
  <2>2. loc[t].vm.id < nextVm'
    BY <2>1 DEF LocTyped
  <2> QED
    BY <2>1, <2>2 DEF LocTyped
<1>2. Types'
  BY <1>1 DEF IInv, Types, ThreadsTyped, ThreadTyped
<1>3. RunPart'
  BY DEF IInv, RunPart, RunOwned, CallsDiffer, RunIdIsLive, runVars
<1> QED
  BY <1>2, <1>3

LEMMA ToolsKeep ==
    ASSUME IInv, NEW t \in Threads, ToolStartVm(t) \/ ToolStopVm(t)
    PROVE  IInv'
<1>1. /\ pc[t] = "run_loop" /\ loc[t].name \in Defs
      /\ UNCHANGED <<started, active, current, ownDef, switchSlot, runVars, rows,
                     snapshot, ops, pc, loc>>
  BY Carries DEF ToolStartVm, ToolStopVm, At, RunLocs
<1>2. AlonePart'
  <2>1. \A u \in Threads : loc[u].alone => u = t
    BY <1>1 DEF IInv, AlonePart, Alone
  <2>2. AloneKnows(t)'
    BY <1>1 DEF AloneKnows
  <2> QED
    BY <1>1, <2>1, <2>2 DEF IInv, AlonePart, Alone
<1>3. CurrentIsLastRow'
  BY <1>1 DEF IInv, CurrentIsLastRow
<1>4. CASE ToolStartVm(t)
  <2>1. /\ slot = NoVm /\ nextVm <= MaxVms /\ slot' = Spawned(loc[t].name)
        /\ procs' = procs \cup {nextVm} /\ nextVm' = nextVm + 1
    BY <1>4 DEF ToolStartVm
  <2>2. slot' \in Vm /\ slot'.id = nextVm
    BY <1>1, <2>1, Carries, SandboxAssumption DEF Spawned, Vm, Def
  <2>3. NodeTyped'
    <3>1. NodeTyped
      BY DEF IInv, Types
    <3>2. nextVm' \in 1 .. MaxVms + 1 /\ slot'.id < nextVm' /\ procs' \subseteq 1 .. nextVm' - 1
      BY <2>1, <2>2, <3>1, SandboxAssumption DEF NodeTyped
    <3> QED
      BY <1>1, <2>2, <3>1, <3>2 DEF NodeTyped, runVars
  <2>4. slot.id = 0 /\ 0 \notin procs /\ \A u \in Threads : loc[u].vm.id # nextVm
    BY <2>1, NoLocTyped, Carries DEF IInv, Types, NodeTyped, LocTyped, Vm
  <2>5. NoLostProcess'
    BY <1>1, <2>1, <2>2, <2>4 DEF IInv, SlotPart, NoLostProcess
  <2>6. Adopted'
    BY <1>1, <2>1, <2>4 DEF IInv, SlotPart, Adopted
  <2>7. Types' /\ RunPart'
    BY <1>1, <2>1, <2>3, Carries, ThreadsStand
  <2> QED
    BY <1>2, <1>3, <2>5, <2>6, <2>7 DEF IInv, SlotPart
<1>5. CASE ToolStopVm(t)
  <2>1. slot' = NoVm /\ procs' = procs \ {slot.id} /\ nextVm' = nextVm
    BY <1>5 DEF ToolStopVm, Put
  <2>2. NodeTyped'
    BY <1>1, <2>1, EmptiedTyped DEF IInv, Types, NodeTyped
  <2>3. SlotPart'
    BY <1>1, <2>1, SlotEmptied DEF IInv, Types, ThreadsTyped, Others, Adopting
  <2>4. Types' /\ RunPart'
    BY <1>1, <2>1, <2>2, Carries, ThreadsStand
  <2> QED
    BY <1>2, <1>3, <2>3, <2>4 DEF IInv
<1> QED
  BY <1>4, <1>5

LEMMA WorldKeeps ==
    ASSUME IInv, CancelSwitch \/ GuestDies \/ SaveSnapshot \/ DeleteSnapshot \/ UNCHANGED vars
    PROVE  IInv'
<1>1. /\ procs' \subseteq procs
      /\ switchSlot' \in Def /\ snapshot' \in {"absent", "partial", "whole"}
      /\ UNCHANGED <<slot, nextVm, started, active, current, ownDef, runVars, rows, ops, pc, loc>>
  <2>1. switchSlot \in Def /\ snapshot \in {"absent", "partial", "whole"} /\ NoDef \in Def
    BY DEF IInv, Types, NodeTyped, Def
  <2> QED
    BY <2>1 DEF CancelSwitch, GuestDies, SaveSnapshot, DeleteSnapshot, vars, nodeVars
<1>2. NodeTyped'
  BY <1>1 DEF IInv, Types, NodeTyped, runVars
<1>3. Types' /\ RunPart'
  BY <1>1, <1>2, NoLocTyped, ThreadsStand DEF IInv, Types
<1>4. SlotPart'
  BY <1>1 DEF IInv, SlotPart, NoLostProcess, Adopted
<1>5. AlonePart'
  BY <1>1 DEF IInv, AlonePart, Alone, AloneKnows, Untouched, Stopped
<1>6. CurrentIsLastRow'
  BY <1>1 DEF IInv, CurrentIsLastRow
<1> QED
  BY <1>3, <1>4, <1>5, <1>6 DEF IInv

LEMMA IInvInit == Init => IInv
<1> SUFFICES ASSUME Init PROVE IInv
  OBVIOUS
<1>1. NodeTyped
  <2>1. 1 \in 1 .. MaxVms + 1 /\ 0 \in 0 .. MaxOps /\ 0 \in 0 .. MaxVms
    BY SandboxAssumption
  <2>2. NoVm \in Vm /\ NoVm.id = 0
    BY <2>1 DEF NoVm, Vm, Def
  <2>3. /\ slot \in Vm /\ slot.id < nextVm /\ nextVm \in 1 .. MaxVms + 1 /\ procs = {}
        /\ ops \in 0 .. MaxOps /\ currentRun \in 0 .. MaxOps /\ runsOpen = {} /\ failures \in Nat
    BY <2>1, <2>2 DEF Init, NoRun
  <2>4. active \in Def /\ current \in Def /\ ownDef \in Def /\ switchSlot \in Def
    BY DEF Init, Def
  <2>5. rows \in Seq([name : Defs, from : Def])
    BY DEF Init
  <2>6. started \in BOOLEAN /\ snapshot \in {"absent", "partial", "whole"}
    BY DEF Init
  <2> QED
    BY <2>3, <2>4, <2>5, <2>6 DEF NodeTyped
<1>2. \A t \in Threads : ThreadTyped(t)
  BY <1>1, NoLocTyped DEF Init, ThreadTyped, SwitchLocs, RunLocs
<1>3. Types
  BY <1>1, <1>2 DEF Init, Types, ThreadsTyped
<1>4. \A t \in Threads : loc[t].vm.id = 0 /\ loc[t].run = 0 /\ loc[t].call = 0 /\ ~loc[t].alone
  BY <1>1, NoLocTyped DEF Init
<1>5. SlotPart /\ RunPart /\ AlonePart /\ CurrentIsLastRow
  BY <1>4 DEF Init, SlotPart, NoLostProcess, Adopted, RunPart, RunOwned, CallsDiffer, RunIdIsLive,
              AlonePart, Alone, CurrentIsLastRow, NoRun
<1> QED
  BY <1>3, <1>5 DEF IInv

LEMMA IInvNext == IInv /\ [Next]_vars => IInv'
BY StepKeeps, CallsKeep, ToolsKeep, WorldKeeps DEF Next

LEMMA IInvHolds == Spec => []IInv
BY IInvInit, IInvNext, PTL DEF Spec

LEMMA IInvImplies == IInv => SlotInv /\ AloneIsWhole
<1> SUFFICES ASSUME IInv PROVE SlotInv /\ AloneIsWhole
  OBVIOUS
<1>1. TypeOK
  <2>1. NodeTyped /\ nextVm \in Nat
    BY NoLocTyped DEF IInv, Types
  <2>2. slot.id \in 0 .. MaxVms /\ slot.def \in Def /\ procs \subseteq 1 .. MaxVms
    BY <2>1, SandboxAssumption DEF NodeTyped, Vm
  <2>3. \A t \in Threads : /\ At(t, "idle") => loc[t] = NoLoc
                           /\ At(t, "run_loop") => loc[t].name \in Defs
    BY Named DEF IInv, At, RunLocs
  <2> QED
    BY <2>1, <2>2, <2>3 DEF TypeOK, NodeTyped, Def
<1>2. AloneSwitchIsWhole
  BY DEF IInv, AlonePart, AloneKnows, AloneSwitchIsWhole, At, Stopped, Untouched
<1>3. AloneRestoreIsWhole
  BY DEF IInv, AlonePart, AloneKnows, AloneRestoreIsWhole, At, Stopped, Untouched
<1> QED
  BY <1>1, <1>2, <1>3 DEF IInv, SlotPart, RunPart, SlotInv, AloneIsWhole

-----------------------------------------------------------------------------
(* Whatever switches, runs, restores, tools, polls and clean-ups meet at    *)
(* the slot (switch_sandbox, run_agent_for, resume_from_snapshot_real,      *)
(* tool_start_vm, tool_stop_vm, vm_is_running), and whenever a guest dies:  *)
(* no process is lost, the current run runs or was refused its end, and     *)
(* the current sandbox is the one of the chain's last switch row.           *)
THEOREM SlotIsSound == Spec => []SlotInv
BY IInvHolds, IInvImplies, PTL

(* A switch or a restore no other call ran beside is done or undone, for    *)
(* every number of start attempts and wherever it fails (switch_sandbox,    *)
(* resume_from_snapshot_real).                                              *)
THEOREM LoneCallIsWhole == Spec => []AloneIsWhole
BY IInvHolds, IInvImplies, PTL

-----------------------------------------------------------------------------
(***************************************************************************)
(* Compiler: builds side by side, their scratch directories and the        *)
(* compilers they run, for any processes, machines and numbers.            *)
(***************************************************************************)
CONSTANTS Worlds, Thread, Host, Pids, MaxBuilds, MaxChanges, MaxCrashes, MaxDays
VARIABLES there, env, node, def, pid, seq, dirs, build, reused, changes, crashes, days

C == INSTANCE Compiler

Scratch == [name : Pids \X Nat, files : SUBSET {"crt0", "link"}, old : BOOLEAN]
BuildFields == {"at", "lang", "cfg", "dir", "ran", "killed", "result"}

HostTyped ==
    /\ pid \in [Host -> Pids \cup {0}] /\ seq \in [Host -> Nat] /\ dirs \subseteq Scratch
    /\ reused \in BOOLEAN /\ crashes \in Nat

BuildsTyped == DOMAIN build = Thread /\ \A t \in Thread : DOMAIN build[t] = BuildFields

(* No two processes that are up have one number.                            *)
PidsDiffer == \A g, h \in Host : g # h /\ pid[g] = pid[h] => pid[g] = 0

(* A build's directory bears the number of its process and one that the     *)
(* process has counted.                                                     *)
NamedBy(b, p, s) == p # 0 /\ \E k \in Nat : k < s /\ b.dir = <<p, k>>
DirsNamed == \A t \in Thread : C!Busy(t) => NamedBy(build[t], pid[t.host], seq[t.host])

(* As long as no number has come back, a process meets no directory it has  *)
(* not made itself, and those of its builds are there and not old.          *)
DirsCounted ==
    ~reused => \A d \in dirs, h \in Host : pid[h] # 0 /\ d.name[1] = pid[h] => d.name[2] < seq[h]
Fresh(n) == C!Dir(n) # {} /\ \A d \in C!Dir(n) : ~d.old
BuildsFresh == ~reused => \A t \in Thread : C!Busy(t) => Fresh(build[t].dir)

(* What a build was told to use, and what it ran.                           *)
Told(b) ==
    /\ def = "none" /\ b.lang = "c" /\ node.gcc # "none" => b.cfg.gcc = node.gcc
    /\ def = "none" /\ b.lang = "zig" /\ node.zig # "none" => b.cfg.zig = node.zig
    /\ b.lang = "rust" /\ "rustc-env" \in env => b.cfg.rustc \in {"none", "rustc-env"}
Ran(b) ==
    /\ def = "none" /\ b.lang = "c" /\ node.gcc # "none" => b.ran \in {"none", node.gcc}
    /\ def = "none" /\ b.lang = "zig" /\ node.zig # "none" => b.ran \in {"none", node.zig}
    /\ b.lang = "rust" /\ "rustc-env" \in env => b.ran \in {"none", "rustc-env"}
BuildsTold ==
    \A t \in Thread : /\ build[t].lang \in {"-", "c", "zig", "rust"} /\ Ran(build[t])
                      /\ C!Busy(t) => build[t].lang # "-" /\ Told(build[t])

WorldKnown == node.gcc \notin C!Bare /\ node.zig \notin C!Bare

DirsPart == /\ DirsNamed /\ DirsCounted /\ BuildsFresh /\ C!DirectoriesAreOwn /\ C!ScratchGoesAway
BuildsIInv == /\ C!CompilerAssumption /\ WorldKnown /\ HostTyped /\ BuildsTyped /\ PidsDiffer
              /\ DirsPart /\ BuildsTold

LEMMA BuildsInit == ASSUME C!CompilerAssumption, C!Init PROVE BuildsIInv
<1>1. /\ pid = [h \in Host |-> 0] /\ seq = [h \in Host |-> 0] /\ dirs = {}
      /\ build = [t \in Thread |-> C!NoBuild] /\ reused = FALSE /\ crashes = 0
      /\ \E w \in Worlds : node = w.node
  BY DEF C!Init
<1>2. WorldKnown
  BY <1>1 DEF WorldKnown, C!CompilerAssumption
<1>3. HostTyped /\ PidsDiffer
  BY <1>1 DEF HostTyped, PidsDiffer
<1>4. /\ C!NoBuild.at = "idle" /\ C!NoBuild.lang = "-" /\ DOMAIN C!NoBuild = BuildFields
  BY DEF C!NoBuild, BuildFields
<1>5. \A t \in Thread : build[t] = C!NoBuild /\ ~C!Busy(t)
  BY <1>1, <1>4 DEF C!Busy
<1>6. BuildsTyped
  BY <1>1, <1>4 DEF BuildsTyped
<1>7. BuildsTold
  BY <1>4, <1>5 DEF BuildsTold, Ran
<1>8. DirsPart
  BY <1>1, <1>5 DEF DirsPart, DirsNamed, DirsCounted, BuildsFresh, C!DirectoriesAreOwn, C!ScratchGoesAway
<1> QED
  BY <1>2, <1>3, <1>6, <1>7, <1>8 DEF BuildsIInv

(* rustc by discovery: what the variable names, when it is set.             *)
LEMMA RustcIsNamed ==
    ASSUME "rustc-env" \in env PROVE C!SearchRustc \in {"none", "rustc-env"}
<1> DEFINE vs == <<"rustc-env">>
           set == {i \in DOMAIN vs : vs[i] \in env}
<1>1. DOMAIN vs = {1} /\ vs[1] = "rustc-env"
  OBVIOUS
<1>2. set = {1}
  BY <1>1
<1>3. (CHOOSE i \in set : \A j \in set : i <= j) = 1
  BY <1>2
<1>4. C!SearchRustc = C!FirstOf(<<"rustc-env">>)
  BY <1>1, <1>2, <1>3 DEF C!SearchRustc, C!Search
<1>5. C!FirstOf(<<"rustc-env">>) \in {"none", "rustc-env"}
  <2> DEFINE hits == {i \in DOMAIN vs : vs[i] \in there}
  <2>1. hits \subseteq {1}
    BY <1>1
  <2>2. C!FirstOf(vs) = IF hits = {} THEN "none" ELSE vs[CHOOSE i \in hits : \A j \in hits : i <= j]
    BY DEF C!FirstOf
  <2>3. CASE hits = {}
    BY <2>2, <2>3
  <2>4. CASE hits # {}
    <3>1. hits = {1}
      BY <2>1, <2>4
    <3>2. (CHOOSE i \in hits : \A j \in hits : i <= j) = 1
      BY <3>1
    <3> QED
      BY <1>1, <2>2, <2>4, <3>2
  <2> QED
    BY <2>3, <2>4
<1> QED
  BY <1>4, <1>5

(* toolchain_config and a definition's, as far as the invariant asks.       *)
LEMMA ConfigIsTold ==
    ASSUME NEW t, NEW b, b.cfg = C!Config(t) PROVE Told(b)
<1>1. /\ def = "none" => C!Config(t) = C!NodeConfig
      /\ C!Config(t) \in {C!NodeConfig, C!Manual(def)}
  BY DEF C!Config
<1>2. /\ node.gcc # "none" => C!NodeConfig.gcc = node.gcc
      /\ node.zig # "none" => C!NodeConfig.zig = node.zig
      /\ C!NodeConfig.rustc = C!SearchRustc
  BY DEF C!NodeConfig, C!Manual, C!RustFromEnv
<1>3. C!Manual(def).rustc = C!SearchRustc
  BY DEF C!Manual, C!RustFromEnv
<1> QED
  BY <1>1, <1>2, <1>3, RustcIsNamed DEF Told

(* A build goes on: it keeps its directory and what it was told, and the    *)
(* directories stay where they are and do not age.                          *)
Stays(d, ds) == \E c \in ds : c.name = d.name /\ (d.old => c.old)
LEMMA BuildsGoOn ==
    ASSUME BuildsIInv, DOMAIN build' = Thread,
           \A u \in Thread : /\ DOMAIN build'[u] = BuildFields
                             /\ build'[u].dir = build[u].dir /\ build'[u].lang = build[u].lang
                             /\ build'[u].cfg = build[u].cfg
                             /\ build'[u].at = "idle" <=> build[u].at = "idle"
                             /\ Ran(build'[u]),
           env' = env, node' = node, def' = def, pid' = pid, seq' = seq, reused' = reused,
           crashes' = crashes, dirs' \subseteq Scratch,
           \A d \in dirs' : Stays(d, dirs), \A c \in dirs : \E d \in dirs' : d.name = c.name
    PROVE  BuildsIInv'
<1>1. /\ HostTyped /\ BuildsTyped /\ PidsDiffer /\ DirsPart /\ BuildsTold /\ WorldKnown
      /\ C!CompilerAssumption
  BY DEF BuildsIInv
<1>2. \A u \in Thread : C!Busy(u)' <=> C!Busy(u)
  BY DEF C!Busy
<1>3. HostTyped' /\ BuildsTyped' /\ PidsDiffer' /\ WorldKnown' /\ C!CompilerAssumption'
  BY <1>1 DEF HostTyped, BuildsTyped, PidsDiffer, WorldKnown, C!CompilerAssumption
<1>4. DirsNamed'
  BY <1>1, <1>2 DEF DirsPart, DirsNamed, NamedBy
<1>5. DirsCounted'
  BY <1>1 DEF DirsPart, DirsCounted, Stays
<1>6. ASSUME NEW n, Fresh(n)
      PROVE  (\E d \in dirs' : d.name = n) /\ \A e \in dirs' : e.name = n => ~e.old
  <2>1. PICK c \in dirs : c.name = n
    BY <1>6 DEF Fresh, C!Dir
  <2>2. PICK d \in dirs' : d.name = n
    BY <2>1
  <2>3. ASSUME NEW e \in dirs', e.name = n PROVE ~e.old
    <3>1. PICK f \in dirs : f.name = n /\ (e.old => f.old)
      BY <2>3 DEF Stays
    <3> QED
      BY <1>6, <3>1 DEF Fresh, C!Dir
  <2> QED
    BY <2>2, <2>3
<1>7. BuildsFresh'
  <2> SUFFICES ASSUME ~reused', NEW u \in Thread, C!Busy(u)' PROVE Fresh(build[u].dir)'
    BY DEF BuildsFresh
  <2>1. Fresh(build[u].dir) /\ build'[u].dir = build[u].dir
    BY <1>1, <1>2 DEF DirsPart, BuildsFresh
  <2>2. /\ \E d \in dirs' : d.name = build'[u].dir
        /\ \A e \in dirs' : e.name = build'[u].dir => ~e.old
    BY <2>1, <1>6
  <2> QED
    BY <2>2 DEF Fresh, C!Dir
<1>8. C!DirectoriesAreOwn'
  BY <1>1, <1>2 DEF DirsPart, C!DirectoriesAreOwn
<1>9. C!ScratchGoesAway'
  BY <1>1, <1>2 DEF DirsPart, C!ScratchGoesAway, Stays
<1>10. BuildsTold'
  BY <1>1, <1>2 DEF BuildsTold, Told, Ran
<1> QED
  BY <1>3, <1>4, <1>5, <1>7, <1>8, <1>9, <1>10 DEF BuildsIInv, DirsPart

LEMMA DirsStay == /\ \A d \in dirs : Stays(d, dirs)
                  /\ \A c \in dirs : \E d \in dirs : d.name = c.name
BY DEF Stays

(* Only what a build has run can come into conflict with what it was told.  *)
LEMMA OneGoesOn ==
    ASSUME BuildsIInv, NEW t \in Thread, NEW b, build' = [build EXCEPT ![t] = b],
           DOMAIN b = BuildFields, b.dir = build[t].dir, b.lang = build[t].lang, b.cfg = build[t].cfg,
           b.at # "idle", build[t].at # "idle", Ran(b)
    PROVE  /\ DOMAIN build' = Thread
           /\ \A u \in Thread : /\ DOMAIN build'[u] = BuildFields
                                /\ build'[u].dir = build[u].dir /\ build'[u].lang = build[u].lang
                                /\ build'[u].cfg = build[u].cfg
                                /\ build'[u].at = "idle" <=> build[u].at = "idle"
                                /\ Ran(build'[u])
<1>1. DOMAIN build = Thread /\ \A u \in Thread : DOMAIN build[u] = BuildFields /\ Ran(build[u])
  BY DEF BuildsIInv, BuildsTyped, BuildsTold
<1>2. DOMAIN build' = Thread /\ build'[t] = b /\ \A u \in Thread : u # t => build'[u] = build[u]
  BY <1>1
<1> QED
  BY <1>1, <1>2

LEMMA EndsGoesOn ==
    ASSUME BuildsIInv, NEW t \in Thread, build[t].at # "idle", NEW what, C!Ends(t, what),
           env' = env, node' = node, def' = def, pid' = pid, seq' = seq, reused' = reused,
           crashes' = crashes, dirs' = dirs
    PROVE  BuildsIInv'
<1>1. DOMAIN build = Thread /\ DOMAIN build[t] = BuildFields /\ Ran(build[t]) /\ dirs \subseteq Scratch
  BY DEF BuildsIInv, BuildsTyped, BuildsTold, HostTyped
<1> DEFINE b == [build[t] EXCEPT !.at = "ending", !.result = what]
<1>2. build' = [build EXCEPT ![t] = b]
  BY <1>1 DEF C!Ends
<1>3. /\ DOMAIN b = BuildFields /\ b.dir = build[t].dir /\ b.lang = build[t].lang
      /\ b.cfg = build[t].cfg /\ b.at = "ending" /\ b.ran = build[t].ran
  BY <1>1 DEF BuildFields
<1>4. Ran(b)
  BY <1>1, <1>3 DEF Ran
<1> HIDE DEF b
<1>5. /\ DOMAIN build' = Thread
      /\ \A u \in Thread : /\ DOMAIN build'[u] = BuildFields
                           /\ build'[u].dir = build[u].dir /\ build'[u].lang = build[u].lang
                           /\ build'[u].cfg = build[u].cfg
                           /\ build'[u].at = "idle" <=> build[u].at = "idle"
                           /\ Ran(build'[u])
  BY <1>2, <1>3, <1>4, OneGoesOn
<1> QED
  BY <1>1, <1>5, DirsStay, BuildsGoOn

LEMMA WriteKeeps == ASSUME BuildsIInv, NEW t \in Thread, C!WriteFiles(t) PROVE BuildsIInv'
<1>1. /\ DOMAIN build = Thread /\ DOMAIN build[t] = BuildFields /\ Ran(build[t]) /\ dirs \subseteq Scratch
      /\ build[t].at = "made" /\ build[t].at # "idle"
      /\ env' = env /\ node' = node /\ def' = def /\ pid' = pid /\ seq' = seq
      /\ reused' = reused /\ crashes' = crashes
  BY DEF BuildsIInv, BuildsTyped, BuildsTold, HostTyped, C!WriteFiles, C!world
<1>2. CASE C!Dir(build[t].dir) = {}
  <2>1. C!Ends(t, "error") /\ dirs' = dirs
    BY <1>2 DEF C!WriteFiles
  <2> QED
    BY <1>1, <2>1, EndsGoesOn
<1>3. CASE C!Dir(build[t].dir) # {}
  <2> DEFINE b == [build[t] EXCEPT !.at = "written"]
             fs == C!Files(build[t].lang)
             T(d) == IF d.name # build[t].dir THEN d
                     ELSE [d EXCEPT !.files = d.files \cup fs, !.old = d.old /\ fs \subseteq d.files]
  <2>1. build' = [build EXCEPT ![t] = b] /\ dirs' = {T(d) : d \in dirs}
    BY <1>1, <1>3 DEF C!WriteFiles
  <2>2. /\ DOMAIN b = BuildFields /\ b.dir = build[t].dir /\ b.lang = build[t].lang
        /\ b.cfg = build[t].cfg /\ b.at = "written" /\ b.ran = build[t].ran
    BY <1>1 DEF BuildFields
  <2>3. Ran(b)
    BY <1>1, <2>2 DEF Ran
  <2>4. fs \subseteq {"crt0", "link"}
    BY DEF C!Files
  <2>5. ASSUME NEW d \in dirs PROVE T(d) \in Scratch /\ T(d).name = d.name /\ (T(d).old => d.old)
    <3>1. d \in Scratch
      BY <1>1
    <3> HIDE DEF fs
    <3> QED
      BY <2>4, <3>1 DEF Scratch
  <2> HIDE DEF b, T, fs
  <2>6. /\ dirs' \subseteq Scratch /\ \A d \in dirs' : Stays(d, dirs)
        /\ \A c \in dirs : \E d \in dirs' : d.name = c.name
    BY <2>1, <2>5 DEF Stays
  <2>7. /\ DOMAIN build' = Thread
        /\ \A u \in Thread : /\ DOMAIN build'[u] = BuildFields
                             /\ build'[u].dir = build[u].dir /\ build'[u].lang = build[u].lang
                             /\ build'[u].cfg = build[u].cfg
                             /\ build'[u].at = "idle" <=> build[u].at = "idle"
                             /\ Ran(build'[u])
    BY <1>1, <2>1, <2>2, <2>3, OneGoesOn
  <2> QED
    BY <1>1, <2>6, <2>7, BuildsGoOn
<1> QED
  BY <1>2, <1>3

(* What starts is what the build was told to use.                           *)
LEMMA SpawnKeeps == ASSUME BuildsIInv, NEW t \in Thread, C!Spawn(t) PROVE BuildsIInv'
<1>1. /\ DOMAIN build = Thread /\ DOMAIN build[t] = BuildFields /\ Ran(build[t]) /\ dirs \subseteq Scratch
      /\ build[t].at = "written" /\ build[t].at # "idle" /\ dirs' = dirs
      /\ env' = env /\ node' = node /\ def' = def /\ pid' = pid /\ seq' = seq
      /\ reused' = reused /\ crashes' = crashes
      /\ Told(build[t]) /\ build[t].lang \in {"c", "zig", "rust"} /\ WorldKnown
  BY DEF BuildsIInv, BuildsTyped, BuildsTold, HostTyped, C!Spawn, C!world, C!Busy
<1>2. CASE C!RustLacksHalf(t) \/ C!Resolved(C!Tool(t)) \notin there
  <2>1. C!Ends(t, "error")
    BY <1>2 DEF C!Spawn
  <2> QED
    BY <1>1, <2>1, EndsGoesOn
<1>3. CASE ~(C!RustLacksHalf(t) \/ C!Resolved(C!Tool(t)) \notin there)
  <2> DEFINE b == [build[t] EXCEPT !.at = "running", !.ran = C!Resolved(C!Tool(t))]
  <2>1. build' = [build EXCEPT ![t] = b]
    BY <1>1, <1>3 DEF C!Spawn
  <2>2. /\ DOMAIN b = BuildFields /\ b.dir = build[t].dir /\ b.lang = build[t].lang
        /\ b.cfg = build[t].cfg /\ b.at = "running" /\ b.ran = C!Resolved(C!Tool(t))
    BY <1>1 DEF BuildFields
  <2>3. Ran(b)
    <3>1. ASSUME NEW x, x \notin C!Bare PROVE C!Resolved(x) = x
      BY <3>1 DEF C!Resolved, C!Bare
    <3>2. ASSUME def = "none", b.lang = "c", node.gcc # "none" PROVE b.ran \in {"none", node.gcc}
      <4>1. C!Tool(t) = node.gcc
        BY <1>1, <2>2, <3>2 DEF C!Tool, Told
      <4> QED
        BY <1>1, <2>2, <3>1, <4>1 DEF WorldKnown
    <3>3. ASSUME def = "none", b.lang = "zig", node.zig # "none" PROVE b.ran \in {"none", node.zig}
      <4>1. C!Tool(t) = node.zig
        BY <1>1, <2>2, <3>3 DEF C!Tool, Told
      <4> QED
        BY <1>1, <2>2, <3>1, <4>1 DEF WorldKnown
    <3>4. ASSUME b.lang = "rust", "rustc-env" \in env PROVE b.ran \in {"none", "rustc-env"}
      <4>1. C!Tool(t) \in {"none", "rustc-env"}
        BY <1>1, <2>2, <3>4 DEF C!Tool, Told
      <4>2. "none" \notin C!Bare /\ "rustc-env" \notin C!Bare
        BY DEF C!Bare
      <4>3. C!Resolved(C!Tool(t)) = C!Tool(t)
        BY <3>1, <4>1, <4>2
      <4> QED
        BY <2>2, <4>1, <4>3
    <3> QED
      BY <3>2, <3>3, <3>4 DEF Ran
  <2> HIDE DEF b
  <2>4. /\ DOMAIN build' = Thread
        /\ \A u \in Thread : /\ DOMAIN build'[u] = BuildFields
                             /\ build'[u].dir = build[u].dir /\ build'[u].lang = build[u].lang
                             /\ build'[u].cfg = build[u].cfg
                             /\ build'[u].at = "idle" <=> build[u].at = "idle"
                             /\ Ran(build'[u])
    BY <1>1, <2>1, <2>2, <2>3, OneGoesOn
  <2> QED
    BY <1>1, <2>4, DirsStay, BuildsGoOn
<1> QED
  BY <1>2, <1>3

LEMMA ExitKeeps == ASSUME BuildsIInv, NEW t \in Thread, C!Exit(t) PROVE BuildsIInv'
<1>1. /\ build[t].at # "idle" /\ dirs' = dirs
      /\ env' = env /\ node' = node /\ def' = def /\ pid' = pid /\ seq' = seq
      /\ reused' = reused /\ crashes' = crashes /\ \E what : C!Ends(t, what)
  BY DEF C!Exit, C!world
<1> QED
  BY <1>1, EndsGoesOn

LEMMA GuardKeeps == ASSUME BuildsIInv, NEW t \in Thread, C!GuardExpires(t) PROVE BuildsIInv'
<1>1. /\ dirs' = dirs /\ env' = env /\ node' = node /\ def' = def /\ pid' = pid /\ seq' = seq
      /\ reused' = reused /\ crashes' = crashes /\ dirs \subseteq Scratch
      /\ \A u \in Thread : DOMAIN build[u] = BuildFields /\ Ran(build[u])
  BY DEF BuildsIInv, BuildsTyped, BuildsTold, HostTyped, C!GuardExpires, C!world
<1>2. PICK found \in BOOLEAN :
         build' = [u \in Thread |->
                     [build[u] EXCEPT !.result = IF u = t THEN "timeout" ELSE @,
                                      !.killed = @ \/ (found /\ u.host = t.host /\ build[u].at = "running"
                                                       /\ build[u].lang = "c")]]
  BY DEF C!GuardExpires
<1>3. ASSUME NEW u \in Thread
      PROVE  /\ DOMAIN build'[u] = BuildFields
             /\ build'[u].dir = build[u].dir /\ build'[u].lang = build[u].lang
             /\ build'[u].cfg = build[u].cfg /\ build'[u].at = build[u].at
             /\ build'[u].ran = build[u].ran
  BY <1>1, <1>2 DEF BuildFields
<1>4. DOMAIN build' = Thread
  BY <1>2
<1>5. \A u \in Thread : Ran(build'[u])
  BY <1>1, <1>3 DEF Ran
<1> QED
  BY <1>1, <1>3, <1>4, <1>5, DirsStay, BuildsGoOn

(* A build begins: its name is the process's next.                          *)
LEMMA BuildBegins ==
    ASSUME BuildsIInv, NEW t \in Thread, NEW lang \in {"c", "zig", "rust"}, C!Begin(t, lang)
    PROVE  BuildsIInv'
<1> DEFINE h == t.host
           n == C!ScratchName(h)
           b == [C!NoBuild EXCEPT !.at = "made", !.lang = lang, !.cfg = C!Config(t), !.dir = n]
           made == [name |-> n, files |-> {}, old |-> FALSE]
<1>1. /\ HostTyped /\ BuildsTyped /\ PidsDiffer /\ DirsPart /\ BuildsTold /\ WorldKnown
      /\ C!CompilerAssumption /\ h \in Host
  BY DEF BuildsIInv, C!CompilerAssumption
<1>2. /\ ~C!Busy(t) /\ pid[h] # 0 /\ build' = [build EXCEPT ![t] = b]
      /\ seq' = [seq EXCEPT ![h] = seq[h] + 1]
      /\ dirs' = IF C!Dir(n) # {} THEN dirs ELSE dirs \cup {made}
      /\ env' = env /\ node' = node /\ def' = def /\ pid' = pid /\ reused' = reused /\ crashes' = crashes
  BY DEF C!Begin, C!world
<1>3. /\ pid[h] \in Pids /\ seq[h] \in Nat /\ n = <<pid[h], seq[h]>> /\ n \in Pids \X Nat
      /\ pid \in [Host -> Pids \cup {0}] /\ seq \in [Host -> Nat] /\ dirs \subseteq Scratch
  BY <1>1, <1>2 DEF HostTyped, C!ScratchName
<1>4. /\ DOMAIN b = BuildFields /\ b.at = "made" /\ b.lang = lang /\ b.cfg = C!Config(t)
      /\ b.dir = n /\ b.ran = "none"
  BY DEF C!NoBuild, BuildFields
<1>5. /\ DOMAIN build' = Thread /\ build'[t] = b /\ C!Busy(t)'
      /\ \A u \in Thread : u # t => build'[u] = build[u] /\ (C!Busy(u)' <=> C!Busy(u))
  BY <1>1, <1>2, <1>4 DEF BuildsTyped, C!Busy
<1>6. made \in Scratch /\ made.name = n /\ ~made.old
  BY <1>3 DEF Scratch
<1>7. /\ seq' \in [Host -> Nat] /\ seq'[h] = seq[h] + 1
      /\ \A g \in Host : g # h => seq'[g] = seq[g]
  BY <1>1, <1>2, <1>3
<1> HIDE DEF b, made, n
<1>8. /\ dirs \subseteq dirs' /\ dirs' \subseteq Scratch
      /\ \A d \in dirs' : d \in dirs \/ (d.name = n /\ ~d.old)
      /\ \E d \in dirs' : d.name = n
  <2>1. CASE C!Dir(n) # {}
    BY <1>2, <1>3, <2>1 DEF C!Dir
  <2>2. CASE C!Dir(n) = {}
    BY <1>2, <1>3, <1>6, <2>2
  <2> QED
    BY <2>1, <2>2
<1>9. HostTyped' /\ PidsDiffer' /\ WorldKnown' /\ C!CompilerAssumption'
  BY <1>1, <1>2, <1>3, <1>7, <1>8 DEF HostTyped, PidsDiffer, WorldKnown, C!CompilerAssumption
<1>10. BuildsTyped'
  BY <1>1, <1>4, <1>5 DEF BuildsTyped
<1>11. DirsNamed'
  <2> SUFFICES ASSUME NEW u \in Thread, C!Busy(u)'
               PROVE  pid[u.host] # 0 /\ \E k \in Nat : k < seq'[u.host] /\ build'[u].dir = <<pid[u.host], k>>
    BY <1>2 DEF DirsNamed, NamedBy
  <2>1. CASE u = t
    <3>1. seq[h] < seq'[h]
      BY <1>3, <1>7
    <3> QED
      BY <1>2, <1>3, <1>4, <1>5, <2>1, <3>1
  <2>2. CASE u # t
    <3>1. PICK k \in Nat : k < seq[u.host] /\ build[u].dir = <<pid[u.host], k>> /\ pid[u.host] # 0
      BY <1>1, <1>5, <2>2 DEF DirsPart, DirsNamed, NamedBy
    <3>2. u.host \in Host
      BY <1>1 DEF C!CompilerAssumption
    <3>3. k < seq'[u.host]
      BY <1>3, <1>7, <3>1, <3>2
    <3> QED
      BY <1>5, <2>2, <3>1, <3>3
  <2> QED
    BY <2>1, <2>2
<1>12. DirsCounted'
  <2> SUFFICES ASSUME ~reused', NEW d \in dirs', NEW g \in Host, pid[g] # 0, d.name[1] = pid[g]
               PROVE  d.name[2] < seq'[g]
    BY <1>2 DEF DirsCounted
  <2>1. CASE d \in dirs
    <3>1. d.name[2] < seq[g]
      BY <1>1, <1>2, <2>1 DEF DirsPart, DirsCounted
    <3>2. d.name[2] \in Nat
      BY <1>3, <2>1 DEF Scratch
    <3> QED
      BY <1>3, <1>7, <3>1, <3>2
  <2>2. CASE d.name = n
    <3>1. d.name[1] = pid[h] /\ d.name[2] = seq[h]
      BY <1>3, <2>2
    <3>2. g = h
      BY <1>1, <3>1 DEF PidsDiffer
    <3> QED
      BY <1>3, <1>7, <3>1, <3>2
  <2> QED
    BY <1>8, <2>1, <2>2
<1>13. BuildsFresh'
  <2> SUFFICES ASSUME ~reused', NEW u \in Thread, C!Busy(u)'
               PROVE  /\ \E d \in dirs' : d.name = build'[u].dir
                      /\ \A d \in dirs' : d.name = build'[u].dir => ~d.old
    BY DEF BuildsFresh, Fresh, C!Dir
  <2>1. CASE u = t
    <3>1. \A d \in dirs : d.name # n
      <4> SUFFICES ASSUME NEW d \in dirs, d.name = n PROVE FALSE
        OBVIOUS
      <4>1. d.name[1] = pid[h] /\ d.name[2] = seq[h]
        BY <1>3
      <4>2. d.name[2] < seq[h]
        BY <1>1, <1>2, <4>1 DEF DirsPart, DirsCounted
      <4> QED
        BY <1>3, <4>1, <4>2
    <3> QED
      BY <1>4, <1>5, <1>8, <2>1, <3>1
  <2>2. CASE u # t
    <3>1. Fresh(build[u].dir) /\ build'[u].dir = build[u].dir
      BY <1>1, <1>2, <1>5, <2>2 DEF DirsPart, BuildsFresh
    <3>2. /\ \E d \in dirs : d.name = build[u].dir
          /\ \A d \in dirs : d.name = build[u].dir => ~d.old
      BY <3>1 DEF Fresh, C!Dir
    <3> QED
      BY <1>8, <3>1, <3>2
  <2> QED
    BY <2>1, <2>2
<1>14. C!DirectoriesAreOwn'
  <2>1. ASSUME NEW u \in Thread, u # t, C!Busy(u) PROVE build[u].dir # n
    <3>1. PICK k \in Nat : k < seq[u.host] /\ build[u].dir = <<pid[u.host], k>> /\ pid[u.host] # 0
      BY <1>1, <2>1 DEF DirsPart, DirsNamed, NamedBy
    <3>2. u.host \in Host
      BY <1>1 DEF C!CompilerAssumption
    <3>3. CASE u.host = h
      BY <1>3, <3>1, <3>3
    <3>4. CASE u.host # h
      BY <1>1, <1>2, <1>3, <3>1, <3>2, <3>4 DEF PidsDiffer
    <3> QED
      BY <3>3, <3>4
  <2> SUFFICES ASSUME NEW u \in Thread, NEW w \in Thread, u # w, C!Busy(u)', C!Busy(w)'
               PROVE  build'[u].dir # build'[w].dir
    BY DEF C!DirectoriesAreOwn
  <2>2. CASE u = t
    BY <1>4, <1>5, <2>1, <2>2
  <2>3. CASE w = t
    BY <1>4, <1>5, <2>1, <2>3
  <2>4. CASE u # t /\ w # t
    BY <1>1, <1>5, <2>4 DEF DirsPart, C!DirectoriesAreOwn
  <2> QED
    BY <2>2, <2>3, <2>4
<1>15. C!ScratchGoesAway'
  <2> SUFFICES ASSUME crashes = 0, NEW d \in dirs'
               PROVE  \E u \in Thread : C!Busy(u)' /\ build'[u].dir = d.name
    BY <1>2 DEF C!ScratchGoesAway
  <2>1. CASE d \in dirs
    <3>1. PICK u \in Thread : C!Busy(u) /\ build[u].dir = d.name
      BY <1>1, <2>1 DEF DirsPart, C!ScratchGoesAway
    <3> QED
      BY <1>2, <1>5, <3>1
  <2>2. CASE d.name = n
    BY <1>4, <1>5, <2>2
  <2> QED
    BY <1>8, <2>1, <2>2
<1>16. BuildsTold'
  <2>1. Told(b)
    BY <1>4, ConfigIsTold
  <2>2. Ran(b)
    BY <1>4 DEF Ran
  <2>3. ASSUME NEW u \in Thread
        PROVE  /\ build'[u].lang \in {"-", "c", "zig", "rust"} /\ Ran(build'[u])
               /\ C!Busy(u)' => build'[u].lang # "-" /\ Told(build'[u])
    <3>1. CASE u = t
      BY <1>4, <1>5, <2>1, <2>2, <3>1
    <3>2. CASE u # t
      BY <1>1, <1>5, <3>2 DEF BuildsTold
    <3> QED
      BY <3>1, <3>2
  <2> QED
    BY <1>2, <2>3 DEF BuildsTold, Told, Ran
<1> QED
  BY <1>9, <1>10, <1>11, <1>12, <1>13, <1>14, <1>15, <1>16 DEF BuildsIInv, DirsPart

LEMMA IdleBuild ==
    /\ C!NoBuild.at = "idle" /\ C!NoBuild.lang = "-" /\ DOMAIN C!NoBuild = BuildFields
    /\ Ran(C!NoBuild)
BY DEF C!NoBuild, BuildFields, Ran

(* Builds that are over, and directories that go: what the other builds     *)
(* have stays.                                                              *)
LEMMA BuildsEnd ==
    ASSUME BuildsIInv, DOMAIN build' = Thread,
           \A u \in Thread : build'[u] \in {build[u], C!NoBuild},
           env' = env, node' = node, def' = def, seq' = seq, reused' = reused,
           pid' \in [Host -> Pids \cup {0}], \A h \in Host : pid'[h] \in {pid[h], 0},
           \A u \in Thread : C!Busy(u)' => pid'[u.host] = pid[u.host],
           crashes' \in Nat, dirs' \subseteq dirs,
           \A u \in Thread, d \in dirs : C!Busy(u)' /\ d.name = build[u].dir => d \in dirs',
           crashes' = 0 => \A d \in dirs' : \E u \in Thread : C!Busy(u)' /\ build'[u].dir = d.name
    PROVE  BuildsIInv'
<1>1. /\ HostTyped /\ BuildsTyped /\ PidsDiffer /\ DirsPart /\ BuildsTold /\ WorldKnown
      /\ C!CompilerAssumption
  BY DEF BuildsIInv
<1>2. \A u \in Thread : C!Busy(u)' => C!Busy(u) /\ build'[u] = build[u]
  BY IdleBuild DEF C!Busy
<1>3. HostTyped' /\ PidsDiffer' /\ WorldKnown' /\ C!CompilerAssumption'
  BY <1>1 DEF HostTyped, PidsDiffer, WorldKnown, C!CompilerAssumption
<1>4. BuildsTyped'
  BY <1>1, IdleBuild DEF BuildsTyped
<1>5. DirsNamed'
  BY <1>1, <1>2 DEF DirsPart, DirsNamed, NamedBy
<1>6. DirsCounted'
  BY <1>1 DEF DirsPart, DirsCounted
<1>7. BuildsFresh'
  <2> SUFFICES ASSUME ~reused', NEW u \in Thread, C!Busy(u)'
               PROVE  /\ \E d \in dirs' : d.name = build'[u].dir
                      /\ \A d \in dirs' : d.name = build'[u].dir => ~d.old
    BY DEF BuildsFresh, Fresh, C!Dir
  <2>1. Fresh(build[u].dir) /\ build'[u] = build[u]
    BY <1>1, <1>2 DEF DirsPart, BuildsFresh
  <2> QED
    BY <2>1 DEF Fresh, C!Dir
<1>8. C!DirectoriesAreOwn'
  BY <1>1, <1>2 DEF DirsPart, C!DirectoriesAreOwn
<1>9. C!ScratchGoesAway'
  BY DEF C!ScratchGoesAway
<1>10. BuildsTold'
  <2>1. ASSUME NEW u \in Thread
        PROVE  /\ build'[u].lang \in {"-", "c", "zig", "rust"} /\ Ran(build'[u])
               /\ C!Busy(u)' => build'[u].lang # "-" /\ Told(build'[u])
    BY <1>1, <1>2, IdleBuild DEF BuildsTold
  <2> QED
    BY <2>1 DEF BuildsTold, Told, Ran
<1> QED
  BY <1>3, <1>4, <1>5, <1>6, <1>7, <1>8, <1>9, <1>10 DEF BuildsIInv, DirsPart

LEMMA BuildCleansUp == ASSUME BuildsIInv, NEW t \in Thread, C!CleanUp(t) PROVE BuildsIInv'
<1>1. /\ HostTyped /\ BuildsTyped /\ DirsPart
      /\ build[t].at = "ending" /\ build' = [build EXCEPT ![t] = C!NoBuild]
      /\ dirs' = dirs \ C!Dir(build[t].dir)
      /\ env' = env /\ node' = node /\ def' = def /\ pid' = pid /\ seq' = seq
      /\ reused' = reused /\ crashes' = crashes
  BY DEF BuildsIInv, C!CleanUp, C!world
<1>2. /\ DOMAIN build' = Thread /\ build'[t] = C!NoBuild /\ \A u \in Thread : u # t => build'[u] = build[u]
      /\ C!Busy(t) /\ ~C!Busy(t)' /\ \A u \in Thread : u # t => (C!Busy(u)' <=> C!Busy(u))
  BY <1>1, IdleBuild DEF BuildsTyped, C!Busy
<1>3. ASSUME NEW u \in Thread, NEW d \in dirs, C!Busy(u)', d.name = build[u].dir PROVE d \in dirs'
  <2>1. u # t /\ C!Busy(u)
    BY <1>2, <1>3
  <2>2. d.name # build[t].dir
    BY <1>1, <1>2, <1>3, <2>1 DEF DirsPart, C!DirectoriesAreOwn
  <2> QED
    BY <1>1, <2>2 DEF C!Dir
<1>4. ASSUME crashes' = 0, NEW d \in dirs' PROVE \E u \in Thread : C!Busy(u)' /\ build'[u].dir = d.name
  <2>1. d \in dirs /\ d.name # build[t].dir
    BY <1>1 DEF C!Dir
  <2>2. PICK u \in Thread : C!Busy(u) /\ build[u].dir = d.name
    BY <1>1, <1>4, <2>1 DEF DirsPart, C!ScratchGoesAway
  <2> QED
    BY <1>2, <2>1, <2>2
<1>5. pid' \in [Host -> Pids \cup {0}] /\ crashes' \in Nat /\ dirs' \subseteq dirs
  BY <1>1 DEF HostTyped
<1> QED
  BY <1>1, <1>2, <1>3, <1>4, <1>5, BuildsEnd

LEMMA KillKeeps == ASSUME BuildsIInv, NEW h \in Host, C!KillHost(h) PROVE BuildsIInv'
<1>1. /\ HostTyped /\ BuildsTyped
      /\ pid' = [pid EXCEPT ![h] = 0] /\ crashes' = crashes + 1
      /\ build' = [t \in Thread |-> IF t.host = h THEN C!NoBuild ELSE build[t]]
      /\ env' = env /\ node' = node /\ def' = def /\ seq' = seq /\ reused' = reused /\ dirs' = dirs
  BY DEF BuildsIInv, C!KillHost, C!world
<1>2. /\ pid' \in [Host -> Pids \cup {0}] /\ \A g \in Host : pid'[g] \in {pid[g], 0}
      /\ \A g \in Host : g # h => pid'[g] = pid[g]
      /\ crashes' \in Nat /\ crashes' # 0
  BY <1>1 DEF HostTyped
<1>3. /\ DOMAIN build' = Thread /\ \A u \in Thread : build'[u] \in {build[u], C!NoBuild}
      /\ \A u \in Thread : C!Busy(u)' => u.host # h
  BY <1>1, IdleBuild DEF C!Busy
<1>4. \A u \in Thread : C!Busy(u)' => pid'[u.host] = pid[u.host]
  BY <1>2, <1>3 DEF BuildsIInv, C!CompilerAssumption
<1> QED
  BY <1>1, <1>2, <1>3, <1>4, BuildsEnd

(* A host starts with a number of its own; the directories that bear it and *)
(* are not swept are what the model calls reused.                           *)
LEMMA StartKeeps == ASSUME BuildsIInv, NEW h \in Host, C!StartHost(h) PROVE BuildsIInv'
<1>1. /\ HostTyped /\ BuildsTyped /\ PidsDiffer /\ DirsPart /\ BuildsTold /\ WorldKnown
      /\ C!CompilerAssumption /\ pid[h] = 0 /\ seq' = [seq EXCEPT ![h] = 0]
      /\ env' = env /\ node' = node /\ def' = def /\ build' = build /\ crashes' = crashes
  BY DEF BuildsIInv, C!StartHost, C!world
<1>2. PICK n \in Pids :
         /\ \A g \in Host : pid[g] # n
         /\ pid' = [pid EXCEPT ![h] = n]
         /\ dirs' = dirs \ C!Swept
         /\ reused' = (reused \/ \E d \in dirs \ C!Swept : d.name[1] = n)
  BY DEF C!StartHost
<1>3. /\ pid' \in [Host -> Pids \cup {0}] /\ pid'[h] = n /\ \A g \in Host : g # h => pid'[g] = pid[g]
      /\ seq' \in [Host -> Nat] /\ seq'[h] = 0 /\ \A g \in Host : g # h => seq'[g] = seq[g]
      /\ dirs \subseteq Scratch /\ reused \in BOOLEAN /\ crashes \in Nat
  BY <1>1, <1>2 DEF HostTyped
<1>4. HostTyped'
  <2>1. reused' \in BOOLEAN
    BY <1>2, Zenon
  <2> QED
    BY <1>1, <1>2, <1>3, <2>1 DEF HostTyped
<1>5. /\ BuildsTyped' /\ BuildsTold' /\ WorldKnown' /\ C!CompilerAssumption' /\ C!DirectoriesAreOwn'
      /\ \A u \in Thread : C!Busy(u)' <=> C!Busy(u)
  BY <1>1 DEF BuildsTyped, BuildsTold, Told, Ran, WorldKnown, C!CompilerAssumption, DirsPart,
              C!DirectoriesAreOwn, C!Busy
<1>6. PidsDiffer'
  BY <1>1, <1>2, <1>3 DEF PidsDiffer
<1>7. \A u \in Thread : C!Busy(u) => u.host # h /\ u.host \in Host
  BY <1>1 DEF DirsPart, DirsNamed, NamedBy, C!CompilerAssumption
<1>8. DirsNamed'
  BY <1>1, <1>3, <1>5, <1>7 DEF DirsPart, DirsNamed, NamedBy
<1>9. ~reused' => ~reused /\ \A d \in dirs' : d.name[1] # n
  BY <1>2
<1>10. DirsCounted'
  <2> SUFFICES ASSUME ~reused', NEW d \in dirs', NEW g \in Host, pid'[g] # 0, d.name[1] = pid'[g]
               PROVE  d.name[2] < seq'[g]
    BY DEF DirsCounted
  <2>1. g # h
    BY <1>3, <1>9
  <2> QED
    BY <1>1, <1>2, <1>3, <1>9, <2>1 DEF DirsPart, DirsCounted
<1>11. BuildsFresh'
  <2> SUFFICES ASSUME ~reused', NEW u \in Thread, C!Busy(u)'
               PROVE  /\ \E d \in dirs' : d.name = build'[u].dir
                      /\ \A d \in dirs' : d.name = build'[u].dir => ~d.old
    BY DEF BuildsFresh, Fresh, C!Dir
  <2>1. Fresh(build[u].dir) /\ build'[u] = build[u]
    BY <1>1, <1>5, <1>9 DEF DirsPart, BuildsFresh
  <2>2. \A d \in dirs : d.name = build[u].dir => d \in dirs'
    BY <1>2, <2>1 DEF Fresh, C!Dir, C!Swept
  <2> QED
    BY <1>2, <2>1, <2>2 DEF Fresh, C!Dir
<1>12. C!ScratchGoesAway'
  BY <1>1, <1>2, <1>5 DEF DirsPart, C!ScratchGoesAway
<1> QED
  BY <1>4, <1>5, <1>6, <1>8, <1>10, <1>11, <1>12 DEF BuildsIInv, DirsPart

(* A day passes while nothing is built.                                     *)
LEMMA DayKeeps == ASSUME BuildsIInv, C!Day PROVE BuildsIInv'
<1>1. /\ HostTyped /\ BuildsTyped /\ PidsDiffer /\ DirsPart /\ BuildsTold /\ WorldKnown
      /\ C!CompilerAssumption /\ \A t \in Thread : ~C!Busy(t)
      /\ dirs' = {[d EXCEPT !.old = TRUE] : d \in dirs}
      /\ env' = env /\ node' = node /\ def' = def /\ pid' = pid /\ seq' = seq /\ build' = build
      /\ reused' = reused /\ crashes' = crashes
  BY DEF BuildsIInv, C!Day, C!world
<1>2. ASSUME NEW d \in dirs
      PROVE  [d EXCEPT !.old = TRUE] \in Scratch /\ [d EXCEPT !.old = TRUE].name = d.name
  <2>1. d \in Scratch
    BY <1>1 DEF HostTyped
  <2> QED
    BY <2>1 DEF Scratch
<1>3. dirs' \subseteq Scratch /\ \A e \in dirs' : \E d \in dirs : e.name = d.name
  BY <1>1, <1>2
<1>4. /\ HostTyped' /\ BuildsTyped' /\ PidsDiffer' /\ WorldKnown' /\ C!CompilerAssumption'
      /\ BuildsTold'
  BY <1>1, <1>3 DEF HostTyped, BuildsTyped, PidsDiffer, WorldKnown, C!CompilerAssumption, BuildsTold,
                    Told, Ran, C!Busy
<1>5. \A t \in Thread : ~C!Busy(t)'
  BY <1>1 DEF C!Busy
<1>6. DirsNamed' /\ BuildsFresh' /\ C!DirectoriesAreOwn'
  BY <1>5 DEF DirsNamed, BuildsFresh, C!DirectoriesAreOwn
<1>7. DirsCounted'
  BY <1>1, <1>3 DEF DirsPart, DirsCounted
<1>8. C!ScratchGoesAway'
  BY <1>1, <1>3 DEF DirsPart, C!ScratchGoesAway
<1> QED
  BY <1>4, <1>6, <1>7, <1>8 DEF BuildsIInv, DirsPart

LEMMA RestKeeps ==
    ASSUME BuildsIInv, (\E f \in there : C!Uninstall(f)) \/ UNCHANGED C!vars PROVE BuildsIInv'
<1>1. /\ HostTyped /\ BuildsTyped /\ PidsDiffer /\ DirsPart /\ BuildsTold /\ WorldKnown
      /\ C!CompilerAssumption
  BY DEF BuildsIInv
<1>2. /\ env' = env /\ node' = node /\ def' = def /\ pid' = pid /\ seq' = seq /\ build' = build
      /\ reused' = reused /\ crashes' = crashes /\ dirs' = dirs
  BY DEF C!Uninstall, C!vars, C!world
<1>3. /\ HostTyped' /\ BuildsTyped' /\ PidsDiffer' /\ WorldKnown' /\ C!CompilerAssumption'
      /\ BuildsTold'
  BY <1>1, <1>2 DEF HostTyped, BuildsTyped, PidsDiffer, WorldKnown, C!CompilerAssumption, BuildsTold,
                    Told, Ran, C!Busy
<1>4. DirsPart'
  BY <1>1, <1>2 DEF DirsPart, DirsNamed, NamedBy, DirsCounted, BuildsFresh, Fresh, C!Dir,
                    C!DirectoriesAreOwn, C!ScratchGoesAway, C!Busy
<1> QED
  BY <1>3, <1>4 DEF BuildsIInv

LEMMA BuildsNext == BuildsIInv /\ [C!Next]_(C!vars) => BuildsIInv'
<1> SUFFICES ASSUME BuildsIInv, [C!Next]_(C!vars) PROVE BuildsIInv'
  OBVIOUS
<1>1. ASSUME NEW t \in Thread,
             \/ \E lang \in {"c", "zig", "rust"} : C!Begin(t, lang)
             \/ C!WriteFiles(t) \/ C!Spawn(t) \/ C!Exit(t) \/ C!GuardExpires(t) \/ C!CleanUp(t)
      PROVE  BuildsIInv'
  BY <1>1, BuildBegins, WriteKeeps, SpawnKeeps, ExitKeeps, GuardKeeps, BuildCleansUp
<1>2. ASSUME NEW h \in Host, C!StartHost(h) \/ C!KillHost(h) PROVE BuildsIInv'
  BY <1>2, StartKeeps, KillKeeps
<1>3. CASE C!Day
  BY <1>3, DayKeeps
<1>4. CASE (\E f \in there : C!Uninstall(f)) \/ UNCHANGED C!vars
  BY <1>4, RestKeeps
<1> QED
  BY <1>1, <1>2, <1>3, <1>4 DEF C!Next

LEMMA BuildsSafe == BuildsIInv => C!BuildsInv
<1> SUFFICES ASSUME BuildsIInv PROVE C!BuildsInv
  OBVIOUS
<1>1. C!DirectoriesAreOwn /\ C!ScratchGoesAway /\ BuildsFresh /\ BuildsTold
  BY DEF BuildsIInv, DirsPart
<1>2. C!AloneSweepSpares
  BY <1>1 DEF C!AloneSweepSpares, BuildsFresh, Fresh, C!Busy
<1>3. C!AloneChoiceIsObeyed
  BY <1>1 DEF C!AloneChoiceIsObeyed, BuildsTold, Ran
<1>4. C!NamedRustcIsObeyed
  BY <1>1 DEF C!NamedRustcIsObeyed, BuildsTold, Ran
<1> QED
  BY <1>1, <1>2, <1>3, <1>4 DEF C!BuildsInv

(* However many hosts build on a machine, and however often they die, are   *)
(* started and sweep: builds side by side have a directory each, leave      *)
(* nothing behind, lose nothing to a sweep as long as no process number     *)
(* comes back, and run the compiler that was chosen (build_scratch_dir,     *)
(* sweep_stale_temp_dirs, toolchain_config, discover).                      *)
THEOREM BuildsKeepApart == ASSUME C!CompilerAssumption PROVE C!Spec => []C!BuildsInv
<1>1. C!Init => BuildsIInv
  BY BuildsInit
<1> QED
  BY <1>1, BuildsNext, BuildsSafe, PTL DEF C!Spec
=============================================================================
