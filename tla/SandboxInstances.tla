-------------------------- MODULE SandboxInstances --------------------------
(***************************************************************************)
(* The instance table of a node (state.rs, v1.0 M2a): instances derived    *)
(* from definitions beside the node's own one, stopped and forgotten, used *)
(* by runs that name them, and the history the chain tells of them after a *)
(* restart.  A handle to an instance is shared (Arc): a VM lives as long   *)
(* as somebody holds the instance whose slot it is in.                     *)
(***************************************************************************)
EXTENDS Naturals, Sequences, FiniteSets

CONSTANTS Ids,         \* instance ids next_instance_id hands out, never twice
          Defs, NoDef,
          MaxRestarts, \* bound on process restarts
          MaxStops     \* bound on the stop_instance calls of one id

VARIABLES table,     \* ids the instance table has (the own instance is always there)
          def,       \* what an instance was made from
          up,        \* ids whose slot holds a VM
          spawnPc,   \* per id: where its spawn_instance stands
          stopPc,    \* per id: where the stop_instance of it stands
          stops,     \* per id: stops so far
          run,       \* ids a run in flight acts on
          leaked,    \* ids whose spawn returned without forgetting them
          rows,      \* the m.sandbox.spawn / m.sandbox.reap rows, oldest first
          restarts,  \* restarts so far
          born       \* the process life an id was registered in

vars == <<table, def, up, spawnPc, stopPc, stops, run, leaked, rows, restarts, born>>

Init ==
    /\ table = {} /\ def = [i \in Ids |-> NoDef] /\ up = {}
    /\ spawnPc = [i \in Ids |-> "new"] /\ stopPc = [i \in Ids |-> "idle"]
    /\ stops = [i \in Ids |-> 0] /\ run = {} /\ leaked = {} /\ rows = <<>>
    /\ restarts = 0 /\ born = [i \in Ids |-> 0]

(* The VMs that survive a step: those whose instance somebody still holds, *)
(* the table, the call that derives it, the call that stops it or a run.   *)
Surviving(ups) ==
    {i \in ups : \/ i \in table' \/ i \in run'
                 \/ spawnPc'[i] \in {"registered", "started"}
                 \/ stopPc'[i] # "idle"}

---------------------------------------------------------------------------
(* register_instance: fresh, empty, and visible from here on.              *)
Register(i, d) ==
    /\ spawnPc[i] = "new"
    /\ spawnPc' = [spawnPc EXCEPT ![i] = "registered"]
    /\ table' = table \cup {i} /\ def' = [def EXCEPT ![i] = d]
    /\ born' = [born EXCEPT ![i] = restarts]
    /\ UNCHANGED <<up, stopPc, stops, run, leaked, rows, restarts>>

(* A lease that fails leaves spawn_instance through `?`.                   *)
SpawnLeaseFails(i) ==
    /\ spawnPc[i] = "registered"
    /\ spawnPc' = [spawnPc EXCEPT ![i] = "over"]
    /\ leaked' = leaked \cup {i}
    /\ UNCHANGED <<table, def, stopPc, stops, run, rows, restarts, born>>
    /\ up' = Surviving(up)

\* mutant: the instance that never started stays in the table
SpawnGivesUpKeepsIt(i) ==
    /\ spawnPc[i] = "registered"
    /\ spawnPc' = [spawnPc EXCEPT ![i] = "over"]
    /\ UNCHANGED <<table, def, up, stopPc, stops, run, leaked, rows, restarts, born>>

(* Three starts failed: forget_instance.                                   *)
SpawnGivesUp(i) ==
    /\ spawnPc[i] = "registered"
    /\ spawnPc' = [spawnPc EXCEPT ![i] = "over"]
    /\ table' = table \ {i}
    /\ UNCHANGED <<def, stopPc, stops, run, leaked, rows, restarts, born>>
    /\ up' = Surviving(up)

SpawnStarts(i) ==
    /\ spawnPc[i] = "registered"
    /\ spawnPc' = [spawnPc EXCEPT ![i] = "started"]
    /\ up' = up \cup {i}
    /\ UNCHANGED <<table, def, stopPc, stops, run, leaked, rows, restarts, born>>

SpawnRow(i) ==
    /\ spawnPc[i] = "started"
    /\ spawnPc' = [spawnPc EXCEPT ![i] = "over"]
    /\ rows' = Append(rows, <<"m.sandbox.spawn", i>>)
    /\ UNCHANGED <<table, def, stopPc, stops, run, leaked, restarts, born>>
    /\ up' = Surviving(up)

---------------------------------------------------------------------------
(* stop_instance: take the VM and stop it, forget the instance, then say   *)
(* so.  An instance is found as soon as it is registered.                  *)
StopTake(i) ==
    /\ i \in table /\ stopPc[i] = "idle" /\ stops[i] < MaxStops
    /\ stopPc' = [stopPc EXCEPT ![i] = "taken"]
    /\ stops' = [stops EXCEPT ![i] = @ + 1]
    /\ up' = up \ {i}
    /\ UNCHANGED <<table, def, spawnPc, run, leaked, rows, restarts, born>>

StopForget(i) ==
    /\ stopPc[i] = "taken"
    /\ stopPc' = [stopPc EXCEPT ![i] = "forgotten"]
    /\ table' = table \ {i}
    /\ UNCHANGED <<def, spawnPc, stops, run, leaked, rows, restarts, born>>
    /\ up' = Surviving(up)

\* mutant: a stop that found no VM writes no row
StopRowOnlyIfUp(i) ==
    /\ stopPc[i] = "forgotten"
    /\ stopPc' = [stopPc EXCEPT ![i] = "idle"]
    /\ rows' = IF <<"m.sandbox.spawn", i>> \in {rows[k] : k \in 1..Len(rows)}
               THEN Append(rows, <<"m.sandbox.reap", i>>) ELSE rows
    /\ UNCHANGED <<table, def, spawnPc, stops, run, leaked, restarts, born>>
    /\ up' = Surviving(up)

StopRow(i) ==
    /\ stopPc[i] = "forgotten"
    /\ stopPc' = [stopPc EXCEPT ![i] = "idle"]
    /\ rows' = Append(rows, <<"m.sandbox.reap", i>>)
    /\ UNCHANGED <<table, def, spawnPc, stops, run, leaked, restarts, born>>
    /\ up' = Surviving(up)

---------------------------------------------------------------------------
(* task_instance_conflict: unknown, or not made from the definition the    *)
(* task also names; with no sandbox named nothing can be contradicted.     *)
Refused(i, requested) ==
    \/ i \notin table
    \/ requested # NoDef /\ def[i] # requested

(* run_agent_for on a named instance: the handle is taken once, and the    *)
(* run's start_vm tool works on its slot even if the table forgot it.      *)
RunBegins(i, requested) ==
    /\ i \notin run /\ ~Refused(i, requested)
    /\ run' = run \cup {i}
    /\ UNCHANGED <<table, def, up, spawnPc, stopPc, stops, leaked, rows, restarts, born>>

RunStartsVm(i) ==
    /\ i \in run /\ i \notin up
    /\ up' = up \cup {i}
    /\ UNCHANGED <<table, def, spawnPc, stopPc, stops, run, leaked, rows, restarts, born>>

RunEnds(i) ==
    /\ i \in run
    /\ run' = run \ {i}
    /\ UNCHANGED <<table, def, spawnPc, stopPc, stops, leaked, rows, restarts, born>>
    /\ up' = Surviving(up)

(* The process dies and comes back: the table is runtime state.            *)
Restart ==
    /\ restarts < MaxRestarts
    /\ restarts' = restarts + 1
    /\ table' = {} /\ up' = {} /\ run' = {} /\ leaked' = {}
    /\ spawnPc' = [i \in Ids |-> IF spawnPc[i] = "new" THEN "new" ELSE "over"]
    /\ stopPc' = [i \in Ids |-> "idle"]
    /\ UNCHANGED <<def, stops, rows, born>>

Next ==
    \/ Restart
    \/ \E i \in Ids :
         \/ \E d \in Defs : Register(i, d)
         \/ \E d \in Defs \cup {NoDef} : RunBegins(i, d)
         \/ SpawnLeaseFails(i) \/ SpawnGivesUp(i) \/ SpawnStarts(i) \/ SpawnRow(i)
         \/ StopTake(i) \/ StopForget(i) \/ StopRow(i)
         \/ RunStartsVm(i) \/ RunEnds(i)

Spec == Init /\ [][Next]_vars

---------------------------------------------------------------------------
(* instance_history: what the rows say, and what the live table answers.   *)
Has(action, i) == \E k \in 1..Len(rows) : rows[k] = <<action, i>>
History == [i \in {j \in Ids : Has("m.sandbox.spawn", j)} |->
              [reaped |-> Has("m.sandbox.reap", i), running |-> i \in table \cap up]]

Settled(i) == spawnPc[i] \in {"new", "over"} /\ stopPc[i] = "idle"

(* The table keeps only what the chain can explain: an instance no call is *)
(* working on was derived by a row and not reaped by one (a failed port    *)
(* lease is the one way in that this leaves out).                          *)
TableIsExplained ==
    \A i \in table : Settled(i) /\ i \notin leaked =>
        i \in DOMAIN History /\ ~History[i].reaped

(* "an instance derived and never reaped ... is what a killed process      *)
(* leaves": within one life of the process an open record is in the table. *)
OpenRecordIsLive ==
    \A i \in DOMAIN History :
        (Settled(i) /\ ~History[i].reaped /\ born[i] = restarts) => i \in table

(***************************************************************************)
(* Every instance of the table is being spawned, up or recorded as left    *)
(* behind, and a run recorded as open has its machine (spawn_instance,     *)
(* stop_instance).                                                         *)
(***************************************************************************)
InstancesInv == TableIsExplained /\ OpenRecordIsLive
=============================================================================
