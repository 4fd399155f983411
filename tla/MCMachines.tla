----------------------------- MODULE MCMachines -----------------------------
(***************************************************************************)
(* The machines of one node and the settings they are started with: each   *)
(* behaviour plays one of the modules below, and the others rest in an     *)
(* initial state.                                                          *)
(*                                                                         *)
(* VmProcess: two machines and three ports, three starts, a snapshot in    *)
(* one piece; machines and ports are interchangeable.                      *)
(*                                                                         *)
(* SandboxInstances: two instances of two definitions, one restart of the  *)
(* host.                                                                   *)
(*                                                                         *)
(* HostSettings: two request threads, two operations and a restart, a      *)
(* settings file of any version.                                           *)
(*                                                                         *)
(* ConnectionFiles: two processes start on one data directory whose        *)
(* settings name a server, or a role of this node; one edit and one crash. *)
(***************************************************************************)
EXTENDS VmProcess, TLC

CONSTANTS t1, t2, i1, i2, d1, d2

VARIABLES focus,   \* the module played
          table, def, up, spawnPc, stopPc, stops, run, leaked, rows,    \* SandboxInstances
          restarts, born,
          live, cache, cached, file, bak, origin, thread, problem,      \* HostSettings
          edits, boots, seen,
          keyFile, tables, wants, starter, port, told, mints, edited,   \* ConnectionFiles
          changes, crashes

instancesVars == <<table, def, up, spawnPc, stopPc, stops, run, leaked, rows, restarts, born>>
prefsVars == <<live, cache, cached, file, bak, origin, thread, problem, edits, boots, seen>>
filesVars == <<keyFile, tables, wants, starter, port, told, mints, edited, changes, crashes>>

AnyWish == {"network", "pointer"}
MCWishes == {AnyWish, {"network", "role"}}
AnyTables == [k \in {"peers", "rooms"} |-> "usable"]

Symmetry == Permutations(Vms) \cup Permutations(Ports)

Instances == INSTANCE SandboxInstances WITH Ids <- {i1, i2}, Defs <- {d1, d2}, NoDef <- "none",
                                            MaxRestarts <- 1, MaxStops <- 1
Prefs == INSTANCE HostSettings WITH Threads <- {t1, t2}, Found <- {"old", "current", "newer"},
                                    MaxOps <- 2, MaxBoots <- 1, llm <- cache, ops <- edits
Files == INSTANCE ConnectionFiles WITH Process <- {"p", "q"}, MaxKeys <- 2, Wishes <- MCWishes,
                                       proc <- starter, rows <- told, edits <- changes,
                                       MaxEdits <- 1, MaxCrashes <- 1

ASSUME FoundAreVersions == Prefs!FoundAreVersions
ASSUME FilesAssumption == Files!FilesAssumption

MCInit ==
    /\ focus \in {"machines", "instances", "prefs", "files"}
    /\ Init
    /\ Instances!Init
    /\ Prefs!Init /\ (focus # "prefs" => origin = "current")
    /\ Files!Init /\ (focus # "files" => keyFile = Files!Absent /\ wants = AnyWish /\ tables = AnyTables)

MCNext ==
    \/ focus = "machines" /\ Next
       /\ UNCHANGED <<focus, instancesVars, prefsVars, filesVars>>
    \/ focus = "instances" /\ Instances!Next
       /\ UNCHANGED <<focus, vars, prefsVars, filesVars>>
    \/ focus = "prefs" /\ Prefs!Next
       /\ UNCHANGED <<focus, vars, instancesVars, filesVars>>
    \/ focus = "files" /\ Files!Next
       /\ UNCHANGED <<focus, vars, instancesVars, prefsVars>>

allVars == <<focus, vars, instancesVars, prefsVars, filesVars>>

MCSpec == MCInit /\ [][MCNext]_allVars

-----------------------------------------------------------------------------
(* SandboxInstances: every instance of the table is being spawned, up or recorded as left
   behind, and a run recorded as open has its machine (spawn_instance, stop_instance). *)
InstancesInv == focus = "instances" => Instances!InstancesInv

(* HostSettings: request by request the file is what the node works with, a file of another
   version is copied before it is replaced, and a preflight is shown for the settings it was
   run on (save_settings, load_settings, preflight). *)
SettingsInv == focus = "prefs" => Prefs!SettingsInv

(* ConnectionFiles: one data directory has one key, who minted it announces it, and a node that
   goes on without a part of its connection says so (load_connection_files,
   connect_cross_region). *)
FilesInv == focus = "files" => Files!FilesInv
=============================================================================
