------------------------------- MODULE MCHost -------------------------------
(***************************************************************************)
(* What one node builds, stores and exports: each behaviour plays one of   *)
(* the modules below, and the others rest in an initial state.             *)
(*                                                                         *)
(* Compiler: a run's build and a preflight's in one process and another    *)
(* process, on five machines that differ in what is installed, named or    *)
(* chosen.                                                                 *)
(*                                                                         *)
(* Backup: an export of two files and two key accounts while the node      *)
(* writes.                                                                 *)
(*                                                                         *)
(* Sessions: three conversations of two executors, two threads, two turns  *)
(* of two iterations over a window of four messages.                       *)
(*                                                                         *)
(* LlmConfig: two request threads, two operations and a restart; an        *)
(* executor of the host and one of a worker.                               *)
(***************************************************************************)
EXTENDS Sessions, TLC

CONSTANTS t1, t2, n, e, i1, i2, i3

VARIABLES focus,   \* the module played
          content, accounts, rowsKept, inFile, stored, keyringUp,       \* Backup
          tool, copies, output, opened, writes, kills,
          there, env, node, def, pid, seq, dirs, build, reused,         \* Compiler
          changes, crashes, days,
          llm, entries, ring, legacy, flag, caller, calls, restarted,   \* LlmConfig
          out, noted

exportVars == <<content, accounts, rowsKept, inFile, stored, keyringUp, tool, copies, output,
                opened, writes, kills>>
buildsVars == <<there, env, node, def, pid, seq, dirs, build, reused, changes, crashes, days>>
keysVars == <<llm, entries, ring, legacy, flag, caller, calls, restarted, out, noted>>

T(h, as) == [host |-> h, as |-> as]
MCThread == {T("h", "run"), T("h", "preflight")}
W(t, v, n0, d) == [there |-> t, env |-> v, node |-> n0, def |-> d]
Chosen(gcc, zig, std) == [gcc |-> gcc, zig |-> zig, std |-> std]
Unchosen == Chosen("none", "none", "none")
AWorld == W({"gcc-known", "gcc-path", "zig-path"}, {}, Unchosen, "none")
MCWorlds == {AWorld,
             W({"gcc-node", "zig-node", "zig-known"}, {}, Chosen("gcc-node", "zig-node", "none"), "none"),
             W({"gcc-def", "zig-known"}, {"gcc-env2", "zig-env"}, Chosen("gcc-node", "none", "none"), "gcc-def"),
             W({"rustc-path", "std-node"}, {"rustc-env"}, Chosen("none", "none", "std-node"), "none"),
             W({"rustc-env", "std-env"}, {"rustc-env", "std-env"}, Unchosen, "none")}

\* LlmConfig and Sessions name no thread, and Sessions no conversation but the one it finds
MCExecutors == {n, e}
MCIds == {i1, i2, i3}
MCThreads == {t1, t2}
Symmetry == Permutations({t1, t2}) \cup Permutations({i2, i3})

Export == INSTANCE Backup WITH File <- {"settings", "state.mig"}, Account <- {"new", "legacy"},
                               named <- accounts, rows <- rowsKept, MaxWrites <- 1, MaxKills <- 1
Builds == INSTANCE Compiler WITH Worlds <- MCWorlds, Thread <- MCThread, Host <- {"h", "g"},
                                 Pids <- {1, 2}, MaxBuilds <- 2, MaxChanges <- 1, MaxCrashes <- 1,
                                 MaxDays <- 1
Keys == INSTANCE LlmConfig WITH Threads <- {t1, t2}, Executors <- {"local", "worker"},
                                Local <- "local", MaxOps <- 2, MaxBoots <- 1, thread <- caller,
                                ops <- calls, boots <- restarted, seen <- noted

ASSUME LocalIsAnExecutor == Keys!LocalIsAnExecutor
ASSUME ExportAssumption == Export!BackupAssumption
ASSUME BuildsAssumption == Builds!CompilerAssumption

MCInit ==
    /\ focus \in {"chats", "export", "builds", "keys"}
    /\ Init
    /\ Export!Init /\ (focus # "export" => stored = {} /\ keyringUp /\ output = Export!NoPackage("none"))
    /\ Builds!Init /\ (focus # "builds" => there = AWorld.there)
    /\ Keys!Init /\ (focus # "keys" => legacy = {})

MCNext ==
    \/ focus = "chats" /\ Next
       /\ UNCHANGED <<focus, exportVars, buildsVars, keysVars>>
    \/ focus = "export" /\ Export!Next
       /\ UNCHANGED <<focus, vars, buildsVars, keysVars>>
    \/ focus = "builds" /\ Builds!Next
       /\ UNCHANGED <<focus, vars, exportVars, keysVars>>
    \/ focus = "keys" /\ Keys!Next
       /\ UNCHANGED <<focus, vars, exportVars, buildsVars>>

allVars == <<focus, vars, exportVars, buildsVars, keysVars>>

MCSpec == MCInit /\ [][MCNext]_allVars

-----------------------------------------------------------------------------
(* Compiler: a build works in a directory of its own that goes away, a sweep spares the
   directories of live builds, and the compiler that was named or chosen is the one that runs
   (build_scratch_dir, sweep_stale_temp_dirs, discover). *)
BuildsInv == focus = "builds" => Builds!BuildsInv

(* Backup: a package made while the node writes carries all it lists, reports what it could not
   read, leaves no copy behind and opens as what was sealed (export_with, decrypt). *)
PackageInv == focus = "export" => Export!PackageInv

(* LlmConfig: a key reaches only the provider it was stored for, and memory, file and keyring
   agree on what is remembered (build_llm, set_llm_config_with, clear_llm_config). *)
KeysInv == focus = "keys" => Keys!KeysInv
=============================================================================
