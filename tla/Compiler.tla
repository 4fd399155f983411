------------------------------ MODULE Compiler ------------------------------
(***************************************************************************)
(* The freestanding build (agent compiler.rs, tempdirs.rs; host-core       *)
(* state.rs, toolchain_config, compile_with_guard): how the three          *)
(* compilers are found, what a run's configuration becomes when a sandbox  *)
(* definition has a toolchain of its own, the scratch directory every      *)
(* build gets, and the sweep a host makes of old ones when it starts.      *)
(*                                                                         *)
(* A file is named by what points at it: "gcc-env1" is the file            *)
(* RISCDOM_RISCV_GCC names, "gcc-path" the one on PATH, "zig-node" the one *)
(* the node's settings name, "gcc-def" the one of the definition.          *)
(***************************************************************************)
EXTENDS Naturals, FiniteSets, Sequences

CONSTANTS Worlds,     \* where a build may happen: [there, env, node, def]
          Thread,     \* who builds: [host, as], as "run" or "preflight"
          Host,       \* the processes
          Pids,       \* the process numbers the machine hands out
          MaxBuilds,  \* bound: builds of one process
          MaxChanges, \* bound: executables removed, and then nobody is killed
          MaxCrashes, \* bound: hosts that are killed
          MaxDays     \* bound: days that pass

(* The settings name files: the bare names from_env falls back to are not among
   them.  A thread belongs to a process. *)
Bare == {"gcc-bare", "zig-bare", "rustc-bare"}
CompilerAssumption ==
    /\ \A w \in Worlds : w.node.gcc \notin Bare /\ w.node.zig \notin Bare
    /\ \A t \in Thread : t.host \in Host

VARIABLES there,    \* the executables and directories that exist
          env,      \* the variables that are set, each by the file it names
          node,     \* the settings' paths: [gcc, zig, std], "none" when absent
          def,      \* the toolchain of the definition runs are for
          pid, seq, \* per host: its number, 0 when it is down; its next build
          dirs,     \* the scratch directories: [name, files, old]
          build,    \* per thread: the build it is in
          reused,   \* history: a process got the number of one that was killed
          changes, crashes, days

world == <<there, env, node, def>>
vars == <<world, pid, seq, dirs, build, reused, changes, crashes, days>>

NoConfig == [gcc |-> "none", zig |-> "none", rustc |-> "none", std |-> "none"]
NoBuild == [at |-> "idle", lang |-> "-", cfg |-> NoConfig, dir |-> <<0, 0>>,
            ran |-> "none", killed |-> FALSE, result |-> "-"]

Init == /\ \E w \in Worlds : there = w.there /\ env = w.env /\ node = w.node /\ def = w.def
        /\ pid = [h \in Host |-> 0] /\ seq = [h \in Host |-> 0]
        /\ dirs = {}
        /\ build = [t \in Thread |-> NoBuild]
        /\ reused = FALSE /\ changes = 0 /\ crashes = 0 /\ days = 0

-----------------------------------------------------------------------------
(* Discovery: the first variable that is set decides, whether or not its file
   exists; then the known places, then PATH. *)
FirstOf(places) ==
    LET hits == {i \in DOMAIN places : places[i] \in there}
    IN  IF hits = {} THEN "none" ELSE places[CHOOSE i \in hits : \A j \in hits : i <= j]

Search(vs, places) ==
    LET set == {i \in DOMAIN vs : vs[i] \in env}
    IN  IF set = {} THEN FirstOf(places)
        ELSE FirstOf(<<vs[CHOOSE i \in set : \A j \in set : i <= j]>>)

KnownGcc == <<"gcc-known">>
KnownZig == <<"zig-known">>
SearchGcc == Search(<<"gcc-env1", "gcc-env2">>, KnownGcc \o <<"gcc-path">>)
SearchZig == Search(<<"zig-env">>, KnownZig \o <<"zig-path">>)
SearchRustc == Search(<<"rustc-env">>, <<"rustc-path">>)

(* from_env: with nothing found, a bare name -- except for Rust, whose halves
   may be missing. *)
GccFromEnv == IF SearchGcc = "none" THEN "gcc-bare" ELSE SearchGcc
ZigFromEnv == IF SearchZig = "none" THEN "zig-bare" ELSE SearchZig

(* mutant: Rust follows the other two *)
RustFromEnvBare == [rustc |-> IF SearchRustc = "none" THEN "rustc-bare" ELSE SearchRustc,
                    std   |-> IF "std-env" \in env THEN "std-env" ELSE "none"]

RustFromEnv == [rustc |-> SearchRustc,
                std   |-> IF "std-env" \in env THEN "std-env" ELSE "none"]

(* CompilerConfig::manual: the executable is given, the rest is discovered. *)
Manual(gcc) == [gcc |-> gcc, zig |-> ZigFromEnv, rustc |-> RustFromEnv.rustc, std |-> RustFromEnv.std]

(* mutant: the second language is not pinned *)
NodeConfigForC ==
    [Manual(IF node.gcc = "none" THEN GccFromEnv ELSE node.gcc)
         EXCEPT !.std = IF node.std = "none" THEN @ ELSE node.std]

(* toolchain_config: what the user chose wins over what was discovered. *)
NodeConfig ==
    [Manual(IF node.gcc = "none" THEN GccFromEnv ELSE node.gcc)
         EXCEPT !.zig = IF node.zig = "none" THEN @ ELSE node.zig,
                !.std = IF node.std = "none" THEN @ ELSE node.std]

(* A run for a definition that names a toolchain gets that one; a preflight,
   and every other run, the node's. *)
Config(t) == IF t.as = "run" /\ def # "none" THEN Manual(def) ELSE NodeConfig

-----------------------------------------------------------------------------
Busy(t) == build[t].at # "idle"
Dir(name) == {d \in dirs : d.name = name}
Files(lang) == IF lang = "c" THEN {"crt0", "link"} ELSE {"link"}

(* mutant: a directory per process *)
ScratchNameOfProcess(h) == <<pid[h], 0>>

(* build_scratch_dir: the process and a number it counts. *)
ScratchName(h) == <<pid[h], seq[h]>>

(* compile_freestanding: the language is the source's extension's; the
   directory may be one that a killed process left. *)
Begin(t, lang) ==
    /\ ~Busy(t) /\ pid[t.host] # 0 /\ seq[t.host] < MaxBuilds
    /\ t.as = "preflight" => lang = "c"
    /\ build' = [build EXCEPT ![t] = [NoBuild EXCEPT !.at = "made", !.lang = lang, !.cfg = Config(t),
                                                     !.dir = ScratchName(t.host)]]
    /\ seq' = [seq EXCEPT ![t.host] = @ + 1]
    /\ dirs' = IF Dir(ScratchName(t.host)) # {} THEN dirs
               ELSE dirs \cup {[name |-> ScratchName(t.host), files |-> {}, old |-> FALSE]}
    /\ UNCHANGED <<world, pid, reused, changes, crashes, days>>

Ends(t, what) == build' = [build EXCEPT ![t].at = "ending", ![t].result = what]

(* write_build_files, write_link_ld.  Writing over a file that is there does
   not touch the directory's date. *)
WriteFiles(t) ==
    /\ build[t].at = "made"
    /\ IF Dir(build[t].dir) = {}
       THEN Ends(t, "error") /\ UNCHANGED dirs
       ELSE /\ build' = [build EXCEPT ![t].at = "written"]
            /\ dirs' = {IF d.name # build[t].dir THEN d
                        ELSE [d EXCEPT !.files = @ \cup Files(build[t].lang),
                                       !.old = @ /\ Files(build[t].lang) \subseteq d.files] : d \in dirs}
    /\ UNCHANGED <<world, pid, seq, reused, changes, crashes, days>>

(* What a build's executable turns out to be when it is started. *)
Tool(t) == CASE build[t].lang = "c" -> build[t].cfg.gcc
             [] build[t].lang = "zig" -> build[t].cfg.zig
             [] build[t].lang = "rust" -> build[t].cfg.rustc
Resolved(tool) == CASE tool = "gcc-bare" -> "gcc-path"
                    [] tool = "zig-bare" -> "zig-path"
                    [] tool = "rustc-bare" -> "rustc-path"
                    [] OTHER -> tool

(* RustConfig::require. *)
RustLacksHalf(t) == build[t].lang = "rust" /\ "none" \in {Tool(t), build[t].cfg.std}

(* run_gcc, run_zig, run_rust: Rust needs both its halves; an executable that
   is not there is an error that says where it was looked for. *)
Spawn(t) ==
    /\ build[t].at = "written"
    /\ IF RustLacksHalf(t) \/ Resolved(Tool(t)) \notin there
       THEN Ends(t, "error")
       ELSE build' = [build EXCEPT ![t].at = "running", ![t].ran = Resolved(Tool(t))]
    /\ UNCHANGED <<world, pid, seq, dirs, reused, changes, crashes, days>>

(* The compiler exits: well, or with a message. *)
Exit(t) ==
    /\ build[t].at = "running"
    /\ \E ok \in BOOLEAN :
         /\ ok => /\ ~build[t].killed /\ Dir(build[t].dir) # {}
                  /\ build[t].lang = "rust" => build[t].cfg.std \in there
         /\ Ends(t, IF build[t].result = "timeout" THEN "timeout" ELSE IF ok THEN "ok" ELSE "failed")
    /\ UNCHANGED <<world, pid, seq, dirs, reused, changes, crashes, days>>

(* compile_with_guard: the budget is over, and every child of this process
   that has the compiler's name is stopped, whoever started it -- if the
   system's command finds it by that name. *)
GuardExpires(t) ==
    /\ t.as = "preflight" /\ build[t].at = "running" /\ build[t].result # "timeout"
    /\ \E found \in BOOLEAN :
         build' = [u \in Thread |->
                     [build[u] EXCEPT !.result = IF u = t THEN "timeout" ELSE @,
                                      !.killed = @ \/ (found /\ u.host = t.host /\ build[u].at = "running"
                                                       /\ build[u].lang = "c")]]
    /\ UNCHANGED <<world, pid, seq, dirs, reused, changes, crashes, days>>

(* mutant: a build that ends early leaves its directory *)
CleanUpAfterCompile(t) ==
    /\ build[t].at = "ending"
    /\ build' = [build EXCEPT ![t] = NoBuild]
    /\ dirs' = IF build[t].result = "error" THEN dirs ELSE dirs \ Dir(build[t].dir)
    /\ UNCHANGED <<world, pid, seq, reused, changes, crashes, days>>

(* However it ended, the directory goes. *)
CleanUp(t) ==
    /\ build[t].at = "ending"
    /\ build' = [build EXCEPT ![t] = NoBuild]
    /\ dirs' = dirs \ Dir(build[t].dir)
    /\ UNCHANGED <<world, pid, seq, reused, changes, crashes, days>>

-----------------------------------------------------------------------------
(* mutant: whatever bears the prefix *)
SweptAny == dirs

(* sweep_stale_temp_dirs: what was not written to for a day. *)
Swept == {d \in dirs : d.old}

(* A host starts: it has a number nobody has, and sweeps. *)
StartHost(h) ==
    /\ pid[h] = 0
    /\ \E n \in Pids :
         /\ \A g \in Host : pid[g] # n
         /\ pid' = [pid EXCEPT ![h] = n]
         /\ dirs' = dirs \ Swept
         /\ reused' = (reused \/ \E d \in dirs \ Swept : d.name[1] = n)
    /\ seq' = [seq EXCEPT ![h] = 0]
    /\ UNCHANGED <<world, build, changes, crashes, days>>

KillHost(h) ==
    /\ pid[h] # 0 /\ crashes < MaxCrashes /\ changes = 0
    /\ pid' = [pid EXCEPT ![h] = 0]
    /\ build' = [t \in Thread |-> IF t.host = h THEN NoBuild ELSE build[t]]
    /\ crashes' = crashes + 1
    /\ UNCHANGED <<world, seq, dirs, reused, changes, days>>

(* A day passes, and no build lasts that long. *)
Day ==
    /\ days < MaxDays /\ changes = 0 /\ \A t \in Thread : ~Busy(t)
    /\ dirs' = {[d EXCEPT !.old = TRUE] : d \in dirs}
    /\ days' = days + 1
    /\ UNCHANGED <<world, pid, seq, build, reused, changes, crashes>>

(* Somebody uninstalls something.  What is installed and what lies in the
   temporary directory do not meet, so no behaviour has both kinds of event. *)
Uninstall(f) ==
    /\ changes < MaxChanges /\ crashes = 0 /\ days = 0
    /\ changes' = changes + 1
    /\ there' = there \ {f}
    /\ UNCHANGED <<env, node, def, pid, seq, dirs, build, reused, crashes, days>>

-----------------------------------------------------------------------------
Next == \/ \E t \in Thread : \/ \E lang \in {"c", "zig", "rust"} : Begin(t, lang)
                             \/ WriteFiles(t) \/ Spawn(t) \/ Exit(t) \/ GuardExpires(t) \/ CleanUp(t)
        \/ \E h \in Host : StartHost(h) \/ KillHost(h)
        \/ Day
        \/ \E f \in there : Uninstall(f)

Spec == Init /\ [][Next]_vars

-----------------------------------------------------------------------------
(***************************************************************************)
(* Builds go on side by side, and each has a directory of its own: no two  *)
(* that have begun and not ended share one ("sharing one path meant the    *)
(* loser of that race compiled against a half-written file").              *)
(***************************************************************************)
DirectoriesAreOwn ==
    \A t, u \in Thread : t # u /\ Busy(t) /\ Busy(u) => build[t].dir # build[u].dir

(***************************************************************************)
(* Scratch does not pile up: unless a host was killed, every directory is  *)
(* that of a build that goes on, however the earlier ones ended.           *)
(***************************************************************************)
ScratchGoesAway ==
    crashes = 0 => \A d \in dirs : \E t \in Thread : Busy(t) /\ build[t].dir = d.name

(***************************************************************************)
(* No host that starts takes the directory of a build that goes on, as     *)
(* long as no process number comes back.                                   *)
(***************************************************************************)
AloneSweepSpares ==
    ~reused => \A t \in Thread : build[t].at \in {"written", "running"} => Dir(build[t].dir) # {}

(***************************************************************************)
(* "An explicit user path wins over discovery": what ran for a language is *)
(* what the settings name for it, when they name one and no definition has *)
(* a toolchain.                                                            *)
(***************************************************************************)
AloneChoiceIsObeyed ==
    def = "none" => \A t \in Thread :
        LET chosen == CASE build[t].lang = "c" -> node.gcc
                        [] build[t].lang = "zig" -> node.zig
                        [] OTHER -> "none"
        IN  chosen # "none" => build[t].ran \in {"none", chosen}

(***************************************************************************)
(* "Never silently ignored" (discover), of rustc: when RISCDOM_RUSTC is    *)
(* set, a Rust build runs what it names or fails.                          *)
(***************************************************************************)
NamedRustcIsObeyed ==
    \A t \in Thread : build[t].lang = "rust" /\ "rustc-env" \in env => build[t].ran \in {"none", "rustc-env"}

(***************************************************************************)
(* Builds side by side have a directory each, leave nothing behind, lose   *)
(* nothing to a sweep, and use the compiler that was chosen                *)
(* (build_scratch_dir, sweep_stale_temp_dirs, resolve).                    *)
(***************************************************************************)
BuildsInv ==
    /\ DirectoriesAreOwn /\ ScratchGoesAway /\ AloneSweepSpares /\ AloneChoiceIsObeyed
    /\ NamedRustcIsObeyed

(***************************************************************************)
(* The same of all three: "an environment variable that is set but does    *)
(* not point at an existing file is an explicit error (never silently      *)
(* ignored)".                                                              *)
(***************************************************************************)
NamedIsObeyed ==
    \A t \in Thread :
        build[t].ran # "gcc-path" \/ {"gcc-env1", "gcc-env2"} \cap env = {}

(***************************************************************************)
(* "A field it leaves empty keeps whatever the node set above" (state.rs,  *)
(* run_agent_loop, of a definition): a definition has no field for Zig or  *)
(* for a sysroot, so the node's stand, whatever toolchain it names.        *)
(***************************************************************************)
DefinitionKeepsTheRest ==
    \A t \in Thread : build[t].lang = "zig" /\ node.zig # "none" => build[t].ran \in {"none", node.zig}

(***************************************************************************)
(* "A day is long enough that no running build, test or example can still  *)
(* own it" (TEMP_DIR_MAX_AGE).                                             *)
(***************************************************************************)
SweepSparesRunning ==
    \A t \in Thread : build[t].at \in {"written", "running"} => Dir(build[t].dir) # {}
=============================================================================
