---------------------------- MODULE HostSettings ----------------------------
(***************************************************************************)
(* settings.json and what is derived from it (host-core settings.rs,       *)
(* preflight.rs and the settings, path and preflight sections of           *)
(* state.rs).  The settings live three times: the live path slots, the     *)
(* cached LocalSettings behind a mutex, and the file.  A setter changes    *)
(* them in that order, and save_settings takes its snapshot under the lock *)
(* and writes the file outside of it.  The preflight reads the             *)
(* configuration at its own pace and files its result under the            *)
(* fingerprint it read first.                                              *)
(***************************************************************************)
EXTENDS Naturals, FiniteSets

CONSTANTS Threads,     \* request threads of the host
          Found,       \* the versions the settings file may have at first start
          MaxOps,      \* bound: operations begun
          MaxBoots     \* bound: restarts

FoundAreVersions == Found \subseteq {"old", "current", "newer"}

Paths == {"auto", "manual"}
Nothing == [gcc |-> "none", qemu |-> "none", llm |-> 0]
NoResult == [ok |-> FALSE, overridden |-> FALSE, of |-> Nothing, tested |-> Nothing]

VARIABLES
  live,      \* [gcc, qemu]: the toolchain_path and qemu_path slots
  llm,       \* 0..1: which model is configured (memory, part of the fingerprint)
  cached,    \* [gcc, qemu, theme, preflight]: AppState.settings
  file,      \* [version, doc]: settings.json; version "torn" between truncation and write
  bak,       \* the same: settings.json.bak
  origin,    \* history: the version the file had at first start
  thread,    \* [Threads -> record]: the operation a thread is in
  problem,   \* settings_problem: the file came from a newer build
  ops, boots,
  seen       \* history: savers overlapped, a save or backup failed, the configuration moved
             \* under a check, a result was rebound, the newer file was overwritten

vars == <<live, llm, cached, file, bak, origin, thread, problem, ops, boots, seen>>

Defaults == [gcc |-> "auto", qemu |-> "auto", theme |-> 0, preflight |-> NoResult]
(* What the user had before this build first ran. *)
Original == [version |-> origin,
             doc |-> [gcc |-> "manual", qemu |-> "auto", theme |-> 1, preflight |-> NoResult]]
Torn == [version |-> "torn", doc |-> Defaults]
Idle == [pc |-> "idle", snap |-> Defaults, which |-> "gcc", value |-> "auto", twice |-> FALSE,
         fp |-> Nothing, ok |-> FALSE, env |-> Nothing]

Init ==
  /\ live = [gcc |-> "auto", qemu |-> "auto"] /\ llm = 0 /\ cached = Defaults
  /\ origin \in Found /\ file = Original /\ bak = Torn
  /\ thread = [t \in Threads |-> [Idle EXCEPT !.pc = "off"]]
  /\ problem = FALSE /\ ops = 0 /\ boots = 0
  /\ seen = [overlap |-> FALSE, failed |-> FALSE, moved |-> FALSE, rebound |-> FALSE]

Off == \A t \in Threads : thread[t].pc = "off"
Quiet == \A t \in Threads : thread[t].pc = "idle"
Writing == {"snapshot", "write", "torn"}
Goto(t, pc) == thread' = [thread EXCEPT ![t].pc = pc]

-----------------------------------------------------------------------------
(* load_text: a torn document is no document, and a newer one is refused. *)
LoadText(f) ==
  [settings |-> IF f.version \in {"old", "current"} THEN f.doc ELSE Defaults,
   outcome |-> IF f.version = "torn" THEN "missing" ELSE f.version]

(* The first half of load_settings: read, report a newer file, back an older one up. *)
MigrateWithoutBackup(backed) ==
  /\ bak' = bak
  /\ UNCHANGED seen
BackUp(backed) ==
  /\ bak' = IF backed THEN file ELSE bak
  /\ seen' = IF backed THEN seen ELSE [seen EXCEPT !.failed = TRUE]

(* load_settings: the cached settings and the live slots take what was read, and a migrated
   document goes back to the file. *)
LoadSettings(t, backed) ==
  LET read == LoadText(file) IN
  /\ Off
  /\ problem' = (read.outcome = "newer")
  /\ IF read.outcome = "old" THEN BackUp(backed) ELSE backed /\ UNCHANGED <<bak, seen>>
  /\ cached' = read.settings
  /\ live' = [gcc |-> read.settings.gcc, qemu |-> read.settings.qemu]
  /\ thread' = [u \in Threads |->
                  IF u = t /\ read.outcome = "old" THEN [Idle EXCEPT !.pc = "snapshot"] ELSE Idle]
  /\ llm' = 0
  /\ UNCHANGED <<file, origin, ops, boots>>

(* A process that dies leaves the file as it is. *)
Die ==
  /\ ~Off /\ boots < MaxBoots
  /\ boots' = boots + 1
  /\ thread' = [t \in Threads |-> [Idle EXCEPT !.pc = "off"]]
  /\ UNCHANGED <<live, llm, cached, file, bak, origin, problem, ops, seen>>

-----------------------------------------------------------------------------
(* save_settings: a snapshot under the lock, then a plain fs::write, truncation first. *)
Snapshot(t) ==
  /\ thread[t].pc = "snapshot"
  /\ thread' = [thread EXCEPT ![t].pc = "write", ![t].snap = cached]
  /\ seen' = [seen EXCEPT !.overlap = @ \/ \E u \in Threads \ {t} : thread[u].pc \in {"write", "torn"}]
  /\ UNCHANGED <<live, llm, cached, file, bak, origin, problem, ops, boots>>

Truncate(t) ==
  /\ thread[t].pc = "write"
  /\ \/ Goto(t, "torn") /\ file' = Torn /\ UNCHANGED seen
     \/ /\ Goto(t, IF thread[t].twice THEN "forget" ELSE "idle")   \* host.settings.save_failed
        /\ seen' = [seen EXCEPT !.failed = TRUE] /\ UNCHANGED file
  /\ UNCHANGED <<live, llm, cached, bak, origin, problem, ops, boots>>

WriteOutOld(t) ==
  /\ thread[t].pc = "torn"
  /\ file' = [version |-> "current", doc |-> IF thread[t].twice THEN thread[t].snap ELSE file.doc]
  /\ thread' = [thread EXCEPT ![t].pc = IF thread[t].twice THEN "forget" ELSE "idle"]
  /\ UNCHANGED <<live, llm, cached, bak, origin, problem, ops, boots, seen>>
WriteOut(t) ==
  /\ thread[t].pc = "torn"
  /\ file' = [version |-> "current", doc |-> thread[t].snap]
  /\ thread' = [thread EXCEPT ![t].pc = IF thread[t].twice THEN "forget" ELSE "idle"]
  /\ UNCHANGED <<live, llm, cached, bak, origin, problem, ops, boots, seen>>

-----------------------------------------------------------------------------
Begin(t) == thread[t].pc = "idle" /\ ops < MaxOps /\ ops' = ops + 1
Checking(u) == thread[u].pc \in {"gcc", "compile", "qemu", "boot", "file"}
Overlaps(t) == \E u \in Threads \ {t} : thread[u].pc \in {"settings", "forget"} \cup Writing
Moved(t) == [seen EXCEPT !.moved = @ \/ \E u \in Threads \ {t} : Checking(u), !.overlap = @ \/ Overlaps(t)]

(* set_toolchain_path, set_qemu_path, and their clear_ counterparts: the live slot first. *)
SetPath(t, which, value) ==
  /\ Begin(t)
  /\ live' = [live EXCEPT ![which] = value]
  /\ thread' = [thread EXCEPT ![t] = [Idle EXCEPT !.pc = "settings", !.which = which, !.value = value,
                                      !.twice = (value = "manual")]]
  /\ seen' = Moved(t)
  /\ UNCHANGED <<llm, cached, file, bak, origin, problem, boots>>

SetPathCaches(t) ==
  /\ thread[t].pc = "settings"
  /\ cached' = [cached EXCEPT ![thread[t].which] = thread[t].value]
  /\ Goto(t, "snapshot")
  /\ UNCHANGED <<live, llm, file, bak, origin, problem, ops, boots, seen>>

(* clear_preflight_cache, which a set path calls and a cleared one does not. *)
ClearPreflight(t) ==
  /\ thread[t].pc = "forget"
  /\ cached' = [cached EXCEPT !.preflight = NoResult]
  /\ thread' = [thread EXCEPT ![t].pc = "snapshot", ![t].twice = FALSE]
  /\ UNCHANGED <<live, llm, file, bak, origin, problem, ops, boots, seen>>

(* set_theme, set_language, set_network, set_alert_on_audit_failure. *)
SetPreference(t, value) ==
  /\ Begin(t)
  /\ cached' = [cached EXCEPT !.theme = value]
  /\ thread' = [thread EXCEPT ![t] = [Idle EXCEPT !.pc = "snapshot"]]
  /\ seen' = [seen EXCEPT !.overlap = @ \/ Overlaps(t)]
  /\ UNCHANGED <<live, llm, file, bak, origin, problem, boots>>

(* set_llm_config: in memory, and a part of the fingerprint. *)
SetModel(t, value) ==
  /\ Begin(t) /\ value # llm
  /\ llm' = value
  /\ UNCHANGED <<live, cached, file, bak, origin, thread, problem, boots, seen>>

-----------------------------------------------------------------------------
(* run_fingerprint: what a run of this node would be made of. *)
RunFingerprint == [gcc |-> live.gcc, qemu |-> live.qemu, llm |-> llm]

(* ensure_preflight: a cached result for this fingerprint is the answer, unless forced. *)
EnsurePreflight(t, force) ==
  /\ Begin(t)
  /\ force \/ cached.preflight.of # RunFingerprint
  /\ thread' = [thread EXCEPT ![t] = [Idle EXCEPT !.pc = "gcc", !.fp = RunFingerprint]]
  /\ UNCHANGED <<live, llm, cached, file, bak, origin, problem, boots, seen>>

(* run_preflight_now, fail-fast: each step reads the path it needs when it gets there. *)
CheckGcc(t) ==
  /\ thread[t].pc = "gcc"
  /\ \/ thread' = [thread EXCEPT ![t].pc = "qemu", ![t].env.gcc = live.gcc]
     \/ Goto(t, "file")
  /\ UNCHANGED <<live, llm, cached, file, bak, origin, problem, ops, boots, seen>>
CheckQemu(t) ==
  /\ thread[t].pc = "qemu"
  /\ \/ thread' = [thread EXCEPT ![t].pc = "file", ![t].env.qemu = live.qemu, ![t].ok = TRUE]
     \/ Goto(t, "file")
  /\ UNCHANGED <<live, llm, cached, file, bak, origin, problem, ops, boots, seen>>
FileResult(t) ==
  /\ thread[t].pc = "file"
  /\ cached' = [cached EXCEPT !.preflight =
       [ok |-> thread[t].ok, overridden |-> FALSE, of |-> thread[t].fp,
        tested |-> thread[t].env]]
  /\ thread' = [thread EXCEPT ![t] = [Idle EXCEPT !.pc = "snapshot"]]
  /\ seen' = [seen EXCEPT !.overlap = @ \/ Overlaps(t)]
  /\ UNCHANGED <<live, llm, file, bak, origin, problem, ops, boots>>

(* acknowledge_preflight: the cached result, whatever it was of, is now of this fingerprint. *)
Acknowledge(t) ==
  /\ Begin(t)
  /\ cached' = [cached EXCEPT !.preflight.of = RunFingerprint, !.preflight.overridden = TRUE]
  /\ thread' = [thread EXCEPT ![t] = [Idle EXCEPT !.pc = "snapshot"]]
  /\ seen' = [seen EXCEPT !.overlap = @ \/ Overlaps(t),
                          !.rebound = @ \/ cached.preflight.of \notin {Nothing, RunFingerprint}]
  /\ UNCHANGED <<live, llm, file, bak, origin, problem, boots>>

(* preflight_status: what is shown for the configuration as it stands. *)
ShownAnyway == cached.preflight
Shown == IF cached.preflight.of = RunFingerprint THEN cached.preflight ELSE NoResult

Next ==
  \/ Die
  \/ \E t \in Threads :
       \/ \E backed \in BOOLEAN : LoadSettings(t, backed)
       \/ Snapshot(t) \/ Truncate(t) \/ WriteOut(t)
       \/ SetPathCaches(t) \/ ClearPreflight(t)
       \/ \E which \in {"gcc", "qemu"}, value \in Paths : SetPath(t, which, value)
       \/ \E value \in 0..1 : SetPreference(t, value) \/ SetModel(t, value)
       \/ \E force \in BOOLEAN : EnsurePreflight(t, force)
       \/ CheckGcc(t) \/ CheckQemu(t) \/ FileResult(t) \/ Acknowledge(t)

Spec == Init /\ [][Next]_vars

-----------------------------------------------------------------------------
(* When nothing is under way and no two setters ever overlapped, the three copies agree: the
   live paths are the cached ones and the cached settings are the file's. *)
AloneDiskIsCurrent ==
  Quiet /\ ~seen.overlap /\ ~seen.failed /\ ops > 0 /\ ~problem /\ boots = 0
    => /\ file = [version |-> "current", doc |-> cached] \/ (file = Original /\ cached = Original.doc)
       /\ live = [gcc |-> cached.gcc, qemu |-> cached.qemu]

(* A settings file of an older build is never lost: its content is in the file or in the
   backup, whatever dies in between, unless the backup could not be written. *)
OriginalIsKept == origin = "old" /\ ~seen.failed => file = Original \/ bak = Original

OwnPass == Shown.tested.gcc = live.gcc /\ Shown.tested.qemu = live.qemu
(* A shown pass belongs to the configuration it is shown for: the compiler and the emulator
   that were run are the ones a run would use now, as long as nothing moved under the check
   and nobody acknowledged another configuration's result. *)
ShownPassIsItsOwn ==
  Shown.ok /\ ~seen.moved /\ ~seen.rebound => OwnPass

(***************************************************************************)
(* Request by request the file is what the node works with, a file of      *)
(* another version is copied before it is replaced, and a preflight is     *)
(* shown for the settings it was run on (save_settings, load_settings,     *)
(* preflight).                                                             *)
(***************************************************************************)
SettingsInv == AloneDiskIsCurrent /\ OriginalIsKept /\ ShownPassIsItsOwn

(* As PreflightCache's comment has it: a configuration change invalidates the result. *)
ShownPassWasRun == Shown.ok => OwnPass
(* As set_network's comment has it: a later write cannot resurrect a stale copy. *)
DiskIsCurrent ==
  Quiet /\ ~seen.failed /\ ops > 0 /\ boots = 0 /\ file.version = "current" => file.doc = cached
(* As SettingsLoadError's comment has it: a newer file is never downgraded silently. *)
NewerIsNeverDowngraded == origin = "newer" => file = Original
=============================================================================
