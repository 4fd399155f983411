------------------------------ MODULE Downloads ------------------------------
(***************************************************************************)
(* The one-click downloads of the host (toolchain_download.rs,             *)
(* qemu_download.rs and the download section of state.rs): a slot per      *)
(* family, a worker that fetches, verifies, unpacks, installs and adopts,  *)
(* and a cancel flag it polls.  The two families are written twice in the  *)
(* code, line by line alike; here one worker serves both and the Qemu*     *)
(* definitions name its second occurrence.                                 *)
(*                                                                         *)
(* The files are shared: every process on one data directory unpacks a     *)
(* family into the same .extract-tmp, and a crash leaves them as they are. *)
(***************************************************************************)
EXTENDS Naturals, FiniteSets, Sequences

CONSTANTS Procs,      \* host processes on one data directory
          Kinds,      \* what may be downloaded: a subset of {"c", "zig", "rust", "qemu"}
          Platform,   \* the machine's os and architecture
          Rustc,      \* the release its rustc reports, "none" without one
          Chunks,     \* reads that fetch an archive
          Entries,    \* entries of an archive
          MaxStarts,  \* bound: downloads begun in a behaviour
          MaxCrashes  \* bound: process deaths

(* The emulator is one of the downloads: begin_qemu_download asks for no kind. *)
DownloadsAssumption ==
    /\ IsFiniteSet(Procs) /\ Chunks \in Nat /\ Entries \in Nat
    /\ Kinds \subseteq {"c", "zig", "rust", "qemu"} /\ "qemu" \in Kinds

Families == {"toolchain", "qemu"}
Family(k) == IF k = "qemu" THEN "qemu" ELSE "toolchain"

(* spec_for_toolchain: the pinned table has C and Zig for five platforms and one sysroot for
   every host.  No emulator is pinned: its worker runs on a spec its caller hands in. *)
Platforms == {"windows-x86_64", "macos-x86_64", "macos-aarch64", "linux-x86_64", "linux-aarch64"}
Pinned(k) == k = "rust" \/ (k \in {"c", "zig"} /\ Platform \in Platforms)
(* rust_release_matches: a sysroot serves the compiler release that produced it. *)
RustReleaseMatches == Rustc = "pinned"

VARIABLES
  slot,     \* [Procs -> [Families -> [kind, cancel] or Free]]: the slot mutex' content
  worker,   \* [Procs -> [Families -> record]]: the worker that holds the slot
  archive,  \* [Kinds -> [read, good]]: the file in .download-tmp, NoFile when absent
  staging,  \* [Families -> [kind, count] or NoFile]: .extract-tmp
  install,  \* [Kinds -> {"none", "whole", "broken"}]: the versioned directory
  path,     \* [Kinds -> BOOLEAN]: the adopted path is in the settings (one per kind)
  rows,     \* [starts, ends, lost]: start rows, done, failed or cancelled rows, workers that died
  crashes,
  crowded   \* history: two processes had a worker of one family at once

vars == <<slot, worker, archive, staging, install, path, rows, crashes, crowded>>

NoFile == [kind |-> "none", count |-> 0, good |-> TRUE]
Free == [kind |-> "free", cancel |-> FALSE]
Idle == [pc |-> "idle", kind |-> "none", count |-> 0, early |-> FALSE, out |-> "none"]
Busy(p, f) == worker[p][f].pc # "idle"
Cancelled(p, f) == slot[p][f].cancel

Init ==
  /\ slot = [p \in Procs |-> [f \in Families |-> Free]]
  /\ worker = [p \in Procs |-> [f \in Families |-> Idle]]
  /\ archive = [k \in Kinds |-> [read |-> 0, good |-> FALSE]]
  /\ staging = [f \in Families |-> NoFile]
  /\ install = [k \in Kinds |-> "none"]
  /\ path = [k \in Kinds |-> FALSE]
  /\ rows = [starts |-> 0, ends |-> 0, lost |-> 0] /\ crashes = 0 /\ crowded = FALSE

Goto(p, f, pc) == worker' = [worker EXCEPT ![p][f].pc = pc]
Count(p, f, pc, n) == worker' = [worker EXCEPT ![p][f].pc = pc, ![p][f].count = n]
Fail(p, f, out) == worker' = [worker EXCEPT ![p][f].pc = "clean", ![p][f].out = out]

(* begin_toolchain_download, begin_qemu_download: the slot is free, or the call is refused. *)
SlotUnchecked(p, f) == TRUE
SlotIsFree(p, f) == slot[p][f] = Free
BeginDownload(p, k) ==
  LET f == Family(k) IN
  /\ k = "rust" => RustReleaseMatches
  /\ SlotIsFree(p, f) /\ rows.starts < MaxStarts
  /\ slot' = [slot EXCEPT ![p][f] = [kind |-> k, cancel |-> FALSE]]
  /\ worker' = [worker EXCEPT ![p][f] = [Idle EXCEPT !.pc = "look", !.kind = k]]
  /\ rows' = [rows EXCEPT !.starts = @ + 1]
  /\ crowded' = (crowded \/ \E q \in Procs \ {p} : Busy(q, f))
  /\ UNCHANGED <<archive, staging, install, path, crashes>>

(* cancel_toolchain_download: the flag of whatever holds the slot. *)
CancelDownload(p, f) ==
  /\ slot[p][f] # Free /\ ~Cancelled(p, f)
  /\ slot' = [slot EXCEPT ![p][f].cancel = TRUE]
  /\ worker' = [worker EXCEPT ![p][f].early = @ \/ worker[p][f].pc \in {"fetch", "verify"}]
  /\ UNCHANGED <<archive, staging, install, path, rows, crashes, crowded>>

(* download_and_install begins by looking: a directory that holds the product is the answer. *)
Look(p, f) ==
  LET w == worker[p][f] IN
  /\ w.pc = "look"
  /\ Goto(p, f, IF install[w.kind] = "none" THEN "connect" ELSE "adopt")
  /\ UNCHANGED <<slot, archive, staging, install, path, rows, crashes, crowded>>

(* download: the request, the created file, and one read per step, polled before each. *)
Connect(p, f) ==
  LET w == worker[p][f] IN
  /\ w.pc = "connect"
  /\ \/ Fail(p, f, "failed") /\ UNCHANGED archive
     \/ /\ Count(p, f, "fetch", 0)
        /\ archive' = [archive EXCEPT ![w.kind] = [read |-> 0, good |-> TRUE]]
  /\ UNCHANGED <<slot, staging, install, path, rows, crashes, crowded>>

Fetch(p, f) ==
  LET w == worker[p][f] IN
  /\ w.pc = "fetch"
  /\ \/ Cancelled(p, f) /\ Fail(p, f, "cancelled") /\ UNCHANGED archive
     \/ ~Cancelled(p, f) /\ Fail(p, f, "failed") /\ UNCHANGED archive
     \/ ~Cancelled(p, f) /\ w.count = Chunks /\ Goto(p, f, "verify") /\ UNCHANGED archive
     \/ /\ ~Cancelled(p, f) /\ w.count < Chunks
        /\ Count(p, f, "fetch", w.count + 1)
        /\ \E good \in BOOLEAN :
             archive' = [archive EXCEPT ![w.kind] = [read |-> w.count + 1, good |-> @.good /\ good]]
  /\ UNCHANGED <<slot, staging, install, path, rows, crashes, crowded>>

(* verify: the digest of the file that is there now. *)
ChecksumPublishedElsewhere(a) == a.read > 0
ChecksumMatches(a) == a.read = Chunks /\ a.good
VerifyUnpolled(p, f) ==
  LET w == worker[p][f] IN
  /\ w.pc = "verify"
  /\ IF ChecksumMatches(archive[w.kind]) THEN Goto(p, f, "stage") ELSE Fail(p, f, "failed")
  /\ UNCHANGED <<slot, archive, staging, install, path, rows, crashes, crowded>>
Verify(p, f) ==
  LET w == worker[p][f] IN
  /\ w.pc = "verify"
  /\ IF Cancelled(p, f) THEN Fail(p, f, "cancelled")
     ELSE IF ChecksumMatches(archive[w.kind]) THEN Goto(p, f, "stage") ELSE Fail(p, f, "failed")
  /\ UNCHANGED <<slot, archive, staging, install, path, rows, crashes, crowded>>

(* extract: a fresh staging directory, then one entry per step; an error removes it. *)
Stage(p, f) ==
  LET w == worker[p][f] IN
  /\ w.pc = "stage"
  /\ staging' = [staging EXCEPT ![f] = [kind |-> w.kind, count |-> 0, good |-> TRUE]]
  /\ Count(p, f, "unpack", 0)
  /\ UNCHANGED <<slot, archive, install, path, rows, crashes, crowded>>

(* An entry lands in whatever staging directory is there, made anew if there is none. *)
Unpacked(f, k) ==
  [kind |-> IF staging[f].kind \in {k, "none"} THEN k ELSE "mixed",
   count |-> staging[f].count + 1, good |-> staging[f].good /\ archive[k].good]
Unpack(p, f) ==
  LET w == worker[p][f] IN
  /\ w.pc = "unpack"
  /\ \/ /\ Cancelled(p, f) /\ w.count < Entries
        /\ Fail(p, f, "cancelled") /\ staging' = [staging EXCEPT ![f] = NoFile]
     \/ /\ ~Cancelled(p, f)   \* an unsafe entry, a broken archive, a full disk
        /\ Fail(p, f, "failed") /\ staging' = [staging EXCEPT ![f] = NoFile]
     \/ /\ ~Cancelled(p, f) /\ w.count < Entries
        /\ Count(p, f, "unpack", w.count + 1)
        /\ staging' = [staging EXCEPT ![f] = Unpacked(f, w.kind)]
     \/ w.count = Entries /\ Goto(p, f, "locate") /\ UNCHANGED staging
  /\ UNCHANGED <<slot, archive, install, path, rows, crashes, crowded>>

(* The product is looked for in the staging directory, and the directory moves into place. *)
LocateAndMove(p, f) ==
  LET w == worker[p][f] IN
  /\ w.pc = "locate"
  /\ IF staging[f] = NoFile \/ staging[f].count = 0
     THEN Fail(p, f, "failed") /\ staging' = [staging EXCEPT ![f] = NoFile] /\ UNCHANGED install
     ELSE /\ Goto(p, f, "done")
          /\ install' = [install EXCEPT ![w.kind] =
               IF staging[f] = [kind |-> w.kind, count |-> Entries, good |-> TRUE]
               THEN "whole" ELSE "broken"]
          /\ staging' = [staging EXCEPT ![f] = NoFile]
  /\ UNCHANGED <<slot, archive, path, rows, crashes, crowded>>

(* The end of download_and_install: the archive goes either way. *)
Installed(p, f) ==
  LET w == worker[p][f] IN
  /\ w.pc = "done"
  /\ archive' = [archive EXCEPT ![w.kind] = [read |-> 0, good |-> FALSE]]
  /\ Goto(p, f, "adopt")
  /\ UNCHANGED <<slot, staging, install, path, rows, crashes, crowded>>
Clean(p, f) ==
  LET w == worker[p][f] IN
  /\ w.pc = "clean"
  /\ archive' = [archive EXCEPT ![w.kind] = [read |-> 0, good |-> FALSE]]
  /\ Goto(p, f, "free")
  /\ UNCHANGED <<slot, staging, install, path, rows, crashes, crowded>>

(* download_toolchain_now, download_qemu_now: a product that does not run is not adopted. *)
Adopt(p, f, runs) ==
  LET w == worker[p][f] IN
  /\ w.pc = "adopt"
  /\ path' = [path EXCEPT ![w.kind] = @ \/ runs]
  /\ worker' = [worker EXCEPT ![p][f].pc = "free", ![p][f].out = IF runs THEN "done" ELSE "failed"]
  /\ UNCHANGED <<slot, archive, staging, install, rows, crashes, crowded>>

(* finish_toolchain_download, before the row is written. *)
FreeSlotOnSuccess(p, f) ==
  /\ worker[p][f].pc = "free"
  /\ slot' = IF worker[p][f].out = "done" THEN [slot EXCEPT ![p][f] = Free] ELSE slot
  /\ rows' = [rows EXCEPT !.ends = @ + 1]
  /\ worker' = [worker EXCEPT ![p][f] = Idle]
  /\ UNCHANGED <<archive, staging, install, path, crashes, crowded>>
FreeSlot(p, f) ==
  /\ worker[p][f].pc = "free"
  /\ slot' = [slot EXCEPT ![p][f] = Free]
  /\ rows' = [rows EXCEPT !.ends = @ + 1]
  /\ worker' = [worker EXCEPT ![p][f] = Idle]
  /\ UNCHANGED <<archive, staging, install, path, crashes, crowded>>

Crash(p) ==
  /\ crashes < MaxCrashes
  /\ crashes' = crashes + 1
  /\ slot' = [slot EXCEPT ![p] = [f \in Families |-> Free]]
  /\ worker' = [worker EXCEPT ![p] = [f \in Families |-> Idle]]
  /\ rows' = [rows EXCEPT !.lost = @ + Cardinality({f \in Families : Busy(p, f)})]
  /\ UNCHANGED <<archive, staging, install, path, crowded>>

DownloadAndInstall(p) ==
  \/ Look(p, "toolchain") \/ Connect(p, "toolchain") \/ Fetch(p, "toolchain")
  \/ Verify(p, "toolchain") \/ Stage(p, "toolchain") \/ Unpack(p, "toolchain")
  \/ LocateAndMove(p, "toolchain") \/ Installed(p, "toolchain") \/ Clean(p, "toolchain")
DownloadToolchainNow(p) ==
  \/ DownloadAndInstall(p) \/ FreeSlot(p, "toolchain")
  \/ \E runs \in BOOLEAN : Adopt(p, "toolchain", runs)

(* The second occurrence: the emulator's own slot, spec, locator and adoption. *)
BeginQemu(p) == BeginDownload(p, "qemu")
QemuFetch(p) ==
  \/ Look(p, "qemu") \/ Connect(p, "qemu") \/ Fetch(p, "qemu") \/ Verify(p, "qemu")
  \/ Installed(p, "qemu") \/ Clean(p, "qemu")
QemuUnpack(p) == Stage(p, "qemu") \/ Unpack(p, "qemu") \/ LocateAndMove(p, "qemu")
DownloadQemuNow(p) ==
  \/ QemuFetch(p) \/ QemuUnpack(p) \/ FreeSlot(p, "qemu")
  \/ \E runs \in BOOLEAN : Adopt(p, "qemu", runs)

Work(p) == DownloadToolchainNow(p) \/ DownloadQemuNow(p)
Next ==
  \/ \E p \in Procs : BeginQemu(p) \/ Work(p) \/ Crash(p)
  \/ \E p \in Procs, k \in Kinds : Pinned(k) /\ BeginDownload(p, k)
  \/ \E p \in Procs, f \in Families : CancelDownload(p, f)

(* A worker is a thread of its own and every wait of it is bounded by the client's timeout. *)
Spec == Init /\ [][Next]_vars /\ \A p \in Procs : WF_vars(Work(p))

-----------------------------------------------------------------------------
(* What stands in an install directory is a whole archive that was verified, unless two
   processes worked on one family at once and shared its staging directory. *)
AloneInstalledIsWhole == ~crowded => \A k \in Kinds : install[k] # "broken"

(* A cancel that arrives before the checksum was taken is obeyed: that worker never gets to
   adopt anything. *)
EarlyCancelIsObeyed ==
  \A p \in Procs, f \in Families :
    worker[p][f].early => worker[p][f].pc \in {"fetch", "verify", "clean", "free"}

(* Every start row is matched by one end row, or by a worker that is under way or died. *)
StartsAreSettled ==
  LET working == Cardinality({b \in Procs \X Families : Busy(b[1], b[2])})
  IN rows.starts = rows.ends + rows.lost + working

(***************************************************************************)
(* A download that was begun is told how it ended, a cancel before the     *)
(* verification installs nothing, and what one process installs is the     *)
(* pinned archive (begin, cancel, verify, install).                        *)
(***************************************************************************)
DownloadsInv == StartsAreSettled /\ EarlyCancelIsObeyed /\ AloneInstalledIsWhole

(* A toolchain slot that was claimed comes free again, whatever fails on the way. *)
SlotComesFree == \A p \in Procs : Busy(p, "toolchain") ~> SlotIsFree(p, "toolchain")
=============================================================================
