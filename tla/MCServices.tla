----------------------------- MODULE MCServices -----------------------------
(***************************************************************************)
(* What a node does for its callers: each behaviour plays one of the       *)
(* modules below, and the others rest in an initial state.                 *)
(*                                                                         *)
(* AgentLoop: one turn over a window of four messages, up to two tool      *)
(* calls in an answer, a read that waits for the guest.                    *)
(*                                                                         *)
(* Downloads: two processes on one data directory, two downloads begun,    *)
(* one process death.                                                      *)
(*                                                                         *)
(* No symmetry: the run checks liveness.                                   *)
(***************************************************************************)
EXTENDS AgentLoop

CONSTANTS p1, p2

VARIABLES focus,   \* the module played
          slot, worker, archive, staging, install, path, trail,         \* Downloads
          crashes, crowded

fetchVars == <<slot, worker, archive, staging, install, path, trail, crashes, crowded>>

Fetch == INSTANCE Downloads WITH Procs <- {p1, p2}, Platform <- "linux-x86_64", Rustc <- "pinned",
                                 Chunks <- 1, Entries <- 1, MaxStarts <- 2, MaxCrashes <- 1,
                                 rows <- trail, Kinds <- {"c", "rust", "qemu"}

ASSUME LoopBounds == LoopAssumption
ASSUME DownloadsAssumption == Fetch!DownloadsAssumption

MCInit ==
    /\ focus \in {"loop", "fetch"}
    /\ Init /\ (focus # "loop" => cap = 0 /\ vm = "none")
    /\ Fetch!Init

MCNext ==
    \/ focus = "loop" /\ Next
       /\ UNCHANGED <<focus, fetchVars>>
    \/ focus = "fetch" /\ Fetch!Next
       /\ UNCHANGED <<focus, vars>>

allVars == <<focus, vars, fetchVars>>

MCSpec == MCInit /\ [][MCNext]_allVars
          /\ WF_vars(focus = "loop" /\ Turn)
          /\ \A p \in {p1, p2} : WF_fetchVars(focus = "fetch" /\ Fetch!Work(p))

-----------------------------------------------------------------------------
(* Downloads: a download that was begun is told how it ended, an early cancel installs nothing,
   and what one process installs is the pinned archive (begin, cancel, verify, install). *)
DownloadsInv == focus = "fetch" => Fetch!DownloadsInv

(* A turn ends and the one download slot comes free again (Agent::run with its limit,
   tool_read_serial with its two timeouts, the download workers and their guards). *)
WorkEnds == (focus = "loop" => TurnEnds) /\ (focus = "fetch" => Fetch!SlotComesFree)
=============================================================================
