------------------------------ MODULE RunIndex ------------------------------
(***************************************************************************)
(* Run provenance: run.start and run.end on the audit chain, the runs      *)
(* table derived from them (audit/run.rs, store.rs), and the hook that     *)
(* abandons at start-up the runs an earlier process left open (state.rs).  *)
(* Event and row are two writes: a process may die between them, and       *)
(* several processes may share the file.                                   *)
(***************************************************************************)
EXTENDS Naturals, Sequences, FiniteSets

CONSTANTS Procs,      \* processes
          Runs,       \* run ids (minted by new_run_id, never reused)
          MaxUp,      \* processes that may be up on one file at a time
          MaxBoots,   \* bound on the boots of a behaviour
          MaxCalls,   \* bound on explicit calls of abandon_stale_runs
          MaxFails    \* bound on appends the store refuses

VARIABLES chain,   \* the run markers, in chain order: [act, run, by]
          index,   \* the runs table
          proc,    \* per process
          job,     \* per run: which process, and between which two writes
          alone,   \* no two processes have been up at once so far
          boots, fails, asked

vars == <<chain, index, proc, job, alone, boots, fails, asked>>

NoRow  == [start |-> 0, end |-> 0, status |-> "none"]
Down   == [at |-> "down", seq |-> 0, todo |-> {}, marked |-> FALSE, read |-> <<>>]
Gone   == "gone"     \* the process of a run that died
NoJob  == [at |-> "none", by |-> Gone]
RunsAssumption == Gone \notin Procs
Up == {p \in Procs : proc[p].at # "down"}

Init ==
    /\ chain = <<>> /\ index = [r \in Runs |-> NoRow]
    /\ proc = [p \in Procs |-> Down] /\ job = [r \in Runs |-> NoJob]
    /\ alone = TRUE /\ boots = 0 /\ fails = 0 /\ asked = 0

---------------------------------------------------------------------------
(* What a chain says of its runs.                                          *)

\* mutant: a marker changes a run that has ended
MarkAbandonsEnded(rows, i, e) ==
    IF rows[e.run].start # 0 THEN [rows EXCEPT ![e.run].status = "abandoned"] ELSE rows

(* derive_runs_from, one event at a time: the first run.start opens a row, *)
(* run.end closes it, host.run.abandoned marks it while it is open.        *)
Opened(rows, i, e) ==
    IF rows[e.run].start = 0 THEN [rows EXCEPT ![e.run] = [start |-> i, end |-> 0, status |-> "open"]]
    ELSE rows
Ended(rows, i, e) ==
    IF rows[e.run].start # 0 /\ rows[e.run].end = 0
    THEN [rows EXCEPT ![e.run].end = i, ![e.run].status = "ok"] ELSE rows
MarkAbandoned(rows, i, e) ==
    IF rows[e.run].start # 0 /\ rows[e.run].end = 0
    THEN [rows EXCEPT ![e.run].status = "abandoned"] ELSE rows

Derive(c) ==
    LET rows[i \in 0 .. Len(c)] ==
          IF i = 0 THEN [r \in Runs |-> NoRow]
          ELSE IF c[i].act = "start" THEN Opened(rows[i - 1], i, c[i])
          ELSE IF c[i].act = "end" THEN Ended(rows[i - 1], i, c[i])
          ELSE MarkAbandoned(rows[i - 1], i, c[i])
    IN rows[Len(c)]

\* mutant: a marker of any run closes this one
AbandonedEndAnyRun(r, row, c) ==
    {i \in 1 .. Len(c) : /\ i > row.start /\ c[i].act = "abandoned"
                         /\ \A j \in (row.start + 1) .. i : c[j].act # "start"}

(* abandoned_end: this run's marker, between its start and the next start  *)
(* of any run.                                                             *)
AbandonedEnd(r, row, c) ==
    {i \in 1 .. Len(c) : /\ i > row.start /\ c[i].act = "abandoned" /\ c[i].run = r
                         /\ \A j \in (row.start + 1) .. i : c[j].act # "start"}

(* run_end: where a run's record stops; 0 when it is refused.              *)
RunEnd(r, row, c) ==
    IF row.end # 0 THEN row.end
    ELSE IF row.status = "abandoned" /\ AbandonedEnd(r, row, c) # {}
         THEN CHOOSE i \in AbandonedEnd(r, row, c) : \A j \in AbandonedEnd(r, row, c) : i <= j
    ELSE 0

---------------------------------------------------------------------------
(* A run.                                                                  *)

(* The run's process is there, and no rebuild of it holds the store.       *)
Writes(r) == job[r].by # Gone /\ proc[job[r].by].at # "rebuild"

Marker(a, r, p) == [act |-> a, run |-> r, by |-> p]

(* append_host_event: best effort.  A refused append changes nothing.      *)
Refused ==
    /\ fails < MaxFails /\ fails' = fails + 1

(* begin_run: run.start; a refused one leaves the run without provenance.  *)
BeginRun(r, p) ==
    /\ proc[p].at = "serving" /\ job[r].at = "none"
    /\ \/ /\ chain' = Append(chain, Marker("start", r, p))
          /\ job' = [job EXCEPT ![r] = [at |-> "started", by |-> p]]
          /\ UNCHANGED fails
       \/ Refused /\ job' = [job EXCEPT ![r] = [at |-> "unknown", by |-> p]] /\ UNCHANGED chain
    /\ UNCHANGED <<alone, index, proc, boots, asked>>

\* mutant: the row is keyed by the position the next event will have
IndexStartOffByOne(r) ==
    /\ job[r].at = "started" /\ Writes(r)
    /\ index' = [index EXCEPT ![r] = [start |-> Derive(chain)[r].start + 1, end |-> 0, status |-> "open"]]
    /\ job' = [job EXCEPT ![r].at = "running"]
    /\ UNCHANGED <<alone, chain, proc, boots, fails, asked>>

(* ... index_run_start: INSERT OR REPLACE.                                 *)
IndexStart(r) ==
    /\ job[r].at = "started" /\ Writes(r)
    /\ index' = [index EXCEPT ![r] = [start |-> Derive(chain)[r].start, end |-> 0, status |-> "open"]]
    /\ job' = [job EXCEPT ![r].at = "running"]
    /\ UNCHANGED <<alone, chain, proc, boots, fails, asked>>

(* finish_run: run.end; a refused one leaves the run open.                 *)
FinishRun(r) ==
    /\ job[r].at = "running" /\ Writes(r)
    /\ \/ /\ chain' = Append(chain, Marker("end", r, job[r].by))
          /\ job' = [job EXCEPT ![r].at = "ended"]
          /\ UNCHANGED fails
       \/ Refused /\ job' = [job EXCEPT ![r].at = "unended"] /\ UNCHANGED chain
    /\ UNCHANGED <<alone, index, proc, boots, asked>>

\* mutant: a row that is not there is made up
IndexEndForgotten(r) ==
    /\ job[r].at = "ended" /\ Writes(r)
    /\ job' = [job EXCEPT ![r].at = "closed"]
    /\ UNCHANGED <<alone, chain, index, proc, boots, fails, asked>>

(* ... index_run_end: UPDATE, which a missing row makes a no-op.           *)
IndexEnd(r) ==
    /\ job[r].at = "ended" /\ Writes(r)
    /\ index' = [index EXCEPT ![r] = IF @ = NoRow THEN @
                                     ELSE [@ EXCEPT !.end = Derive(chain)[r].end, !.status = "ok"]]
    /\ job' = [job EXCEPT ![r].at = "closed"]
    /\ UNCHANGED <<alone, chain, proc, boots, fails, asked>>

---------------------------------------------------------------------------
(* Start-up.                                                               *)

(* from_store: everything on the chain so far is before this process.      *)
Boot(p) ==
    /\ proc[p].at = "down" /\ boots < MaxBoots /\ Cardinality(Up) < MaxUp
    /\ boots' = boots + 1 /\ alone' = (alone /\ Up = {})
    /\ proc' = [proc EXCEPT ![p] = [Down EXCEPT !.at = "abandon", !.seq = Len(chain)]]
    /\ UNCHANGED <<chain, index, job, fails, asked>>

(* abandon_stale_runs is also a call of its own, at any time.              *)
AskAbandon(p) ==
    /\ proc[p].at = "serving" /\ asked < MaxCalls
    /\ asked' = asked + 1
    /\ proc' = [proc EXCEPT ![p].at = "abandon", ![p].marked = FALSE]
    /\ UNCHANGED <<alone, chain, index, job, boots, fails>>

\* mutant: the boundary of this process is not looked at
StaleAnyOpen(p) == {r \in Runs : Derive(chain)[r].status = "open"}

\* mutant: a run already marked is stale again
StaleMarkedAgain(p) ==
    {r \in Runs : /\ Derive(chain)[r].status \in {"open", "abandoned"}
                  /\ Derive(chain)[r].start <= proc[p].seq}

(* The runs to abandon: open on the chain, started before this process.    *)
Stale(p) == {r \in Runs : /\ Derive(chain)[r].status = "open"
                          /\ Derive(chain)[r].start <= proc[p].seq}

AbandonDerive(p) ==
    /\ proc[p].at = "abandon"
    /\ proc' = [proc EXCEPT ![p].at = "mark", ![p].todo = Stale(p)]
    /\ UNCHANGED <<alone, chain, index, job, boots, fails, asked>>

(* One marker per run, oldest first.                                       *)
AbandonMark(p) ==
    /\ proc[p].at = "mark"
    /\ \E r \in proc[p].todo :
         /\ \A q \in proc[p].todo : Derive(chain)[r].start <= Derive(chain)[q].start
         /\ \/ /\ chain' = Append(chain, Marker("abandoned", r, p))
               /\ proc' = [proc EXCEPT ![p].todo = @ \ {r}, ![p].marked = TRUE]
               /\ UNCHANGED fails
            \/ Refused /\ proc' = [proc EXCEPT ![p].todo = @ \ {r}] /\ UNCHANGED chain
    /\ UNCHANGED <<alone, index, job, boots, asked>>

(* Nothing marked: done.  Otherwise rebuild_run_index, which derives the   *)
(* rows and then replaces the table in one transaction.                    *)
AbandonEnds(p) ==
    /\ proc[p].at = "mark" /\ proc[p].todo = {}
    /\ proc' = IF proc[p].marked
               THEN [proc EXCEPT ![p].at = "rebuild", ![p].read = Derive(chain)]
               ELSE [proc EXCEPT ![p].at = "serving"]
    /\ UNCHANGED <<alone, chain, index, job, boots, fails, asked>>

Rebuild(p) ==
    /\ proc[p].at = "rebuild"
    /\ index' = proc[p].read
    /\ proc' = [proc EXCEPT ![p].at = "serving", ![p].read = <<>>]
    /\ UNCHANGED <<alone, chain, job, boots, fails, asked>>

(* A process dies, between any two of its writes.                          *)
Crash(p) ==
    /\ p \in Up
    /\ proc' = [proc EXCEPT ![p] = Down]
    /\ job' = [r \in Runs |-> IF job[r].by = p THEN [job[r] EXCEPT !.by = Gone] ELSE job[r]]
    /\ UNCHANGED <<alone, chain, index, boots, fails, asked>>

Next ==
    \/ \E p \in Procs : \/ Boot(p) \/ AskAbandon(p) \/ AbandonDerive(p) \/ AbandonMark(p)
                        \/ AbandonEnds(p) \/ Rebuild(p) \/ Crash(p)
                        \/ \E r \in Runs : BeginRun(r, p)
    \/ \E r \in Runs : IndexStart(r) \/ FinishRun(r) \/ IndexEnd(r)

Spec == Init /\ [][Next]_vars

---------------------------------------------------------------------------
(* Properties.                                                             *)

On(a, r) == {i \in 1 .. Len(chain) : chain[i].act = a /\ chain[i].run = r}

(* What the derivation says is what happened, in whatever order markers    *)
(* and ends reached the chain: a run that ended is never read as           *)
(* abandoned, one that did not is never read as ended.                     *)
DeriveIsTrue == \A r \in Runs :
    LET row == Derive(chain)[r]
    IN /\ row.status = "ok" <=> On("end", r) # {}
       /\ row.status = "abandoned" <=> On("abandoned", r) # {} /\ On("end", r) = {}
       /\ row.start # 0 => row.start \in On("start", r)

(* The table holds no fact the chain does not: a crash leaves it behind,   *)
(* never ahead.                                                            *)
IndexIsBacked == \A r \in Runs : index[r] # NoRow =>
    /\ index[r].start \in On("start", r)
    /\ index[r].end # 0 => index[r].end \in On("end", r)
    /\ index[r].status = "abandoned" => On("abandoned", r) # {}

(* It is behind only for a run whose two writes were torn, or one marked   *)
(* while the rebuild that follows was not reached.                         *)
IndexInStep == alone => \A r \in Runs :
    \/ index[r] = Derive(chain)[r]
    \/ job[r].at \in {"started", "ended"}
    \/ Derive(chain)[r].status = "abandoned"
       /\ \/ \E p \in Procs : proc[p].at \in {"mark", "rebuild"}
          \/ index[r].status = "open"

(* Only a run whose process is gone is abandoned, and only once, as long   *)
(* as one process at a time works on the file.                             *)
AloneAbandonedIsGone == alone => \A r \in Runs : On("abandoned", r) # {} => job[r].by = Gone
AloneAbandonedOnce == alone => \A r \in Runs : Cardinality(On("abandoned", r)) <= 1

(* "Everything the chain holds right now belongs to earlier processes":    *)
(* a run that is marked abandoned is one whose process is gone.            *)
AbandonedIsGone == \A r \in Runs : On("abandoned", r) # {} => job[r].by = Gone

(* The record of a run ends at an event of that run, which is the one that *)
(* closed it.                                                              *)
RecordEndsAtItsOwn == \A r \in Runs :
    LET row == Derive(chain)[r]  i == RunEnd(r, row, chain)
    IN i # 0 => chain[i].run = r /\ i > row.start
                /\ chain[i].act = (IF row.status = "ok" THEN "end" ELSE "abandoned")

(***************************************************************************)
(* The index says nothing the chain does not, lags behind it only where    *)
(* two writes were torn, and abandons only what is gone, once (begin_run,  *)
(* finish_run, abandon_stale_runs, derive_runs).                           *)
(***************************************************************************)
IndexInv ==
    /\ DeriveIsTrue /\ IndexIsBacked /\ IndexInStep /\ AloneAbandonedIsGone
    /\ AloneAbandonedOnce /\ RecordEndsAtItsOwn
=============================================================================
