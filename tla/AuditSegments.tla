---------------------------- MODULE AuditSegments ----------------------------
(***************************************************************************)
(* The segments of audit/src/store.rs: the rows beside the chain           *)
(* (open_segment, close_segment, adopt_segment) and merge_segment, which   *)
(* transcribes a temporary segment's own store into the main chain or      *)
(* records the conflict that stops it.                                     *)
(*                                                                         *)
(* One process works on the segments (its store sits behind a mutex);      *)
(* other processes may append to the chain between any two of its SQLite   *)
(* statements, any append can fail (its lock budget is spent), any other   *)
(* write of it too, and the process can die anywhere.  Append itself is    *)
(* AuditChain's: atomic, or not at all.                                    *)
(*                                                                         *)
(* On an append-only chain the head's hash names one length, so the hash   *)
(* half of an anchor is modelled by the length whose head it is.           *)
(***************************************************************************)
EXTENDS Naturals, Sequences, FiniteSets

CONSTANTS OwnSeg,    \* segments this node opens while it stands in
          TheirSeg,  \* segments that arrive from another node, to be merged
          Event,     \* actor, action and detail without the provisional mark
          NoEvent,   \* a row that records a segment's life carries no event
          NoSeg,     \* a row of the main chain's own
          MaxChain,  \* bound: the chain's length
          MaxFile    \* bound: events of a delivered segment

SegmentsAssumption ==
    /\ OwnSeg \cap TheirSeg = {}
    /\ NoSeg \notin OwnSeg \cup TheirSeg
    /\ NoEvent \notin Event
    /\ MaxChain \in Nat /\ MaxFile \in Nat

Seg == OwnSeg \cup TheirSeg

VARIABLES chain,  \* audit_events, oldest first
          segs,   \* the segments table, by segment_id
          files,  \* per delivered segment: the rows of its own store
          op,     \* the operation under way on the segments
          shared  \* whether other processes write this audit.db too

vars == <<chain, segs, files, op, shared>>

(* kind: "event", or the life of a segment.  src: the segment the row is
   about, or (a history of where it came from) was transcribed from. *)
ChainRow(kind, src, event) == [kind |-> kind, src |-> src, event |-> event]

RowKinds == {"event", "opened", "closed", "merged", "forked"}
States == {"none", "open", "closed", "folded", "forked"}

(* state "none": no row.  partial: the note starts with PARTIAL_MERGE_PREFIX. *)
NoRow == [state |-> "none", partial |-> FALSE, hash |-> 0, length |-> 0]

Idle == [at |-> "idle", seg |-> NoSeg, hash |-> 0, length |-> 0, copied |-> 0]

Init == /\ chain = << >>
        /\ segs = [s \in Seg |-> NoRow]
        /\ files = [s \in TheirSeg |-> << >>]
        /\ op = Idle
        /\ shared \in BOOLEAN

-----------------------------------------------------------------------------
At(loc) == op.at = loc
Goto(loc) == op' = [op EXCEPT !.at = loc]

(* mutant: the next operation starts from what the last one left behind *)
Finish_KeepsRest == op' = [op EXCEPT !.at = "idle"]

(* The operation returns: nothing of it is kept between two calls. *)
Finish == op' = Idle
SetState(s, state) == segs' = [segs EXCEPT ![s].state = state]

Room == Len(chain) < MaxChain
AppendRow(row) == Room /\ chain' = Append(chain, row)

(* Someone else appends: another thread between two operations (the mutex is
   held through each), another process between any two statements. *)
OtherAppend(e) ==
    /\ shared \/ At("idle")
    /\ AppendRow(ChainRow("event", NoSeg, e))
    /\ UNCHANGED <<segs, files, op, shared>>

(* The process dies; nothing on restart looks at the segments table. *)
Crash ==
    /\ ~At("idle")
    /\ Finish
    /\ UNCHANGED <<chain, segs, files, shared>>

-----------------------------------------------------------------------------
(* open_segment_inner: free_segment_id and last_hash, then last_id, then the
   row, then the event; a failed append deletes the row. *)
OpenReadHash(s) ==
    /\ At("idle") /\ segs[s].state = "none"
    /\ op' = [Idle EXCEPT !.at = "open_length", !.seg = s, !.hash = Len(chain)]
    /\ UNCHANGED <<chain, segs, files, shared>>

(* mutant: the length counts the opening row to come *)
OpenReadLength_CountsOpening ==
    /\ At("open_length")
    /\ op' = [op EXCEPT !.at = "open_row", !.length = Len(chain) + 1]
    /\ UNCHANGED <<chain, segs, files, shared>>

OpenReadLength ==
    /\ At("open_length")
    /\ op' = [op EXCEPT !.at = "open_row", !.length = Len(chain)]
    /\ UNCHANGED <<chain, segs, files, shared>>

OpenInsertRow ==
    /\ At("open_row")
    /\ segs' = [segs EXCEPT ![op.seg] =
                 [state |-> "open", partial |-> FALSE, hash |-> op.hash, length |-> op.length]]
    /\ Goto("open_event")
    /\ UNCHANGED <<chain, files, shared>>

OpenAppend ==
    /\ At("open_event")
    /\ AppendRow(ChainRow("opened", op.seg, NoEvent))
    /\ Finish
    /\ UNCHANGED <<segs, files, shared>>

OpenAppendFails ==
    /\ At("open_event")
    /\ Goto("open_undo")
    /\ UNCHANGED <<chain, segs, files, shared>>

OpenDeleteRow ==
    /\ At("open_undo")
    /\ segs' = [segs EXCEPT ![op.seg] = NoRow]
    /\ Finish
    /\ UNCHANGED <<chain, files, shared>>

-----------------------------------------------------------------------------
(* close_segment: no guard on the state; a failed append puts back "open". *)
CloseSetRow(s) ==
    /\ At("idle") /\ segs[s].state # "none"
    /\ SetState(s, "closed")
    /\ op' = [Idle EXCEPT !.at = "close_event", !.seg = s]
    /\ UNCHANGED <<chain, files, shared>>

CloseAppend ==
    /\ At("close_event")
    /\ AppendRow(ChainRow("closed", op.seg, NoEvent))
    /\ Finish
    /\ UNCHANGED <<segs, files, shared>>

CloseAppendFails ==
    /\ At("close_event")
    /\ Goto("close_undo")
    /\ UNCHANGED <<chain, segs, files, shared>>

CloseUndo ==
    /\ At("close_undo")
    /\ SetState(op.seg, "open")
    /\ Finish
    /\ UNCHANGED <<chain, files, shared>>

-----------------------------------------------------------------------------
(* receive_segment, up to the merge: adopt_segment writes the row closed and
   appends nothing to the chain; the segment's own store is rebuilt. *)
Adopt(s, events) ==
    /\ At("idle") /\ segs[s].state = "none"
    /\ SetState(s, "closed")
    /\ files' = [files EXCEPT ![s] = events]
    /\ UNCHANGED <<chain, op, shared>>

(* merged_already: the chain is asked, not the row. *)
merged_already(s) == \E i \in DOMAIN chain : chain[i].kind = "merged" /\ chain[i].src = s

(* main_chain_row_with: the first test for a conflict is exact equality. *)
OnMainChain(e) == \E i \in DOMAIN chain : chain[i].kind = "event" /\ chain[i].event = e

(* mutant: only the first event is looked for *)
Conflict_FirstOnly(s) == files[s] # << >> /\ OnMainChain(files[s][1])

Conflict(s) == \E i \in DOMAIN files[s] : OnMainChain(files[s][i])

(* mutant: a recorded partial merge is not refused *)
Mergeable_ForgetsPartial(s) ==
    /\ segs[s].state \in {"open", "closed"}
    /\ ~merged_already(s)

(* Every early return of merge_segment that refuses. *)
Mergeable(s) ==
    /\ segs[s].state \in {"open", "closed"}
    /\ ~merged_already(s)
    /\ ~segs[s].partial

(* mutant: no conflict test before transcription *)
MergeScan_NoConflictTest(s) ==
    /\ At("idle") /\ Mergeable(s)
    /\ op' = [Idle EXCEPT !.seg = s, !.at = "copy"]
    /\ UNCHANGED <<chain, segs, files, shared>>

(* The segment is read and tested for a conflict before anything is written. *)
MergeScan(s) ==
    /\ At("idle") /\ Mergeable(s)
    /\ op' = [Idle EXCEPT !.seg = s, !.at = IF Conflict(s) THEN "fork_event" ELSE "copy"]
    /\ UNCHANGED <<chain, segs, files, shared>>

(* The conflict is recorded on the chain first ... *)
ForkAppend ==
    /\ At("fork_event")
    /\ AppendRow(ChainRow("forked", op.seg, NoEvent))
    /\ Goto("fork_row")
    /\ UNCHANGED <<segs, files, shared>>

(* mutant: a failed append still leaves the row to be marked *)
MergeAppendFails_MarksAnyway ==
    /\ op.at \in {"fork_event", "merged_event"}
    /\ Goto(IF op.at = "fork_event" THEN "fork_row" ELSE "folded_row")
    /\ UNCHANGED <<chain, segs, files, shared>>

(* ... and a failed append of the fork or of segment_merged is returned with
   `?`: the row is left exactly as it was. *)
MergeAppendFails ==
    /\ op.at \in {"fork_event", "merged_event"}
    /\ Finish
    /\ UNCHANGED <<chain, segs, files, shared>>

ForkMark ==
    /\ At("fork_row")
    /\ SetState(op.seg, "forked")
    /\ Finish
    /\ UNCHANGED <<chain, files, shared>>

(* Transcription: one append per event, with the mark cleared. *)
CopyEvent ==
    /\ At("copy") /\ op.copied < Len(files[op.seg])
    /\ AppendRow(ChainRow("event", op.seg, files[op.seg][op.copied + 1]))
    /\ op' = [op EXCEPT !.copied = @ + 1]
    /\ UNCHANGED <<segs, files, shared>>

CopyFails ==
    /\ At("copy") /\ op.copied < Len(files[op.seg])
    /\ Goto("partial_note")
    /\ UNCHANGED <<chain, segs, files, shared>>

(* set_segment_note, whose own failure is ignored (WriteFails). *)
NotePartial ==
    /\ At("partial_note")
    /\ segs' = [segs EXCEPT ![op.seg].partial = TRUE]
    /\ Finish
    /\ UNCHANGED <<chain, files, shared>>

(* mutant: the last event is left behind *)
CopyDone_Early ==
    /\ At("copy") /\ op.copied + 1 >= Len(files[op.seg])
    /\ Goto("merged_event")
    /\ UNCHANGED <<chain, segs, files, shared>>

CopyDone ==
    /\ At("copy") /\ op.copied = Len(files[op.seg])
    /\ Goto("merged_event")
    /\ UNCHANGED <<chain, segs, files, shared>>

MergedAppend ==
    /\ At("merged_event")
    /\ AppendRow(ChainRow("merged", op.seg, NoEvent))
    /\ Goto("folded_row")
    /\ UNCHANGED <<segs, files, shared>>

MarkFolded ==
    /\ At("folded_row")
    /\ SetState(op.seg, "folded")
    /\ Finish
    /\ UNCHANGED <<chain, files, shared>>

(* A write to the segments table fails: the operation returns its error. *)
WriteFails ==
    /\ op.at \in {"open_row", "open_undo", "close_undo", "fork_row", "folded_row", "partial_note"}
    /\ Finish
    /\ UNCHANGED <<chain, segs, files, shared>>

-----------------------------------------------------------------------------
Deliveries == UNION {[1 .. n -> Event] : n \in 0 .. MaxFile}

Open == \/ \E s \in OwnSeg : OpenReadHash(s)
        \/ OpenReadLength \/ OpenInsertRow \/ OpenAppend \/ OpenAppendFails \/ OpenDeleteRow

Close == \/ \E s \in OwnSeg : CloseSetRow(s)
         \/ CloseAppend \/ CloseAppendFails \/ CloseUndo

Merge == \/ \E s \in TheirSeg : MergeScan(s)
         \/ ForkAppend \/ ForkMark \/ MergeAppendFails
         \/ CopyEvent \/ CopyFails \/ NotePartial \/ CopyDone \/ MergedAppend \/ MarkFolded

Next == \/ \E e \in Event : OtherAppend(e)
        \/ \E s \in TheirSeg, events \in Deliveries : Adopt(s, events)
        \/ Open \/ Close \/ Merge
        \/ WriteFails \/ Crash

Spec == Init /\ [][Next]_vars

-----------------------------------------------------------------------------
TypeOK ==
    /\ chain \in Seq([kind : RowKinds, src : Seg \cup {NoSeg}, event : Event \cup {NoEvent}])
    /\ segs \in [Seg -> [state : States, partial : BOOLEAN, hash : Nat, length : Nat]]
    /\ files \in [TheirSeg -> Seq(Event)]
    /\ op.seg \in Seg \cup {NoSeg} /\ (At("idle") <=> op = Idle)
    /\ op.hash \in Nat /\ op.length \in Nat /\ op.copied \in 0 .. MaxFile

RowsAbout(s, kind) == {i \in DOMAIN chain : chain[i].kind = kind /\ chain[i].src = s}

(* The rows that are events of s, and the place of such a row among them. *)
Transcribed(s) == RowsAbout(s, "event")
Place(s, i) == Cardinality({j \in Transcribed(s) : j <= i})

(***************************************************************************)
(* No event of a segment is ever transcribed twice or out of order, however *)
(* often merge_segment is called again after it failed or died part way:   *)
(* the n-th event of it on the main chain is the n-th of its file.         *)
(***************************************************************************)
NeverTwice ==
    \A s \in TheirSeg : \A i \in Transcribed(s) :
        Place(s, i) <= Len(files[s]) /\ chain[i].event = files[s][Place(s, i)]

(***************************************************************************)
(* A segment_merged event stands for the whole segment and for one merge:  *)
(* at most one, with every event of the file already on the chain.         *)
(***************************************************************************)
MergedMeansWhole ==
    \A s \in TheirSeg : RowsAbout(s, "merged") # {} =>
        /\ \A i, j \in RowsAbout(s, "merged") : i = j
        /\ Cardinality(Transcribed(s)) = Len(files[s])

(***************************************************************************)
(* The row never says more than the chain: folded needs its segment_merged *)
(* event and forked its segment_forked event ("the chain is the record and *)
(* the row is the index", merge_segment).                                  *)
(***************************************************************************)
RowFollowsChain ==
    \A s \in TheirSeg : /\ segs[s].state = "folded" => RowsAbout(s, "merged") # {}
                        /\ segs[s].state = "forked" => RowsAbout(s, "forked") # {}

(***************************************************************************)
(* A recorded partial merge is frozen: no later call of merge_segment      *)
(* transcribes more of it or re-labels its row.                            *)
(***************************************************************************)
PartialIsFrozen ==
    [][\A s \in TheirSeg : segs[s].partial =>
         segs'[s] = segs[s] /\ Transcribed(s)' = Transcribed(s)]_vars

(***************************************************************************)
(* The anchor of a segment names a point before its opening event, and the *)
(* very row before it where the host is the only process on its file       *)
(* (open_segment_inner reads the hash and the length in two statements).   *)
(***************************************************************************)
AnchorBeforeOpening ==
    \A s \in OwnSeg : \A i \in RowsAbout(s, "opened") :
        /\ segs[s].hash <= segs[s].length /\ segs[s].length < i
        /\ ~shared => segs[s].hash = i - 1 /\ segs[s].length = i - 1

(***************************************************************************)
(* "never a silent merge" (segment.rs, SegmentState::Forked), where the    *)
(* host is the only process on its file: a folded segment repeats no event *)
(* the main chain held when its own events were transcribed.               *)
(***************************************************************************)
NeverSilentMerge ==
    ~shared => \A s \in TheirSeg : segs[s].state = "folded" =>
        \A i \in DOMAIN chain : chain[i].kind = "event" /\ chain[i].src = s =>
            \A j \in 1 .. i - 1 : chain[j].kind = "event" /\ chain[j].src # s =>
                chain[j].event # chain[i].event

(***************************************************************************)
(* The segments and the main chain agree after any failure or crash:       *)
(* nothing is transcribed twice, "folded" means all of it, the row follows *)
(* the chain (open_segment, merge_segment).                                *)
(***************************************************************************)
SegmentsInv ==
    /\ TypeOK /\ NeverTwice /\ MergedMeansWhole /\ RowFollowsChain /\ NeverSilentMerge
    /\ AnchorBeforeOpening

-----------------------------------------------------------------------------
(* What the documentation says of this code and the code does not keep.    *)

(***************************************************************************)
(* "A half-done merge must not be re-labelled forked" (store.rs, in        *)
(* merge_segment): a fork transcribes nothing.                             *)
(***************************************************************************)
ForkTranscribesNothing ==
    \A s \in TheirSeg : segs[s].state = "forked" => Transcribed(s) = {}
=============================================================================
