--------------------------- MODULE SegmentDelivery ---------------------------
(***************************************************************************)
(* The way of one temporary segment from the chain of the node that stood  *)
(* in to the chain of its centre (host-core/src/state.rs): the owner pins  *)
(* the span of the segment between its opening and closing row, cuts it    *)
(* out of its chain and streams it; the centre collects the frames,        *)
(* rebuilds the segment's store, checks the delivery (net/suppression.rs)  *)
(* and merges it.                                                          *)
(*                                                                         *)
(* A row is known by its id, its place on the owner's chain.  Hashes are   *)
(* ideal: the hash of row n is n and its prev_hash is n - 1, since frames  *)
(* carry them unchanged and an append-only chain has one hash per place.   *)
(***************************************************************************)
EXTENDS Naturals, Sequences, FiniteSets, Functions

CONSTANTS Versions,  \* what a sender's build can put into its frames
          MaxChain   \* bound: the owner's chain

DeliveryAssumption ==
    /\ Versions \subseteq SUBSET {"length", "hashes", "anchor"}
    /\ MaxChain \in Nat \ {0}

VARIABLES chain,      \* the owner's rows: "event", "opened" or "closed"
          owner,      \* where the owner's ticker is with its segment
          opened_id,  \* StandingSegment.opened_id
          closed_id,  \* what last_id answered after the close
          span,       \* the ids deliver_segment cut out
          sent,       \* how many of them went out
          carries,    \* the owner's build
          shared,     \* whether another process writes the owner's audit.db too
          net,        \* frames on their way
          disturbed,  \* history: a frame was lost or overtaken, or the centre
                      \* failed or restarted
          inbox,      \* the centre: frames of the segment so far
          centre,     \* the centre: where receive_segment is
          job,        \* the centre: the end frame and the events being received
          row,        \* the centre: the adopted row's state
          file,       \* the centre: the segment's own store
          verdict,    \* the centre: what it recorded
          merged      \* the centre: what was transcribed to its main chain

ownerVars == <<chain, owner, opened_id, closed_id, span, sent, carries, shared>>
centreVars == <<inbox, centre, job, row, file, verdict, merged>>
vars == <<ownerVars, net, disturbed, centreVars>>

NoVerdict == [answer |-> "none", checked |-> "skipped", linkage |-> "skipped", anchor |-> "skipped"]
NoJob == [done |-> [kind |-> "done", total |-> 0, anchor |-> 0], events |-> << >>]

(* One row is there before: a host records events from its start. *)
Init == /\ chain = <<"event">>
        /\ owner = "candidate" /\ opened_id = 0 /\ closed_id = 0
        /\ span = << >> /\ sent = 0
        /\ carries \in Versions /\ shared \in BOOLEAN
        /\ net = << >> /\ disturbed = FALSE
        /\ inbox = {} /\ centre = "reading" /\ job = NoJob
        /\ row = "none" /\ file = << >> /\ verdict = NoVerdict /\ merged = << >>

-----------------------------------------------------------------------------
(* The owner *)

Grow(kind) == Len(chain) < MaxChain /\ chain' = Append(chain, kind)

(* Another thread of the owner appends: not while the store's mutex is held. *)
OwnAppend ==
    /\ owner \notin {"opened", "closed"}
    /\ Grow("event")
    /\ UNCHANGED <<owner, opened_id, closed_id, span, sent, carries, shared, net, disturbed, centreVars>>

(* Another process has a connection of its own and knows no mutex; in the
   other states its appends look like OwnAppend. *)
OtherAppend ==
    /\ shared
    /\ owner \in {"opened", "closed"}
    /\ Grow("event")
    /\ UNCHANGED <<owner, opened_id, closed_id, span, sent, carries, shared, net, disturbed, centreVars>>

(* open_temporary_segment: open_segment_for appends the opening row ... *)
OpenSegment ==
    /\ owner = "candidate"
    /\ Grow("opened")
    /\ owner' = "opened"
    /\ UNCHANGED <<opened_id, closed_id, span, sent, carries, shared, net, disturbed, centreVars>>

(* ... and the newest id is taken to be its id. *)
ReadOpenedId ==
    /\ owner = "opened"
    /\ opened_id' = Len(chain)
    /\ owner' = "standing"
    /\ UNCHANGED <<chain, closed_id, span, sent, carries, shared, net, disturbed, centreVars>>

(* close_standing_segment: the close, and again the newest id. *)
CloseSegment ==
    /\ owner = "standing"
    /\ Grow("closed")
    /\ owner' = "closed"
    /\ UNCHANGED <<opened_id, closed_id, span, sent, carries, shared, net, disturbed, centreVars>>

(* The store cannot be locked, written or read, at any point before the first
   frame: the node goes back to its centre and nothing is delivered. *)
StoreFails ==
    /\ owner \in {"candidate", "opened", "standing", "closed", "ended"}
    /\ owner' = "gave_up"
    /\ UNCHANGED <<chain, opened_id, closed_id, span, sent, carries, shared, net, disturbed, centreVars>>

ReadClosedId ==
    /\ owner = "closed"
    /\ closed_id' = Len(chain)
    /\ owner' = "ended"
    /\ UNCHANGED <<chain, opened_id, span, sent, carries, shared, net, disturbed, centreVars>>

(* mutant: the upper bound is inclusive *)
events_in_range_Inclusive(from, to) == [k \in 1 .. (to + 2 - from) |-> from + k - 1]

(* events_in_range: an inverted range is an empty list. *)
events_in_range(from, to) == [k \in 1 .. (to + 1 - from) |-> from + k - 1]

(* deliver_segment: the rows between the two ids, never those two. *)
CutSpan ==
    /\ owner = "ended"
    /\ span' = IF opened_id + 1 <= closed_id - 1
               THEN events_in_range(opened_id + 1, closed_id - 1) ELSE << >>
    /\ owner' = "sending"
    /\ UNCHANGED <<chain, opened_id, closed_id, sent, carries, shared, net, disturbed, centreVars>>

(* mutant: the anchor named is the row before the opening row *)
DoneFrame_AnchorIsHead ==
    [kind |-> "done", total |-> Len(span),
     anchor |-> IF "anchor" \in carries THEN opened_id - 1 ELSE 0]

(* segment_frames: one frame per event, then the end frame. *)
EventFrame(k) == [kind |-> "event", index |-> k, id |-> span[k]]
DoneFrame == [kind |-> "done", total |-> Len(span),
              anchor |-> IF "anchor" \in carries THEN opened_id ELSE 0]

NextFrame == IF sent < Len(span) THEN EventFrame(sent + 1) ELSE DoneFrame

(* Every result of a send is ignored: a frame that did not go out is skipped. *)
Send ==
    /\ owner = "sending"
    /\ \/ net' = Append(net, NextFrame) /\ UNCHANGED disturbed
       \/ net' = net /\ disturbed' = TRUE
    /\ IF sent < Len(span)
       THEN sent' = sent + 1 /\ UNCHANGED owner
       ELSE owner' = "delivered" /\ UNCHANGED sent    \* segment_delivered is recorded
    /\ UNCHANGED <<chain, opened_id, closed_id, span, carries, shared, centreVars>>

(* The owner's process dies: the segment lives in memory only. *)
OwnerCrash ==
    /\ owner \notin {"delivered", "down"}
    /\ owner' = "down"
    /\ UNCHANGED <<chain, opened_id, closed_id, span, sent, carries, shared, net, disturbed, centreVars>>

-----------------------------------------------------------------------------
(* The network: one session keeps the order, a session dialled anew may let a
   later frame overtake, and either end may lose one. *)
Lose ==
    /\ net # << >>
    /\ net' = Tail(net)
    /\ disturbed' = TRUE
    /\ UNCHANGED <<ownerVars, centreVars>>

Overtake ==
    /\ Len(net) >= 2
    /\ net' = <<net[2], net[1]>> \o SubSeq(net, 3, Len(net))
    /\ disturbed' = TRUE
    /\ UNCHANGED <<ownerVars, centreVars>>

-----------------------------------------------------------------------------
(* The centre: the probe thread is its only reader *)

Arrived(kind) == centre = "reading" /\ net # << >> /\ Head(net).kind = kind /\ net' = Tail(net)

ReceiveEvent ==
    /\ Arrived("event")
    /\ inbox' = inbox \cup {Head(net)}
    /\ UNCHANGED <<ownerVars, disturbed, centre, job, row, file, verdict, merged>>

(* pending.sort_by_key: the k-th event is the one whose position is the k-th smallest. *)
ByIndex(frames) ==
    [k \in 1 .. Cardinality(frames) |->
        CHOOSE f \in frames : Cardinality({g \in frames : g.index <= f.index}) = k]

(* mutant: a stream that carried nothing is dropped on the floor *)
ReceiveDone_DropsEmpty ==
    /\ Arrived("done")
    /\ job' = [done |-> Head(net), events |-> ByIndex(inbox)]
    /\ inbox' = {}
    /\ IF inbox = {} THEN UNCHANGED <<row, centre>> ELSE row' = "closed" /\ centre' = "rebuilding"
    /\ UNCHANGED <<ownerVars, disturbed, file, verdict, merged>>

(* The end frame takes what the stream carried, sorted by position; the row is
   adopted under the segment's name. *)
ReceiveDone ==
    /\ Arrived("done")
    /\ job' = [done |-> Head(net), events |-> ByIndex(inbox)]
    /\ inbox' = {}
    /\ row' = "closed"
    /\ centre' = "rebuilding"
    /\ UNCHANGED <<ownerVars, disturbed, file, verdict, merged>>

(* The row cannot be adopted: the stream is gone with the error. *)
AdoptFails ==
    /\ Arrived("done")
    /\ inbox' = {}
    /\ disturbed' = TRUE
    /\ UNCHANGED <<ownerVars, centre, job, row, file, verdict, merged>>

Ids(events) == [k \in DOMAIN events |-> events[k].id]

Rebuild ==
    /\ centre = "rebuilding"
    /\ file' = Ids(job.events)
    /\ centre' = "judging"
    /\ UNCHANGED <<ownerVars, net, disturbed, inbox, job, row, verdict, merged>>

(* An append to the segment's store fails: the part written stays. *)
RebuildFails ==
    /\ centre = "rebuilding"
    /\ \E n \in 0 .. Len(job.events) : file' = SubSeq(Ids(job.events), 1, n)
    /\ centre' = "reading"
    /\ disturbed' = TRUE
    /\ UNCHANGED <<ownerVars, net, inbox, job, row, verdict, merged>>

(* mutant: the count is not compared with the end frame *)
verify_delivery_NoCount(done, events) ==
    {events[k].index : k \in DOMAIN events} = 1 .. Len(events)

(* verify_delivery: every position of the end frame's count, once each. *)
verify_delivery(done, events) ==
    /\ Len(events) = done.total
    /\ {events[k].index : k \in DOMAIN events} = 1 .. done.total

(* verify_linkage: NoHash, or whether each event continues the one before. *)
NoHash(events) == events = << >> \/ "hashes" \notin carries
Linked(events) == \A k \in 2 .. Len(events) : events[k].id - 1 = events[k - 1].id

(* The anchor check: the first event's prev_hash is the opening row's hash. *)
AnchorVerdict(done, events) ==
    IF done.anchor = 0 \/ NoHash(events) THEN "skipped"
    ELSE IF events[1].id - 1 = done.anchor THEN "ok" ELSE "broken"

(* receive_segment's checks, in its order, as one verdict. *)
Judgement(done, events) ==
    LET skipped == "length" \notin carries
        delivery == verify_delivery(done, events)
        linkage == IF skipped \/ ~delivery \/ NoHash(events) THEN "skipped"
                   ELSE IF Linked(events) THEN "ok" ELSE "broken"
        anchor == AnchorVerdict(done, events)
        held == (skipped \/ delivery) /\ linkage # "broken" /\ anchor # "broken"
    IN  [answer |-> IF held THEN "verified" ELSE "rejected",
         checked |-> IF skipped THEN "skipped" ELSE IF linkage = "ok" THEN "delivery+chained" ELSE "delivery",
         linkage |-> linkage, anchor |-> anchor]

(* mutant: a delivery that does not hold is recorded and merged all the same *)
Judge_MergesAnyway ==
    /\ centre = "judging"
    /\ verdict' = Judgement(job.done, job.events)
    /\ centre' = "merging"
    /\ UNCHANGED <<ownerVars, net, disturbed, inbox, job, row, file, merged>>

(* chain_verified or chain_rejected is recorded; only the first goes on. *)
Judge ==
    /\ centre = "judging"
    /\ verdict' = Judgement(job.done, job.events)
    /\ centre' = IF verdict'.answer = "verified" THEN "merging" ELSE "reading"
    /\ UNCHANGED <<ownerVars, net, disturbed, inbox, job, row, file, merged>>

(* merge_segment, whose steps are AuditSegments': all of it, none of it (the
   conflict), or the part written before an append failed. *)
Merge ==
    /\ centre = "merging"
    /\ \/ merged' = file /\ row' = "folded"
       \/ merged' = << >> /\ row' = "forked"
       \/ \E n \in 0 .. Len(file) : merged' = SubSeq(file, 1, n) /\ UNCHANGED row
    /\ centre' = "reading"
    /\ UNCHANGED <<ownerVars, net, disturbed, inbox, job, file, verdict>>

(* The centre restarts: the inbox and the work under way are gone. *)
CentreRestart ==
    /\ inbox' = {} /\ centre' = "reading"
    /\ disturbed' = TRUE
    /\ UNCHANGED <<ownerVars, net, job, row, file, verdict, merged>>

-----------------------------------------------------------------------------
OwnerStep == \/ OpenSegment \/ ReadOpenedId \/ CloseSegment \/ ReadClosedId \/ CutSpan \/ Send

CentreStep == \/ ReceiveEvent \/ ReceiveDone \/ Rebuild \/ Judge \/ Merge

Next == \/ OwnAppend \/ OtherAppend \/ OwnerStep \/ StoreFails \/ OwnerCrash
        \/ Lose \/ Overtake
        \/ CentreStep \/ AdoptFails \/ RebuildFails \/ CentreRestart

(* The probe thread keeps draining the session and handling what it reads. *)
Spec == Init /\ [][Next]_vars /\ WF_vars(CentreStep)

-----------------------------------------------------------------------------
Id == 1 .. MaxChain

TypeOK ==
    /\ chain \in Seq({"event", "opened", "closed"}) /\ Len(chain) <= MaxChain
    /\ owner \in {"candidate", "opened", "standing", "closed", "ended", "sending",
                  "delivered", "gave_up", "down"}
    /\ opened_id \in 0 .. Len(chain) /\ closed_id \in 0 .. Len(chain)
    /\ span \in Seq(Id) /\ sent \in 0 .. Len(span)
    /\ inbox \subseteq [kind : {"event"}, index : Id, id : Id]
    /\ centre \in {"reading", "rebuilding", "judging", "merging"}
    /\ row \in {"none", "closed", "folded", "forked"}
    /\ file \in Seq(Id) /\ merged \in Seq(Id)

(***************************************************************************)
(* A delivery that was checked and not refused is the whole span, in order *)
(* ("every position 0..total arrived exactly once", verify_delivery), and  *)
(* what a folded segment put on the main chain is that span: lost and      *)
(* overtaken frames and a centre that restarts in between never make the   *)
(* centre merge a part of a segment.                                       *)
(***************************************************************************)
CheckedIsWhole ==
    verdict.answer = "verified" /\ verdict.checked # "skipped" =>
        /\ file = span
        /\ row = "folded" => merged = span

(***************************************************************************)
(* A refused delivery stays out of the main chain and its row is neither   *)
(* folded nor forked (receive_segment, cross-chain-verification.md 3).     *)
(***************************************************************************)
RefusedStaysOut == verdict.answer = "rejected" => merged = << >> /\ row = "closed"

(***************************************************************************)
(* No false refusal: an honest sender's stream is only refused when a      *)
(* frame was lost or overtaken or the centre failed; in particular the      *)
(* anchor the owner names is the one the centre computes.                  *)
(***************************************************************************)
RefusedOnlyIfLost == verdict.answer = "rejected" => disturbed

(***************************************************************************)
(* "The span is the segment's own events, the rows between its opening and *)
(* closing rows and never those two" (connection.md 6.8, deliver_segment). *)
(***************************************************************************)
Between == {n \in 1 .. Len(chain) : /\ \E i \in 1 .. n - 1 : chain[i] = "opened"
                                    /\ chain[n] = "event"
                                    /\ \E i \in n + 1 .. Len(chain) : chain[i] = "closed"}

SpanIsTheSegment == owner \in {"sending", "delivered"} => Range(span) = Between

(***************************************************************************)
(* It is, whatever the host's own threads append meanwhile and whatever    *)
(* fails, when no other process writes the file (the mutex held across the *)
(* write and last_id in open_temporary_segment, close_standing_segment).   *)
(***************************************************************************)
SpanIfAlone == ~shared => SpanIsTheSegment

(***************************************************************************)
(* A delivery that is checked off is whole, a refused one stays out of the *)
(* chain, an intact one is not refused, and the span is the segment where  *)
(* the owner is alone on its file (receive_segment,                        *)
(* open_temporary_segment).                                                *)
(***************************************************************************)
DeliveryInv ==
    /\ TypeOK /\ CheckedIsWhole /\ RefusedStaysOut /\ RefusedOnlyIfLost /\ SpanIfAlone

(***************************************************************************)
(* Every stream is answered, the empty one too, unless a frame was lost or *)
(* the centre failed over it (receive_segment since M6-5-2a).              *)
(***************************************************************************)
StreamIsAnswered == owner = "delivered" ~> verdict.answer # "none" \/ disturbed
=============================================================================
