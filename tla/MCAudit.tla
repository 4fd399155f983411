------------------------------ MODULE MCAudit ------------------------------
(***************************************************************************)
(* What the audit files and the thing they are kept for owe their callers  *)
(* in the end: each behaviour plays one of the modules below, and the      *)
(* others rest in an initial state.                                        *)
(*                                                                         *)
(* AuditChain: two processes race for the lock with a budget of two        *)
(* attempts, enough for a writer to be refused, to retry and to give up;   *)
(* two events make every pair of equal and different rows.                 *)
(*                                                                         *)
(* AuditOpen: two processes and two attempts, so both halves of every      *)
(* migration race.                                                         *)
(*                                                                         *)
(* SegmentDelivery: the builds a centre can meet (frames gained the        *)
(* anchor's length, then the events' hashes, then the opening row's hash). *)
(*                                                                         *)
(* AuditSegments: one segment opened here and one delivered from another   *)
(* node, two events (so a delivery can repeat one, or conflict), a chain   *)
(* long enough for an interrupted merge, its retry and rows of other       *)
(* processes in between.                                                   *)
(*                                                                         *)
(* No symmetry: the run checks liveness.                                   *)
(***************************************************************************)
EXTENDS AuditChain

CONSTANTS p1, p2, e1, e2, own, theirs, NoSeg

VARIABLES focus,   \* the module played
          file, openPc, openAttempt, found, step,                       \* AuditOpen
          chain, owner, opened_id, closed_id, span, sent, carries,      \* SegmentDelivery
          shared, net, disturbed, inbox, centre, job, row, spool,
          verdict, merged,
          mainChain, segs, files, op, sharedFile                        \* AuditSegments

openingVars == <<file, openPc, openAttempt, found, step>>
deliveryVars == <<chain, owner, opened_id, closed_id, span, sent, carries, shared, net,
                  disturbed, inbox, centre, job, row, spool, verdict, merged>>
segmentsVars == <<mainChain, segs, files, op, sharedFile>>

MCProc == {p1, p2}
MCEvent == {e1, e2}
MCVersions == {{}, {"length"}, {"length", "hashes"}, {"length", "hashes", "anchor"}}

Opening == INSTANCE AuditOpen WITH OPEN_MAX_ATTEMPTS <- 2, pc <- openPc, attempt <- openAttempt
Delivery == INSTANCE SegmentDelivery WITH Versions <- MCVersions, MaxChain <- 7, file <- spool
Segments == INSTANCE AuditSegments WITH OwnSeg <- {own}, TheirSeg <- {theirs}, Event <- MCEvent,
                                        MaxChain <- 4, MaxFile <- 2, chain <- mainChain,
                                        shared <- sharedFile

ASSUME OpeningAssumption == Opening!OpenAssumption
ASSUME DeliveryAssumption == Delivery!DeliveryAssumption
ASSUME SegmentsAssumption == Segments!SegmentsAssumption

MCInit ==
    /\ focus \in {"chain", "opening", "delivery", "segments"}
    /\ Init
    /\ Opening!Init /\ (focus # "opening" => file = Opening!OldFile(FALSE, 0, {}, {}))
    /\ Delivery!Init /\ (focus # "delivery" => carries = {} /\ ~shared)
    /\ Segments!Init /\ (focus # "segments" => ~sharedFile)

MCNext ==
    \/ focus = "chain" /\ Next
       /\ UNCHANGED <<focus, openingVars, deliveryVars, segmentsVars>>
    \/ focus = "opening" /\ Opening!Next
       /\ UNCHANGED <<focus, vars, deliveryVars, segmentsVars>>
    \/ focus = "delivery" /\ Delivery!Next
       /\ UNCHANGED <<focus, vars, openingVars, segmentsVars>>
    \/ focus = "segments" /\ Segments!Next
       /\ UNCHANGED <<focus, vars, openingVars, deliveryVars>>

allVars == <<focus, vars, openingVars, deliveryVars, segmentsVars>>

MCSpec == MCInit /\ [][MCNext]_allVars
          /\ \A p \in Proc : /\ WF_vars(focus = "chain" /\ Step(p))
                             /\ WF_openingVars(focus = "opening" /\ Opening!OpenStep(p))
          /\ WF_deliveryVars(focus = "delivery" /\ Delivery!CentreStep)

-----------------------------------------------------------------------------
(* AuditOpen: a store that is handed out has every table and column, and an open fails only on
   the lock, its budget spent (open_with, init_schema). *)
OpeningInv == focus = "opening" => Opening!OpeningInv

(* AuditOpen: a file of a newer build is left alone (init_schema). *)
NewerSchemaKept == Opening!NewerSchemaKept

(* SegmentDelivery: only a whole delivery is checked off, a refused one stays out, an honest
   one is refused only when something was lost or failed, and the span is the segment when one
   process writes the file (deliver_segment, verify_delivery, receive_segment). *)
DeliveryInv == focus = "delivery" => Delivery!DeliveryInv

(* AuditSegments: after any failure or crash the rows and the main chain agree on what was
   opened, closed and merged, and nothing is transcribed twice (open_segment, close_segment,
   merge_segment). *)
SegmentsInv == focus = "segments" => Segments!SegmentsInv

(* AuditSegments: a partial merge is continued by no later one (merge_segment). *)
PartialIsFrozen == Segments!PartialIsFrozen

(* Every append and every open returns, however long the file is locked (append_with,
   open_with: the loops with a budget), and every stream of a segment is answered unless a
   frame was lost or the centre failed (receive_segment). *)
CallsReturn == /\ focus = "chain" => AppendReturns
               /\ focus = "opening" => Opening!OpenReturns
               /\ focus = "delivery" => Delivery!StreamIsAnswered
=============================================================================
