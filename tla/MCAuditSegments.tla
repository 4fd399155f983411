-------------------------- MODULE MCAuditSegments --------------------------
(* One segment opened here and one delivered from another node, two events  *)
(* (so a delivery can repeat one, or conflict), a chain long enough for an  *)
(* interrupted merge, its retry and rows of other processes in between.     *)
EXTENDS AuditSegments

CONSTANTS own, theirs, e1, e2

MCOwnSeg == {own}
MCTheirSeg == {theirs}
MCEvent == {e1, e2}
=============================================================================
