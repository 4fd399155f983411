---------------------------- MODULE ContextWindow ----------------------------
(***************************************************************************)
(* The conversation an agent loop keeps and how it is trimmed (agent.rs).  *)
(* A message is a record with a role; the notice that announces a cut is   *)
(* itself a system message.                                                *)
(***************************************************************************)
EXTENDS Naturals, Sequences

CONSTANTS ContextMax,    \* CONTEXT_MAX
          ContextKeep    \* CONTEXT_KEEP

System == [role |-> "system", n |-> 0]
Notice == [role |-> "notice", n |-> 0]    \* "[context truncated: ...]"

\* mutant: the cut is not announced
TrimContextNoNotice(m) ==
    IF Len(m) <= ContextMax THEN m
    ELSE <<System>> \o SubSeq(m, Len(m) - ContextKeep + 1, Len(m))

(* trim_context: past the limit, the system message, a notice and the most *)
(* recent messages are kept.                                               *)
TrimContext(m) ==
    IF Len(m) <= ContextMax THEN m
    ELSE (IF m[1] = System THEN <<System>> ELSE <<>>) \o <<Notice>>
         \o SubSeq(m, Len(m) - ContextKeep + 1, Len(m))
=============================================================================
