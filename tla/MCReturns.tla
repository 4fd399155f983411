----------------------------- MODULE MCReturns -----------------------------
(***************************************************************************)
(* What two nodes wait for and must get in the end: each behaviour plays   *)
(* one of the modules below, and the other rests in an initial state.      *)
(*                                                                         *)
(* Takeover: two nodes that list each other, each the other's only         *)
(* witness, and a centre that is lost as a whole.                          *)
(*                                                                         *)
(* Dispatch: tasks of b's own and tasks that cross from a to b, two        *)
(* dispatches with two ids.                                                *)
(*                                                                         *)
(* No symmetry: the run checks liveness.                                   *)
(***************************************************************************)
EXTENDS Takeover

VARIABLES focus,   \* the module played
          call, run, child, events, net, reader, replies, allowed,      \* Dispatch
          records

tasksVars == <<call, run, child, events, net, reader, replies, allowed, records>>

MCPair == 1 .. 2
MCPairPeers == [i \in MCPair |-> MCPair \ {i}]
WholeCentre == {{link \in Links : Centre \in link}}

MCRoutes == {<<"a", "b">>, <<"b", "b">>}

Tasks == INSTANCE Dispatch WITH Nodes <- {"a", "b"}, Ids <- {"x", "y"}, MaxDispatches <- 2,
                                Routes <- MCRoutes, rows <- records

ASSUME TasksAssumption == Tasks!DispatchAssumption

MCInit ==
    /\ focus \in {"takeover", "tasks"}
    /\ Init
    /\ Tasks!Init

MCNext ==
    \/ focus = "takeover" /\ SteadyNext
       /\ UNCHANGED <<focus, tasksVars>>
    \/ focus = "tasks" /\ Tasks!Next
       /\ UNCHANGED <<focus, vars>>

allVars == <<focus, vars, tasksVars>>

MCSpec == MCInit /\ [][MCNext]_allVars
          /\ WF_vars(focus = "takeover" /\ Tick)
          /\ \A i \in Node : /\ WF_vars(focus = "takeover" /\ ProbeRound(i))
                             /\ WF_vars(focus = "takeover" /\ ReceiveTakeover(i))
                             /\ WF_vars(focus = "takeover" /\ TickerPass(i))
          /\ \A a \in Tasks!Attempts :
                 /\ WF_tasksVars(focus = "tasks" /\ (Tasks!DispatchLocally(a) \/ Tasks!SendTask(a) \/ Tasks!TakeReply(a)))
                 /\ WF_tasksVars(focus = "tasks" /\ Tasks!TimeOut(a))
                 /\ WF_tasksVars(focus = "tasks" /\ Tasks!Handle(a))
                 /\ WF_tasksVars(focus = "tasks" /\ child[a] \in {"answered", "unparsed"} /\ Tasks!ChildExits(a))

-----------------------------------------------------------------------------
(* Dispatch: an answer belongs to its task and names who did it, a refused task was never run,
   no worker outlives its task, and an answer is recorded before it is sent
   (RemoteAgentHandle.run, handle_task, Supervisor). *)
DispatchInv == focus = "tasks" => Tasks!DispatchInv

(* A centre that stays away is stood in for, one that is back is yielded to (SuppressionTicker,
   react_to_centre), and a dispatch returns, whatever is lost (RemoteAgentHandle.run and its
   timeout). *)
PromisesAreKept == /\ focus = "takeover" => TakeoverHappens /\ CentreReturnYields
                   /\ focus = "tasks" => Tasks!DispatchReturns
=============================================================================
