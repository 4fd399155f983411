------------------------------ MODULE MCPeers ------------------------------
(***************************************************************************)
(* What the nodes of a workgroup hold each other to: each behaviour plays  *)
(* one of the modules below, and the others rest in an initial state.      *)
(*                                                                         *)
(* ReplayGuard: two senders with skewed clocks, frames repeated, delayed   *)
(* and reordered, restarts of the receiver.                                *)
(*                                                                         *)
(* Registry: an entry that moves its key, address and claims, one added,   *)
(* one that cannot be read, and room files that disagree, grow or ask for  *)
(* unsigned frames.                                                        *)
(*                                                                         *)
(* Rooms: a member that may send one or two messages in a window, in a     *)
(* room that lists this node or does not.                                  *)
(*                                                                         *)
(* SandboxRequests: a centre and a stand-in, two process ids, one question *)
(* each way.                                                               *)
(*                                                                         *)
(* RunIndex: two processes with two runs, three starts, one write that     *)
(* fails; the two processes, and the two runs, are interchangeable.        *)
(***************************************************************************)
EXTENDS ReplayGuard, TLC

CONSTANTS a, b, x, y, c, s, p1, p2, g1, g2, r1, r2

VARIABLES focus,   \* the module played
          peers, keys, rooms, generation, editor, reader, published,    \* Registry
          local, merged, edits,
          roomsFile, time, back, budgets, admitted, verdict, known,     \* Rooms
          adoption, sends, restarts,
          up, queuer, queue, chains, ops, wire, mergedAt, asks,         \* SandboxRequests
          decisions, starts, past, told,
          chain, index, proc, job, alone, boots, fails, asked           \* RunIndex

registryVars == <<peers, keys, rooms, generation, editor, reader, published, local, merged,
                  edits>>
roomsVars == <<roomsFile, time, back, budgets, admitted, verdict, known, adoption, sends,
               restarts>>
requestsVars == <<up, queuer, queue, chains, ops, wire, mergedAt, asks, decisions, starts,
                  past, told>>
runsVars == <<chain, index, proc, job, alone, boots, fails, asked>>

MCPeer == {a, b}
MCBody == {x, y}

E(id, key, addr, claims) == [id |-> id, key |-> key, addr |-> addr, claims |-> claims]
MCPeerFile == {<<E("b", "k2", "x", {})>>,
               <<E("a", "k1", "x", {})>>,
               <<E("a", "k1", "y", {"dispatch"}), E("b", "k3", "x", {})>>,
               <<E("b", "bad", "x", {})>>}
AnyPeers == <<E("b", "k2", "x", {})>>

Rm(id, budget, signed) == [id |-> id, budget |-> budget, signed |-> signed]
MCRoomFile == {<<Rm("r", 1, TRUE)>>, <<Rm("r", 2, TRUE), Rm("s", 1, TRUE)>>, <<Rm("r", 1, FALSE)>>}
AnyRooms == <<Rm("r", 1, TRUE)>>

MCMember == {"a", "b"}
MCRoom == {"lab"}
MCRule == {[messages |-> m, window |-> 2] : m \in 1 .. 2}
MCMembers == {[r \in MCRoom |-> MCMember], [r \in MCRoom |-> {"b"}]}
AnyFile == [members |-> [r \in MCRoom |-> MCMember], rule |-> [messages |-> 1, window |-> 2]]

\* RunIndex names no process and no run
Symmetry == Permutations({g1, g2}) \cup Permutations({r1, r2})

Tables == INSTANCE Registry WITH Editor <- {"d"}, Reader <- {"s"}, PeerFile <- MCPeerFile,
                                 RoomFile <- MCRoomFile, MaxEdits <- 2
Chat == INSTANCE Rooms WITH Member <- MCMember, Me <- "a", Room <- MCRoom, Rule <- MCRule,
                            Members <- MCMembers, file <- roomsFile, MaxTime <- 3, MaxSends <- 4,
                            MaxBack <- 1, MaxRestarts <- 1
Requests == INSTANCE SandboxRequests WITH Centre <- c, StandIn <- s, Pids <- {p1, p2},
                                          proc <- queuer, chain <- chains, merged <- mergedAt,
                                          boots <- starts, MaxAsks <- 1, MaxDecisions <- 2,
                                          MaxBoots <- 3
Index == INSTANCE RunIndex WITH Procs <- {g1, g2}, Runs <- {r1, r2}, MaxUp <- 2, MaxBoots <- 3,
                                MaxCalls <- 1, MaxFails <- 1

ASSUME RequestsAssumption == Requests!RequestsAssumption
ASSUME RoomsAssumption == Chat!RoomsAssumption
ASSUME RegistryAssumption == Tables!RegistryAssumption
ASSUME RunsAssumption == Index!RunsAssumption

MCInit ==
    /\ focus \in {"replay", "registry", "rooms", "requests", "runs"}
    /\ Init
    /\ Tables!Init /\ (focus # "registry" => peers = AnyPeers /\ rooms = AnyRooms /\ local = [peers |-> AnyPeers, rooms |-> AnyRooms])
    /\ Chat!Init /\ (focus # "rooms" => roomsFile = AnyFile /\ known = {})
    /\ Requests!Init
    /\ Index!Init

MCNext ==
    \/ focus = "replay" /\ Next
       /\ UNCHANGED <<focus, registryVars, roomsVars, requestsVars, runsVars>>
    \/ focus = "registry" /\ Tables!Next
       /\ UNCHANGED <<focus, vars, roomsVars, requestsVars, runsVars>>
    \/ focus = "rooms" /\ Chat!Next
       /\ UNCHANGED <<focus, vars, registryVars, requestsVars, runsVars>>
    \/ focus = "requests" /\ Requests!Next
       /\ UNCHANGED <<focus, vars, registryVars, roomsVars, runsVars>>
    \/ focus = "runs" /\ Index!Next
       /\ UNCHANGED <<focus, vars, registryVars, roomsVars, requestsVars>>

allVars == <<focus, vars, registryVars, roomsVars, requestsVars, runsVars>>

MCSpec == MCInit /\ [][MCNext]_allVars

-----------------------------------------------------------------------------
(* Registry: keys follow the table, the newest registry handed out is the one in force, and a
   merge reports what moved and keeps what the node wrote (set_peers, registry, merge_table,
   merge_rooms). *)
RegistryInv == focus = "registry" => Tables!RegistryInv

(* Rooms: a member pays for its own messages only, gets two budgets at most in any window, and
   is heard where this node is a member (RateCounters::admit, consider_announcement). *)
RoomsInv == focus = "rooms" => Chat!RoomsInv

(* SandboxRequests: across restarts no recorded question is lost and no decision forgotten,
   contradicted or told wrongly (ask, decide, restore). *)
RequestsInv == focus = "requests" => Requests!RequestsInv

(* RunIndex: the index says nothing the chain does not, lags only where two writes were torn,
   and abandons only what is gone, once (begin_run, finish_run, abandon_stale_runs). *)
IndexInv == focus = "runs" => Index!IndexInv
=============================================================================
