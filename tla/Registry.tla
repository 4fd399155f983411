------------------------------ MODULE Registry ------------------------------
(***************************************************************************)
(* The management plane of the cross-region server and the node that       *)
(* merges what it publishes (net relay.rs, set_peers, set_rooms, registry, *)
(* route; registry.rs; discovery.rs, merge_table; rooms.rs, merge_rooms).  *)
(*                                                                         *)
(* The server's peers, keys and rooms are three tables under a lock each,  *)
(* and the generation a counter beside them.  Deployer threads replace the *)
(* tables, session threads route frames by them and publish them.  A node  *)
(* merges a published registry into its own files, which win.              *)
(*                                                                         *)
(* A peer entry is [id, key, addr, claims]; a key is "bad" when it is no   *)
(* public Ed25519 JWK.                                                     *)
(***************************************************************************)
EXTENDS Naturals, Sequences, FiniteSets

CONSTANTS Editor,    \* the threads that replace tables
          Reader,    \* the threads of sessions
          PeerFile,  \* the peer files there may be: sequences of entries
          RoomFile,  \* the room files there may be: sequences of rooms
          MaxEdits   \* bound: replacements begun

RegistryAssumption ==
    /\ IsFiniteSet(Editor) /\ MaxEdits \in Nat
    /\ \A f \in PeerFile \cup RoomFile : f \in Seq({f[i] : i \in DOMAIN f})

VARIABLES peers, keys, rooms, generation,   \* ServerInner
          editor,     \* per deployer thread: what it replaces, and where it is
          reader,     \* per session thread: what it has read, and where it is
          published,  \* history: registries handed out: [generation, peers, rooms]
          local,      \* the node's own files: [peers, rooms]
          merged,     \* what the node made of the last registry it merged, and that registry
          edits

server == <<peers, keys, rooms, generation>>
vars == <<server, editor, reader, published, local, merged, edits>>

Named(file, id) == {i \in DOMAIN file : file[i].id = id}
Least(S) == CHOOSE i \in S : \A j \in S : i <= j
Most(S) == CHOOSE i \in S : \A j \in S : i >= j

(* PeersFile::entry: the first of that name. *)
Entry(file, id) == file[Least(Named(file, id))]

Ids(file) == {file[i].id : i \in DOMAIN file}

(* PeersFile::peer_keys: a table of every key; of two entries of one name the
   last one's is the one in force. *)
PeerKeys(file) == [id \in Ids(file) |-> file[Most(Named(file, id))].key]
Readable(file) == \A i \in DOMAIN file : file[i].key # "bad"

(* check_rooms: no two rooms of one name, a budget, and a signature. *)
RoomsAllowed(file) == /\ \A i, j \in DOMAIN file : file[i].id = file[j].id => i = j
                      /\ \A i \in DOMAIN file : file[i].signed /\ file[i].budget > 0

-----------------------------------------------------------------------------
(* merge_table, merge_rooms: the local entries, and behind them, one after the other,
   those whose name is not among the local ones; clashing are the positions of those
   that differ. *)
Pushed(mine, view, e) == IF Named(mine, e.id) = {} THEN Append(view, e) ELSE view

View(mine, theirs) ==
  LET view[k \in 0 .. Len(theirs)] ==
        IF k = 0 THEN mine ELSE Pushed(mine, view[k - 1], theirs[k])
  IN view[Len(theirs)]

Known(mine, theirs) == {j \in DOMAIN theirs : Named(mine, theirs[j].id) # {}}
MergeWith(mine, theirs, clashing) ==
    [view      |-> View(mine, theirs),
     conflicts |-> {theirs[j].id : j \in clashing}]

(* PeerEntry::same_as. *)
SameEntry(a, b) == a.id = b.id /\ a.key = b.key /\ a.addr = b.addr

(* mutant: an address that differs is an update, not a conflict *)
MergeTableByKey(mine, theirs) ==
    MergeWith(mine, theirs, {j \in Known(mine, theirs) : Entry(mine, theirs[j].id).key # theirs[j].key})

MergeTable(mine, theirs) ==
    MergeWith(mine, theirs, {j \in Known(mine, theirs) : ~SameEntry(Entry(mine, theirs[j].id), theirs[j])})

RoomClashes(mine, theirs) == {j \in Known(mine, theirs) : Entry(mine, theirs[j].id) # theirs[j]}

(* mutant: what was published goes before what the node has *)
MergeRoomsTheirs(mine, theirs) ==
    [MergeWith(mine, theirs, RoomClashes(mine, theirs)) EXCEPT !.view = theirs \o mine]

MergeRooms(mine, theirs) == MergeWith(mine, theirs, RoomClashes(mine, theirs))

Nothing == [view |-> << >>, conflicts |-> {}]
Idle == [at |-> "idle", what |-> "-", file |-> << >>]
Resting == [at |-> "idle", peers |-> << >>, generation |-> 0]

Init == /\ peers \in {f \in PeerFile : Readable(f)} /\ keys = PeerKeys(peers)
        /\ rooms \in {f \in RoomFile : RoomsAllowed(f)}
        /\ generation = 1
        /\ editor = [e \in Editor |-> Idle]
        /\ reader = [r \in Reader |-> Resting]
        /\ published = {}
        /\ local \in [peers : {f \in PeerFile : Readable(f)}, rooms : {f \in RoomFile : RoomsAllowed(f)}]
        /\ merged = [peers |-> Nothing, rooms |-> Nothing, from |-> {}]
        /\ edits = 0

node == <<published, local, merged>>
Goes(e, loc) == editor' = [editor EXCEPT ![e].at = loc]

-----------------------------------------------------------------------------
(* set_peers: a table with a key that does not read is refused as a whole. *)
SetPeers(e, file) ==
    /\ editor[e].at = "idle" /\ edits < MaxEdits
    /\ edits' = edits + 1
    /\ editor' = IF Readable(file)
                 THEN [editor EXCEPT ![e] = [at |-> "table", what |-> "peers", file |-> file]]
                 ELSE editor
    /\ UNCHANGED <<server, reader, node>>

(* set_rooms: held to the checks of rooms.json. *)
SetRooms(e, file) ==
    /\ editor[e].at = "idle" /\ edits < MaxEdits
    /\ edits' = edits + 1
    /\ editor' = IF RoomsAllowed(file)
                 THEN [editor EXCEPT ![e] = [at |-> "table", what |-> "rooms", file |-> file]]
                 ELSE editor
    /\ UNCHANGED <<server, reader, node>>

(* Who reads a table holds its lock. *)
PeersFree == \A r \in Reader : reader[r].at = "idle"

WriteTable(e) ==
    /\ editor[e].at = "table"
    /\ IF editor[e].what = "peers"
       THEN PeersFree /\ peers' = editor[e].file /\ Goes(e, "keys") /\ UNCHANGED rooms
       ELSE rooms' = editor[e].file /\ Goes(e, "number") /\ UNCHANGED peers
    /\ UNCHANGED <<keys, generation, reader, node, edits>>

(* mutant: the keys of the nodes that left stay *)
WriteKeysKeepsOld(e) ==
    /\ editor[e].at = "keys"
    /\ LET new == PeerKeys(editor[e].file)
       IN  keys' = [id \in DOMAIN keys \cup DOMAIN new |->
                       IF id \in DOMAIN new THEN new[id] ELSE keys[id]]
    /\ Goes(e, "number")
    /\ UNCHANGED <<peers, rooms, generation, reader, node, edits>>

(* The keys follow, under a lock of their own that a frame being routed holds. *)
WriteKeys(e) ==
    /\ editor[e].at = "keys" /\ \A r \in Reader : reader[r].at # "routing"
    /\ keys' = PeerKeys(editor[e].file)
    /\ Goes(e, "number")
    /\ UNCHANGED <<peers, rooms, generation, reader, node, edits>>

(* mutant: a change of rooms is no change of the registry *)
AdvanceForPeers(e) ==
    /\ editor[e].at = "number"
    /\ generation' = generation + (IF editor[e].what = "peers" THEN 1 ELSE 0)
    /\ editor' = [editor EXCEPT ![e] = Idle]
    /\ UNCHANGED <<peers, keys, rooms, reader, node, edits>>

(* The generation advances. *)
Advance(e) ==
    /\ editor[e].at = "number"
    /\ generation' = generation + 1
    /\ editor' = [editor EXCEPT ![e] = Idle]
    /\ UNCHANGED <<peers, keys, rooms, reader, node, edits>>

-----------------------------------------------------------------------------
(* RelayServer::route: the peers, then the keys, and both held while the frame
   is judged and handed on. *)
RouteFrame(r) ==
    /\ reader[r].at = "idle"
    /\ reader' = [reader EXCEPT ![r] = [at |-> "keys", peers |-> peers, generation |-> 0]]
    /\ UNCHANGED <<server, editor, node, edits>>

RouteWithKeys(r) ==
    /\ reader[r].at = "keys"
    /\ reader' = [reader EXCEPT ![r].at = "routing"]
    /\ UNCHANGED <<server, editor, node, edits>>

RouteEnds(r) ==
    /\ reader[r].at = "routing"
    /\ reader' = [reader EXCEPT ![r] = Resting]
    /\ UNCHANGED <<server, editor, node, edits>>

(* registry: the generation and the rooms are read while the peers are held. *)
AskRegistry(r) ==
    /\ reader[r].at = "idle"
    /\ reader' = [reader EXCEPT ![r] = [at |-> "numbered", peers |-> peers, generation |-> generation]]
    /\ UNCHANGED <<server, editor, node, edits>>

Publish(r) ==
    /\ reader[r].at = "numbered"
    /\ published' = published \cup {[generation |-> reader[r].generation, peers |-> reader[r].peers,
                                     rooms |-> rooms]}
    /\ reader' = [reader EXCEPT ![r] = Resting]
    /\ UNCHANGED <<server, editor, local, merged, edits>>

(* Registry::merge. *)
Merge(p) ==
    /\ merged' = [peers |-> MergeTable(local.peers, p.peers),
                  rooms |-> MergeRooms(local.rooms, p.rooms), from |-> {p}]
    /\ UNCHANGED <<server, editor, reader, published, local, edits>>

-----------------------------------------------------------------------------
Next == \/ \E e \in Editor : \/ \E f \in PeerFile : SetPeers(e, f)
                             \/ \E f \in RoomFile : SetRooms(e, f)
                             \/ WriteTable(e) \/ WriteKeys(e) \/ Advance(e)
        \/ \E r \in Reader : \/ RouteFrame(r) \/ RouteWithKeys(r) \/ RouteEnds(r)
                             \/ AskRegistry(r) \/ Publish(r)
        \/ \E p \in published : Merge(p)

Spec == Init /\ [][Next]_vars

-----------------------------------------------------------------------------
TypeOK == /\ peers \in PeerFile /\ Readable(peers) /\ rooms \in RoomFile /\ RoomsAllowed(rooms)
          /\ generation \in 1 .. MaxEdits + 1
          /\ \A e \in Editor : editor[e].at \in {"idle", "table", "keys", "number"}
          /\ \A r \in Reader : reader[r].at \in {"idle", "keys", "routing", "numbered"}

(***************************************************************************)
(* A frame is judged by the keys of the very table it is placed by, when   *)
(* nobody is replacing them and one thread at a time ever does ("so a      *)
(* table can never disagree with the keys in force", set_peers).           *)
(***************************************************************************)
AloneKeysFollow ==
    Cardinality(Editor) = 1 =>
        ((\A e \in Editor : editor[e].at # "keys") => keys = PeerKeys(peers))

(***************************************************************************)
(* The number is worth comparing (NodeTable::is_newer_than): a node that   *)
(* holds a registry with the server's number, when nobody is in the middle *)
(* of a replacement, holds the server's tables, however the reads of the   *)
(* number, the peers and the rooms fell between the replacements' steps.   *)
(***************************************************************************)
LatestIsCurrent ==
    (\A e \in Editor : editor[e].at = "idle") =>
        \A p \in published : p.generation = generation => p.peers = peers /\ p.rooms = rooms

(***************************************************************************)
(* "A node's own peers.json and rooms.json stay authoritative for itself": *)
(* whatever was published, the merged view answers for a name the local    *)
(* file has what the local file answers.                                   *)
(***************************************************************************)
LocalWins ==
    merged.from # {} =>
        /\ \A id \in Ids(local.peers) : Entry(merged.peers.view, id) = Entry(local.peers, id)
        /\ \A id \in Ids(local.rooms) : Entry(merged.rooms.view, id) = Entry(local.rooms, id)

(***************************************************************************)
(* Who publishes another key or another address for a node the local file  *)
(* has, or another room, is reported: the view is not the published one    *)
(* and somebody is told.                                                   *)
(***************************************************************************)
MovesAreReported ==
    \A p \in merged.from :
        /\ \A i \in DOMAIN p.peers :
              LET e == p.peers[i]
              IN  e.id \in Ids(local.peers) /\ e.id \notin merged.peers.conflicts =>
                      /\ e.key = Entry(merged.peers.view, e.id).key
                      /\ e.addr = Entry(merged.peers.view, e.id).addr
        /\ \A i \in DOMAIN p.rooms :
              p.rooms[i] = Entry(merged.rooms.view, p.rooms[i].id)
              \/ p.rooms[i].id \in merged.rooms.conflicts

(***************************************************************************)
(* Keys follow the table they were read from, the newest registry handed   *)
(* out is the one in force, and a merge reports what moved and keeps what  *)
(* the node wrote (set_peers, registry, merge_table, merge_rooms).         *)
(***************************************************************************)
RegistryInv == TypeOK /\ AloneKeysFollow /\ LatestIsCurrent /\ MovesAreReported /\ LocalWins

(***************************************************************************)
(* "A disagreement is reported, never silently resolved" (discovery.rs):   *)
(* of everything an entry says, not of its key and addresses only.         *)
(***************************************************************************)
DisagreementIsReported ==
    \A p \in merged.from :
        \A i \in DOMAIN p.peers :
            p.peers[i] = Entry(merged.peers.view, p.peers[i].id)
            \/ p.peers[i].id \in merged.peers.conflicts

(***************************************************************************)
(* "The keys are re-derived here so a table can never disagree with the    *)
(* keys in force" (relay.rs, set_peers), whoever replaces the table.       *)
(***************************************************************************)
KeysFollowTable ==
    (\A e \in Editor : editor[e].at = "idle") => keys = PeerKeys(peers)

(***************************************************************************)
(* "The generation advances: the registry a node is handed has changed":   *)
(* one number, one registry.                                               *)
(***************************************************************************)
OneNumberOneRegistry ==
    \A p, q \in published : p.generation = q.generation => p.peers = q.peers /\ p.rooms = q.rooms
=============================================================================
