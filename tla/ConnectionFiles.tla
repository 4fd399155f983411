-------------------------- MODULE ConnectionFiles --------------------------
(***************************************************************************)
(* The connection layer's three files at start-up: node.key, minted once,  *)
(* peers.json and rooms.json (net versioned.rs, identity.rs; host-core     *)
(* connection.rs and state.rs, load_connection_files), and what is wired   *)
(* from them: the client of the cross-region server and the server role.   *)
(*                                                                         *)
(* Several processes may start on one data directory -- the desktop, the   *)
(* server and the command line share it -- and one may die at any step.    *)
(* The deployer puts files there by hand: another key, a file of a newer   *)
(* build, one that does not parse, or none.                                *)
(***************************************************************************)
EXTENDS Naturals, FiniteSets

CONSTANTS Process,
          Wishes,     \* what the network settings may hold, of "network", "pointer", "role"
          MaxKeys,    \* bound: keys minted
          MaxEdits,   \* bound: files the deployer puts there
          MaxCrashes  \* bound: processes that die

FilesAssumption == IsFiniteSet(Process) /\ MaxKeys \in Nat

(* What a file reads as: absent, usable, or refused -- of a newer build, not
   the shape -- and, of the key, cut short. *)
Table == {"none", "refused", "usable"}

VARIABLES keyFile,    \* [state, key]
          tables,     \* peers.json and rooms.json
          wants,      \* the network settings: a network, a server pointer, a server role
          proc,       \* per process: its start-up
          port,       \* who is bound to the server role's address
          rows,       \* host.connection.key_minted on the chain: [by, key]
          mints,      \* history: the keys minted so far: [by, key]
          edited,     \* history: the deployer put a key file there
          edits, crashes

vars == <<keyFile, tables, wants, proc, port, rows, mints, edited, edits, crashes>>
world == <<tables, wants, edited, edits, crashes>>

Absent == [state |-> "none", key |-> 0]
Down == [at |-> "down", existed |-> FALSE, key |-> 0, made |-> FALSE,
         problem |-> FALSE, client |-> FALSE, serving |-> FALSE, announced |-> FALSE]

Init == /\ keyFile \in {Absent, [state |-> "refused", key |-> 0]}
        /\ tables \in [{"peers", "rooms"} -> Table]
        /\ wants \in Wishes
        /\ proc = [p \in Process |-> Down]
        /\ port = {} /\ rows = {} /\ mints = {}
        /\ edited = FALSE /\ edits = 0 /\ crashes = 0

At(p, loc) == proc[p].at = loc
Set(p, rec) == proc' = [proc EXCEPT ![p] = rec]
Goto(p, loc) == proc' = [proc EXCEPT ![p].at = loc]

-----------------------------------------------------------------------------
(* A constructor; a node with no network wiring reads and writes nothing. *)
Start(p) ==
    /\ At(p, "down")
    /\ Cardinality(mints) + Cardinality({q \in Process : proc[q].at \notin {"down", "up"}}) < MaxKeys
    /\ Set(p, [Down EXCEPT !.at = IF ("network" \in wants) THEN "looking" ELSE "up"])
    /\ UNCHANGED <<keyFile, port, rows, mints, world>>

(* load_node_key: is there a file? *)
LookForKey(p) ==
    /\ At(p, "looking")
    /\ Set(p, [proc[p] EXCEPT !.at = "reading", !.existed = keyFile.state # "none"])
    /\ UNCHANGED <<keyFile, port, rows, mints, world>>

(* NodeKey::load_or_create_in, versioned::load: the four outcomes.  A key that
   was there is used as it stands. *)
ReadKey(p) ==
    /\ At(p, "reading")
    /\ IF keyFile.state = "none" THEN Goto(p, "minting")
       ELSE IF keyFile.state = "own"
       THEN Set(p, [proc[p] EXCEPT !.at = "peers", !.key = keyFile.key, !.made = ~proc[p].existed])
       ELSE Goto(p, "rereading")
    /\ UNCHANGED <<keyFile, port, rows, mints, world>>

NextKey == Cardinality(mints) + 1

(* mutant: a key that could not be written is used all the same *)
CreateKeyAnyway(p) ==
    /\ At(p, "minting")
    /\ mints' = mints \cup {[by |-> p, key |-> NextKey]}
    /\ IF keyFile.state = "none"
       THEN /\ keyFile' = [state |-> "torn", key |-> NextKey]
            /\ Set(p, [proc[p] EXCEPT !.at = "writing", !.key = NextKey])
       ELSE Set(p, [proc[p] EXCEPT !.at = "peers", !.key = NextKey]) /\ UNCHANGED keyFile
    /\ UNCHANGED <<port, rows, world>>

(* save_new_private: the file is created, and only if there is none. *)
CreateKey(p) ==
    /\ At(p, "minting")
    /\ mints' = mints \cup {[by |-> p, key |-> NextKey]}
    /\ IF keyFile.state = "none"
       THEN /\ keyFile' = [state |-> "torn", key |-> NextKey]
            /\ Set(p, [proc[p] EXCEPT !.at = "writing", !.key = NextKey])
       ELSE Goto(p, "rereading") /\ UNCHANGED keyFile
    /\ UNCHANGED <<port, rows, world>>

(* mutant: whether there was a file is asked when it has been written *)
WriteKeyLooksLate(p) ==
    /\ At(p, "writing")
    /\ keyFile' = IF keyFile.key = proc[p].key THEN [keyFile EXCEPT !.state = "own"] ELSE keyFile
    /\ Set(p, [proc[p] EXCEPT !.at = "peers"])
    /\ UNCHANGED <<port, rows, mints, world>>

(* ... and then written and synced. *)
WriteKey(p) ==
    /\ At(p, "writing")
    /\ keyFile' = IF keyFile.key = proc[p].key THEN [keyFile EXCEPT !.state = "own"] ELSE keyFile
    /\ Set(p, [proc[p] EXCEPT !.at = "peers", !.made = ~proc[p].existed])
    /\ UNCHANGED <<port, rows, mints, world>>

(* The refusal is read once more to name it; whatever is read now, the node is
   without a key. *)
RereadKey(p) ==
    /\ At(p, "rereading")
    /\ Set(p, [proc[p] EXCEPT !.at = "peers", !.problem = TRUE])
    /\ UNCHANGED <<keyFile, port, rows, mints, world>>

(* load_peers, load_rooms: a missing file is no problem, a refused one is. *)
LoadTable(p, which, next) ==
    /\ At(p, which)
    /\ Set(p, [proc[p] EXCEPT !.at = next,
                              !.problem = @ \/ tables[which] = "refused"])
    /\ UNCHANGED <<keyFile, port, rows, mints, world>>

Usable(which) == tables[which] = "usable"
LoadPeers(p) == LoadTable(p, "peers", "rooms")
LoadRooms(p) == LoadTable(p, "rooms", "reporting")

(* load_connection_files: a mint is a row on the chain, the first problem is
   kept for who asks. *)
Report(p) ==
    /\ At(p, "reporting")
    /\ rows' = IF proc[p].made THEN rows \cup {[by |-> p, key |-> proc[p].key]} ELSE rows
    /\ Set(p, [proc[p] EXCEPT !.at = "connecting", !.announced = TRUE,
                              !.existed = FALSE, !.made = FALSE])
    /\ UNCHANGED <<keyFile, port, mints, world>>

(* mutant: a pointer at a peer nobody knows is dropped without a word *)
ConnectServerSilently(p) ==
    /\ At(p, "connecting")
    /\ Set(p, [proc[p] EXCEPT !.at = "serving",
                              !.client = ("pointer" \in wants) /\ Usable("peers") /\ proc[p].key # 0])
    /\ UNCHANGED <<keyFile, port, rows, mints, world>>

(* connect_cross_region: the server must be in the peer table, and there must
   be a key; nothing is dialled. *)
ConnectServer(p) ==
    /\ At(p, "connecting")
    /\ \E listed \in BOOLEAN :
         Set(p, [proc[p] EXCEPT
                   !.at = "serving",
                   !.client = ("pointer" \in wants) /\ Usable("peers") /\ listed /\ proc[p].key # 0,
                   !.problem = @ \/ (("pointer" \in wants) /\ ~(Usable("peers") /\ listed))])
    /\ UNCHANGED <<keyFile, port, rows, mints, world>>

(* start_server_role: all three files, then the address, here and now. *)
ServeRole(p) ==
    /\ At(p, "serving")
    /\ LET files == proc[p].key # 0 /\ Usable("peers") /\ Usable("rooms")
           serves == ("role" \in wants) /\ files /\ port = {}
       IN /\ port' = IF serves THEN {p} ELSE port
          /\ Set(p, [proc[p] EXCEPT !.at = "up", !.serving = serves,
                                    !.problem = @ \/ (("role" \in wants) /\ ~serves)])
    /\ UNCHANGED <<keyFile, rows, mints, world>>

(* The state is dropped, or the process dies wherever it is. *)
Stop(p) ==
    /\ At(p, "up")
    /\ Set(p, Down) /\ port' = port \ {p}
    /\ UNCHANGED <<keyFile, rows, mints, world>>

Crash(p) ==
    /\ proc[p].at \notin {"down", "up"} /\ crashes < MaxCrashes
    /\ Set(p, Down) /\ port' = port \ {p} /\ crashes' = crashes + 1
    /\ UNCHANGED <<keyFile, rows, mints, tables, wants, edited, edits>>

(* The deployer puts a key file there, or takes it away; a key he brings is
   one the program never minted. *)
EditKey ==
    /\ edits < MaxEdits
    /\ \E f \in {Absent, [state |-> "own", key |-> MaxKeys + 1]} \cup {[state |-> "refused", key |-> 0]} :
         f # keyFile /\ keyFile' = f
    /\ edited' = TRUE /\ edits' = edits + 1
    /\ UNCHANGED <<tables, wants, proc, port, rows, mints, crashes>>

-----------------------------------------------------------------------------
Starts(p) == \/ LookForKey(p) \/ ReadKey(p) \/ CreateKey(p) \/ WriteKey(p) \/ RereadKey(p)
             \/ LoadPeers(p) \/ LoadRooms(p) \/ Report(p) \/ ConnectServer(p) \/ ServeRole(p)

Next == \/ \E p \in Process : Start(p) \/ Starts(p) \/ Stop(p) \/ Crash(p)
        \/ EditKey

Spec == Init /\ [][Next]_vars

-----------------------------------------------------------------------------
TypeOK ==
    /\ keyFile.state \in {"none", "own", "torn", "refused"} /\ keyFile.key \in 0 .. MaxKeys + 1
    /\ \A p \in Process : proc[p].key \in 0 .. MaxKeys + 1
    /\ \A p \in Process : p \in port <=> proc[p].serving
    /\ Cardinality(mints) <= MaxKeys

(***************************************************************************)
(* One data directory, one identity: unless the deployer put a key there,  *)
(* whoever holds a key and has finished reading it holds the same one, and *)
(* it is the one on the disk ("two processes racing to mint one must not   *)
(* both succeed", save_new_private).                                       *)
(***************************************************************************)
OneKey ==
    ~edited => \A p \in Process : proc[p].key # 0 => proc[p].key = keyFile.key

(***************************************************************************)
(* "What it does not do is hide" (connection.rs): a process that is up     *)
(* without a key, without the server its settings name, or without the     *)
(* role they give it, has a problem to show.                               *)
(***************************************************************************)
DegradedIsTold ==
    \A p \in Process : proc[p].at = "up" /\ ("network" \in wants) =>
        \/ proc[p].problem
        \/ /\ proc[p].key # 0
           /\ ("pointer" \in wants) => proc[p].client
           /\ ("role" \in wants) => proc[p].serving

(***************************************************************************)
(* A key that was minted is announced by the process that minted it, so    *)
(* the deployer has its fingerprint for the other nodes' peers.json; a     *)
(* process that dies before it reports takes the announcement with it.     *)
(***************************************************************************)
MintIsAnnounced ==
    crashes = 0 /\ ~edited => \A m \in mints :
        proc[m.by].announced /\ proc[m.by].key = m.key => m \in rows

(***************************************************************************)
(* One data directory has one key, who minted it announces it, and a node  *)
(* that goes on without a part of its connection says so                   *)
(* (load_connection_files, connect_cross_region).                          *)
(***************************************************************************)
FilesInv == TypeOK /\ OneKey /\ DegradedIsTold /\ MintIsAnnounced

(***************************************************************************)
(* "Did this call mint the key?" (connection.rs, ConnectionFiles): the row *)
(* is written by who minted.                                               *)
(***************************************************************************)
MintedOnce == ~edited => rows \subseteq mints
=============================================================================
