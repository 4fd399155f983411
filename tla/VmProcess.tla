------------------------------ MODULE VmProcess ------------------------------
(***************************************************************************)
(* One VM handle of the sandbox crate (vm.rs) with the loopback ports it   *)
(* is given (relay.rs), the QMP connection (qmp.rs) and the threads that   *)
(* feed a snapshot in or take one out.  The ports are where several VMs of *)
(* one process, and other processes, meet: a lease holds a listener until  *)
(* it is handed off, QEMU binds only after that, and the number stays      *)
(* reserved in this process for as long as the lease lives.                *)
(***************************************************************************)
EXTENDS Naturals, FiniteSets

CONSTANTS Vms,        \* VM handles of this process
          Ports,      \* loopback ports
          Chunks,     \* how many reads a migration stream takes
          NoPort,     \* no port
          MaxStarts   \* bound on the starts of a behaviour (a retry is a start)

ASSUME VmAssumption == NoPort \notin Ports /\ Chunks \in Nat /\ MaxStarts \in Nat

Free   == <<"free", NoPort>>    \* nobody has bound the port
Other  == <<"other", NoPort>>   \* another process has

VARIABLES owner,   \* what the OS knows: port -> Free, Other, a listener's or a QEMU's VM
          held,    \* HELD_PORTS: the numbers this process has reserved
          vm,      \* per handle: where start() stands, its ports, its child
          sender,  \* per handle: the thread of its last restore
          save,    \* per handle: the snapshot being taken
          starts   \* starts so far

vars == <<owner, held, vm, sender, save, starts>>

NoVm     == [at |-> "none", mode |-> "boot", ctl |-> NoPort, inc |-> NoPort,
             child |-> FALSE, fed |-> {}]
NoSender == [st |-> "none", port |-> NoPort]
NoSave   == [st |-> "none", port |-> NoPort, wire |-> 0, got |-> 0, sent |-> 0,
             retried |-> FALSE]

Listener(v) == <<"listener", v>>   \* a bound TcpListener of this process
Qemu(v)     == <<"qemu", v>>       \* the child of v has bound the port
Relay(v)    == <<"relay", v>>      \* the MigrationRelay a save receives on

Init ==
    /\ owner = [p \in Ports |-> Free] /\ held = {}
    /\ vm = [v \in Vms |-> NoVm] /\ sender = [v \in Vms |-> NoSender]
    /\ save = [v \in Vms |-> NoSave] /\ starts = 0

---------------------------------------------------------------------------
(* Port leases.                                                            *)

\* mutant: the registry is not asked
LeasableUnchecked == {p \in Ports : owner[p] = Free}

(* lease_local_ports: the OS assigns a port nobody has bound; reserve()    *)
(* refuses a number this process has handed out and not released, and the  *)
(* next bind is tried.                                                     *)
Leasable == {p \in Ports : owner[p] = Free /\ p \notin held}

(* QEMU's exit closes what it had bound.                                   *)
WithoutChild(v) == [p \in Ports |-> IF owner[p] = Qemu(v) THEN Free ELSE owner[p]]

\* mutant: a stopped VM releases a number it gave up when it came up
DropVmReleasesTwice(v) ==
    /\ owner' = [p \in Ports |->
                   IF owner[p] \in {Qemu(v), Listener(v)} THEN Free ELSE owner[p]]
    /\ held' = held \ {vm[v].ctl, vm[v].inc}
    /\ vm' = [vm EXCEPT ![v] = NoVm]

(* Drop of a handle: the child is killed, the leases are released, with    *)
(* the listeners they still hold.  A sender still connecting is detached.  *)
DropVm(v) ==
    /\ owner' = [p \in Ports |->
                   IF owner[p] \in {Qemu(v), Listener(v)} THEN Free ELSE owner[p]]
    /\ held' = held \ ({vm[v].inc} \cup (IF vm[v].at = "up" THEN {} ELSE {vm[v].ctl}))
    /\ vm' = [vm EXCEPT ![v] = NoVm]

(* Another process may take a port that is free, and give it back: one at  *)
(* a time.                                                                 *)
OtherBinds ==
    /\ \E p \in Ports : \/ owner[p] = Free /\ (\A q \in Ports : owner[q] # Other)
                           /\ owner' = [owner EXCEPT ![p] = Other]
                        \/ owner[p] = Other /\ owner' = [owner EXCEPT ![p] = Free]
    /\ UNCHANGED <<held, vm, sender, save, starts>>

---------------------------------------------------------------------------
(* Starting.                                                               *)

(* The caller leases QMP's and the serial's port (one port stands for      *)
(* both: they are leased, handed off and released together).               *)
LeaseControl(v, mode) ==
    /\ vm[v].at = "none" /\ starts < MaxStarts
    /\ \E p \in Leasable :
         /\ owner' = [owner EXCEPT ![p] = Listener(v)]
         /\ held' = held \cup {p}
         /\ vm' = [vm EXCEPT ![v] = [NoVm EXCEPT !.at = "leased", !.mode = mode, !.ctl = p]]
    /\ starts' = starts + 1
    /\ UNCHANGED <<sender, save>>

(* hand_off, right before start(): the listener goes, the number stays.    *)
HandOff(v) ==
    /\ vm[v].at = "leased"
    /\ owner' = [owner EXCEPT ![vm[v].ctl] = Free]
    /\ vm' = [vm EXCEPT ![v].at = "starting"]
    /\ UNCHANGED <<held, sender, save, starts>>

(* start(), with -incoming: the port QEMU will listen on is leased.        *)
LeaseIncoming(v) ==
    /\ vm[v].at = "starting" /\ vm[v].mode = "restore" /\ vm[v].inc = NoPort
    /\ \E p \in Leasable :
         /\ owner' = [owner EXCEPT ![p] = Listener(v)]
         /\ held' = held \cup {p}
         /\ vm' = [vm EXCEPT ![v].inc = p]
    /\ UNCHANGED <<sender, save, starts>>

\* mutant: the sender starts before the lease is handed off
SpawnSenderEarly(v) ==
    /\ vm[v].at = "starting" /\ (vm[v].mode = "restore" => vm[v].inc # NoPort)
    /\ vm' = [vm EXCEPT ![v].at = "spawned", ![v].child = TRUE]
    /\ sender' = [sender EXCEPT ![v] =
                    IF vm[v].mode = "restore"
                    THEN [st |-> "connecting", port |-> vm[v].inc] ELSE NoSender]
    /\ UNCHANGED <<owner, held, save, starts>>

(* The leases are handed off, QEMU is spawned, and only then does the      *)
(* sender start (a sender that started earlier would find our listener).   *)
Spawn(v) ==
    /\ vm[v].at = "starting" /\ (vm[v].mode = "restore" => vm[v].inc # NoPort)
    /\ owner' = [p \in Ports |-> IF p = vm[v].inc THEN Free ELSE owner[p]]
    /\ vm' = [vm EXCEPT ![v].at = "spawned", ![v].child = TRUE]
    /\ sender' = [sender EXCEPT ![v] =
                    IF vm[v].mode = "restore"
                    THEN [st |-> "connecting", port |-> vm[v].inc] ELSE NoSender]
    /\ UNCHANGED <<held, save, starts>>

(* QEMU binds its ports, or exits because one was taken in the window.     *)
QemuBinds(v) ==
    LET mine == {vm[v].ctl, vm[v].inc} \ {NoPort} IN
    /\ vm[v].at = "spawned" /\ vm[v].child
    /\ \A p \in mine : owner[p] # Qemu(v)
    /\ IF \A p \in mine : owner[p] = Free
       THEN owner' = [p \in Ports |-> IF p \in mine THEN Qemu(v) ELSE owner[p]] /\ UNCHANGED vm
       ELSE vm' = [vm EXCEPT ![v].child = FALSE] /\ UNCHANGED owner
    /\ UNCHANGED <<held, sender, save, starts>>

QemuDies(v) ==
    /\ vm[v].child
    /\ vm' = [vm EXCEPT ![v].child = FALSE]
    /\ owner' = WithoutChild(v)
    /\ UNCHANGED <<held, sender, save, starts>>

(* send_file_to retries its connect until somebody listens on the port or  *)
(* the deadline passes, then pushes the whole file and shuts the stream.   *)
SenderConnects(v) ==
    /\ sender[v].st = "connecting"
    /\ \/ \E u \in Vms : /\ owner[sender[v].port] = Qemu(u)
                         /\ vm[u].inc = sender[v].port /\ vm[u].fed = {}
                         /\ vm' = [vm EXCEPT ![u].fed = {v}]
                         /\ sender' = [sender EXCEPT ![v].st = "done"]
       \/ /\ owner[sender[v].port] \in {Other} \cup {Listener(u) : u \in Vms}
          /\ sender' = [sender EXCEPT ![v].st = "strayed"] /\ UNCHANGED vm
       \/ sender' = [sender EXCEPT ![v].st = "failed"] /\ UNCHANGED vm
    /\ UNCHANGED <<owner, held, save, starts>>

\* mutant: whoever answers on the port is taken for our QEMU
ConnectToAnyone(v) ==
    /\ vm[v].at = "spawned" /\ owner[vm[v].ctl] # Free
    /\ vm' = [vm EXCEPT ![v].at = "talking"]
    /\ UNCHANGED <<owner, held, sender, save, starts>>

(* finish_start: the serial socket and QMP's greeting.                     *)
Connect(v) ==
    /\ vm[v].at = "spawned" /\ owner[vm[v].ctl] = Qemu(v)
    /\ vm' = [vm EXCEPT ![v].at = "talking"]
    /\ UNCHANGED <<owner, held, sender, save, starts>>

(* The start is over: a restored guest runs once its stream is in, and a   *)
(* sender that failed fails the start.  The caller's two leases are        *)
(* dropped; the incoming one stays with the handle.                        *)
Started(v) ==
    /\ vm[v].at = "talking" /\ vm[v].child
    /\ vm[v].mode = "restore" => vm[v].fed # {} /\ sender[v].st # "failed"
    /\ vm' = [vm EXCEPT ![v].at = "up"]
    /\ held' = held \ {vm[v].ctl}
    /\ UNCHANGED <<owner, sender, save, starts>>

(* Every failure on the way (a missing port, a connect that timed out, a   *)
(* dead child, a guest that never ran): the handle is dropped.             *)
StartFails(v) ==
    /\ vm[v].at \in {"leased", "starting", "spawned", "talking"}
    /\ DropVm(v)
    /\ UNCHANGED <<sender, save, starts>>

(* stop(): quit over QMP, then kill; the handle is dropped by its owner.   *)
Stop(v) ==
    /\ vm[v].at = "up" /\ save[v].st = "none"
    /\ DropVm(v)
    /\ UNCHANGED <<sender, save, starts>>

---------------------------------------------------------------------------
(* save_snapshot_real: a receiver thread on a relay port, QMP's migrate.   *)

SaveBegins(v) ==
    /\ vm[v].at = "up" /\ save[v].st = "none"
    /\ \E p \in Leasable :
         /\ owner' = [owner EXCEPT ![p] = Relay(v)]
         /\ held' = held \cup {p}
         /\ save' = [save EXCEPT ![v] = [NoSave EXCEPT !.st = "listening", !.port = p]]
    /\ UNCHANGED <<vm, sender, starts>>

(* The receiver accepts and creates the file; QEMU's chunks go on the wire.*)
QemuStreams(v) ==
    /\ vm[v].child /\ save[v].st \in {"listening", "streaming"} /\ save[v].sent < Chunks
    /\ save' = [save EXCEPT ![v].st = "streaming", ![v].wire = @ + 1, ![v].sent = @ + 1]
    /\ UNCHANGED <<owner, held, vm, sender, starts>>

\* mutant: a chunk is written and read again
ReceiveTwice(v) ==
    /\ save[v].st \in {"streaming", "completed", "aborted"} /\ save[v].wire > 0
    /\ save' = [save EXCEPT ![v].got = @ + 1]
    /\ UNCHANGED <<owner, held, vm, sender, starts>>

(* receive_inner: what is read goes into the file.                         *)
Receive(v) ==
    /\ save[v].st \in {"streaming", "completed", "aborted"} /\ save[v].wire > 0
    /\ save' = [save EXCEPT ![v].wire = @ - 1, ![v].got = @ + 1]
    /\ UNCHANGED <<owner, held, vm, sender, starts>>

(* run_qmp_with_one_reconnect: a reset socket with QEMU alive is answered  *)
(* by one fresh connection; a second reset, or a dead QEMU, is the error.  *)
QmpReset(v) ==
    /\ save[v].st = "listening"
    /\ save' = [save EXCEPT ![v] = IF vm[v].child /\ ~@.retried
                                   THEN [@ EXCEPT !.retried = TRUE]
                                   ELSE [@ EXCEPT !.st = "aborted"]]
    /\ UNCHANGED <<owner, held, vm, sender, starts>>

(* migrate_to_tcp polls query-migrate: "completed", or failed / timed out. *)
MigrateEnds(v) ==
    /\ save[v].st \in {"listening", "streaming"}
    /\ save' = [save EXCEPT ![v].st =
                  IF save[v].sent = Chunks /\ vm[v].child THEN "completed" ELSE "aborted"]
    /\ UNCHANGED <<owner, held, vm, sender, starts>>

\* mutant: the receiver leaves as soon as it is told to stop
SaveEndsAtOnce(v) ==
    /\ save[v].st \in {"completed", "aborted"}
    /\ save' = [save EXCEPT ![v].st = IF @ = "completed" THEN "saved" ELSE "none"]
    /\ owner' = [owner EXCEPT ![save[v].port] = Free]
    /\ held' = held \ {save[v].port}
    /\ UNCHANGED <<vm, sender, starts>>

(* Told to stop, the receiver still drains the wire: it leaves on a read   *)
(* that finds nothing.  The relay and its lease go with it.                *)
SaveEnds(v) ==
    /\ save[v].st \in {"completed", "aborted"} /\ save[v].wire = 0
    /\ save' = [save EXCEPT ![v].st = IF @ = "completed" THEN "saved" ELSE "none"]
    /\ owner' = [owner EXCEPT ![save[v].port] = Free]
    /\ held' = held \ {save[v].port}
    /\ UNCHANGED <<vm, sender, starts>>

(* The caller has its answer; the handle may be asked again.               *)
SaveAnswered(v) ==
    /\ save[v].st = "saved"
    /\ save' = [save EXCEPT ![v] = NoSave]
    /\ UNCHANGED <<owner, held, vm, sender, starts>>

---------------------------------------------------------------------------
Next ==
    \/ OtherBinds
    \/ \E v \in Vms :
         \/ LeaseControl(v, "boot") \/ LeaseControl(v, "restore")
         \/ HandOff(v) \/ LeaseIncoming(v) \/ Spawn(v) \/ QemuBinds(v) \/ QemuDies(v)
         \/ SenderConnects(v) \/ Connect(v) \/ Started(v) \/ StartFails(v) \/ Stop(v)
         \/ SaveBegins(v) \/ QemuStreams(v) \/ Receive(v) \/ QmpReset(v)
         \/ MigrateEnds(v) \/ SaveEnds(v) \/ SaveAnswered(v)

Spec == Init /\ [][Next]_vars

---------------------------------------------------------------------------
(* The ports a handle has reserved: its control port until it is up, its   *)
(* incoming port until it is dropped, a relay's while it receives.         *)
Reserved(v) ==
    ({vm[v].inc} \cup (IF vm[v].at = "up" THEN {} ELSE {vm[v].ctl})
       \cup (IF save[v].st \in {"none", "saved"} THEN {} ELSE {save[v].port})) \ {NoPort}

(* "two leases that exist at the same time never carry the same number":   *)
(* in this process, whoever else binds what in the hand-off window.        *)
LeasesAreDisjoint ==
    \A v, w \in Vms : v # w => Reserved(v) \cap Reserved(w) = {}

(* The registry is exactly the live leases: nothing leaks on the failure   *)
(* paths, and no release takes another holder's number with it.            *)
RegistryIsExact == held = UNION {Reserved(v) : v \in Vms}

(* A handle that is up talks to its own QEMU as long as that lives: no     *)
(* other VM of this process was given its port.                            *)
UpTalksToItsOwn ==
    \A v \in Vms : vm[v].at = "up" /\ vm[v].child => owner[vm[v].ctl] = Qemu(v)

(* A sender never pushes its snapshot into a listener of this process: the *)
(* lease is handed off before the sender starts.                           *)
SenderMissesOwnListener ==
    \A v \in Vms : sender[v].st = "connecting" /\ vm[v].at = "spawned"
                     /\ vm[v].inc = sender[v].port
                   => owner[sender[v].port] # Listener(v)

(* A save that answers Ok left the whole stream in the file.               *)
SavedIsWhole == \A v \in Vms : save[v].st = "saved" => save[v].got = Chunks

TypeOK ==
    /\ held \subseteq Ports
    /\ owner \in [Ports -> {Free, Other} \cup
                    UNION {{Listener(v), Qemu(v), Relay(v)} : v \in Vms}]
    /\ \A v \in Vms : /\ vm[v].ctl \in Ports \cup {NoPort} /\ vm[v].fed \subseteq Vms
                      /\ save[v].wire + save[v].got = save[v].sent
    /\ starts \in 0..MaxStarts

(***************************************************************************)
(* No port is leased twice or released early, a machine that is up talks   *)
(* to its own process, and what counts as a snapshot is all of it          *)
(* (lease_local_ports, start, save_snapshot_real).                         *)
(***************************************************************************)
MachineInv ==
    /\ TypeOK /\ LeasesAreDisjoint /\ RegistryIsExact /\ UpTalksToItsOwn
    /\ SenderMissesOwnListener /\ SavedIsWhole
=============================================================================
