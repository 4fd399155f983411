-------------------------- MODULE VmProcessProofs --------------------------
(* Proofs about VmProcess, for any handles, any ports, any number of starts *)
(* and streams of any length; and after it about SandboxInstances,          *)
(* ConnectionFiles and HostSettings, each for an instance with constants    *)
(* and variables of its own.                                                *)
EXTENDS VmProcess, Sequences, Integers, FiniteSetTheorems, TLAPS

NPort == Ports \cup {NoPort}

Leased == {"leased", "starting", "spawned", "talking"}

VmTyped(v) ==
    /\ DOMAIN vm[v] = {"at", "mode", "ctl", "inc", "child", "fed"}
    /\ vm[v].at \in Leased \cup {"none", "up"}
    /\ vm[v].ctl \in NPort /\ vm[v].inc \in NPort /\ vm[v].child \in BOOLEAN
    /\ vm[v].fed \subseteq Vms

SaveTyped(v) ==
    /\ DOMAIN save[v] = {"st", "port", "wire", "got", "sent", "retried"}
    /\ save[v].wire \in Nat /\ save[v].got \in Nat /\ save[v].sent \in Nat
    /\ save[v].wire + save[v].got = save[v].sent

Typed ==
    /\ DOMAIN vm = Vms /\ DOMAIN save = Vms /\ DOMAIN sender = Vms
    /\ held \subseteq Ports /\ starts \in 0 .. MaxStarts
    /\ owner \in [Ports -> {Free, Other} \cup UNION {{Listener(v), Qemu(v), Relay(v)} : v \in Vms}]

Saving(v) == save[v].st \notin {"none", "saved"}

(* Where a start stands, who has bound its ports. *)
PortsKnown(v) ==
    /\ vm[v].at = "none" => vm[v].ctl = NoPort /\ vm[v].inc = NoPort
    /\ vm[v].at \in Leased => vm[v].ctl \in Ports /\ vm[v].ctl # vm[v].inc
    /\ vm[v].at = "leased" => owner[vm[v].ctl] = Listener(v) /\ vm[v].inc = NoPort
    /\ vm[v].at = "starting" /\ vm[v].inc # NoPort => owner[vm[v].inc] = Listener(v)
    /\ vm[v].at \in {"talking", "up"} /\ vm[v].child =>
         vm[v].ctl \in Ports /\ owner[vm[v].ctl] = Qemu(v)
    /\ vm[v].child => vm[v].at \in {"spawned", "talking", "up"}

(* A save belongs to a machine that is up; its relay has its port. *)
SaveKnown(v) ==
    /\ save[v].st # "none" => vm[v].at = "up"
    /\ Saving(v) => /\ save[v].port \in Ports /\ owner[save[v].port] = Relay(v)
                    /\ save[v].port # vm[v].inc
    /\ save[v].st = "completed" => save[v].sent = Chunks
    /\ save[v].st = "saved" => save[v].got = Chunks

SenderKnown(v) ==
    /\ DOMAIN sender[v] = {"st", "port"}
    /\ sender[v].st = "connecting" =>
         /\ sender[v].port \in Ports
         /\ vm[v].at = "spawned" /\ vm[v].inc = sender[v].port
              => owner[sender[v].port] # Listener(v)

Known(v) == VmTyped(v) /\ SaveTyped(v) /\ PortsKnown(v) /\ SaveKnown(v) /\ SenderKnown(v)

Registry == LeasesAreDisjoint /\ RegistryIsExact

IInv == Typed /\ (\A v \in Vms : Known(v)) /\ Registry

-----------------------------------------------------------------------------
(* A step of v changes nothing of the others, and takes and gives back no   *)
(* port of theirs.                                                          *)
Spares(v) ==
    \A u \in Vms \ {v} :
      /\ vm'[u] = vm[u] /\ save'[u] = save[u] /\ sender'[u] = sender[u]
      /\ \A p \in Ports : owner[p] \in {Listener(u), Qemu(u), Relay(u)} => owner'[p] = owner[p]
      /\ \A p \in Ports : owner'[p] = Listener(u) => owner[p] = Listener(u)

LEMMA SparedStayKnown ==
    ASSUME IInv, NEW v \in Vms, Spares(v), NEW u \in Vms, u # v
    PROVE  Known(u)' /\ Reserved(u)' = Reserved(u)
<1>1. /\ vm'[u] = vm[u] /\ save'[u] = save[u] /\ sender'[u] = sender[u] /\ Known(u)
      /\ \A p \in Ports : owner[p] \in {Listener(u), Qemu(u), Relay(u)} => owner'[p] = owner[p]
      /\ \A p \in Ports : owner'[p] = Listener(u) => owner[p] = Listener(u)
  BY DEF IInv, Spares
<1>2. VmTyped(u)' /\ SaveTyped(u)'
  BY <1>1 DEF Known, VmTyped, SaveTyped
<1>3. PortsKnown(u)'
  BY <1>1 DEF Known, PortsKnown, VmTyped, NPort
<1>4. SaveKnown(u)'
  BY <1>1 DEF Known, SaveKnown, Saving
<1>5. SenderKnown(u)'
  BY <1>1 DEF Known, SenderKnown
<1>6. Reserved(u)' = Reserved(u)
  BY <1>1 DEF Reserved
<1> QED
  BY <1>2, <1>3, <1>4, <1>5, <1>6 DEF Known

(* The registry follows what a step of v reserves and gives back. *)
LEMMA RegistryFollows ==
    ASSUME IInv, NEW v \in Vms, \A u \in Vms \ {v} : Reserved(u)' = Reserved(u),
           NEW back, NEW taken, back \cap held \subseteq Reserved(v), taken \cap held = {},
           Reserved(v)' = (Reserved(v) \ back) \cup taken,
           held' = (held \ back) \cup taken
    PROVE  Registry'
<1>1. \A p : p \in held <=> \E u \in Vms : p \in Reserved(u)
  BY DEF IInv, Registry, RegistryIsExact
<1>2. \A u, w \in Vms : u # w => Reserved(u) \cap Reserved(w) = {}
  BY DEF IInv, Registry, LeasesAreDisjoint
<1>3. \A u, w \in Vms : u # w => Reserved(u)' \cap Reserved(w)' = {}
  BY <1>1, <1>2
<1>4. \A p : p \in held' <=> \E u \in Vms : p \in Reserved(u)'
  BY <1>1, <1>2
<1>5. held' = UNION {Reserved(u)' : u \in Vms}
  BY <1>4
<1> QED
  BY <1>3, <1>5 DEF Registry, LeasesAreDisjoint, RegistryIsExact

(* A step of v keeps the invariant when v and the types keep theirs. *)
LEMMA StepKeeps ==
    ASSUME IInv, NEW v \in Vms, Spares(v), Typed', Known(v)',
           NEW back, NEW taken, back \cap held \subseteq Reserved(v), taken \cap held = {},
           Reserved(v)' = (Reserved(v) \ back) \cup taken,
           held' = (held \ back) \cup taken
    PROVE  IInv'
<1>1. \A u \in Vms \ {v} : Known(u)' /\ Reserved(u)' = Reserved(u)
  BY SparedStayKnown
<1>2. Registry'
  BY <1>1, RegistryFollows
<1> QED
  BY <1>1, <1>2 DEF IInv

LEMMA QuietKeeps ==
    ASSUME IInv, NEW v \in Vms, Spares(v), Typed', Known(v)',
           Reserved(v)' = Reserved(v), held' = held
    PROVE  IInv'
<1>1. {} \cap held \subseteq Reserved(v) /\ {} \cap held = {}
  OBVIOUS
<1>2. Reserved(v)' = (Reserved(v) \ {}) \cup {} /\ held' = (held \ {}) \cup {}
  OBVIOUS
<1> QED
  BY <1>1, <1>2, StepKeeps

LEMMA LeaseKeeps ==
    ASSUME IInv, NEW v \in Vms, Spares(v), Typed', Known(v)', NEW p, p \notin held,
           Reserved(v)' = Reserved(v) \cup {p}, held' = held \cup {p}
    PROVE  IInv'
<1>1. {} \cap held \subseteq Reserved(v) /\ {p} \cap held = {}
  OBVIOUS
<1>2. Reserved(v)' = (Reserved(v) \ {}) \cup {p} /\ held' = (held \ {}) \cup {p}
  OBVIOUS
<1> QED
  BY <1>1, <1>2, StepKeeps

LEMMA ReleaseKeeps ==
    ASSUME IInv, NEW v \in Vms, Spares(v), Typed', Known(v)', NEW back,
           back \cap held \subseteq Reserved(v),
           Reserved(v)' = Reserved(v) \ back, held' = held \ back
    PROVE  IInv'
<1>1. {} \cap held = {}
  OBVIOUS
<1>2. Reserved(v)' = (Reserved(v) \ back) \cup {} /\ held' = (held \ back) \cup {}
  OBVIOUS
<1> QED
  BY <1>1, <1>2, StepKeeps

(* Whoever holds a port is one of these, and they all differ. *)
LEMMA HoldersDiffer ==
    /\ \A u, v : /\ Listener(u) # Qemu(v) /\ Listener(u) # Relay(v) /\ Qemu(u) # Relay(v)
                 /\ (u # v => Listener(u) # Listener(v) /\ Qemu(u) # Qemu(v) /\ Relay(u) # Relay(v))
    /\ \A v : /\ Free # Listener(v) /\ Free # Qemu(v) /\ Free # Relay(v)
             /\ Other # Listener(v) /\ Other # Qemu(v) /\ Other # Relay(v)
BY DEF Listener, Qemu, Relay, Free, Other

Holders == {Free, Other} \cup UNION {{Listener(v), Qemu(v), Relay(v)} : v \in Vms}

LEMMA HoldersAre ==
    /\ Free \in Holders /\ Other \in Holders
    /\ \A v \in Vms : Listener(v) \in Holders /\ Qemu(v) \in Holders /\ Relay(v) \in Holders
BY DEF Holders

(* The ports of a handle that a lease was not yet given to are not leased.  *)
LEMMA LeasableIsFree ==
    ASSUME NEW p \in Leasable
    PROVE  p \in Ports /\ owner[p] = Free /\ p \notin held
BY DEF Leasable

LEMMA Knows ==
    ASSUME IInv, NEW v \in Vms
    PROVE  /\ Typed /\ VmTyped(v) /\ SaveTyped(v) /\ PortsKnown(v) /\ SaveKnown(v)
           /\ SenderKnown(v) /\ NoPort \notin Ports /\ NoPort \notin held
           /\ Reserved(v) \subseteq held
           /\ owner \in [Ports -> Holders] /\ DOMAIN vm = Vms /\ DOMAIN save = Vms
           /\ DOMAIN sender = Vms
<1>1. NoPort \notin Ports /\ NoPort \notin held
  BY VmAssumption DEF IInv, Typed
<1>2. Reserved(v) \subseteq held
  BY DEF IInv, Registry, RegistryIsExact
<1> QED
  BY <1>1, <1>2 DEF IInv, Known, Typed, Holders

-----------------------------------------------------------------------------
(* Starting. *)
LEMMA LeaseControlKeeps ==
    ASSUME IInv, NEW v \in Vms, NEW mode, LeaseControl(v, mode)
    PROVE  IInv'
<1>1. PICK p \in Leasable :
        /\ owner' = [owner EXCEPT ![p] = Listener(v)] /\ held' = held \cup {p}
        /\ vm' = [vm EXCEPT ![v] = [NoVm EXCEPT !.at = "leased", !.mode = mode, !.ctl = p]]
  BY DEF LeaseControl
<1>2. /\ vm[v].at = "none" /\ starts < MaxStarts /\ starts' = starts + 1
      /\ sender' = sender /\ save' = save /\ save[v].st = "none"
  BY Knows DEF LeaseControl, SaveKnown
<1>3. p \in Ports /\ owner[p] = Free /\ p \notin held /\ p # NoPort
  BY LeasableIsFree, Knows
<1>4. /\ DOMAIN vm'[v] = {"at", "mode", "ctl", "inc", "child", "fed"}
      /\ vm'[v].at = "leased" /\ vm'[v].ctl = p /\ vm'[v].inc = NoPort /\ ~vm'[v].child
      /\ vm'[v].child \in BOOLEAN /\ vm'[v].fed = {}
  BY <1>1, Knows DEF NoVm
<1>5. owner'[p] = Listener(v) /\ \A q \in Ports \ {p} : owner'[q] = owner[q]
  BY <1>1, <1>3, Knows
<1>6. Typed'
  <2>1. owner' \in [Ports -> Holders]
    BY <1>1, HoldersAre, Knows
  <2> QED
    BY <1>1, <1>2, <1>3, <2>1, Knows, VmAssumption DEF Typed, Holders
<1>7. Spares(v)
  BY <1>1, <1>2, <1>3, <1>5, HoldersDiffer, Knows DEF Spares
<1>8. Known(v)'
  <2>1. VmTyped(v)' /\ SaveTyped(v)'
    BY <1>2, <1>3, <1>4, Knows DEF VmTyped, SaveTyped, Leased, NPort
  <2>2. PortsKnown(v)'
    BY <1>3, <1>4, <1>5 DEF PortsKnown, Leased
  <2>3. SaveKnown(v)' /\ SenderKnown(v)'
    BY <1>2, <1>4, Knows DEF SaveKnown, SenderKnown, Saving
  <2> QED
    BY <2>1, <2>2, <2>3 DEF Known
<1>9. Reserved(v) = {} /\ Reserved(v)' = {p}
  BY <1>2, <1>3, <1>4, Knows DEF Reserved, PortsKnown
<1> QED
  BY <1>1, <1>3, <1>6, <1>7, <1>8, <1>9, StepKeeps

LEMMA HandOffKeeps ==
    ASSUME IInv, NEW v \in Vms, HandOff(v)
    PROVE  IInv'
<1>1. /\ vm[v].at = "leased" /\ owner' = [owner EXCEPT ![vm[v].ctl] = Free]
      /\ vm' = [vm EXCEPT ![v].at = "starting"]
      /\ held' = held /\ sender' = sender /\ save' = save /\ starts' = starts
  BY DEF HandOff
<1>2. /\ vm[v].ctl \in Ports /\ owner[vm[v].ctl] = Listener(v) /\ vm[v].inc = NoPort
      /\ save[v].st = "none" /\ ~vm[v].child
  BY <1>1, Knows DEF PortsKnown, Leased, SaveKnown
<1>3. /\ DOMAIN vm'[v] = {"at", "mode", "ctl", "inc", "child", "fed"}
      /\ vm'[v].at = "starting" /\ vm'[v].ctl = vm[v].ctl /\ vm'[v].inc = vm[v].inc
      /\ vm'[v].child = vm[v].child /\ vm'[v].fed = vm[v].fed
  BY <1>1, Knows DEF VmTyped
<1>4. \A q \in Ports \ {vm[v].ctl} : owner'[q] = owner[q]
  BY <1>1, Knows
<1>5. owner'[vm[v].ctl] = Free
  BY <1>1, <1>2, Knows
<1>6. Typed'
  <2>1. owner' \in [Ports -> Holders]
    BY <1>1, HoldersAre, Knows
  <2> QED
    BY <1>1, <2>1, Knows DEF Typed, Holders
<1>7. Spares(v)
  BY <1>1, <1>2, <1>4, <1>5, HoldersDiffer, Knows DEF Spares
<1>8. Known(v)'
  <2>1. VmTyped(v)' /\ SaveTyped(v)'
    BY <1>1, <1>3, Knows DEF VmTyped, SaveTyped, Leased
  <2>2. PortsKnown(v)'
    BY <1>2, <1>3, Knows DEF PortsKnown, Leased
  <2>3. SaveKnown(v)' /\ SenderKnown(v)'
    BY <1>1, <1>2, <1>3, Knows DEF SaveKnown, SenderKnown, Saving
  <2> QED
    BY <2>1, <2>2, <2>3 DEF Known
<1>9. Reserved(v)' = Reserved(v)
  BY <1>1, <1>3 DEF Reserved
<1>10. held' = held
  BY <1>1
<1> QED
  BY <1>6, <1>7, <1>8, <1>9, <1>10, QuietKeeps

LEMMA LeaseIncomingKeeps ==
    ASSUME IInv, NEW v \in Vms, LeaseIncoming(v)
    PROVE  IInv'
<1>1. PICK p \in Leasable :
        /\ owner' = [owner EXCEPT ![p] = Listener(v)] /\ held' = held \cup {p}
        /\ vm' = [vm EXCEPT ![v].inc = p]
  BY DEF LeaseIncoming
<1>2. /\ vm[v].at = "starting" /\ vm[v].inc = NoPort /\ ~vm[v].child
      /\ starts' = starts /\ sender' = sender /\ save' = save /\ save[v].st = "none"
      /\ vm[v].ctl \in Ports
  BY Knows DEF LeaseIncoming, SaveKnown, PortsKnown, Leased
<1>3. p \in Ports /\ owner[p] = Free /\ p \notin held /\ p # NoPort
  BY LeasableIsFree, Knows
<1>4. /\ DOMAIN vm'[v] = {"at", "mode", "ctl", "inc", "child", "fed"}
      /\ vm'[v].at = "starting" /\ vm'[v].ctl = vm[v].ctl /\ vm'[v].inc = p
      /\ vm'[v].child = vm[v].child /\ vm'[v].fed = vm[v].fed
  BY <1>1, <1>2, Knows DEF VmTyped
<1>5. owner'[p] = Listener(v) /\ \A q \in Ports \ {p} : owner'[q] = owner[q]
  BY <1>1, <1>3, Knows
<1>6. vm[v].ctl \in Reserved(v) /\ vm[v].ctl # p
  BY <1>2, <1>3, Knows DEF Reserved
<1>7. Typed'
  <2>1. owner' \in [Ports -> Holders]
    BY <1>1, HoldersAre, Knows
  <2> QED
    BY <1>1, <1>2, <1>3, <2>1, Knows DEF Typed, Holders
<1>8. Spares(v)
  BY <1>1, <1>2, <1>3, <1>5, HoldersDiffer, Knows DEF Spares
<1>9. Known(v)'
  <2>1. VmTyped(v)' /\ SaveTyped(v)'
    BY <1>2, <1>3, <1>4, Knows DEF VmTyped, SaveTyped, NPort, Leased
  <2>2. PortsKnown(v)'
    BY <1>2, <1>3, <1>4, <1>5, <1>6 DEF PortsKnown, Leased
  <2>3. SaveKnown(v)' /\ SenderKnown(v)'
    BY <1>2, <1>4, Knows DEF SaveKnown, SenderKnown, Saving
  <2> QED
    BY <2>1, <2>2, <2>3 DEF Known
<1>10. Reserved(v)' = Reserved(v) \cup {p}
  BY <1>2, <1>3, <1>4 DEF Reserved
<1>11. held' = held \cup {p} /\ p \notin held
  BY <1>1, <1>3
<1> QED
  BY <1>7, <1>8, <1>9, <1>10, <1>11, LeaseKeeps

LEMMA SpawnKeeps ==
    ASSUME IInv, NEW v \in Vms, Spawn(v)
    PROVE  IInv'
<1>1. /\ vm[v].at = "starting" /\ (vm[v].mode = "restore" => vm[v].inc # NoPort)
      /\ owner' = [p \in Ports |-> IF p = vm[v].inc THEN Free ELSE owner[p]]
      /\ vm' = [vm EXCEPT ![v].at = "spawned", ![v].child = TRUE]
      /\ sender' = [sender EXCEPT ![v] =
                      IF vm[v].mode = "restore"
                      THEN [st |-> "connecting", port |-> vm[v].inc] ELSE NoSender]
      /\ held' = held /\ save' = save /\ starts' = starts
  BY DEF Spawn
<1>2. /\ vm[v].ctl \in Ports /\ vm[v].ctl # vm[v].inc /\ save[v].st = "none"
      /\ vm[v].inc # NoPort => vm[v].inc \in Ports /\ owner[vm[v].inc] = Listener(v)
  BY <1>1, Knows DEF PortsKnown, Leased, SaveKnown, VmTyped, NPort
<1>3. /\ DOMAIN vm'[v] = {"at", "mode", "ctl", "inc", "child", "fed"}
      /\ vm'[v].at = "spawned" /\ vm'[v].ctl = vm[v].ctl /\ vm'[v].inc = vm[v].inc
      /\ vm'[v].child = TRUE /\ vm'[v].fed = vm[v].fed
  BY <1>1, Knows DEF VmTyped
<1>4. Typed'
  <2>1. owner' \in [Ports -> Holders]
    BY <1>1, HoldersAre, Knows
  <2> QED
    BY <1>1, <2>1, Knows DEF Typed, Holders
<1>5. Spares(v)
  BY <1>1, <1>2, HoldersDiffer, Knows DEF Spares
<1>6. Known(v)'
  <2>1. vm'[v].child \in BOOLEAN
    BY <1>3, Zenon
  <2>2. VmTyped(v)' /\ SaveTyped(v)'
    BY <1>1, <1>3, <2>1, Knows DEF VmTyped, SaveTyped, Leased
  <2>3. PortsKnown(v)'
    BY <1>2, <1>3 DEF PortsKnown, Leased
  <2>4. SenderKnown(v)'
    BY <1>1, <1>2, HoldersDiffer, Knows DEF SenderKnown, NoSender
  <2>5. SaveKnown(v)'
    BY <1>1, <1>2 DEF SaveKnown, Saving
  <2> QED
    BY <2>2, <2>3, <2>4, <2>5 DEF Known
<1>7. Reserved(v)' = Reserved(v)
  BY <1>1, <1>3 DEF Reserved
<1> QED
  BY <1>1, <1>4, <1>5, <1>6, <1>7, QuietKeeps

LEMMA QemuBindsKeeps ==
    ASSUME IInv, NEW v \in Vms, QemuBinds(v)
    PROVE  IInv'
<1> DEFINE mine == {vm[v].ctl, vm[v].inc} \ {NoPort}
<1>1. /\ vm[v].at = "spawned" /\ vm[v].child
      /\ held' = held /\ sender' = sender /\ save' = save /\ starts' = starts
      /\ save[v].st = "none"
  BY Knows DEF QemuBinds, SaveKnown
<1>2. \/ /\ \A p \in mine : owner[p] = Free
         /\ owner' = [p \in Ports |-> IF p \in mine THEN Qemu(v) ELSE owner[p]]
         /\ vm' = vm
      \/ vm' = [vm EXCEPT ![v].child = FALSE] /\ owner' = owner
  BY DEF QemuBinds
<1> HIDE DEF mine
<1>3. /\ DOMAIN vm'[v] = {"at", "mode", "ctl", "inc", "child", "fed"}
      /\ vm'[v].at = "spawned" /\ vm'[v].ctl = vm[v].ctl /\ vm'[v].inc = vm[v].inc
      /\ vm'[v].child \in BOOLEAN /\ vm'[v].fed = vm[v].fed
  <2>1. CASE vm' = vm
    BY <1>1, <2>1, Knows DEF VmTyped
  <2>2. CASE vm' = [vm EXCEPT ![v].child = FALSE]
    <3>1. vm'[v].child = FALSE
      BY <2>2, Knows DEF VmTyped
    <3>2. vm'[v].child \in BOOLEAN
      BY <3>1, Zenon
    <3> QED
      BY <1>1, <2>2, <3>2, Knows DEF VmTyped
  <2> QED
    BY <1>2, <2>1, <2>2
<1>4. \A q \in Ports : owner'[q] = owner[q] \/ (owner[q] = Free /\ owner'[q] = Qemu(v))
  BY <1>2, Knows
<1>5. Typed'
  <2>1. owner' \in [Ports -> Holders]
    BY <1>2, HoldersAre, Knows
  <2> QED
    BY <1>1, <1>2, <2>1, Knows DEF Typed, Holders
<1>6. Spares(v)
  BY <1>1, <1>2, <1>4, HoldersDiffer, Knows DEF Spares
<1>7. Known(v)'
  <2>1. VmTyped(v)' /\ SaveTyped(v)'
    BY <1>1, <1>3, Knows DEF VmTyped, SaveTyped
  <2>2. PortsKnown(v)'
    BY <1>1, <1>3, Knows DEF PortsKnown, Leased
  <2>3. SenderKnown(v)'
    BY <1>1, <1>3, <1>4, HoldersDiffer, Knows DEF SenderKnown
  <2>4. SaveKnown(v)'
    BY <1>1 DEF SaveKnown, Saving
  <2> QED
    BY <2>1, <2>2, <2>3, <2>4 DEF Known
<1>8. Reserved(v)' = Reserved(v)
  BY <1>1, <1>3 DEF Reserved
<1> QED
  BY <1>1, <1>5, <1>6, <1>7, <1>8, QuietKeeps

LEMMA QemuDiesKeeps ==
    ASSUME IInv, NEW v \in Vms, QemuDies(v)
    PROVE  IInv'
<1>1. /\ vm[v].child /\ vm' = [vm EXCEPT ![v].child = FALSE] /\ owner' = WithoutChild(v)
      /\ held' = held /\ sender' = sender /\ save' = save /\ starts' = starts
  BY DEF QemuDies
<1>2. \A q \in Ports : owner'[q] = (IF owner[q] = Qemu(v) THEN Free ELSE owner[q])
  BY <1>1 DEF WithoutChild
<1>3. /\ DOMAIN vm'[v] = {"at", "mode", "ctl", "inc", "child", "fed"}
      /\ vm'[v].at = vm[v].at /\ vm'[v].ctl = vm[v].ctl /\ vm'[v].inc = vm[v].inc
      /\ vm'[v].child = FALSE /\ vm'[v].fed = vm[v].fed
  BY <1>1, Knows DEF VmTyped
<1>4. vm'[v].child \in BOOLEAN /\ ~vm'[v].child
  BY <1>3, Zenon
<1>5. Typed'
  <2>1. owner' \in [Ports -> Holders]
    BY <1>1, HoldersAre, Knows DEF WithoutChild
  <2> QED
    BY <1>1, <2>1, Knows DEF Typed, Holders
<1>6. Spares(v)
  BY <1>1, <1>2, HoldersDiffer, Knows DEF Spares
<1>7. Known(v)'
  <2>1. VmTyped(v)' /\ SaveTyped(v)'
    BY <1>1, <1>3, <1>4, Knows DEF VmTyped, SaveTyped
  <2>2. PortsKnown(v)'
    <3>1. \A q \in Ports : owner[q] = Listener(v) => owner'[q] = Listener(v)
      BY <1>2, HoldersDiffer
    <3> QED
      BY <1>3, <1>4, <3>1, Knows DEF PortsKnown, VmTyped, NPort
  <2>3. SenderKnown(v)'
    BY <1>1, <1>2, <1>3, HoldersDiffer, Knows DEF SenderKnown
  <2>4. SaveKnown(v)'
    BY <1>1, <1>2, <1>3, HoldersDiffer, Knows DEF SaveKnown, Saving
  <2> QED
    BY <2>1, <2>2, <2>3, <2>4 DEF Known
<1>8. Reserved(v)' = Reserved(v)
  BY <1>1, <1>3 DEF Reserved
<1>9. held' = held
  BY <1>1
<1> QED
  BY <1>5, <1>6, <1>7, <1>8, <1>9, QuietKeeps

(* Another process only takes a port nobody has, and gives back its own.    *)
LEMMA OtherBindsKeeps ==
    ASSUME IInv, OtherBinds
    PROVE  IInv'
<1>1. /\ held' = held /\ vm' = vm /\ sender' = sender /\ save' = save /\ starts' = starts
  BY DEF OtherBinds
<1>2. PICK p \in Ports, o \in {Free, Other} : owner[p] \in {Free, Other} /\ owner' = [owner EXCEPT ![p] = o]
  BY DEF OtherBinds
<1>3. owner \in [Ports -> Holders]
  BY DEF IInv, Typed, Holders
<1>4. Typed'
  <2>1. owner' \in [Ports -> Holders]
    BY <1>2, <1>3, HoldersAre
  <2> QED
    BY <1>1, <2>1 DEF IInv, Typed, Holders
<1>5. \A q \in Ports : owner'[q] = owner[q] \/ (owner[q] \in {Free, Other} /\ owner'[q] \in {Free, Other})
  BY <1>2, <1>3
<1>6. ASSUME NEW v \in Vms PROVE Known(v)'
  <2>1. \A q \in Ports : /\ owner[q] \in {Listener(v), Qemu(v), Relay(v)} => owner'[q] = owner[q]
                         /\ owner'[q] = Listener(v) => owner[q] = Listener(v)
    BY <1>5, HoldersDiffer
  <2>2. VmTyped(v)' /\ SaveTyped(v)'
    BY <1>1, Knows DEF VmTyped, SaveTyped
  <2>3. PortsKnown(v)'
    BY <1>1, <2>1, Knows DEF PortsKnown, VmTyped, NPort
  <2>4. SaveKnown(v)' /\ SenderKnown(v)'
    BY <1>1, <2>1, Knows DEF SaveKnown, SenderKnown, Saving
  <2> QED
    BY <2>2, <2>3, <2>4 DEF Known
<1>7. Registry'
  BY <1>1 DEF IInv, Registry, LeasesAreDisjoint, RegistryIsExact, Reserved
<1> QED
  BY <1>4, <1>6, <1>7 DEF IInv

(* A sender that is through marks the handle it fed, whoever that is.       *)
LEMMA SenderConnectsKeeps ==
    ASSUME IInv, NEW v \in Vms, SenderConnects(v)
    PROVE  IInv'
<1>1. owner' = owner /\ held' = held /\ save' = save /\ starts' = starts
  BY DEF SenderConnects
<1>2. PICK s \in {"done", "strayed", "failed"} : sender' = [sender EXCEPT ![v].st = s]
  BY DEF SenderConnects
<1>3. vm' = vm \/ \E u \in Vms : vm' = [vm EXCEPT ![u].fed = {v}]
  BY DEF SenderConnects
<1>4. ASSUME NEW w \in Vms
      PROVE  /\ DOMAIN vm'[w] = {"at", "mode", "ctl", "inc", "child", "fed"}
             /\ vm'[w].at = vm[w].at /\ vm'[w].ctl = vm[w].ctl /\ vm'[w].inc = vm[w].inc
             /\ vm'[w].child = vm[w].child /\ vm'[w].fed \subseteq Vms
  <2>1. CASE vm' = vm
    BY <2>1, Knows DEF VmTyped
  <2>2. ASSUME NEW u \in Vms, vm' = [vm EXCEPT ![u].fed = {v}] PROVE <1>4!2
    BY <2>2, Knows DEF VmTyped
  <2> QED
    BY <1>3, <2>1, <2>2
<1>5. DOMAIN vm' = Vms /\ DOMAIN sender' = Vms
  BY <1>2, <1>3 DEF IInv, Typed
<1>6. Typed'
  BY <1>1, <1>5 DEF IInv, Typed
<1>7. ASSUME NEW w \in Vms PROVE Known(w)'
  <2> DOMAIN sender'[w] = {"st", "port"}
    BY <1>2, Knows DEF SenderKnown
  <2>1. VmTyped(w)' /\ SaveTyped(w)'
    BY <1>1, <1>4, Knows DEF VmTyped, SaveTyped
  <2>2. PortsKnown(w)'
    BY <1>1, <1>4, Knows DEF PortsKnown
  <2>3. SaveKnown(w)'
    BY <1>1, <1>4, Knows DEF SaveKnown, Saving
  <2>4. w # v => sender'[w] = sender[w]
    BY <1>2, Knows
  <2>5. w = v => sender'[w].st # "connecting"
    BY <1>2, Knows DEF SenderKnown
  <2>6. SenderKnown(w)'
    BY <1>1, <1>4, <2>4, <2>5, Knows DEF SenderKnown
  <2> QED
    BY <2>1, <2>2, <2>3, <2>6 DEF Known
<1>8. \A w \in Vms : Reserved(w)' = Reserved(w)
  BY <1>1, <1>4 DEF Reserved
<1>9. Registry'
  BY <1>1, <1>8 DEF IInv, Registry, LeasesAreDisjoint, RegistryIsExact
<1> QED
  BY <1>6, <1>7, <1>9 DEF IInv

LEMMA ConnectKeeps ==
    ASSUME IInv, NEW v \in Vms, Connect(v)
    PROVE  IInv'
<1>1. /\ vm[v].at = "spawned" /\ owner[vm[v].ctl] = Qemu(v)
      /\ vm' = [vm EXCEPT ![v].at = "talking"]
      /\ owner' = owner /\ sender' = sender /\ save' = save /\ starts' = starts
  BY DEF Connect
<1>2. held' = held
  BY DEF Connect
<1>3. vm[v].ctl \in Ports /\ vm[v].ctl # vm[v].inc /\ save[v].st = "none"
  BY <1>1, Knows DEF PortsKnown, Leased, SaveKnown
<1>4. /\ DOMAIN vm'[v] = {"at", "mode", "ctl", "inc", "child", "fed"}
      /\ vm'[v].at = "talking" /\ vm'[v].ctl = vm[v].ctl /\ vm'[v].inc = vm[v].inc
      /\ vm'[v].child = vm[v].child /\ vm'[v].fed = vm[v].fed
  BY <1>1, Knows DEF VmTyped
<1>5. Typed'
  BY <1>1, <1>2, Knows DEF Typed
<1>6. Spares(v)
  BY <1>1, Knows DEF Spares
<1>7. Known(v)'
  <2>1. VmTyped(v)' /\ SaveTyped(v)'
    BY <1>1, <1>4, Knows DEF VmTyped, SaveTyped, Leased
  <2>2. PortsKnown(v)'
    BY <1>1, <1>3, <1>4 DEF PortsKnown, Leased
  <2>3. SaveKnown(v)' /\ SenderKnown(v)'
    BY <1>1, <1>3, <1>4, Knows DEF SaveKnown, SenderKnown, Saving
  <2> QED
    BY <2>1, <2>2, <2>3 DEF Known
<1>8. Reserved(v)' = Reserved(v)
  BY <1>1, <1>4 DEF Reserved
<1> QED
  BY <1>2, <1>5, <1>6, <1>7, <1>8, QuietKeeps

LEMMA StartedKeeps ==
    ASSUME IInv, NEW v \in Vms, Started(v)
    PROVE  IInv'
<1>1. /\ vm[v].at = "talking" /\ vm[v].child
      /\ vm' = [vm EXCEPT ![v].at = "up"]
      /\ owner' = owner /\ sender' = sender /\ save' = save /\ starts' = starts
  BY DEF Started
<1>2. held' = held \ {vm[v].ctl}
  BY DEF Started
<1>3. /\ vm[v].ctl \in Ports /\ vm[v].ctl # vm[v].inc /\ owner[vm[v].ctl] = Qemu(v)
      /\ save[v].st = "none"
  BY <1>1, Knows DEF PortsKnown, Leased, SaveKnown
<1>4. /\ DOMAIN vm'[v] = {"at", "mode", "ctl", "inc", "child", "fed"}
      /\ vm'[v].at = "up" /\ vm'[v].ctl = vm[v].ctl /\ vm'[v].inc = vm[v].inc
      /\ vm'[v].child = vm[v].child /\ vm'[v].fed = vm[v].fed
  BY <1>1, Knows DEF VmTyped
<1>5. Typed'
  BY <1>1, <1>2, Knows DEF Typed
<1>6. Spares(v)
  BY <1>1, Knows DEF Spares
<1>7. Known(v)'
  <2>1. VmTyped(v)' /\ SaveTyped(v)'
    BY <1>1, <1>4, Knows DEF VmTyped, SaveTyped, Leased
  <2>2. PortsKnown(v)'
    BY <1>1, <1>3, <1>4 DEF PortsKnown, Leased
  <2>3. SaveKnown(v)' /\ SenderKnown(v)'
    BY <1>1, <1>3, <1>4, Knows DEF SaveKnown, SenderKnown, Saving
  <2> QED
    BY <2>1, <2>2, <2>3 DEF Known
<1>8. vm[v].ctl \in Reserved(v) /\ Reserved(v)' = Reserved(v) \ {vm[v].ctl}
  BY <1>1, <1>3, <1>4, Knows DEF Reserved
<1>9. {vm[v].ctl} \cap held \subseteq Reserved(v)
  BY <1>8
<1> QED
  BY <1>2, <1>5, <1>6, <1>7, <1>8, <1>9, ReleaseKeeps

(* A handle that is dropped gives back what it still reserves and no more.  *)
LEMMA DropVmKeeps ==
    ASSUME IInv, NEW v \in Vms, DropVm(v), save[v].st = "none",
           UNCHANGED <<sender, save, starts>>
    PROVE  IInv'
<1> DEFINE back == {vm[v].inc} \cup (IF vm[v].at = "up" THEN {} ELSE {vm[v].ctl})
<1>1. /\ owner' = [p \in Ports |->
                     IF owner[p] \in {Qemu(v), Listener(v)} THEN Free ELSE owner[p]]
      /\ vm' = [vm EXCEPT ![v] = NoVm]
      /\ sender' = sender /\ save' = save /\ starts' = starts /\ save[v].st = "none"
  BY DEF DropVm
<1>2. held' = held \ back
  BY DEF DropVm
<1>3. /\ DOMAIN vm'[v] = {"at", "mode", "ctl", "inc", "child", "fed"}
      /\ vm'[v].at = "none" /\ vm'[v].ctl = NoPort /\ vm'[v].inc = NoPort
      /\ ~vm'[v].child /\ vm'[v].child \in BOOLEAN /\ vm'[v].fed = {}
  BY <1>1, Knows DEF NoVm
<1>4. Typed'
  <2>1. owner' \in [Ports -> Holders]
    BY <1>1, HoldersAre, Knows
  <2> QED
    BY <1>1, <1>2, <2>1, Knows DEF Typed, Holders
<1>5. Spares(v)
  BY <1>1, HoldersDiffer, Knows DEF Spares
<1>6. Known(v)'
  <2>1. VmTyped(v)' /\ SaveTyped(v)'
    BY <1>1, <1>3, Knows DEF VmTyped, SaveTyped, NPort
  <2>2. PortsKnown(v)'
    BY <1>3 DEF PortsKnown, Leased
  <2>3. SaveKnown(v)' /\ SenderKnown(v)'
    BY <1>1, <1>3, Knows DEF SaveKnown, SenderKnown, Saving
  <2> QED
    BY <2>1, <2>2, <2>3 DEF Known
<1>7. Reserved(v) = back \ {NoPort} /\ Reserved(v)' = {}
  BY <1>1, <1>3 DEF Reserved
<1>8. back \cap held \subseteq Reserved(v) /\ Reserved(v)' = Reserved(v) \ back
  BY <1>7, Knows
<1> HIDE DEF back
<1> QED
  BY <1>2, <1>4, <1>5, <1>6, <1>8, ReleaseKeeps

LEMMA StopKeeps ==
    ASSUME IInv, NEW v \in Vms, StartFails(v) \/ Stop(v)
    PROVE  IInv'
<1>1. DropVm(v) /\ UNCHANGED <<sender, save, starts>> /\ save[v].st = "none"
  BY Knows DEF StartFails, Stop, SaveKnown
<1> QED
  BY <1>1, DropVmKeeps

-----------------------------------------------------------------------------
(* Taking a snapshot out. *)
LEMMA SaveBeginsKeeps ==
    ASSUME IInv, NEW v \in Vms, SaveBegins(v)
    PROVE  IInv'
<1>1. PICK p \in Leasable :
        /\ owner' = [owner EXCEPT ![p] = Relay(v)] /\ held' = held \cup {p}
        /\ save' = [save EXCEPT ![v] = [NoSave EXCEPT !.st = "listening", !.port = p]]
  BY DEF SaveBegins
<1>2. /\ vm[v].at = "up" /\ save[v].st = "none"
      /\ vm' = vm /\ sender' = sender /\ starts' = starts
  BY DEF SaveBegins
<1>3. p \in Ports /\ owner[p] = Free /\ p # NoPort /\ p \notin held
  BY LeasableIsFree, Knows
<1>4. p # vm[v].inc
  BY <1>3, Knows DEF Reserved
<1>5. /\ DOMAIN save'[v] = {"st", "port", "wire", "got", "sent", "retried"}
      /\ save'[v].st = "listening" /\ save'[v].port = p /\ save'[v].wire = 0
      /\ save'[v].got = 0 /\ save'[v].sent = 0
  BY <1>1, Knows DEF NoSave
<1>6. owner'[p] = Relay(v) /\ \A q \in Ports \ {p} : owner'[q] = owner[q]
  BY <1>1, <1>3, Knows
<1>7. Typed'
  <2>1. owner' \in [Ports -> Holders]
    BY <1>1, HoldersAre, Knows
  <2> QED
    BY <1>1, <1>2, <1>3, <2>1, Knows DEF Typed, Holders
<1>8. Spares(v)
  BY <1>1, <1>2, <1>3, <1>6, HoldersDiffer, Knows DEF Spares
<1>9. Known(v)'
  <2>1. VmTyped(v)' /\ SaveTyped(v)'
    BY <1>2, <1>5, Knows DEF VmTyped, SaveTyped
  <2>2. PortsKnown(v)'
    BY <1>2, <1>3, <1>6, HoldersDiffer, Knows DEF PortsKnown, Leased
  <2>3. SaveKnown(v)' /\ SenderKnown(v)'
    BY <1>2, <1>3, <1>4, <1>5, <1>6, Knows DEF SaveKnown, SenderKnown, Saving
  <2> QED
    BY <2>1, <2>2, <2>3 DEF Known
<1>10. Reserved(v)' = Reserved(v) \cup {p}
  BY <1>2, <1>3, <1>5 DEF Reserved
<1>11. held' = held \cup {p} /\ p \notin held
  BY <1>1, <1>3
<1> QED
  BY <1>7, <1>8, <1>9, <1>10, <1>11, LeaseKeeps

(* A step that only writes the save of v. *)
LEMMA SaveStepKeeps ==
    ASSUME IInv, NEW v \in Vms, UNCHANGED <<owner, held, vm, sender, starts>>,
           DOMAIN save' = Vms, \A u \in Vms \ {v} : save'[u] = save[u],
           SaveTyped(v)', SaveKnown(v)', Reserved(v)' = Reserved(v)
    PROVE  IInv'
<1>1. Typed'
  BY Knows DEF Typed
<1>2. Spares(v)
  BY DEF Spares
<1>3. Known(v)'
  BY Knows DEF Known, VmTyped, PortsKnown, SenderKnown
<1>4. held' = held
  OBVIOUS
<1> QED
  BY <1>1, <1>2, <1>3, <1>4, QuietKeeps

LEMMA StreamKeeps ==
    ASSUME IInv, NEW v \in Vms, QemuStreams(v) \/ Receive(v)
    PROVE  IInv'
<1>1. UNCHANGED <<owner, held, vm, sender, starts>>
  BY DEF QemuStreams, Receive
<1>2. DOMAIN save' = Vms /\ \A u \in Vms \ {v} : save'[u] = save[u]
  BY Knows DEF QemuStreams, Receive
<1>3. /\ DOMAIN save'[v] = {"st", "port", "wire", "got", "sent", "retried"}
      /\ save'[v].port = save[v].port /\ Saving(v) /\ save'[v].st \notin {"none", "saved"}
      /\ save'[v].wire \in Nat /\ save'[v].got \in Nat /\ save'[v].sent \in Nat
      /\ save'[v].wire + save'[v].got = save'[v].sent
      /\ save'[v].st = "completed" => save[v].st = "completed" /\ save'[v].sent = save[v].sent
  <2>1. CASE QemuStreams(v)
    BY <2>1, Knows DEF QemuStreams, SaveTyped, Saving
  <2>2. CASE Receive(v)
    BY <2>2, Knows DEF Receive, SaveTyped, Saving
  <2> QED
    BY <2>1, <2>2
<1>4. SaveTyped(v)' /\ SaveKnown(v)'
  BY <1>1, <1>3, Knows DEF SaveTyped, SaveKnown, Saving
<1>5. Reserved(v)' = Reserved(v)
  BY <1>1, <1>3 DEF Reserved, Saving
<1> QED
  BY <1>1, <1>2, <1>4, <1>5, SaveStepKeeps

LEMMA MigrateKeeps ==
    ASSUME IInv, NEW v \in Vms, QmpReset(v) \/ MigrateEnds(v)
    PROVE  IInv'
<1>1. UNCHANGED <<owner, held, vm, sender, starts>>
  BY DEF QmpReset, MigrateEnds
<1>2. DOMAIN save' = Vms /\ \A u \in Vms \ {v} : save'[u] = save[u]
  BY Knows DEF QmpReset, MigrateEnds
<1>3. /\ DOMAIN save'[v] = {"st", "port", "wire", "got", "sent", "retried"}
      /\ save'[v].port = save[v].port /\ Saving(v) /\ save'[v].st \notin {"none", "saved"}
      /\ save'[v].wire = save[v].wire /\ save'[v].got = save[v].got
      /\ save'[v].sent = save[v].sent
      /\ save'[v].st = "completed" => save[v].sent = Chunks
  <2>1. CASE QmpReset(v)
    BY <2>1, Knows DEF QmpReset, SaveTyped, Saving
  <2>2. CASE MigrateEnds(v)
    BY <2>2, Knows DEF MigrateEnds, SaveTyped, Saving
  <2> QED
    BY <2>1, <2>2
<1>4. SaveTyped(v)' /\ SaveKnown(v)'
  BY <1>1, <1>3, Knows DEF SaveTyped, SaveKnown, Saving
<1>5. Reserved(v)' = Reserved(v)
  BY <1>1, <1>3 DEF Reserved, Saving
<1> QED
  BY <1>1, <1>2, <1>4, <1>5, SaveStepKeeps

LEMMA SaveAnsweredKeeps ==
    ASSUME IInv, NEW v \in Vms, SaveAnswered(v)
    PROVE  IInv'
<1>1. /\ save[v].st = "saved" /\ save' = [save EXCEPT ![v] = NoSave]
      /\ UNCHANGED <<owner, held, vm, sender, starts>>
  BY DEF SaveAnswered
<1>2. DOMAIN save' = Vms /\ save'[v] = NoSave /\ \A u \in Vms \ {v} : save'[u] = save[u]
  BY <1>1, Knows
<1>3. SaveTyped(v)' /\ SaveKnown(v)'
  BY <1>2 DEF NoSave, SaveTyped, SaveKnown, Saving
<1>4. Reserved(v)' = Reserved(v)
  BY <1>1, <1>2 DEF Reserved, NoSave
<1> QED
  BY <1>1, <1>2, <1>3, <1>4, SaveStepKeeps

(* The receiver leaves when the wire is empty: what was sent has arrived.   *)
LEMMA SaveEndsKeeps ==
    ASSUME IInv, NEW v \in Vms, SaveEnds(v)
    PROVE  IInv'
<1>1. /\ save[v].st \in {"completed", "aborted"} /\ save[v].wire = 0
      /\ save' = [save EXCEPT ![v].st = IF @ = "completed" THEN "saved" ELSE "none"]
      /\ owner' = [owner EXCEPT ![save[v].port] = Free]
      /\ vm' = vm /\ sender' = sender /\ starts' = starts
  BY DEF SaveEnds
<1>2. held' = held \ {save[v].port}
  BY DEF SaveEnds
<1>3. /\ vm[v].at = "up" /\ save[v].port \in Ports /\ owner[save[v].port] = Relay(v)
      /\ save[v].port # vm[v].inc /\ save[v].port # NoPort
      /\ save[v].st = "completed" => save[v].got = Chunks
  BY <1>1, Knows, VmAssumption DEF SaveKnown, Saving, SaveTyped
<1>4. /\ DOMAIN save'[v] = {"st", "port", "wire", "got", "sent", "retried"}
      /\ save'[v].wire = save[v].wire /\ save'[v].got = save[v].got
      /\ save'[v].sent = save[v].sent
      /\ save'[v].st \in {"none", "saved"}
      /\ save'[v].st = "saved" => save[v].st = "completed"
  BY <1>1, Knows DEF SaveTyped
<1>5. owner'[save[v].port] = Free /\ \A q \in Ports \ {save[v].port} : owner'[q] = owner[q]
  BY <1>1, <1>3, Knows
<1>6. Typed'
  <2>1. owner' \in [Ports -> Holders]
    BY <1>1, HoldersAre, Knows
  <2> QED
    BY <1>1, <1>2, <2>1, Knows DEF Typed, Holders
<1>7. Spares(v)
  BY <1>1, <1>3, <1>5, HoldersDiffer, Knows DEF Spares
<1>8. Known(v)'
  <2>1. VmTyped(v)' /\ SaveTyped(v)'
    BY <1>1, <1>4, Knows DEF VmTyped, SaveTyped
  <2>2. PortsKnown(v)'
    BY <1>1, <1>3, <1>5, HoldersDiffer, Knows DEF PortsKnown, Leased
  <2>3. SaveKnown(v)' /\ SenderKnown(v)'
    BY <1>1, <1>3, <1>4, Knows DEF SaveKnown, SenderKnown, Saving
  <2> QED
    BY <2>1, <2>2, <2>3 DEF Known
<1>9. save[v].port \in Reserved(v) /\ Reserved(v)' = Reserved(v) \ {save[v].port}
  BY <1>1, <1>3, <1>4 DEF Reserved
<1>10. {save[v].port} \cap held \subseteq Reserved(v)
  BY <1>9
<1> QED
  BY <1>2, <1>6, <1>7, <1>8, <1>9, <1>10, ReleaseKeeps

-----------------------------------------------------------------------------
LEMMA IInvInit == Init => IInv
<1> SUFFICES ASSUME Init PROVE IInv
  OBVIOUS
<1>1. /\ owner = [p \in Ports |-> Free] /\ held = {} /\ starts = 0
      /\ DOMAIN vm = Vms /\ DOMAIN save = Vms /\ DOMAIN sender = Vms
      /\ \A v \in Vms : vm[v] = NoVm /\ sender[v] = NoSender /\ save[v] = NoSave
  BY DEF Init
<1>2. Typed
  <2>1. owner \in [Ports -> Holders]
    BY <1>1, HoldersAre
  <2> QED
    BY <1>1, <2>1, VmAssumption DEF Typed, Holders
<1>3. ASSUME NEW v \in Vms PROVE Known(v) /\ Reserved(v) = {}
  <2>1. vm[v] = NoVm /\ sender[v] = NoSender /\ save[v] = NoSave
    BY <1>1
  <2>2. VmTyped(v) /\ SaveTyped(v)
    BY <2>1 DEF VmTyped, SaveTyped, NoVm, NoSave, NPort
  <2>3. PortsKnown(v) /\ SaveKnown(v) /\ SenderKnown(v)
    BY <2>1 DEF PortsKnown, SaveKnown, SenderKnown, Saving, Leased, NoVm, NoSave, NoSender
  <2>4. Reserved(v) = {}
    BY <2>1 DEF Reserved, NoVm, NoSave
  <2> QED
    BY <2>2, <2>3, <2>4 DEF Known
<1>4. Registry
  <2>1. \A p : ~(\E v \in Vms : p \in Reserved(v))
    BY <1>3
  <2>2. UNION {Reserved(v) : v \in Vms} = {}
    BY <2>1
  <2> QED
    BY <1>1, <1>3, <2>2 DEF Registry, LeasesAreDisjoint, RegistryIsExact
<1> QED
  BY <1>2, <1>3, <1>4 DEF IInv

LEMMA IInvNext == IInv /\ [Next]_vars => IInv'
<1> SUFFICES ASSUME IInv, [Next]_vars PROVE IInv'
  OBVIOUS
<1>1. CASE OtherBinds
  BY <1>1, OtherBindsKeeps
<1>2. ASSUME NEW v \in Vms, LeaseControl(v, "boot") \/ LeaseControl(v, "restore")
      PROVE  IInv'
  BY <1>2, LeaseControlKeeps
<1>3. ASSUME NEW v \in Vms, HandOff(v) \/ LeaseIncoming(v) \/ Spawn(v) PROVE IInv'
  BY <1>3, HandOffKeeps, LeaseIncomingKeeps, SpawnKeeps
<1>4. ASSUME NEW v \in Vms, QemuBinds(v) \/ QemuDies(v) \/ SenderConnects(v) PROVE IInv'
  BY <1>4, QemuBindsKeeps, QemuDiesKeeps, SenderConnectsKeeps
<1>5. ASSUME NEW v \in Vms, Connect(v) \/ Started(v) \/ StartFails(v) \/ Stop(v) PROVE IInv'
  BY <1>5, ConnectKeeps, StartedKeeps, StopKeeps
<1>6. ASSUME NEW v \in Vms, SaveBegins(v) \/ QemuStreams(v) \/ Receive(v) \/ QmpReset(v)
      PROVE  IInv'
  BY <1>6, SaveBeginsKeeps, StreamKeeps, MigrateKeeps
<1>7. ASSUME NEW v \in Vms, MigrateEnds(v) \/ SaveEnds(v) \/ SaveAnswered(v) PROVE IInv'
  BY <1>7, MigrateKeeps, SaveEndsKeeps, SaveAnsweredKeeps
<1>8. CASE UNCHANGED vars
  <2>1. Typed' /\ Registry'
    BY <1>8 DEF vars, IInv, Typed, Registry, LeasesAreDisjoint, RegistryIsExact, Reserved
  <2>2. ASSUME NEW v \in Vms PROVE Known(v)'
    BY <1>8, Knows DEF vars, Known, VmTyped, SaveTyped, PortsKnown, SaveKnown, SenderKnown, Saving
  <2> QED
    BY <2>1, <2>2 DEF IInv
<1> QED
  BY <1>1, <1>2, <1>3, <1>4, <1>5, <1>6, <1>7, <1>8 DEF Next

LEMMA IInvImplies == IInv => MachineInv
<1> SUFFICES ASSUME IInv PROVE MachineInv
  OBVIOUS
<1>1. TypeOK
  BY Knows DEF TypeOK, IInv, Typed, VmTyped, SaveTyped, NPort
<1>2. LeasesAreDisjoint /\ RegistryIsExact
  BY DEF IInv, Registry
<1>3. UpTalksToItsOwn
  BY Knows DEF UpTalksToItsOwn, PortsKnown
<1>4. SenderMissesOwnListener
  BY Knows DEF SenderMissesOwnListener, SenderKnown
<1>5. SavedIsWhole
  BY Knows DEF SavedIsWhole, SaveKnown
<1> QED
  BY <1>1, <1>2, <1>3, <1>4, <1>5 DEF MachineInv

(***************************************************************************)
(* However many handles start, fail, restore, save and stop at once, and   *)
(* whatever other processes bind in the hand-off window: two leases never  *)
(* carry one number, the registry is exactly the live leases, a machine    *)
(* that is up talks to its own QEMU, no sender feeds our own listener and  *)
(* a snapshot that was answered is whole (lease_local_ports, start,        *)
(* save_snapshot_real, Drop).                                              *)
(***************************************************************************)
THEOREM MachinesStayApart == Spec => []MachineInv
<1>1. Init => IInv
  BY IInvInit
<1>2. IInv /\ [Next]_vars => IInv'
  BY IInvNext
<1>3. IInv => MachineInv
  BY IInvImplies
<1> QED
  BY <1>1, <1>2, <1>3, PTL DEF Spec


-----------------------------------------------------------------------------
(* SandboxInstances: the instance table, for any ids and definitions and    *)
(* any number of restarts, stops and runs.                                  *)
CONSTANTS Ids, Defs, NoDef, MaxRestarts, MaxStops
VARIABLES table, def, up, spawnPc, stopPc, stops, run, leaked, rows, restarts, born

I == INSTANCE SandboxInstances

InstancesTyped ==
    /\ table \subseteq Ids /\ rows \in Seq({"m.sandbox.spawn", "m.sandbox.reap"} \X Ids)
    /\ spawnPc \in [Ids -> {"new", "registered", "started", "over"}]
    /\ stopPc \in [Ids -> {"idle", "taken", "forgotten"}]
    /\ restarts \in Nat /\ born \in [Ids -> Nat]

Derived(i) == I!Has("m.sandbox.spawn", i)
Reaped(i) == I!Has("m.sandbox.reap", i)

(* What the rows say of an instance at each place of its calls.  An id that *)
(* left the table never comes back to it, so a reap is final.               *)
Explained(i) ==
    /\ spawnPc[i] = "new" => i \notin table /\ stopPc[i] = "idle"
    /\ stopPc[i] = "forgotten" => i \notin table
    /\ Reaped(i) => i \notin table /\ spawnPc[i] # "new"
    /\ Derived(i) => spawnPc[i] = "over"
    /\ i \in table /\ spawnPc[i] = "over" /\ i \notin leaked => Derived(i)

(* What was derived in this life of the process and is not reaped is in the *)
(* table, or the stop that forgot it is about to say so.                    *)
Live(i) ==
    /\ born[i] <= restarts
    /\ spawnPc[i] \in {"registered", "started"} => born[i] = restarts
    /\ (Derived(i) \/ spawnPc[i] \in {"registered", "started"}) /\ ~Reaped(i) /\ born[i] = restarts
         => i \in table \/ stopPc[i] = "forgotten"

InstIInv == InstancesTyped /\ \A i \in Ids : Explained(i) /\ Live(i)

(* A new row tells of its own instance only.                                *)
LEMMA RowAdds ==
    ASSUME InstancesTyped, NEW act \in {"m.sandbox.spawn", "m.sandbox.reap"}, NEW i \in Ids,
           rows' = Append(rows, <<act, i>>)
    PROVE  /\ rows' \in Seq({"m.sandbox.spawn", "m.sandbox.reap"} \X Ids)
           /\ \A a \in {"m.sandbox.spawn", "m.sandbox.reap"}, j \in Ids :
                I!Has(a, j)' <=> I!Has(a, j) \/ (a = act /\ j = i)
<1> DEFINE Row == {"m.sandbox.spawn", "m.sandbox.reap"} \X Ids
<1>1. rows \in Seq(Row) /\ <<act, i>> \in Row
  BY DEF InstancesTyped
<1> HIDE DEF Row
<1>2. /\ rows' \in Seq(Row) /\ Len(rows') = Len(rows) + 1
      /\ \A k \in 1 .. Len(rows) : rows'[k] = rows[k]
      /\ rows'[Len(rows) + 1] = <<act, i>> /\ Len(rows) \in Nat
  BY <1>1
<1>3. ASSUME NEW a \in {"m.sandbox.spawn", "m.sandbox.reap"}, NEW j \in Ids
      PROVE  I!Has(a, j)' <=> I!Has(a, j) \/ (a = act /\ j = i)
  <2>1. I!Has(a, j) => I!Has(a, j)'
    BY <1>2 DEF I!Has
  <2>2. a = act /\ j = i => I!Has(a, j)'
    BY <1>2 DEF I!Has
  <2>3. ASSUME NEW k \in 1 .. Len(rows'), rows'[k] = <<a, j>>
        PROVE  I!Has(a, j) \/ (a = act /\ j = i)
    <3>1. CASE k \in 1 .. Len(rows)
      BY <1>2, <2>3, <3>1 DEF I!Has
    <3>2. CASE k = Len(rows) + 1
      BY <1>2, <2>3, <3>2
    <3> QED
      BY <1>2, <3>1, <3>2
  <2> QED
    BY <2>1, <2>2, <2>3 DEF I!Has
<1> QED
  BY <1>2, <1>3 DEF Row

LEMMA RowsStay ==
    ASSUME rows' = rows
    PROVE  \A i \in Ids : (Derived(i)' <=> Derived(i)) /\ (Reaped(i)' <=> Reaped(i))
BY DEF Derived, Reaped, I!Has

LEMMA InstIInvInit == I!Init => InstIInv
<1> SUFFICES ASSUME I!Init PROVE InstIInv
  OBVIOUS
<1>1. \A i \in Ids : ~Derived(i) /\ ~Reaped(i)
  BY DEF I!Init, Derived, Reaped, I!Has
<1>2. InstancesTyped
  BY DEF I!Init, InstancesTyped
<1> QED
  BY <1>1, <1>2 DEF I!Init, InstIInv, Explained, Live

(* The calls and runs of one instance.                                      *)
LEMMA InstanceStepKeeps ==
    ASSUME InstIInv, NEW i \in Ids,
           \/ \E d \in Defs : I!Register(i, d)
           \/ \E d \in Defs \cup {NoDef} : I!RunBegins(i, d)
           \/ I!SpawnLeaseFails(i) \/ I!SpawnGivesUp(i) \/ I!SpawnStarts(i) \/ I!SpawnRow(i)
           \/ I!StopTake(i) \/ I!StopForget(i) \/ I!StopRow(i)
           \/ I!RunStartsVm(i) \/ I!RunEnds(i)
    PROVE  InstIInv'
<1>1. InstancesTyped /\ \A j \in Ids : Explained(j) /\ Live(j)
  BY DEF InstIInv
<1> DEFINE Others == \A j \in Ids \ {i} :
             /\ (j \in table' <=> j \in table) /\ (j \in leaked' <=> j \in leaked)
             /\ spawnPc'[j] = spawnPc[j] /\ stopPc'[j] = stopPc[j] /\ born'[j] = born[j]
             /\ (Derived(j)' <=> Derived(j)) /\ (Reaped(j)' <=> Reaped(j))
<1>2. ASSUME Others, restarts' = restarts, InstancesTyped', Explained(i)', Live(i)' PROVE InstIInv'
  <2>1. ASSUME NEW j \in Ids \ {i} PROVE Explained(j)' /\ Live(j)'
    BY <1>1, <1>2 DEF Explained, Live
  <2> QED
    BY <1>2, <2>1 DEF InstIInv
<1> USE <1>1 DEF InstancesTyped, Explained, Live
<1> HIDE DEF Others
<1>3. CASE \E d \in Defs : I!Register(i, d)
  <2>1. Others
    BY <1>3, RowsStay DEF Others, I!Register
  <2>2. InstancesTyped' /\ Explained(i)' /\ Live(i)' /\ restarts' = restarts
    BY <1>3, RowsStay DEF I!Register
  <2> QED
    BY <1>2, <2>1, <2>2
<1>4. CASE I!SpawnLeaseFails(i) \/ I!SpawnGivesUp(i) \/ I!SpawnStarts(i)
  <2>1. Others
    BY <1>4, RowsStay DEF Others, I!SpawnLeaseFails, I!SpawnGivesUp, I!SpawnStarts
  <2>2. InstancesTyped' /\ Explained(i)' /\ Live(i)' /\ restarts' = restarts
    BY <1>4, RowsStay DEF I!SpawnLeaseFails, I!SpawnGivesUp, I!SpawnStarts
  <2> QED
    BY <1>2, <2>1, <2>2
<1>5. CASE I!SpawnRow(i)
  <2>1. /\ rows' \in Seq({"m.sandbox.spawn", "m.sandbox.reap"} \X Ids)
        /\ \A j \in Ids : (Derived(j)' <=> Derived(j) \/ j = i) /\ (Reaped(j)' <=> Reaped(j))
    BY <1>5, RowAdds DEF I!SpawnRow, Derived, Reaped
  <2>2. Others
    BY <1>5, <2>1 DEF Others, I!SpawnRow
  <2>3. InstancesTyped' /\ Explained(i)' /\ Live(i)' /\ restarts' = restarts
    BY <1>5, <2>1 DEF I!SpawnRow
  <2> QED
    BY <1>2, <2>2, <2>3
<1>6. CASE I!StopTake(i) \/ I!StopForget(i)
  <2>1. Others
    BY <1>6, RowsStay DEF Others, I!StopTake, I!StopForget
  <2>2. InstancesTyped' /\ Explained(i)' /\ Live(i)' /\ restarts' = restarts
    BY <1>6, RowsStay DEF I!StopTake, I!StopForget
  <2> QED
    BY <1>2, <2>1, <2>2
<1>7. CASE I!StopRow(i)
  <2>1. /\ rows' \in Seq({"m.sandbox.spawn", "m.sandbox.reap"} \X Ids)
        /\ \A j \in Ids : (Reaped(j)' <=> Reaped(j) \/ j = i) /\ (Derived(j)' <=> Derived(j))
    BY <1>7, RowAdds DEF I!StopRow, Derived, Reaped
  <2>2. Others
    BY <1>7, <2>1 DEF Others, I!StopRow
  <2>3. InstancesTyped' /\ Explained(i)' /\ Live(i)' /\ restarts' = restarts
    BY <1>7, <2>1 DEF I!StopRow
  <2> QED
    BY <1>2, <2>2, <2>3
<1>8. CASE (\E d \in Defs \cup {NoDef} : I!RunBegins(i, d)) \/ I!RunStartsVm(i) \/ I!RunEnds(i)
  <2>1. Others
    BY <1>8, RowsStay DEF Others, I!RunBegins, I!RunStartsVm, I!RunEnds
  <2>2. InstancesTyped' /\ Explained(i)' /\ Live(i)' /\ restarts' = restarts
    BY <1>8, RowsStay DEF I!RunBegins, I!RunStartsVm, I!RunEnds
  <2> QED
    BY <1>2, <2>1, <2>2
<1> QED
  BY <1>3, <1>4, <1>5, <1>6, <1>7, <1>8

LEMMA InstIInvNext ==
    ASSUME InstIInv, [I!Next]_(I!vars)
    PROVE  InstIInv'
<1>1. CASE UNCHANGED I!vars
  BY <1>1, RowsStay DEF I!vars, InstIInv, InstancesTyped, Explained, Live
<1>2. CASE I!Restart
  <2>1. InstancesTyped'
    BY <1>2 DEF I!Restart, InstIInv, InstancesTyped
  <2>2. ASSUME NEW i \in Ids PROVE Explained(i)' /\ Live(i)'
    BY <1>2, RowsStay DEF I!Restart, InstIInv, InstancesTyped, Explained, Live
  <2> QED
    BY <2>1, <2>2 DEF InstIInv
<1> QED
  BY <1>1, <1>2, InstanceStepKeeps DEF I!Next

(***************************************************************************)
(* Whatever spawns, stops, runs and restarts come between: an instance of  *)
(* the table that no call is working on has its spawn row and no reap row, *)
(* and an open record of this life of the process is in the table          *)
(* (spawn_instance, stop_instance, instance_history).                      *)
(***************************************************************************)
THEOREM TableMatchesHistory == I!Spec => []I!InstancesInv
<1>1. InstIInv => I!InstancesInv
  BY DEF InstIInv, InstancesTyped, Explained, Live, Derived, Reaped, I!InstancesInv, I!TableIsExplained,
     I!OpenRecordIsLive, I!History, I!Settled
<1> QED
  BY <1>1, InstIInvInit, InstIInvNext, PTL DEF I!Spec

-----------------------------------------------------------------------------
(***************************************************************************)
(* ConnectionFiles: the three files at start-up, for any processes, any    *)
(* number of keys, edits and crashes.                                      *)
(***************************************************************************)
CONSTANTS Process, Wishes, MaxKeys, MaxEdits, MaxCrashes
VARIABLES keyFile, tables, wants, proc, port, told, mints, edited, edits, crashes

F == INSTANCE ConnectionFiles WITH rows <- told

Early == {"looking", "reading", "minting"}
Later == {"peers", "rooms", "reporting", "connecting", "serving"}
StartRec == [at : {"down", "writing", "rereading", "up"} \cup Early \cup Later, existed : BOOLEAN,
             key : 0 .. MaxKeys + 1, made : BOOLEAN, problem : BOOLEAN, client : BOOLEAN,
             serving : BOOLEAN, announced : BOOLEAN]

KeyFileKnown(f) ==
    /\ f \in [state : {"none", "own", "torn", "refused"}, key : 0 .. MaxKeys + 1]
    /\ f.key = 0 <=> f.state \in {"none", "refused"}

(* A process that is not up has no role; one that goes on has a key or a    *)
(* problem, and so for what its settings wish.                              *)
StartKnown(r) ==
    /\ r \in StartRec
    /\ r.at \in {"down", "rereading"} \cup Early => r.key = 0
    /\ r.at = "writing" => r.key # 0
    /\ r.announced => r.at \in {"connecting", "serving", "up"}
    /\ r.serving => r.at = "up"
    /\ r.at \in Later => r.problem \/ r.key # 0
    /\ r.at = "serving" /\ "pointer" \in wants => r.problem \/ r.client
    /\ r.at = "up" /\ "network" \in wants =>
         \/ r.problem
         \/ /\ r.key # 0
            /\ "pointer" \in wants => r.client
            /\ "role" \in wants => r.serving

(* What became of a mint: its process is about to announce it, or somebody  *)
(* else's key was there first.                                              *)
PendingIn(r, k) ==
    /\ r.key = k
    /\ \/ r.at = "writing" /\ ~r.existed
       \/ r.at \in {"peers", "rooms", "reporting"} /\ r.made
MintsKnown ==
    crashes = 0 /\ ~edited => \A m \in mints :
        \/ m \in told \/ PendingIn(proc[m.by], m.key)
        \/ keyFile.state # "none" /\ m.key # keyFile.key

Starting == {q \in Process : proc[q].at \in Early}
KeysLeft == Cardinality(mints) + Cardinality(Starting) <= MaxKeys

MintsTyped == /\ IsFiniteSet(mints) /\ mints \subseteq [by : Process, key : Nat]
              /\ \A m \in mints : m.key >= 1 /\ m.key <= Cardinality(mints)
              /\ ~edited => keyFile.key <= Cardinality(mints)

ProcKnown == /\ DOMAIN proc = Process /\ \A q \in Process : StartKnown(proc[q])
             /\ \A q \in Process : q \in port <=> proc[q].serving
             /\ ~edited => \A q \in Process : proc[q].existed => keyFile.state # "none"

FilesIInv == /\ F!FilesAssumption /\ crashes \in Nat /\ edited \in BOOLEAN
             /\ KeyFileKnown(keyFile) /\ ProcKnown /\ MintsTyped /\ KeysLeft
             /\ F!OneKey /\ MintsKnown

LEMMA CardinalF == \A X : F!Cardinality(X) = Cardinality(X) /\ (F!IsFiniteSet(X) <=> IsFiniteSet(X))
BY DEF F!Cardinality, Cardinality, F!IsFiniteSet, IsFiniteSet

LEMMA FilesInit == ASSUME F!FilesAssumption, F!Init PROVE FilesIInv
<1>1. /\ keyFile \in {[state |-> "none", key |-> 0], [state |-> "refused", key |-> 0]}
      /\ proc = [p \in Process |-> F!Down] /\ port = {} /\ told = {} /\ mints = {}
      /\ edited = FALSE /\ crashes = 0 /\ MaxKeys \in Nat
  BY DEF F!Init, F!Absent, F!FilesAssumption
<1>2. 0 \in 0 .. MaxKeys + 1
  BY <1>1
<1>3. KeyFileKnown(keyFile) /\ keyFile.key = 0
  BY <1>1, <1>2 DEF KeyFileKnown
<1>4. /\ F!Down.at = "down" /\ F!Down.key = 0 /\ ~F!Down.serving /\ ~F!Down.existed
      /\ StartKnown(F!Down)
  BY <1>2 DEF F!Down, StartKnown, StartRec, Early, Later
<1>5. ProcKnown
  BY <1>1, <1>4 DEF ProcKnown
<1>6. Cardinality({}) = 0 /\ IsFiniteSet({})
  BY FS_EmptySet
<1>7. MintsTyped
  BY <1>1, <1>3, <1>6 DEF MintsTyped
<1>8. Starting = {}
  BY <1>1, <1>4 DEF Starting, Early
<1>9. KeysLeft
  BY <1>1, <1>6, <1>8 DEF KeysLeft
<1>10. F!OneKey /\ MintsKnown
  BY <1>1, <1>4 DEF F!OneKey, MintsKnown
<1> QED
  BY <1>1, <1>3, <1>5, <1>7, <1>9, <1>10 DEF FilesIInv

(* A process goes on; no key is minted and the key file is what it was,     *)
(* whole or not.                                                            *)
LEMMA ProcGoesOn ==
    ASSUME FilesIInv, NEW p \in Process, NEW rec, proc' = [proc EXCEPT ![p] = rec], StartKnown(rec),
           wants' = wants, edited' = edited, mints' = mints, KeyFileKnown(keyFile'),
           keyFile'.key = keyFile.key, keyFile'.state = "none" <=> keyFile.state = "none",
           rec.existed => proc[p].existed \/ keyFile.state # "none",
           rec.key # 0 => rec.key \in {proc[p].key, keyFile.key},
           \A q \in Process : q \in port' <=> (IF q = p THEN rec.serving ELSE proc[q].serving),
           rec.at \in Early => proc[p].at \in Early \/ Cardinality(mints) + Cardinality(Starting) < MaxKeys,
           crashes' \in Nat, told \subseteq told',
           crashes' = 0 => /\ crashes = 0
                           /\ \A m \in mints : m.by = p /\ PendingIn(proc[p], m.key) =>
                                 m \in told' \/ PendingIn(rec, m.key)
    PROVE  FilesIInv'
<1>1. /\ F!FilesAssumption /\ KeyFileKnown(keyFile) /\ ProcKnown /\ MintsTyped /\ KeysLeft
      /\ F!OneKey /\ MintsKnown /\ DOMAIN proc = Process /\ edited \in BOOLEAN
  BY DEF FilesIInv, ProcKnown
<1>2. /\ DOMAIN proc' = Process /\ proc'[p] = rec /\ \A q \in Process : q # p => proc'[q] = proc[q]
  BY <1>1
<1>3. ProcKnown'
  <2>1. \A q \in Process : StartKnown(proc'[q])
    BY <1>1, <1>2 DEF ProcKnown
  <2>2. \A q \in Process : StartKnown(proc[q])'
    BY <2>1 DEF StartKnown
  <2>3. \A q \in Process : q \in port' <=> proc'[q].serving
    BY <1>1, <1>2
  <2>4. ~edited' => \A q \in Process : proc'[q].existed => keyFile'.state # "none"
    BY <1>1, <1>2 DEF ProcKnown
  <2> QED
    BY <1>2, <2>2, <2>3, <2>4 DEF ProcKnown
<1>4. MintsTyped'
  BY <1>1 DEF MintsTyped
<1>5. KeysLeft'
  <2>1. IsFiniteSet(Starting) /\ Cardinality(Starting) \in Nat
    BY <1>1, CardinalF, FS_Subset, FS_CardinalityType DEF Starting, F!FilesAssumption
  <2>2. Cardinality(mints) \in Nat /\ MaxKeys \in Nat
    BY <1>1, FS_CardinalityType DEF MintsTyped, F!FilesAssumption
  <2>3. CASE rec.at \in Early => proc[p].at \in Early
    <3>1. Starting' \subseteq Starting
      BY <1>2, <2>3 DEF Starting
    <3>2. IsFiniteSet(Starting') /\ Cardinality(Starting') <= Cardinality(Starting)
      BY <2>1, <3>1, FS_Subset
    <3>3. Cardinality(Starting') \in Nat
      BY <3>2, FS_CardinalityType
    <3> QED
      BY <1>1, <2>1, <2>2, <3>2, <3>3 DEF KeysLeft
  <2>4. CASE Cardinality(mints) + Cardinality(Starting) < MaxKeys
    <3>1. Starting' \subseteq Starting \cup {p}
      BY <1>2 DEF Starting
    <3>2. /\ IsFiniteSet(Starting \cup {p})
          /\ Cardinality(Starting \cup {p}) = IF p \in Starting THEN Cardinality(Starting)
                                             ELSE Cardinality(Starting) + 1
      BY <2>1, FS_AddElement
    <3>3. IsFiniteSet(Starting') /\ Cardinality(Starting') <= Cardinality(Starting \cup {p})
      BY <3>1, <3>2, FS_Subset
    <3>4. Cardinality(Starting') \in Nat
      BY <3>3, FS_CardinalityType
    <3> QED
      BY <2>1, <2>2, <2>4, <3>2, <3>3, <3>4 DEF KeysLeft
  <2> QED
    BY <2>3, <2>4
<1>6. F!OneKey'
  BY <1>1, <1>2 DEF F!OneKey
<1>7. MintsKnown'
  <2> SUFFICES ASSUME crashes' = 0, ~edited', NEW m \in mints,
                      m \notin told', ~PendingIn(proc'[m.by], m.key)
               PROVE  keyFile'.state # "none" /\ m.key # keyFile'.key
    BY DEF MintsKnown, PendingIn
  <2>1. m.by \in Process
    BY <1>1 DEF MintsTyped
  <2>2. m \notin told /\ ~PendingIn(proc[m.by], m.key)
    BY <1>2, <2>1
  <2> QED
    BY <1>1, <2>2 DEF MintsKnown
<1>8. F!FilesAssumption'
  BY <1>1, CardinalF DEF F!FilesAssumption
<1> QED
  BY <1>1, <1>3, <1>4, <1>5, <1>6, <1>7, <1>8 DEF FilesIInv

(* A step that touches neither key file nor chain nor role.                 *)
LEMMA StartGoesOn ==
    ASSUME FilesIInv, NEW p \in Process, NEW rec, F!Set(p, rec), StartKnown(rec),
           keyFile' = keyFile, port' = port, told' = told, mints' = mints, F!world' = F!world,
           rec.existed => proc[p].existed \/ keyFile.state # "none",
           rec.key # 0 => rec.key \in {proc[p].key, keyFile.key},
           rec.serving = proc[p].serving,
           rec.at \in Early => proc[p].at \in Early \/ Cardinality(mints) + Cardinality(Starting) < MaxKeys,
           \A k : PendingIn(proc[p], k) => PendingIn(rec, k)
    PROVE  FilesIInv'
<1>1. /\ wants' = wants /\ edited' = edited /\ crashes' = crashes /\ crashes \in Nat
      /\ KeyFileKnown(keyFile') /\ proc' = [proc EXCEPT ![p] = rec]
  BY DEF F!world, FilesIInv, F!Set
<1>2. \A q \in Process : q \in port' <=> (IF q = p THEN rec.serving ELSE proc[q].serving)
  BY DEF FilesIInv, ProcKnown
<1> QED
  BY <1>1, <1>2, ProcGoesOn

LEMMA ProcIs ==
    ASSUME FilesIInv, NEW p \in Process
    PROVE  /\ StartKnown(proc[p]) /\ proc[p] \in StartRec /\ DOMAIN proc = Process
           /\ KeyFileKnown(keyFile) /\ MaxKeys \in Nat
           /\ keyFile.key \in 0 .. MaxKeys + 1 /\ 0 \in 0 .. MaxKeys + 1
BY DEF FilesIInv, ProcKnown, StartKnown, KeyFileKnown, F!FilesAssumption

LEMMA LookKeeps == ASSUME FilesIInv, NEW p \in Process, F!LookForKey(p) PROVE FilesIInv'
<1> DEFINE r == proc[p]
           rec == [r EXCEPT !.at = "reading", !.existed = keyFile.state # "none"]
<1>1. /\ r.at = "looking" /\ F!Set(p, rec) /\ keyFile' = keyFile /\ port' = port /\ told' = told
      /\ mints' = mints /\ F!world' = F!world
  BY DEF F!LookForKey, F!At
<1>2. StartKnown(r) /\ r \in StartRec
  BY ProcIs
<1>3. /\ rec \in StartRec /\ rec.at = "reading" /\ (rec.existed <=> keyFile.state # "none")
      /\ rec.key = r.key /\ rec.serving = r.serving /\ rec.announced = r.announced
  BY <1>2 DEF StartRec, Early
<1> HIDE DEF r, rec
<1>4. StartKnown(rec)
  BY <1>1, <1>2, <1>3 DEF StartKnown, Early, Later
<1>5. \A k : ~PendingIn(r, k)
  BY <1>1 DEF PendingIn
<1> QED
  BY <1>1, <1>3, <1>4, <1>5, StartGoesOn DEF r, Early

LEMMA ReadKeeps == ASSUME FilesIInv, NEW p \in Process, F!ReadKey(p) PROVE FilesIInv'
<1> DEFINE r == proc[p]
<1>1. /\ r.at = "reading" /\ keyFile' = keyFile /\ port' = port /\ told' = told
      /\ mints' = mints /\ F!world' = F!world
  BY DEF F!ReadKey, F!At
<1>2. StartKnown(r) /\ r \in StartRec /\ KeyFileKnown(keyFile) /\ keyFile.key \in 0 .. MaxKeys + 1
  BY ProcIs
<1>3. \A k : ~PendingIn(r, k)
  BY <1>1 DEF PendingIn
<1>4. r.key = 0 /\ ~r.announced /\ ~r.serving
  BY <1>1, <1>2 DEF StartKnown, Early
<1>5. ASSUME NEW at \in {"minting", "rereading"}, F!Set(p, [r EXCEPT !.at = at]) PROVE FilesIInv'
  <2> DEFINE rec == [r EXCEPT !.at = at]
  <2>1. /\ rec \in StartRec /\ rec.at = at /\ rec.existed = r.existed
        /\ rec.key = r.key /\ rec.serving = r.serving /\ rec.announced = r.announced
    BY <1>2 DEF StartRec, Early
  <2> HIDE DEF rec, r
  <2>2. StartKnown(rec)
    BY <1>4, <2>1 DEF StartKnown, Early, Later
  <2>3. F!Set(p, rec)
    BY <1>5 DEF rec
  <2> QED
    BY <1>1, <1>3, <1>4, <2>1, <2>2, <2>3, StartGoesOn DEF r, Early
<1>6. ASSUME keyFile.state = "own",
             F!Set(p, [r EXCEPT !.at = "peers", !.key = keyFile.key, !.made = ~r.existed])
      PROVE  FilesIInv'
  <2> DEFINE rec == [r EXCEPT !.at = "peers", !.key = keyFile.key, !.made = ~r.existed]
  <2>1. /\ rec \in StartRec /\ rec.at = "peers" /\ rec.existed = r.existed
        /\ rec.key = keyFile.key /\ rec.serving = r.serving /\ rec.announced = r.announced
    BY <1>2 DEF StartRec, Later
  <2>2. keyFile.key # 0
    BY <1>2, <1>6 DEF KeyFileKnown
  <2>3. F!Set(p, rec)
    BY <1>6
  <2> HIDE DEF rec, r
  <2>4. StartKnown(rec)
    BY <1>4, <2>1, <2>2 DEF StartKnown, Early, Later
  <2> QED
    BY <1>1, <1>3, <1>4, <2>1, <2>3, <2>4, StartGoesOn DEF r, Early
<1>7. \/ F!Set(p, [r EXCEPT !.at = "minting"]) \/ F!Set(p, [r EXCEPT !.at = "rereading"])
      \/ keyFile.state = "own" /\ F!Set(p, [r EXCEPT !.at = "peers", !.key = keyFile.key, !.made = ~r.existed])
  BY DEF F!ReadKey, F!Goto, F!Set
<1> QED
  BY <1>5, <1>6, <1>7

LEMMA RereadKeeps == ASSUME FilesIInv, NEW p \in Process, F!RereadKey(p) PROVE FilesIInv'
<1> DEFINE r == proc[p]
           rec == [r EXCEPT !.at = "peers", !.problem = TRUE]
<1>1. /\ r.at = "rereading" /\ F!Set(p, rec) /\ keyFile' = keyFile /\ port' = port /\ told' = told
      /\ mints' = mints /\ F!world' = F!world
  BY DEF F!RereadKey, F!At
<1>2. StartKnown(r) /\ r \in StartRec
  BY ProcIs
<1>3. /\ rec \in StartRec /\ rec.at = "peers" /\ rec.problem /\ rec.existed = r.existed
      /\ rec.key = r.key /\ rec.serving = r.serving /\ rec.announced = r.announced
  BY <1>2 DEF StartRec, Later
<1> HIDE DEF r, rec
<1>4. StartKnown(rec)
  BY <1>1, <1>2, <1>3 DEF StartKnown, Early, Later
<1>5. \A k : ~PendingIn(r, k)
  BY <1>1 DEF PendingIn
<1> QED
  BY <1>1, <1>3, <1>4, <1>5, StartGoesOn DEF r, Early

LEMMA TablesKeep == ASSUME FilesIInv, NEW p \in Process, F!LoadPeers(p) \/ F!LoadRooms(p) PROVE FilesIInv'
<1> DEFINE r == proc[p]
<1>1. ASSUME NEW which \in {"peers", "rooms"}, NEW next \in {"rooms", "reporting"},
             F!LoadTable(p, which, next)
      PROVE  FilesIInv'
  <2> DEFINE b == r.problem \/ tables[which] = "refused"
             rec == [r EXCEPT !.at = next, !.problem = b]
  <2>1. /\ r.at = which /\ F!Set(p, rec) /\ keyFile' = keyFile /\ port' = port /\ told' = told
        /\ mints' = mints /\ F!world' = F!world
    BY <1>1 DEF F!LoadTable, F!At
  <2>2. StartKnown(r) /\ r \in StartRec
    BY ProcIs
  <2>3. b \in BOOLEAN /\ (r.problem => b)
    BY <2>2 DEF StartRec
  <2> HIDE DEF b
  <2>4. /\ rec \in StartRec /\ rec.at = next /\ rec.problem = b /\ rec.existed = r.existed
        /\ rec.key = r.key /\ rec.serving = r.serving /\ rec.announced = r.announced /\ rec.made = r.made
    BY <2>2, <2>3 DEF StartRec, Later
  <2> HIDE DEF r, rec
  <2>5. StartKnown(rec)
    BY <2>1, <2>2, <2>3, <2>4 DEF StartKnown, Early, Later
  <2>6. \A k : PendingIn(r, k) => PendingIn(rec, k)
    BY <2>1, <2>4 DEF PendingIn
  <2> QED
    BY <2>1, <2>4, <2>5, <2>6, StartGoesOn DEF r, Early
<1> QED
  BY <1>1 DEF F!LoadPeers, F!LoadRooms

LEMMA ConnectServerKeeps == ASSUME FilesIInv, NEW p \in Process, F!ConnectServer(p) PROVE FilesIInv'
<1> DEFINE r == proc[p]
<1>1. /\ r.at = "connecting" /\ keyFile' = keyFile /\ port' = port /\ told' = told
      /\ mints' = mints /\ F!world' = F!world
  BY DEF F!ConnectServer, F!At
<1>2. PICK listed \in BOOLEAN :
        F!Set(p, [r EXCEPT
                   !.at = "serving",
                   !.client = ("pointer" \in wants) /\ F!Usable("peers") /\ listed /\ r.key # 0,
                   !.problem = r.problem \/ (("pointer" \in wants) /\ ~(F!Usable("peers") /\ listed))])
  BY DEF F!ConnectServer
<1> DEFINE c == ("pointer" \in wants) /\ F!Usable("peers") /\ listed /\ r.key # 0
           b == r.problem \/ (("pointer" \in wants) /\ ~(F!Usable("peers") /\ listed))
           rec == [r EXCEPT !.at = "serving", !.client = c, !.problem = b]
<1>3. StartKnown(r) /\ r \in StartRec
  BY ProcIs
<1>4. /\ c \in BOOLEAN /\ b \in BOOLEAN /\ (r.problem => b)
      /\ "pointer" \in wants => b \/ c \/ r.key = 0
  BY <1>3 DEF StartRec
<1>5. F!Set(p, rec)
  BY <1>2
<1> HIDE DEF b, c
<1>6. /\ rec \in StartRec /\ rec.at = "serving" /\ rec.problem = b /\ rec.client = c
      /\ rec.existed = r.existed
      /\ rec.key = r.key /\ rec.serving = r.serving /\ rec.announced = r.announced /\ rec.made = r.made
  BY <1>3, <1>4 DEF StartRec, Later
<1> HIDE DEF r, rec
<1>7. StartKnown(rec)
  BY <1>1, <1>3, <1>4, <1>6 DEF StartKnown, Early, Later
<1>8. \A k : ~PendingIn(r, k)
  BY <1>1 DEF PendingIn
<1> QED
  BY <1>1, <1>5, <1>6, <1>7, <1>8, StartGoesOn DEF r, Early

LEMMA StartUpKeeps == ASSUME FilesIInv, NEW p \in Process, F!Start(p) PROVE FilesIInv'
<1> DEFINE at == IF "network" \in wants THEN "looking" ELSE "up"
           rec == [F!Down EXCEPT !.at = at]
           all == {q \in Process : proc[q].at \notin {"down", "up"}}
<1>1. /\ proc[p].at = "down" /\ F!Set(p, rec) /\ keyFile' = keyFile /\ port' = port /\ told' = told
      /\ mints' = mints /\ F!world' = F!world
      /\ F!Cardinality(mints) + F!Cardinality(all) < MaxKeys
  BY DEF F!Start, F!At
<1>2. StartKnown(proc[p]) /\ MaxKeys \in Nat /\ 0 \in 0 .. MaxKeys + 1
  BY ProcIs
<1>3. /\ rec \in StartRec /\ rec.at = at /\ ~rec.existed /\ rec.key = 0 /\ rec.serving = FALSE
      /\ ~rec.announced /\ ~rec.problem
  BY <1>2 DEF F!Down, StartRec, Early
<1>4. proc[p].serving = FALSE
  BY <1>1, <1>2 DEF StartKnown, StartRec
<1>5. StartKnown(rec)
  BY <1>3 DEF StartKnown, Early, Later
<1>6. \A k : ~PendingIn(proc[p], k)
  BY <1>1 DEF PendingIn
<1>7. Cardinality(mints) + Cardinality(Starting) < MaxKeys
  <2>1. Starting \subseteq all
    BY DEF Starting, Early
  <2>2. IsFiniteSet(all)
    BY CardinalF, FS_Subset DEF FilesIInv, F!FilesAssumption
  <2> HIDE DEF all
  <2>3. /\ IsFiniteSet(Starting) /\ Cardinality(Starting) <= Cardinality(all)
        /\ Cardinality(Starting) \in Nat /\ Cardinality(all) \in Nat /\ Cardinality(mints) \in Nat
    BY <2>1, <2>2, FS_Subset, FS_CardinalityType DEF FilesIInv, MintsTyped
  <2>4. Cardinality(mints) + Cardinality(all) < MaxKeys
    BY <1>1, CardinalF
  <2> QED
    BY <1>2, <2>3, <2>4
<1> HIDE DEF rec, at
<1> QED
  BY <1>1, <1>3, <1>4, <1>5, <1>6, <1>7, StartGoesOn

(* The key is written: whether there was a file was asked before it was.    *)
LEMMA WriteKeyKeeps == ASSUME FilesIInv, NEW p \in Process, F!WriteKey(p) PROVE FilesIInv'
<1> DEFINE r == proc[p]
           rec == [r EXCEPT !.at = "peers", !.made = ~r.existed]
<1>1. /\ r.at = "writing" /\ F!Set(p, rec) /\ port' = port /\ told' = told
      /\ mints' = mints /\ F!world' = F!world
      /\ keyFile' = IF keyFile.key = r.key THEN [keyFile EXCEPT !.state = "own"] ELSE keyFile
  BY DEF F!WriteKey, F!At
<1>2. StartKnown(r) /\ r \in StartRec /\ KeyFileKnown(keyFile)
  BY ProcIs
<1>3. /\ rec \in StartRec /\ rec.at = "peers" /\ rec.existed = r.existed /\ rec.problem = r.problem
      /\ rec.key = r.key /\ rec.serving = r.serving /\ rec.announced = r.announced
      /\ rec.made = ~r.existed
  BY <1>2 DEF StartRec, Later
<1>4. r.key # 0
  BY <1>1, <1>2 DEF StartKnown
<1>5. KeyFileKnown(keyFile') /\ keyFile'.key = keyFile.key /\ (keyFile'.state = "none" <=> keyFile.state = "none")
  <2>1. CASE keyFile.key = r.key
    BY <1>1, <1>2, <1>4, <2>1 DEF KeyFileKnown
  <2>2. CASE keyFile.key # r.key
    BY <1>1, <1>2, <2>2
  <2> QED
    BY <2>1, <2>2
<1> HIDE DEF rec
<1>6. StartKnown(rec)
  BY <1>1, <1>2, <1>3, <1>4 DEF StartKnown, Early, Later
<1>7. \A k : PendingIn(r, k) => PendingIn(rec, k)
  BY <1>1, <1>3 DEF PendingIn
<1>8. /\ wants' = wants /\ edited' = edited /\ crashes' = crashes /\ crashes \in Nat
      /\ proc' = [proc EXCEPT ![p] = rec]
  BY <1>1 DEF F!world, FilesIInv, F!Set
<1>9. \A q \in Process : q \in port' <=> (IF q = p THEN rec.serving ELSE proc[q].serving)
  BY <1>1, <1>3 DEF FilesIInv, ProcKnown
<1>10. rec.at \notin Early
  BY <1>3 DEF Early
<1> QED
  BY <1>1, <1>3, <1>5, <1>6, <1>7, <1>8, <1>9, <1>10, ProcGoesOn

(* A mint is a row: the one the process made, with the key it holds.        *)
LEMMA ReportKeeps == ASSUME FilesIInv, NEW p \in Process, F!Report(p) PROVE FilesIInv'
<1> DEFINE r == proc[p]
           rec == [r EXCEPT !.at = "connecting", !.announced = TRUE, !.existed = FALSE, !.made = FALSE]
           row == [by |-> p, key |-> r.key]
<1>1. /\ r.at = "reporting" /\ F!Set(p, rec) /\ port' = port /\ keyFile' = keyFile
      /\ mints' = mints /\ F!world' = F!world
      /\ told' = IF r.made THEN told \cup {row} ELSE told
  BY DEF F!Report, F!At
<1>2. StartKnown(r) /\ r \in StartRec /\ KeyFileKnown(keyFile)
  BY ProcIs
<1>3. /\ rec \in StartRec /\ rec.at = "connecting" /\ ~rec.existed /\ rec.problem = r.problem
      /\ rec.key = r.key /\ rec.serving = r.serving
  BY <1>2 DEF StartRec, Later
<1> HIDE DEF rec
<1>4. StartKnown(rec)
  BY <1>1, <1>2, <1>3 DEF StartKnown, Early, Later
<1>5. ASSUME NEW m \in mints, m.by = p, PendingIn(r, m.key) PROVE m \in told'
  <2>1. r.made /\ r.key = m.key
    BY <1>1, <1>5 DEF PendingIn
  <2>2. m \in [by : Process, key : Nat]
    BY DEF FilesIInv, MintsTyped
  <2>3. m = row
    BY <1>5, <2>1, <2>2
  <2> QED
    BY <1>1, <2>1, <2>3
<1>6. /\ wants' = wants /\ edited' = edited /\ crashes' = crashes /\ crashes \in Nat
      /\ proc' = [proc EXCEPT ![p] = rec] /\ told \subseteq told'
  BY <1>1 DEF F!world, FilesIInv, F!Set
<1>7. \A q \in Process : q \in port' <=> (IF q = p THEN rec.serving ELSE proc[q].serving)
  BY <1>1, <1>3 DEF FilesIInv, ProcKnown
<1>8. rec.at \notin Early
  BY <1>3 DEF Early
<1> QED
  BY <1>1, <1>2, <1>3, <1>4, <1>5, <1>6, <1>7, <1>8, ProcGoesOn

LEMMA ServeKeeps == ASSUME FilesIInv, NEW p \in Process, F!ServeRole(p) PROVE FilesIInv'
<1> DEFINE r == proc[p]
           files == r.key # 0 /\ F!Usable("peers") /\ F!Usable("rooms")
           serves == ("role" \in wants) /\ files /\ port = {}
           b == r.problem \/ (("role" \in wants) /\ ~serves)
           rec == [r EXCEPT !.at = "up", !.serving = serves, !.problem = b]
<1>1. /\ r.at = "serving" /\ F!Set(p, rec) /\ keyFile' = keyFile /\ told' = told
      /\ mints' = mints /\ F!world' = F!world /\ port' = IF serves THEN {p} ELSE port
  BY DEF F!ServeRole, F!At
<1>2. StartKnown(r) /\ r \in StartRec /\ KeyFileKnown(keyFile)
  BY ProcIs
<1>3. /\ serves \in BOOLEAN /\ b \in BOOLEAN /\ (r.problem => b) /\ (serves => port = {})
      /\ "role" \in wants => b \/ serves
  BY <1>2 DEF StartRec
<1> HIDE DEF files, serves, b
<1>4. /\ rec \in StartRec /\ rec.at = "up" /\ rec.existed = r.existed /\ rec.problem = b
      /\ rec.key = r.key /\ rec.serving = serves /\ rec.client = r.client
  BY <1>2, <1>3 DEF StartRec
<1> HIDE DEF rec
<1>5. StartKnown(rec)
  BY <1>1, <1>2, <1>3, <1>4 DEF StartKnown, Early, Later
<1>6. /\ wants' = wants /\ edited' = edited /\ crashes' = crashes /\ crashes \in Nat
      /\ proc' = [proc EXCEPT ![p] = rec]
  BY <1>1 DEF F!world, FilesIInv, F!Set
<1>7. \A q \in Process : q \in port' <=> (IF q = p THEN rec.serving ELSE proc[q].serving)
  <2>1. \A q \in Process : q \in port <=> proc[q].serving
    BY DEF FilesIInv, ProcKnown
  <2>2. ~r.serving
    BY <1>1, <1>2 DEF StartKnown
  <2> QED
    BY <1>1, <1>3, <1>4, <2>1, <2>2
<1>8. rec.at \notin Early /\ \A k : ~PendingIn(r, k)
  BY <1>1, <1>4 DEF Early, PendingIn
<1> QED
  BY <1>1, <1>2, <1>4, <1>5, <1>6, <1>7, <1>8, ProcGoesOn

LEMMA DownKeeps == ASSUME FilesIInv, NEW p \in Process, F!Stop(p) \/ F!Crash(p) PROVE FilesIInv'
<1>1. /\ F!Set(p, F!Down) /\ keyFile' = keyFile /\ told' = told
      /\ mints' = mints /\ port' = port \ {p} /\ wants' = wants /\ edited' = edited
      /\ crashes \in Nat /\ KeyFileKnown(keyFile) /\ MaxKeys \in Nat /\ 0 \in 0 .. MaxKeys + 1
  BY ProcIs DEF F!Stop, F!Crash, F!world, FilesIInv
<1>2. /\ F!Down.at = "down" /\ F!Down.key = 0 /\ ~F!Down.existed /\ ~F!Down.serving
      /\ StartKnown(F!Down)
  BY <1>1 DEF F!Down, StartKnown, StartRec, Early, Later
<1>3. \A q \in Process : q \in port' <=> (IF q = p THEN F!Down.serving ELSE proc[q].serving)
  BY <1>1, <1>2 DEF FilesIInv, ProcKnown
<1>4. /\ crashes' \in Nat
      /\ crashes' = 0 => crashes = 0 /\ \A k : ~PendingIn(proc[p], k)
  <2>1. CASE F!Stop(p)
    BY <1>1, <2>1 DEF F!Stop, F!world, F!At, PendingIn
  <2>2. CASE F!Crash(p)
    BY <1>1, <2>2 DEF F!Crash
  <2> QED
    BY <2>1, <2>2
<1>5. F!Down.at \notin Early /\ proc' = [proc EXCEPT ![p] = F!Down]
  BY <1>1, <1>2 DEF Early, F!Set
<1> QED
  BY <1>1, <1>2, <1>3, <1>4, <1>5, ProcGoesOn

(* A key is minted: it has a number nobody has, and if there is no file it  *)
(* becomes the file's.                                                      *)
LEMMA CreateKeeps == ASSUME FilesIInv, NEW p \in Process, F!CreateKey(p) PROVE FilesIInv'
<1> DEFINE r == proc[p]
           k == Cardinality(mints) + 1
           new == [by |-> p, key |-> k]
           none == keyFile.state = "none"
           rec == IF none THEN [r EXCEPT !.at = "writing", !.key = k] ELSE [r EXCEPT !.at = "rereading"]
<1>1. /\ F!FilesAssumption /\ KeyFileKnown(keyFile) /\ ProcKnown /\ MintsTyped /\ KeysLeft
      /\ F!OneKey /\ MintsKnown /\ DOMAIN proc = Process /\ crashes \in Nat /\ edited \in BOOLEAN
      /\ MaxKeys \in Nat
  BY DEF FilesIInv, ProcKnown, F!FilesAssumption
<1>2. F!NextKey = k
  BY CardinalF DEF F!NextKey
<1>3. /\ r.at = "minting" /\ proc' = [proc EXCEPT ![p] = rec] /\ mints' = mints \cup {new}
      /\ keyFile' = IF none THEN [state |-> "torn", key |-> k] ELSE keyFile
      /\ port' = port /\ told' = told
      /\ wants' = wants /\ edited' = edited /\ crashes' = crashes
  <2>1. /\ r.at = "minting" /\ mints' = mints \cup {new}
        /\ port' = port /\ told' = told /\ wants' = wants /\ edited' = edited /\ crashes' = crashes
    BY <1>2 DEF F!CreateKey, F!At, F!world
  <2>2. CASE none
    BY <1>2, <2>1, <2>2 DEF F!CreateKey, F!Set
  <2>3. CASE ~none
    BY <2>1, <2>3 DEF F!CreateKey, F!Goto
  <2> QED
    BY <2>1, <2>2, <2>3
<1>4. StartKnown(r) /\ r \in StartRec
  BY ProcIs
<1>5. /\ IsFiniteSet(mints) /\ Cardinality(mints) \in Nat /\ k \in Nat /\ k >= 1
      /\ mints \subseteq [by : Process, key : Nat]
      /\ \A m \in mints : m.key >= 1 /\ m.key < k
      /\ IsFiniteSet(Starting) /\ Cardinality(Starting) \in Nat
  <2>1. IsFiniteSet(mints) /\ IsFiniteSet(Starting)
    BY <1>1, CardinalF, FS_Subset DEF MintsTyped, Starting, F!FilesAssumption
  <2>2. Cardinality(mints) \in Nat /\ Cardinality(Starting) \in Nat
    BY <2>1, FS_CardinalityType
  <2>3. mints \subseteq [by : Process, key : Nat] /\ \A m \in mints : m.key \in Nat
    BY <1>1 DEF MintsTyped
  <2> QED
    BY <1>1, <2>1, <2>2, <2>3 DEF MintsTyped
<1>6. new \notin mints /\ new.by = p /\ new.key = k /\ new \in [by : Process, key : Nat]
  BY <1>5
<1>7. IsFiniteSet(mints') /\ Cardinality(mints') = k
  BY <1>3, <1>5, <1>6, FS_AddElement
<1>8. p \in Starting
  BY <1>3 DEF Starting, Early
<1>9. Starting' = Starting \ {p} /\ rec.at \notin Early
  <2>1. rec.at \in {"writing", "rereading"}
    BY <1>4 DEF StartRec
  <2>2. rec.at \notin Early
    BY <2>1 DEF Early
  <2> HIDE DEF rec
  <2>3. proc'[p] = rec /\ \A q \in Process : q # p => proc'[q] = proc[q]
    BY <1>1, <1>3
  <2> QED
    BY <2>2, <2>3 DEF Starting
<1>10. Cardinality(Starting') = Cardinality(Starting) - 1
  BY <1>5, <1>8, <1>9, FS_RemoveElement
<1>11. Cardinality(Starting) >= 1
  <2>1. Cardinality(Starting) # 0
    BY <1>5, <1>8, FS_EmptySet
  <2> QED
    BY <1>5, <2>1
<1>12. KeysLeft' /\ k <= MaxKeys
  BY <1>1, <1>5, <1>7, <1>10, <1>11 DEF KeysLeft
<1>13. k \in 0 .. MaxKeys + 1 /\ k # 0
  BY <1>1, <1>5, <1>12
<1>14. r.key = 0 /\ ~r.announced /\ ~r.serving
  BY <1>3, <1>4 DEF StartKnown, Early
<1> HIDE DEF k
<1>15. /\ rec \in StartRec /\ rec.existed = r.existed /\ rec.serving = r.serving
       /\ rec.announced = r.announced
       /\ none => rec.at = "writing" /\ rec.key = k
       /\ ~none => rec.at = "rereading" /\ rec.key = 0
  BY <1>4, <1>13, <1>14 DEF StartRec
<1>16. StartKnown(rec)
  BY <1>13, <1>14, <1>15 DEF StartKnown, Early, Later
<1> HIDE DEF rec
<1>17. KeyFileKnown(keyFile') /\ (none => keyFile'.key = k) /\ keyFile'.state # "none"
       /\ (~none => keyFile' = keyFile)
  BY <1>1, <1>3, <1>13 DEF KeyFileKnown
<1>18. proc'[p] = rec /\ \A q \in Process : q # p => proc'[q] = proc[q]
  BY <1>1, <1>3
<1>19. ProcKnown'
  <2>1. \A q \in Process : StartKnown(proc'[q])
    BY <1>1, <1>16, <1>18 DEF ProcKnown
  <2>2. \A q \in Process : StartKnown(proc[q])'
    BY <1>3, <2>1 DEF StartKnown
  <2>3. \A q \in Process : q \in port' <=> proc'[q].serving
    BY <1>1, <1>3, <1>15, <1>18 DEF ProcKnown
  <2>4. DOMAIN proc' = Process
    BY <1>1, <1>3
  <2> QED
    BY <1>17, <2>2, <2>3, <2>4 DEF ProcKnown
<1>20. ~edited => keyFile'.key \in Nat /\ keyFile'.key <= k
  <2>1. ~edited => keyFile.key \in Nat /\ keyFile.key <= Cardinality(mints)
    BY <1>1 DEF MintsTyped, KeyFileKnown
  <2> QED
    BY <1>5, <1>17, <2>1 DEF k
<1>21. MintsTyped'
  <2>1. \A m \in mints' : m \in [by : Process, key : Nat] /\ m.key >= 1 /\ m.key <= k
    BY <1>3, <1>5, <1>6
  <2> QED
    BY <1>3, <1>7, <1>20, <2>1 DEF MintsTyped
<1>22. ASSUME ~edited, none PROVE \A q \in Process : proc[q].key = 0 /\ ~proc[q].existed
  BY <1>1, <1>22 DEF F!OneKey, KeyFileKnown, ProcKnown
<1>23. F!OneKey'
  <2> SUFFICES ASSUME ~edited, NEW q \in Process, proc'[q].key # 0 PROVE proc'[q].key = keyFile'.key
    BY <1>3 DEF F!OneKey
  <2>1. CASE none
    BY <1>15, <1>17, <1>18, <1>22, <2>1
  <2>2. CASE ~none
    BY <1>1, <1>15, <1>17, <1>18, <2>2 DEF F!OneKey
  <2> QED
    BY <2>1, <2>2
<1>24. MintsKnown'
  <2> SUFFICES ASSUME crashes = 0, ~edited, NEW m \in mints',
                      m \notin told, ~PendingIn(proc'[m.by], m.key)
               PROVE  keyFile'.state # "none" /\ m.key # keyFile'.key
    BY <1>3 DEF MintsKnown, PendingIn
  <2>1. CASE m = new
    <3>1. ~none
      <4> SUFFICES ASSUME none PROVE PendingIn(rec, k)
        BY <1>6, <1>18, <2>1
      <4> QED
        BY <1>15, <1>22 DEF PendingIn
    <3>2. keyFile.key \in Nat /\ keyFile.key < k
      BY <1>1, <1>5 DEF MintsTyped, KeyFileKnown, k
    <3> QED
      BY <1>6, <1>17, <2>1, <3>1, <3>2
  <2>2. CASE m \in mints
    <3>1. m.by \in Process /\ m.key # k /\ m.key # 0
      BY <1>5, <2>2
    <3>2. ~PendingIn(proc[m.by], m.key)
      <4>1. CASE m.by = p
        BY <1>3, <4>1 DEF PendingIn
      <4>2. CASE m.by # p
        BY <1>18, <3>1, <4>2
      <4> QED
        BY <4>1, <4>2
    <3>3. keyFile.state # "none" /\ m.key # keyFile.key
      BY <1>1, <2>2, <3>2 DEF MintsKnown
    <3> QED
      BY <1>17, <3>3
  <2> QED
    BY <1>3, <2>1, <2>2
<1>25. F!FilesAssumption'
  BY <1>1, CardinalF DEF F!FilesAssumption
<1> QED
  BY <1>1, <1>3, <1>12, <1>17, <1>19, <1>21, <1>23, <1>24, <1>25 DEF FilesIInv

(* The deployer's hand: of the keys nothing is said any more.               *)
LEMMA EditKeeps == ASSUME FilesIInv, F!EditKey \/ UNCHANGED F!vars PROVE FilesIInv'
<1>1. /\ F!FilesAssumption /\ KeyFileKnown(keyFile) /\ ProcKnown /\ MintsTyped /\ KeysLeft
      /\ F!OneKey /\ MintsKnown /\ crashes \in Nat /\ edited \in BOOLEAN /\ MaxKeys \in Nat
  BY DEF FilesIInv, F!FilesAssumption
<1>2. /\ proc' = proc /\ port' = port /\ told' = told /\ mints' = mints /\ wants' = wants
      /\ crashes' = crashes
  BY DEF F!EditKey, F!vars
<1>3. KeysLeft' /\ F!FilesAssumption'
  BY <1>1, <1>2, CardinalF DEF KeysLeft, Starting, F!FilesAssumption
<1>4. CASE UNCHANGED F!vars
  <2>1. keyFile' = keyFile /\ edited' = edited
    BY <1>4 DEF F!vars
  <2>2. \A q \in Process : StartKnown(proc[q])'
    BY <1>1, <1>2 DEF ProcKnown, StartKnown
  <2>3. ProcKnown' /\ MintsTyped' /\ F!OneKey' /\ MintsKnown' /\ KeyFileKnown(keyFile')
    BY <1>1, <1>2, <2>1, <2>2 DEF ProcKnown, MintsTyped, F!OneKey, MintsKnown, PendingIn
  <2> QED
    BY <1>1, <1>2, <1>3, <2>1, <2>3 DEF FilesIInv
<1>5. CASE F!EditKey
  <2>1. edited' = TRUE /\ keyFile' \in {[state |-> "none", key |-> 0], [state |-> "own", key |-> MaxKeys + 1],
                                        [state |-> "refused", key |-> 0]}
    BY <1>5 DEF F!EditKey, F!Absent
  <2>2. MaxKeys + 1 \in 0 .. MaxKeys + 1 /\ 0 \in 0 .. MaxKeys + 1 /\ MaxKeys + 1 # 0
    BY <1>1
  <2>3. KeyFileKnown(keyFile')
    BY <2>1, <2>2 DEF KeyFileKnown
  <2>4. \A q \in Process : StartKnown(proc[q])'
    BY <1>1, <1>2 DEF ProcKnown, StartKnown
  <2>5. ProcKnown' /\ MintsTyped' /\ F!OneKey' /\ MintsKnown'
    BY <1>1, <1>2, <2>1, <2>4 DEF ProcKnown, MintsTyped, F!OneKey, MintsKnown
  <2> QED
    BY <1>1, <1>2, <1>3, <2>1, <2>3, <2>5 DEF FilesIInv
<1> QED
  BY <1>4, <1>5

LEMMA FilesNext == FilesIInv /\ [F!Next]_(F!vars) => FilesIInv'
<1> SUFFICES ASSUME FilesIInv, [F!Next]_(F!vars) PROVE FilesIInv'
  OBVIOUS
<1>1. ASSUME NEW p \in Process, F!Start(p) \/ F!Starts(p) \/ F!Stop(p) \/ F!Crash(p)
      PROVE  FilesIInv'
  BY <1>1, StartUpKeeps, LookKeeps, ReadKeeps, CreateKeeps, WriteKeyKeeps, RereadKeeps, TablesKeep,
     ReportKeeps, ConnectServerKeeps, ServeKeeps, DownKeeps DEF F!Starts
<1>2. CASE F!EditKey \/ UNCHANGED F!vars
  BY <1>2, EditKeeps
<1> QED
  BY <1>1, <1>2 DEF F!Next

LEMMA FilesSafe == FilesIInv => F!FilesInv
<1> SUFFICES ASSUME FilesIInv PROVE F!FilesInv
  OBVIOUS
<1>1. /\ F!FilesAssumption /\ KeyFileKnown(keyFile) /\ ProcKnown /\ MintsTyped /\ KeysLeft
      /\ F!OneKey /\ MintsKnown /\ \A p \in Process : StartKnown(proc[p]) /\ proc[p] \in StartRec
  BY DEF FilesIInv, ProcKnown, StartKnown
<1>2. F!TypeOK
  <2>1. Cardinality(mints) <= MaxKeys
    <3>1. IsFiniteSet(Starting) /\ IsFiniteSet(mints) /\ MaxKeys \in Nat
      BY <1>1, CardinalF, FS_Subset DEF Starting, F!FilesAssumption, MintsTyped
    <3>2. Cardinality(Starting) \in Nat /\ Cardinality(mints) \in Nat
      BY <3>1, FS_CardinalityType
    <3> QED
      BY <1>1, <3>1, <3>2 DEF KeysLeft
  <2>2. keyFile.state \in {"none", "own", "torn", "refused"} /\ keyFile.key \in 0 .. MaxKeys + 1
    BY <1>1 DEF KeyFileKnown
  <2>3. \A p \in Process : proc[p].key \in 0 .. MaxKeys + 1
    BY <1>1 DEF StartRec
  <2> QED
    BY <1>1, <2>1, <2>2, <2>3, CardinalF DEF F!TypeOK, ProcKnown
<1>3. F!DegradedIsTold
  BY <1>1 DEF F!DegradedIsTold, StartKnown
<1>4. F!MintIsAnnounced
  <2> SUFFICES ASSUME crashes = 0, ~edited, NEW m \in mints, proc[m.by].announced,
                      proc[m.by].key = m.key
               PROVE  m \in told
    BY DEF F!MintIsAnnounced
  <2>1. m.by \in Process /\ m.key # 0
    BY <1>1 DEF MintsTyped
  <2>2. ~PendingIn(proc[m.by], m.key)
    BY <1>1, <2>1 DEF PendingIn, StartKnown
  <2>3. m.key = keyFile.key
    BY <1>1, <2>1 DEF F!OneKey
  <2> QED
    BY <1>1, <2>2, <2>3 DEF MintsKnown
<1> QED
  BY <1>1, <1>2, <1>3, <1>4 DEF F!FilesInv

(* However many processes start on one data directory, die at any step and  *)
(* find whatever the deployer left there: unless he put a key there         *)
(* himself, they have one key; a mint is announced unless somebody died;    *)
(* and a node that goes on without a part of its connection says so         *)
(* (load_or_create_in, save_new_private, load_connection_files,             *)
(* connect_cross_region, start_server_role).                                *)
THEOREM OneDirectoryOneKey == ASSUME F!FilesAssumption PROVE F!Spec => []F!FilesInv
<1>1. F!Init => FilesIInv
  BY FilesInit
<1> QED
  BY <1>1, FilesNext, FilesSafe, PTL DEF F!Spec

-----------------------------------------------------------------------------
(***************************************************************************)
(* HostSettings: settings.json, its copies in memory and the preflight,    *)
(* for any number of request threads, operations and restarts.             *)
(***************************************************************************)
CONSTANTS Threads, Found, MaxOps, MaxBoots
VARIABLES live, llm, cached, file, bak, origin, thread, problem, ops, boots, seen

H == INSTANCE HostSettings

Prints == [gcc : {"none", "auto", "manual"}, qemu : {"none", "auto", "manual"}, llm : 0 .. 1]
Results == [ok : BOOLEAN, overridden : BOOLEAN, of : Prints, tested : Prints]
Docs == [gcc : H!Paths, qemu : H!Paths, theme : 0 .. 1, preflight : Results]
Writes == {"settings", "forget", "snapshot", "write", "torn"}
Checks == {"gcc", "qemu", "file"}
Requests == [pc : {"off", "idle"} \cup Writes \cup Checks, snap : Docs, which : {"gcc", "qemu"},
             value : H!Paths, twice : BOOLEAN, fp : Prints, ok : BOOLEAN, env : Prints]

SettingsTyped ==
    /\ live \in [gcc : H!Paths, qemu : H!Paths] /\ llm \in 0 .. 1 /\ cached \in Docs
    /\ origin \in {"old", "current", "newer"}
    /\ file \in [version : {"old", "current", "newer", "torn"}, doc : Docs]
    /\ file.version = "old" => file = H!Original
    /\ thread \in [Threads -> Requests] /\ problem \in BOOLEAN /\ ops \in Nat /\ boots \in Nat
    /\ seen \in [overlap : BOOLEAN, failed : BOOLEAN, moved : BOOLEAN, rebound : BOOLEAN]

(* A host is up with all of its threads or not at all, and before it first  *)
(* is, nothing was asked of it.                                             *)
UpAsAWhole ==
    /\ H!Off \/ \A t \in Threads : thread[t].pc # "off"
    /\ H!Off /\ boots = 0 => ops = 0 /\ file = H!Original

(* An old file is in its place until the first start has copied it.         *)
CopiedFirst ==
    origin = "old" /\ ~seen.failed => bak = H!Original \/ (H!Off /\ file = H!Original)

(* What was run is what the result is filed under; nothing is filed under   *)
(* no configuration.                                                        *)
ResultHolds(r, moved) ==
    /\ r.of.gcc = "none" => ~r.ok
    /\ r.ok /\ ~moved => r.tested.gcc = r.of.gcc /\ r.tested.qemu = r.of.qemu
Disturbed == seen.moved \/ seen.rebound
ResultsHold ==
    /\ ResultHolds(cached.preflight, Disturbed) /\ ResultHolds(file.doc.preflight, Disturbed)
    /\ \A t \in Threads : ResultHolds(thread[t].snap.preflight, Disturbed)

(* A check that nothing has moved under runs what it read first.            *)
CheckHolds(r, now, moved) ==
    /\ r.pc \in Checks => r.fp.gcc # "none"
    /\ r.pc \in {"gcc", "qemu"} => ~r.ok
    /\ r.pc \in Checks /\ ~moved => r.fp.gcc = now.gcc /\ r.fp.qemu = now.qemu
    /\ r.pc = "qemu" /\ ~moved => r.env.gcc = r.fp.gcc
    /\ r.pc = "file" /\ r.ok /\ ~moved => r.env.gcc = r.fp.gcc /\ r.env.qemu = r.fp.qemu
ChecksHold == \A t \in Threads : CheckHolds(thread[t], live, seen.moved)

(* While no two requests have overlapped there is one, idle or not, such    *)
(* that what it has still to do is all that live slots, cached settings and *)
(* file differ by.                                                          *)
InStep == live.gcc = cached.gcc /\ live.qemu = cached.qemu
OnDisk == \/ file = [version |-> "current", doc |-> cached]
          \/ file = H!Original /\ cached = H!Original.doc
OneSlotAhead(r) ==
    /\ live[r.which] = r.value
    /\ \A w \in {"gcc", "qemu"} \ {r.which} : live[w] = cached[w]
SaveIsKnown(r) ==
    /\ r.pc # "settings" => InStep
    /\ r.pc = "settings" => OneSlotAhead(r)
    /\ r.pc \in {"write", "torn"} => r.snap = cached
    /\ r.pc \notin H!Writing => OnDisk
Undisturbed == ~seen.overlap /\ ~seen.failed /\ ~problem /\ boots = 0
LoneSave ==
    Undisturbed /\ ~H!Off =>
        \E t \in Threads : /\ SaveIsKnown(thread[t])
                           /\ \A u \in Threads \ {t} : thread[u].pc \notin Writes

SettingsIInv == /\ H!FoundAreVersions /\ SettingsTyped /\ UpAsAWhole /\ CopiedFirst
                /\ ResultsHold /\ ChecksHold /\ LoneSave

LEMMA ConstantsHold ==
    /\ H!NoResult \in Results /\ H!Defaults \in Docs /\ H!Idle \in Requests
    /\ H!Nothing \in Prints /\ H!Nothing.gcc = "none"
    /\ H!Idle.pc = "idle" /\ H!Idle.snap = H!Defaults /\ H!Idle.ok = FALSE /\ H!Idle.env = H!Nothing
    /\ H!Defaults.preflight = H!NoResult /\ H!NoResult.ok = FALSE
    /\ H!Defaults.gcc = "auto" /\ H!Defaults.qemu = "auto"
<1>1. H!Nothing \in Prints /\ H!Nothing.gcc = "none"
  BY DEF H!Nothing, Prints
<1>2. H!NoResult \in Results /\ H!NoResult.ok = FALSE
  BY <1>1 DEF H!NoResult, Results
<1>3. /\ H!Defaults \in Docs /\ H!Defaults.preflight = H!NoResult
      /\ H!Defaults.gcc = "auto" /\ H!Defaults.qemu = "auto"
  BY <1>2 DEF H!Defaults, Docs, H!Paths
<1>4. /\ H!Idle \in Requests
      /\ H!Idle.pc = "idle" /\ H!Idle.snap = H!Defaults /\ H!Idle.ok = FALSE /\ H!Idle.env = H!Nothing
  BY <1>1, <1>3 DEF H!Idle, Requests, H!Paths
<1> QED
  BY <1>1, <1>2, <1>3, <1>4

LEMMA OriginalHolds ==
    ASSUME SettingsTyped
    PROVE  /\ H!Original \in [version : {"old", "current", "newer", "torn"}, doc : Docs]
           /\ H!Original.version = origin /\ H!Original.doc.preflight = H!NoResult
<1> DEFINE doc == [gcc |-> "manual", qemu |-> "auto", theme |-> 1, preflight |-> H!NoResult]
<1>1. doc \in Docs /\ doc.preflight = H!NoResult
  BY ConstantsHold DEF Docs, H!Paths
<1>2. H!Original = [version |-> origin, doc |-> doc]
  BY DEF H!Original
<1> HIDE DEF doc
<1>3. H!Original.version = origin /\ H!Original.doc = doc
  BY <1>2
<1> QED
  BY <1>1, <1>2, <1>3 DEF SettingsTyped

LEMMA NothingHolds == ASSUME NEW m PROVE ResultHolds(H!NoResult, m)
BY ConstantsHold DEF ResultHolds

LEMMA HoldsLonger ==
    ASSUME NEW r, NEW m \in BOOLEAN, NEW n \in BOOLEAN, m => n, ResultHolds(r, m)
    PROVE  ResultHolds(r, n)
BY DEF ResultHolds

(* What a step has to show when it takes one thread on, and neither starts  *)
(* the host nor ends it.                                                    *)
LEMMA SettingsStep ==
    ASSUME SettingsIInv, NEW t \in Threads, NEW rec \in Requests,
           thread[t].pc # "off", rec.pc # "off", thread' = [thread EXCEPT ![t] = rec],
           UNCHANGED <<bak, origin, problem, boots>>,
           seen' \in [overlap : BOOLEAN, failed : BOOLEAN, moved : BOOLEAN, rebound : BOOLEAN],
           seen.failed => seen'.failed, seen.moved => seen'.moved, seen.rebound => seen'.rebound,
           live' \in [gcc : H!Paths, qemu : H!Paths], llm' \in 0 .. 1, cached' \in Docs,
           file' \in [version : {"old", "current", "newer", "torn"}, doc : Docs],
           file'.version = "old" => file' = file, ops' \in Nat,
           ResultHolds(cached'.preflight, Disturbed'), ResultHolds(file'.doc.preflight, Disturbed'),
           ResultHolds(rec.snap.preflight, Disturbed'),
           \A u \in Threads \ {t} : CheckHolds(thread[u], live', seen'.moved),
           CheckHolds(rec, live', seen'.moved), LoneSave'
    PROVE  SettingsIInv'
<1>1. /\ H!FoundAreVersions /\ SettingsTyped /\ UpAsAWhole /\ CopiedFirst /\ ResultsHold
      /\ ~H!Off
  BY DEF SettingsIInv, H!Off
<1>2. /\ thread' \in [Threads -> Requests] /\ thread'[t] = rec
      /\ \A u \in Threads \ {t} : thread'[u] = thread[u]
  BY <1>1 DEF SettingsTyped
<1>3. H!Original' = H!Original
  BY DEF H!Original
<1>4. SettingsTyped'
  <2>1. file'.version = "old" => file' = H!Original'
    BY <1>1, <1>3 DEF SettingsTyped
  <2> QED
    BY <1>1, <1>2, <2>1 DEF SettingsTyped
<1>5. ~H!Off'
  BY <1>2 DEF H!Off
<1>6. UpAsAWhole'
  <2>1. \A u \in Threads : thread[u].pc # "off"
    BY <1>1 DEF UpAsAWhole
  <2> QED
    BY <1>2, <1>5, <2>1 DEF UpAsAWhole
<1>7. CopiedFirst'
  BY <1>1, <1>3 DEF CopiedFirst
<1>8. ResultsHold'
  <2>1. Disturbed \in BOOLEAN /\ Disturbed' \in BOOLEAN /\ (Disturbed => Disturbed')
    BY <1>1, <1>4 DEF Disturbed, SettingsTyped
  <2>2. \A u \in Threads : ResultHolds(thread[u].snap.preflight, Disturbed)
    BY <1>1 DEF ResultsHold
  <2>3. ASSUME NEW u \in Threads PROVE ResultHolds(thread'[u].snap.preflight, Disturbed')
    <3>1. ResultHolds(thread[u].snap.preflight, Disturbed')
      BY <2>1, <2>2, HoldsLonger
    <3> QED
      BY <1>2, <3>1
  <2> QED
    BY <2>3 DEF ResultsHold
<1>9. ChecksHold'
  <2>1. ASSUME NEW u \in Threads PROVE CheckHolds(thread'[u], live', seen'.moved)
    BY <1>2
  <2> QED
    BY <2>1 DEF ChecksHold
<1>10. H!FoundAreVersions'
  BY <1>1 DEF H!FoundAreVersions
<1> QED
  BY <1>4, <1>6, <1>7, <1>8, <1>9, <1>10 DEF SettingsIInv

(* The thread that saves is the one the difference is known of.             *)
LEMMA OwnSave ==
    ASSUME SettingsIInv, Undisturbed, NEW t \in Threads, thread[t].pc \in Writes
    PROVE  SaveIsKnown(thread[t]) /\ \A u \in Threads \ {t} : thread[u].pc \notin Writes
<1>1. ~H!Off
  BY DEF H!Off, Writes
<1> QED
  BY <1>1 DEF SettingsIInv, LoneSave

(* Where none saves there is no difference.                                 *)
LEMMA NobodySaves ==
    ASSUME SettingsIInv, Undisturbed, NEW t \in Threads, thread[t].pc # "off",
           \A u \in Threads : thread[u].pc \notin Writes
    PROVE  InStep /\ OnDisk
<1>1. ~H!Off
  BY DEF H!Off
<1>2. PICK u \in Threads : SaveIsKnown(thread[u])
  BY <1>1 DEF SettingsIInv, LoneSave
<1>3. thread[u].pc # "settings" /\ thread[u].pc \notin H!Writing
  BY DEF Writes, H!Writing
<1> QED
  BY <1>2, <1>3 DEF SaveIsKnown

(* A thread whose step leaves what is compared alone and which does not     *)
(* save before or after it.                                                 *)
LEMMA AsideKeepsLone ==
    ASSUME SettingsIInv, NEW t \in Threads, NEW rec \in Requests,
           thread[t].pc \notin Writes \cup {"off"}, rec.pc \notin Writes,
           thread' = [thread EXCEPT ![t] = rec],
           UNCHANGED <<live, cached, file, origin, problem, boots>>,
           seen'.overlap = seen.overlap, seen'.failed = seen.failed
    PROVE  LoneSave'
<1> SUFFICES ASSUME Undisturbed'
             PROVE  \E u \in Threads : /\ SaveIsKnown(thread[u])'
                                       /\ \A w \in Threads \ {u} : thread'[w].pc \notin Writes
  BY DEF LoneSave
<1>1. Undisturbed
  BY DEF Undisturbed
<1>2. ~H!Off
  BY DEF H!Off
<1>3. PICK u \in Threads : SaveIsKnown(thread[u]) /\ \A w \in Threads \ {u} : thread[w].pc \notin Writes
  BY <1>1, <1>2 DEF SettingsIInv, LoneSave
<1>4. /\ thread'[t] = rec /\ \A w \in Threads \ {t} : thread'[w] = thread[w]
  BY DEF SettingsIInv, SettingsTyped
<1>5. H!Original' = H!Original
  BY DEF H!Original
<1>6. SaveIsKnown(thread[u])'
  <2>1. CASE u # t
    <3>1. thread'[u] = thread[u]
      BY <1>4, <2>1
    <3> QED
      BY <1>3, <1>5, <3>1 DEF SaveIsKnown, InStep, OnDisk, OneSlotAhead
  <2>2. CASE u = t
    <3>1. InStep /\ OnDisk
      BY <1>3, <2>2 DEF SaveIsKnown, Writes, H!Writing
    <3>2. thread'[u].pc # "settings" /\ thread'[u].pc \notin {"write", "torn"}
      BY <1>4, <2>2 DEF Writes
    <3> QED
      BY <1>5, <3>1, <3>2 DEF SaveIsKnown, InStep, OnDisk
  <2> QED
    BY <2>1, <2>2
<1>7. \A w \in Threads \ {u} : thread'[w].pc \notin Writes
  BY <1>3, <1>4
<1> QED
  BY <1>6, <1>7

(* A thread that saves, before or after, is the one of LoneSave.            *)
LEMMA SaverIsLone ==
    ASSUME SettingsIInv, NEW t \in Threads, NEW rec,
           thread' = [thread EXCEPT ![t] = rec],
           Undisturbed' => /\ SaveIsKnown(rec)'
                           /\ \A u \in Threads \ {t} : thread[u].pc \notin Writes
    PROVE  LoneSave'
<1> SUFFICES ASSUME Undisturbed'
             PROVE  \E u \in Threads : /\ SaveIsKnown(thread[u])'
                                       /\ \A w \in Threads \ {u} : thread'[w].pc \notin Writes
  BY DEF LoneSave
<1>1. thread'[t] = rec /\ \A w \in Threads \ {t} : thread'[w] = thread[w]
  BY DEF SettingsIInv, SettingsTyped
<1>2. SaveIsKnown(thread[t])'
  BY <1>1
<1> QED
  BY <1>1, <1>2

LEMMA SnapshotKeeps == ASSUME SettingsIInv, NEW t \in Threads, H!Snapshot(t) PROVE SettingsIInv'
<1>0. /\ thread' = [thread EXCEPT ![t].pc = "write", ![t].snap = cached]
      /\ seen' = [seen EXCEPT !.overlap =
                    @ \/ \E u \in Threads \ {t} : thread[u].pc \in {"write", "torn"}]
  BY DEF H!Snapshot
<1>1. /\ thread[t].pc = "snapshot" /\ thread[t] \in Requests /\ SettingsTyped
      /\ UNCHANGED <<live, llm, cached, file, bak, origin, problem, ops, boots>>
  BY DEF H!Snapshot, SettingsIInv, SettingsTyped
<1>2. PICK rec : rec = [thread[t] EXCEPT !.pc = "write", !.snap = cached]
  OBVIOUS
<1>3. rec \in Requests /\ rec.pc = "write" /\ rec.snap = cached
  BY <1>0, <1>1, <1>2 DEF Requests, SettingsTyped, Writes
<1>4. thread' = [thread EXCEPT ![t] = rec]
  BY <1>0, <1>2
<1>5. /\ seen' \in [overlap : BOOLEAN, failed : BOOLEAN, moved : BOOLEAN, rebound : BOOLEAN]
      /\ (seen.overlap => seen'.overlap) /\ seen'.failed = seen.failed
      /\ seen'.moved = seen.moved /\ seen'.rebound = seen.rebound
  BY <1>0, <1>1 DEF SettingsTyped
<1>6. Disturbed' = Disturbed
  BY <1>5 DEF Disturbed
<1>7. /\ ResultHolds(cached.preflight, Disturbed) /\ ResultHolds(file.doc.preflight, Disturbed)
  BY DEF SettingsIInv, ResultsHold
<1>8. \A u \in Threads : CheckHolds(thread[u], live, seen.moved)
  BY DEF SettingsIInv, ChecksHold
<1>9. CheckHolds(rec, live, seen.moved)
  BY <1>3 DEF CheckHolds, Checks
<1>10. LoneSave'
  <2>1. ASSUME Undisturbed'
        PROVE  SaveIsKnown(rec)' /\ \A u \in Threads \ {t} : thread[u].pc \notin Writes
    <3>1. Undisturbed
      BY <1>1, <1>5, <2>1 DEF Undisturbed, SettingsTyped
    <3>2. SaveIsKnown(thread[t]) /\ \A u \in Threads \ {t} : thread[u].pc \notin Writes
      BY <1>1, <3>1, OwnSave DEF Writes
    <3>3. InStep
      BY <1>1, <3>2 DEF SaveIsKnown
    <3> QED
      BY <1>1, <1>3, <3>2, <3>3 DEF SaveIsKnown, InStep, H!Writing
  <2> QED
    BY <1>4, <2>1, SaverIsLone
<1> QED
  BY <1>1, <1>3, <1>4, <1>5, <1>6, <1>7, <1>8, <1>9, <1>10, SettingsStep DEF SettingsTyped

LEMMA TruncateKeeps == ASSUME SettingsIInv, NEW t \in Threads, H!Truncate(t) PROVE SettingsIInv'
<1>1. /\ thread[t].pc = "write" /\ thread[t] \in Requests /\ SettingsTyped
      /\ UNCHANGED <<live, llm, cached, bak, origin, problem, ops, boots>>
  BY DEF H!Truncate, SettingsIInv, SettingsTyped
<1>2. /\ ResultHolds(cached.preflight, Disturbed) /\ ResultHolds(file.doc.preflight, Disturbed)
      /\ ResultHolds(thread[t].snap.preflight, Disturbed)
      /\ \A u \in Threads : CheckHolds(thread[u], live, seen.moved)
  BY DEF SettingsIInv, ResultsHold, ChecksHold
<1>3. CASE H!Goto(t, "torn") /\ file' = H!Torn /\ UNCHANGED seen
  <2>1. PICK rec : rec = [thread[t] EXCEPT !.pc = "torn"]
    OBVIOUS
  <2>2. rec \in Requests /\ rec.pc = "torn" /\ rec.snap = thread[t].snap
    BY <1>1, <2>1 DEF Requests, Writes
  <2>3. thread' = [thread EXCEPT ![t] = rec]
    BY <1>3, <2>1 DEF H!Goto
  <2>4. /\ file'.version = "torn" /\ file'.doc = H!Defaults
        /\ file' \in [version : {"old", "current", "newer", "torn"}, doc : Docs]
    BY <1>3, ConstantsHold DEF H!Torn
  <2>5. Disturbed' = Disturbed
    BY <1>3 DEF Disturbed
  <2>6. ResultHolds(file'.doc.preflight, Disturbed)
    BY <2>4, ConstantsHold, NothingHolds
  <2>7. CheckHolds(rec, live, seen.moved)
    BY <2>2 DEF CheckHolds, Checks
  <2>8. LoneSave'
    <3>1. ASSUME Undisturbed'
          PROVE  SaveIsKnown(rec)' /\ \A u \in Threads \ {t} : thread[u].pc \notin Writes
      <4>1. Undisturbed
        BY <1>1, <1>3, <3>1 DEF Undisturbed
      <4>2. SaveIsKnown(thread[t]) /\ \A u \in Threads \ {t} : thread[u].pc \notin Writes
        BY <1>1, <4>1, OwnSave DEF Writes
      <4> QED
        BY <1>1, <2>2, <4>2 DEF SaveIsKnown, InStep, H!Writing
    <3> QED
      BY <2>3, <3>1, SaverIsLone
  <2> QED
    BY <1>1, <1>2, <1>3, <2>2, <2>3, <2>4, <2>5, <2>6, <2>7, <2>8, SettingsStep DEF SettingsTyped
<1>4. CASE /\ H!Goto(t, IF thread[t].twice THEN "forget" ELSE "idle")
           /\ seen' = [seen EXCEPT !.failed = TRUE] /\ UNCHANGED file
  <2>1. PICK rec : rec = [thread[t] EXCEPT !.pc = IF thread[t].twice THEN "forget" ELSE "idle"]
    OBVIOUS
  <2>2. rec \in Requests /\ rec.pc \in {"forget", "idle"} /\ rec.snap = thread[t].snap
    BY <1>1, <2>1 DEF Requests, Writes
  <2>3. thread' = [thread EXCEPT ![t] = rec]
    BY <1>4, <2>1 DEF H!Goto
  <2>4. /\ seen' \in [overlap : BOOLEAN, failed : BOOLEAN, moved : BOOLEAN, rebound : BOOLEAN]
        /\ seen'.failed /\ seen'.moved = seen.moved /\ seen'.rebound = seen.rebound
    BY <1>1, <1>4 DEF SettingsTyped
  <2>5. Disturbed' = Disturbed
    BY <2>4 DEF Disturbed
  <2>6. CheckHolds(rec, live, seen.moved)
    BY <2>2 DEF CheckHolds, Checks
  <2>7. LoneSave'
    BY <2>4 DEF LoneSave, Undisturbed
  <2> QED
    BY <1>1, <1>2, <1>4, <2>2, <2>3, <2>4, <2>5, <2>6, <2>7, SettingsStep DEF SettingsTyped
<1> QED
  BY <1>3, <1>4 DEF H!Truncate

LEMMA WriteOutKeeps == ASSUME SettingsIInv, NEW t \in Threads, H!WriteOut(t) PROVE SettingsIInv'
<1>0. /\ file' = [version |-> "current", doc |-> thread[t].snap]
      /\ thread' = [thread EXCEPT ![t].pc = IF thread[t].twice THEN "forget" ELSE "idle"]
  BY DEF H!WriteOut
<1>1. /\ thread[t].pc = "torn" /\ thread[t] \in Requests /\ SettingsTyped
      /\ UNCHANGED <<live, llm, cached, bak, origin, problem, ops, boots, seen>>
  BY DEF H!WriteOut, SettingsIInv, SettingsTyped
<1>2. PICK rec : rec = [thread[t] EXCEPT !.pc = IF thread[t].twice THEN "forget" ELSE "idle"]
  OBVIOUS
<1>3. /\ rec \in Requests /\ rec.pc \in {"forget", "idle"} /\ rec.snap = thread[t].snap
      /\ rec.snap \in Docs
  BY <1>1, <1>2 DEF Requests, Writes
<1>4. thread' = [thread EXCEPT ![t] = rec]
  BY <1>0, <1>2
<1>5. /\ file' \in [version : {"old", "current", "newer", "torn"}, doc : Docs]
      /\ file'.version = "current" /\ file'.doc = rec.snap
  BY <1>0, <1>3
<1>6. Disturbed' = Disturbed
  BY <1>1 DEF Disturbed
<1>7. /\ ResultHolds(cached.preflight, Disturbed) /\ ResultHolds(rec.snap.preflight, Disturbed)
  BY <1>3 DEF SettingsIInv, ResultsHold
<1>8. \A u \in Threads : CheckHolds(thread[u], live, seen.moved)
  BY DEF SettingsIInv, ChecksHold
<1>9. CheckHolds(rec, live, seen.moved)
  BY <1>3 DEF CheckHolds, Checks
<1>10. LoneSave'
  <2>1. ASSUME Undisturbed'
        PROVE  SaveIsKnown(rec)' /\ \A u \in Threads \ {t} : thread[u].pc \notin Writes
    <3>1. Undisturbed
      BY <1>1, <2>1 DEF Undisturbed
    <3>2. SaveIsKnown(thread[t]) /\ \A u \in Threads \ {t} : thread[u].pc \notin Writes
      BY <1>1, <3>1, OwnSave DEF Writes
    <3>3. InStep /\ thread[t].snap = cached
      BY <1>1, <3>2 DEF SaveIsKnown
    <3>4. OnDisk'
      BY <1>0, <1>1, <3>3 DEF OnDisk
    <3> QED
      BY <1>1, <1>3, <3>2, <3>3, <3>4 DEF SaveIsKnown, InStep
  <2> QED
    BY <1>4, <2>1, SaverIsLone
<1> QED
  BY <1>1, <1>3, <1>4, <1>5, <1>6, <1>7, <1>8, <1>9, <1>10, SettingsStep DEF SettingsTyped

LEMMA SetPathCachesKeeps ==
    ASSUME SettingsIInv, NEW t \in Threads, H!SetPathCaches(t) PROVE SettingsIInv'
<1>0. /\ cached' = [cached EXCEPT ![thread[t].which] = thread[t].value]
      /\ thread' = [thread EXCEPT ![t].pc = "snapshot"]
  BY DEF H!SetPathCaches, H!Goto
<1>1. /\ thread[t].pc = "settings" /\ thread[t] \in Requests /\ SettingsTyped
      /\ UNCHANGED <<live, llm, file, bak, origin, problem, ops, boots, seen>>
  BY DEF H!SetPathCaches, SettingsIInv, SettingsTyped
<1>2. PICK rec : rec = [thread[t] EXCEPT !.pc = "snapshot"]
  OBVIOUS
<1>3. rec \in Requests /\ rec.pc = "snapshot" /\ rec.snap = thread[t].snap
  BY <1>1, <1>2 DEF Requests, Writes
<1>4. thread' = [thread EXCEPT ![t] = rec]
  BY <1>0, <1>2
<1>5. /\ cached' \in Docs /\ cached'.preflight = cached.preflight
      /\ thread[t].which = "gcc" => cached'.gcc = thread[t].value /\ cached'.qemu = cached.qemu
      /\ thread[t].which = "qemu" => cached'.qemu = thread[t].value /\ cached'.gcc = cached.gcc
  <2>1. cached \in Docs /\ thread[t].which \in {"gcc", "qemu"} /\ thread[t].value \in H!Paths
    BY <1>1 DEF SettingsTyped, Requests
  <2> QED
    BY <1>0, <2>1 DEF Docs
<1>6. Disturbed' = Disturbed
  BY <1>1 DEF Disturbed
<1>7. /\ ResultHolds(cached.preflight, Disturbed) /\ ResultHolds(file.doc.preflight, Disturbed)
      /\ ResultHolds(rec.snap.preflight, Disturbed)
  BY <1>3 DEF SettingsIInv, ResultsHold
<1>8. \A u \in Threads : CheckHolds(thread[u], live, seen.moved)
  BY DEF SettingsIInv, ChecksHold
<1>9. CheckHolds(rec, live, seen.moved)
  BY <1>3 DEF CheckHolds, Checks
<1>10. LoneSave'
  <2>1. ASSUME Undisturbed'
        PROVE  SaveIsKnown(rec)' /\ \A u \in Threads \ {t} : thread[u].pc \notin Writes
    <3>1. Undisturbed
      BY <1>1, <2>1 DEF Undisturbed
    <3>2. SaveIsKnown(thread[t]) /\ \A u \in Threads \ {t} : thread[u].pc \notin Writes
      BY <1>1, <3>1, OwnSave DEF Writes
    <3>3. OneSlotAhead(thread[t]) /\ thread[t].which \in {"gcc", "qemu"}
      BY <1>1, <3>2 DEF SaveIsKnown, Requests
    <3>4. InStep'
      BY <1>1, <1>5, <3>3 DEF OneSlotAhead, InStep
    <3> QED
      BY <1>3, <3>2, <3>4 DEF SaveIsKnown, H!Writing
  <2> QED
    BY <1>4, <2>1, SaverIsLone
<1> QED
  BY <1>1, <1>3, <1>4, <1>5, <1>6, <1>7, <1>8, <1>9, <1>10, SettingsStep DEF SettingsTyped

LEMMA ClearPreflightKeeps ==
    ASSUME SettingsIInv, NEW t \in Threads, H!ClearPreflight(t) PROVE SettingsIInv'
<1>0. /\ cached' = [cached EXCEPT !.preflight = H!NoResult]
      /\ thread' = [thread EXCEPT ![t].pc = "snapshot", ![t].twice = FALSE]
  BY DEF H!ClearPreflight
<1>1. /\ thread[t].pc = "forget" /\ thread[t] \in Requests /\ SettingsTyped
      /\ UNCHANGED <<live, llm, file, bak, origin, problem, ops, boots, seen>>
  BY DEF H!ClearPreflight, SettingsIInv, SettingsTyped
<1>2. PICK rec : rec = [thread[t] EXCEPT !.pc = "snapshot", !.twice = FALSE]
  OBVIOUS
<1>3. rec \in Requests /\ rec.pc = "snapshot" /\ rec.snap = thread[t].snap
  BY <1>1, <1>2 DEF Requests, Writes
<1>4. thread' = [thread EXCEPT ![t] = rec]
  BY <1>0, <1>2
<1>5. /\ cached' \in Docs /\ cached'.preflight = H!NoResult
      /\ cached'.gcc = cached.gcc /\ cached'.qemu = cached.qemu
  BY <1>0, <1>1, ConstantsHold DEF Docs, SettingsTyped
<1>6. Disturbed' = Disturbed
  BY <1>1 DEF Disturbed
<1>7. /\ ResultHolds(cached'.preflight, Disturbed) /\ ResultHolds(file.doc.preflight, Disturbed)
      /\ ResultHolds(rec.snap.preflight, Disturbed)
  BY <1>3, <1>5, NothingHolds DEF SettingsIInv, ResultsHold
<1>8. \A u \in Threads : CheckHolds(thread[u], live, seen.moved)
  BY DEF SettingsIInv, ChecksHold
<1>9. CheckHolds(rec, live, seen.moved)
  BY <1>3 DEF CheckHolds, Checks
<1>10. LoneSave'
  <2>1. ASSUME Undisturbed'
        PROVE  SaveIsKnown(rec)' /\ \A u \in Threads \ {t} : thread[u].pc \notin Writes
    <3>1. Undisturbed
      BY <1>1, <2>1 DEF Undisturbed
    <3>2. SaveIsKnown(thread[t]) /\ \A u \in Threads \ {t} : thread[u].pc \notin Writes
      BY <1>1, <3>1, OwnSave DEF Writes
    <3>3. InStep'
      BY <1>1, <1>5, <3>2 DEF SaveIsKnown, InStep
    <3> QED
      BY <1>3, <3>2, <3>3 DEF SaveIsKnown, H!Writing
  <2> QED
    BY <1>4, <2>1, SaverIsLone
<1> QED
  BY <1>1, <1>3, <1>4, <1>5, <1>6, <1>7, <1>8, <1>9, <1>10, SettingsStep DEF SettingsTyped

(* A request that begins to save where no other does finds no difference.   *)
LEMMA FirstToSave ==
    ASSUME SettingsIInv, Undisturbed, NEW t \in Threads, thread[t].pc \notin Writes \cup {"off"},
           ~H!Overlaps(t)
    PROVE  InStep /\ OnDisk /\ \A u \in Threads \ {t} : thread[u].pc \notin Writes
<1>1. \A u \in Threads \ {t} : thread[u].pc \notin Writes
  BY DEF H!Overlaps, H!Writing, Writes
<1>2. \A u \in Threads : thread[u].pc \notin Writes
  BY <1>1
<1> QED
  BY <1>1, <1>2, NobodySaves

LEMMA SetPathKeeps ==
    ASSUME SettingsIInv, NEW t \in Threads, NEW which \in {"gcc", "qemu"}, NEW value \in H!Paths,
           H!SetPath(t, which, value)
    PROVE  SettingsIInv'
<1>0. /\ live' = [live EXCEPT ![which] = value]
      /\ thread' = [thread EXCEPT ![t] = [H!Idle EXCEPT !.pc = "settings", !.which = which,
                      !.value = value, !.twice = (value = "manual")]]
  BY DEF H!SetPath
<1>1. /\ thread[t].pc = "idle" /\ thread[t] \in Requests /\ SettingsTyped /\ ops' \in Nat
      /\ UNCHANGED <<llm, cached, file, bak, origin, problem, boots>>
  BY DEF H!SetPath, H!Begin, SettingsIInv, SettingsTyped
<1>2. PICK rec : rec = [H!Idle EXCEPT !.pc = "settings", !.which = which, !.value = value,
                          !.twice = (value = "manual")]
  OBVIOUS
<1>3. /\ rec \in Requests /\ rec.pc = "settings" /\ rec.snap = H!Defaults
      /\ rec.which = which /\ rec.value = value
  BY <1>2, ConstantsHold DEF Requests, Writes
<1>4. thread' = [thread EXCEPT ![t] = rec]
  BY <1>0, <1>2
<1>5. /\ live' \in [gcc : H!Paths, qemu : H!Paths]
      /\ live'[which] = value /\ \A w \in {"gcc", "qemu"} \ {which} : live'[w] = live[w]
  BY <1>0, <1>1 DEF SettingsTyped
<1>6. /\ seen' \in [overlap : BOOLEAN, failed : BOOLEAN, moved : BOOLEAN, rebound : BOOLEAN]
      /\ seen'.overlap = (seen.overlap \/ H!Overlaps(t)) /\ seen'.failed = seen.failed
      /\ seen'.moved = (seen.moved \/ \E u \in Threads \ {t} : H!Checking(u))
      /\ seen'.rebound = seen.rebound
  <2>1. /\ seen' = [seen EXCEPT !.moved = @ \/ \E u \in Threads \ {t} : H!Checking(u),
                                !.overlap = @ \/ H!Overlaps(t)]
        /\ H!Overlaps(t) \in BOOLEAN
    BY DEF H!SetPath, H!Moved, H!Overlaps
  <2> QED
    BY <1>1, <2>1 DEF SettingsTyped
<1>7. Disturbed \in BOOLEAN /\ Disturbed' \in BOOLEAN /\ (Disturbed => Disturbed')
  BY <1>1, <1>6 DEF Disturbed, SettingsTyped
<1>8. /\ ResultHolds(cached.preflight, Disturbed') /\ ResultHolds(file.doc.preflight, Disturbed')
      /\ ResultHolds(rec.snap.preflight, Disturbed')
  BY <1>3, <1>7, ConstantsHold, NothingHolds, HoldsLonger DEF SettingsIInv, ResultsHold
<1>9. ASSUME NEW u \in Threads \ {t} PROVE CheckHolds(thread[u], live', seen'.moved)
  <2>1. CheckHolds(thread[u], live, seen.moved)
    BY DEF SettingsIInv, ChecksHold
  <2>2. thread[u].pc \in Checks => seen'.moved
    BY <1>6 DEF H!Checking, Checks
  <2> QED
    BY <2>1, <2>2 DEF CheckHolds, Checks
<1>10. CheckHolds(rec, live', seen'.moved)
  BY <1>3 DEF CheckHolds, Checks
<1>11. LoneSave'
  <2>1. ASSUME Undisturbed'
        PROVE  SaveIsKnown(rec)' /\ \A u \in Threads \ {t} : thread[u].pc \notin Writes
    <3>1. Undisturbed /\ ~H!Overlaps(t)
      BY <1>1, <1>6, <2>1 DEF Undisturbed
    <3>2. InStep /\ OnDisk /\ \A u \in Threads \ {t} : thread[u].pc \notin Writes
      BY <1>1, <3>1, FirstToSave DEF Writes
    <3>3. OnDisk'
      BY <1>1, <3>2 DEF OnDisk, H!Original
    <3>4. live'[rec.which] = rec.value /\ \A w \in {"gcc", "qemu"} \ {rec.which} : live'[w] = cached'[w]
      BY <1>1, <1>3, <1>5, <3>2 DEF InStep
    <3> QED
      BY <1>3, <3>2, <3>3, <3>4 DEF SaveIsKnown, OneSlotAhead
  <2> QED
    BY <1>4, <2>1, SaverIsLone
<1> QED
  BY <1>1, <1>3, <1>4, <1>5, <1>6, <1>8, <1>9, <1>10, <1>11, SettingsStep DEF SettingsTyped

SnapshotNext == [H!Idle EXCEPT !.pc = "snapshot"]

LEMMA SnapshotNextHolds ==
    /\ SnapshotNext \in Requests /\ SnapshotNext.pc = "snapshot"
    /\ SnapshotNext.snap = H!Defaults
BY ConstantsHold DEF SnapshotNext, Requests, Writes

(* The requests that change the cached settings and then save them.         *)
LEMMA GoesToSave ==
    ASSUME SettingsIInv, NEW t \in Threads, thread[t].pc \notin Writes \cup {"off"},
           NEW rec \in Requests, rec.pc = "snapshot", rec.snap = H!Defaults,
           thread' = [thread EXCEPT ![t] = rec],
           UNCHANGED <<live, llm, file, bak, origin, problem, boots>>, ops' \in Nat,
           cached' \in Docs, cached'.gcc = cached.gcc, cached'.qemu = cached.qemu,
           seen' \in [overlap : BOOLEAN, failed : BOOLEAN, moved : BOOLEAN, rebound : BOOLEAN],
           seen.overlap \/ H!Overlaps(t) => seen'.overlap, seen.failed => seen'.failed,
           seen'.moved = seen.moved, seen.rebound => seen'.rebound,
           ResultHolds(cached'.preflight, Disturbed')
    PROVE  SettingsIInv'
<1>1. SettingsTyped
  BY DEF SettingsIInv
<1>5. Disturbed \in BOOLEAN /\ Disturbed' \in BOOLEAN /\ (Disturbed => Disturbed')
  BY <1>1 DEF Disturbed, SettingsTyped
<1>6. ResultHolds(file.doc.preflight, Disturbed') /\ ResultHolds(rec.snap.preflight, Disturbed')
  BY <1>5, ConstantsHold, NothingHolds, HoldsLonger DEF SettingsIInv, ResultsHold
<1>7. \A u \in Threads : CheckHolds(thread[u], live, seen.moved)
  BY DEF SettingsIInv, ChecksHold
<1>8. CheckHolds(rec, live, seen.moved)
  BY DEF CheckHolds, Checks
<1>9. LoneSave'
  <2>1. ASSUME Undisturbed'
        PROVE  SaveIsKnown(rec)' /\ \A u \in Threads \ {t} : thread[u].pc \notin Writes
    <3>1. Undisturbed /\ ~H!Overlaps(t)
      BY <2>1 DEF Undisturbed
    <3>2. InStep /\ \A u \in Threads \ {t} : thread[u].pc \notin Writes
      BY <3>1, FirstToSave
    <3>3. InStep'
      BY <3>2 DEF InStep
    <3> QED
      BY <3>2, <3>3 DEF SaveIsKnown, H!Writing
  <2> QED
    BY <2>1, SaverIsLone
<1>10. thread[t].pc # "off" /\ rec.pc # "off"
  OBVIOUS
<1>11. /\ live' \in [gcc : H!Paths, qemu : H!Paths] /\ llm' \in 0 .. 1 /\ file' = file
       /\ file' \in [version : {"old", "current", "newer", "torn"}, doc : Docs]
       /\ UNCHANGED <<bak, origin, problem, boots>>
  BY <1>1 DEF SettingsTyped
<1>12. /\ \A u \in Threads : CheckHolds(thread[u], live', seen'.moved)
       /\ CheckHolds(rec, live', seen'.moved)
       /\ ResultHolds(file'.doc.preflight, Disturbed')
  BY <1>6, <1>7, <1>8
<1>13. (seen.failed => seen'.failed) /\ (seen.moved => seen'.moved)
  OBVIOUS
<1> QED
  BY <1>6, <1>9, <1>10, <1>11, <1>12, <1>13, SettingsStep

LEMMA SetPreferenceKeeps ==
    ASSUME SettingsIInv, NEW t \in Threads, NEW value \in 0 .. 1, H!SetPreference(t, value)
    PROVE  SettingsIInv'
<1>1. /\ thread[t].pc = "idle" /\ SettingsTyped /\ ops' \in Nat
      /\ UNCHANGED <<live, llm, file, bak, origin, problem, boots>>
      /\ thread' = [thread EXCEPT ![t] = SnapshotNext]
  BY DEF H!SetPreference, H!Begin, SnapshotNext, SettingsIInv, SettingsTyped
<1>2. /\ cached' \in Docs /\ cached'.gcc = cached.gcc /\ cached'.qemu = cached.qemu
      /\ cached'.preflight = cached.preflight
  BY <1>1 DEF H!SetPreference, SettingsTyped, Docs
<1>3. /\ seen' \in [overlap : BOOLEAN, failed : BOOLEAN, moved : BOOLEAN, rebound : BOOLEAN]
      /\ seen'.overlap = (seen.overlap \/ H!Overlaps(t)) /\ seen'.failed = seen.failed
      /\ seen'.moved = seen.moved /\ seen'.rebound = seen.rebound
  <2>1. seen' = [seen EXCEPT !.overlap = @ \/ H!Overlaps(t)] /\ H!Overlaps(t) \in BOOLEAN
    BY DEF H!SetPreference, H!Overlaps
  <2> QED
    BY <1>1, <2>1 DEF SettingsTyped
<1>4. Disturbed' = Disturbed
  BY <1>3 DEF Disturbed
<1>5. ResultHolds(cached'.preflight, Disturbed')
  BY <1>2, <1>4 DEF SettingsIInv, ResultsHold
<1>6. thread[t].pc \notin Writes \cup {"off"}
  BY <1>1 DEF Writes
<1> QED
  BY <1>1, <1>2, <1>3, <1>5, <1>6, SnapshotNextHolds, GoesToSave

LEMMA FileResultKeeps ==
    ASSUME SettingsIInv, NEW t \in Threads, H!FileResult(t) PROVE SettingsIInv'
<1>1. /\ thread[t].pc = "file" /\ thread[t] \in Requests /\ SettingsTyped /\ ops' \in Nat
      /\ UNCHANGED <<live, llm, file, bak, origin, problem, boots>>
      /\ thread' = [thread EXCEPT ![t] = SnapshotNext]
  BY DEF H!FileResult, SnapshotNext, SettingsIInv, SettingsTyped
<1>2. PICK new : new = [ok |-> thread[t].ok, overridden |-> FALSE, of |-> thread[t].fp,
                        tested |-> thread[t].env]
  OBVIOUS
<1>3. /\ new \in Results /\ new.ok = thread[t].ok /\ new.of = thread[t].fp
      /\ new.tested = thread[t].env
  <2>1. thread[t].ok \in BOOLEAN /\ thread[t].fp \in Prints /\ thread[t].env \in Prints
    BY <1>1 DEF Requests
  <2> QED
    BY <1>2, <2>1 DEF Results
<1>4. cached' = [cached EXCEPT !.preflight = new]
  BY <1>2 DEF H!FileResult
<1>5. /\ cached' \in Docs /\ cached'.gcc = cached.gcc /\ cached'.qemu = cached.qemu
      /\ cached'.preflight = new
  BY <1>1, <1>3, <1>4 DEF SettingsTyped, Docs
<1>6. /\ seen' \in [overlap : BOOLEAN, failed : BOOLEAN, moved : BOOLEAN, rebound : BOOLEAN]
      /\ seen'.overlap = (seen.overlap \/ H!Overlaps(t)) /\ seen'.failed = seen.failed
      /\ seen'.moved = seen.moved /\ seen'.rebound = seen.rebound
  <2>1. seen' = [seen EXCEPT !.overlap = @ \/ H!Overlaps(t)] /\ H!Overlaps(t) \in BOOLEAN
    BY DEF H!FileResult, H!Overlaps
  <2> QED
    BY <1>1, <2>1 DEF SettingsTyped
<1>7. ResultHolds(new, Disturbed')
  <2>1. CheckHolds(thread[t], live, seen.moved)
    BY DEF SettingsIInv, ChecksHold
  <2> QED
    BY <1>1, <1>3, <1>6, <2>1 DEF CheckHolds, Checks, ResultHolds, Disturbed
<1>8. thread[t].pc \notin Writes \cup {"off"}
  BY <1>1 DEF Writes
<1> QED
  BY <1>1, <1>5, <1>6, <1>7, <1>8, SnapshotNextHolds, GoesToSave

LEMMA AcknowledgeKeeps ==
    ASSUME SettingsIInv, NEW t \in Threads, H!Acknowledge(t) PROVE SettingsIInv'
<1>1. /\ thread[t].pc = "idle" /\ SettingsTyped /\ ops' \in Nat
      /\ UNCHANGED <<live, llm, file, bak, origin, problem, boots>>
      /\ thread' = [thread EXCEPT ![t] = SnapshotNext]
  BY DEF H!Acknowledge, H!Begin, SnapshotNext, SettingsIInv, SettingsTyped
<1>2. H!RunFingerprint \in Prints /\ H!RunFingerprint.gcc # "none"
  BY <1>1 DEF H!RunFingerprint, Prints, SettingsTyped, H!Paths
<1>3. PICK new : new = [cached.preflight EXCEPT !.of = H!RunFingerprint, !.overridden = TRUE]
  OBVIOUS
<1>4. /\ new \in Results /\ new.ok = cached.preflight.ok /\ new.of = H!RunFingerprint
      /\ new.tested = cached.preflight.tested
  <2>1. cached.preflight \in Results
    BY <1>1 DEF SettingsTyped, Docs
  <2> QED
    BY <1>2, <1>3, <2>1 DEF Results
<1>5. /\ cached' \in Docs /\ cached'.gcc = cached.gcc /\ cached'.qemu = cached.qemu
      /\ cached'.preflight = new
  <2>1. cached' = [cached EXCEPT !.preflight = new]
    BY <1>1, <1>3 DEF H!Acknowledge, SettingsTyped, Docs
  <2> QED
    BY <1>1, <1>4, <2>1 DEF SettingsTyped, Docs
<1>6. /\ seen' \in [overlap : BOOLEAN, failed : BOOLEAN, moved : BOOLEAN, rebound : BOOLEAN]
      /\ seen'.overlap = (seen.overlap \/ H!Overlaps(t)) /\ seen'.failed = seen.failed
      /\ seen'.moved = seen.moved
      /\ seen'.rebound =
           (seen.rebound \/ cached.preflight.of \notin {H!Nothing, H!RunFingerprint})
  <2>1. /\ seen' = [seen EXCEPT !.overlap = @ \/ H!Overlaps(t),
                     !.rebound = @ \/ cached.preflight.of \notin {H!Nothing, H!RunFingerprint}]
        /\ H!Overlaps(t) \in BOOLEAN
    BY DEF H!Acknowledge, H!Overlaps
  <2> QED
    BY <1>1, <2>1 DEF SettingsTyped
<1>7. ResultHolds(new, Disturbed')
  <2>1. ResultHolds(cached.preflight, Disturbed)
    BY DEF SettingsIInv, ResultsHold
  <2>2. CASE cached.preflight.of = H!Nothing
    BY <1>2, <1>4, <2>1, <2>2, ConstantsHold DEF ResultHolds
  <2>3. CASE cached.preflight.of = H!RunFingerprint
    BY <1>2, <1>4, <1>6, <2>1, <2>3 DEF ResultHolds, Disturbed
  <2>4. CASE cached.preflight.of \notin {H!Nothing, H!RunFingerprint}
    BY <1>2, <1>4, <1>6, <2>4 DEF ResultHolds, Disturbed
  <2> QED
    BY <2>2, <2>3, <2>4
<1>8. thread[t].pc \notin Writes \cup {"off"}
  BY <1>1 DEF Writes
<1> QED
  BY <1>1, <1>5, <1>6, <1>7, <1>8, SnapshotNextHolds, GoesToSave

LEMMA SetModelKeeps ==
    ASSUME SettingsIInv, NEW t \in Threads, NEW value \in 0 .. 1, H!SetModel(t, value)
    PROVE  SettingsIInv'
<1>1. /\ thread[t].pc = "idle" /\ thread[t] \in Requests /\ SettingsTyped /\ ops' \in Nat
      /\ llm' \in 0 .. 1
      /\ UNCHANGED <<live, cached, file, bak, origin, problem, boots, seen>>
  BY DEF H!SetModel, H!Begin, SettingsIInv, SettingsTyped
<1>2. PICK rec \in Requests : rec = thread[t]
  BY <1>1
<1>3. thread' = [thread EXCEPT ![t] = rec] /\ rec.pc = "idle"
  BY <1>1, <1>2 DEF H!SetModel, SettingsTyped
<1>4. Disturbed' = Disturbed
  BY <1>1 DEF Disturbed
<1>5. /\ ResultHolds(cached.preflight, Disturbed) /\ ResultHolds(file.doc.preflight, Disturbed)
      /\ ResultHolds(rec.snap.preflight, Disturbed)
  BY <1>2 DEF SettingsIInv, ResultsHold
<1>6. /\ \A u \in Threads : CheckHolds(thread[u], live, seen.moved)
      /\ CheckHolds(rec, live, seen.moved)
  BY <1>2 DEF SettingsIInv, ChecksHold
<1>7. LoneSave'
  BY <1>1, <1>3, AsideKeepsLone DEF Writes
<1> QED
  BY <1>1, <1>3, <1>4, <1>5, <1>6, <1>7, SettingsStep DEF SettingsTyped

LEMMA EnsurePreflightKeeps ==
    ASSUME SettingsIInv, NEW t \in Threads, NEW force \in BOOLEAN, H!EnsurePreflight(t, force)
    PROVE  SettingsIInv'
<1>0. thread' = [thread EXCEPT ![t] = [H!Idle EXCEPT !.pc = "gcc", !.fp = H!RunFingerprint]]
  BY DEF H!EnsurePreflight
<1>1. /\ thread[t].pc = "idle" /\ thread[t] \in Requests /\ SettingsTyped /\ ops' \in Nat
      /\ UNCHANGED <<live, llm, cached, file, bak, origin, problem, boots, seen>>
  BY DEF H!EnsurePreflight, H!Begin, SettingsIInv, SettingsTyped
<1>2. /\ H!RunFingerprint \in Prints /\ H!RunFingerprint.gcc = live.gcc
      /\ H!RunFingerprint.qemu = live.qemu /\ live.gcc # "none"
  BY <1>1 DEF H!RunFingerprint, Prints, SettingsTyped, H!Paths
<1>3. PICK rec : rec = [H!Idle EXCEPT !.pc = "gcc", !.fp = H!RunFingerprint]
  OBVIOUS
<1>4. /\ rec \in Requests /\ rec.pc = "gcc" /\ rec.fp = H!RunFingerprint /\ rec.ok = FALSE
      /\ rec.snap = H!Defaults
  BY <1>2, <1>3, ConstantsHold DEF Requests, Checks
<1>5. thread' = [thread EXCEPT ![t] = rec]
  BY <1>0, <1>3
<1>6. Disturbed' = Disturbed
  BY <1>1 DEF Disturbed
<1>7. /\ ResultHolds(cached.preflight, Disturbed) /\ ResultHolds(file.doc.preflight, Disturbed)
      /\ ResultHolds(rec.snap.preflight, Disturbed)
  BY <1>4, ConstantsHold, NothingHolds DEF SettingsIInv, ResultsHold
<1>8. \A u \in Threads : CheckHolds(thread[u], live, seen.moved)
  BY DEF SettingsIInv, ChecksHold
<1>9. CheckHolds(rec, live, seen.moved)
  BY <1>2, <1>4 DEF CheckHolds
<1>10. LoneSave'
  BY <1>1, <1>4, <1>5, AsideKeepsLone DEF Writes
<1> QED
  BY <1>1, <1>4, <1>5, <1>6, <1>7, <1>8, <1>9, <1>10, SettingsStep DEF SettingsTyped

(* A step of a check changes nothing but how far the check is.              *)
LEMMA CheckStep ==
    ASSUME SettingsIInv, NEW t \in Threads, NEW rec \in Requests,
           thread[t].pc \in Checks, rec.pc \in Checks, rec.snap = thread[t].snap,
           thread' = [thread EXCEPT ![t] = rec],
           UNCHANGED <<live, llm, cached, file, bak, origin, problem, ops, boots, seen>>,
           CheckHolds(rec, live, seen.moved)
    PROVE  SettingsIInv'
<1>1. SettingsTyped
  BY DEF SettingsIInv
<1>2. Disturbed' = Disturbed
  BY DEF Disturbed
<1>3. /\ ResultHolds(cached.preflight, Disturbed) /\ ResultHolds(file.doc.preflight, Disturbed)
      /\ ResultHolds(rec.snap.preflight, Disturbed)
  BY DEF SettingsIInv, ResultsHold
<1>4. \A u \in Threads : CheckHolds(thread[u], live, seen.moved)
  BY DEF SettingsIInv, ChecksHold
<1>5. LoneSave'
  BY AsideKeepsLone DEF Writes, Checks
<1>6. thread[t].pc # "off" /\ rec.pc # "off"
  BY DEF Checks
<1> QED
  BY <1>1, <1>2, <1>3, <1>4, <1>5, <1>6, SettingsStep DEF SettingsTyped

LEMMA CheckGccKeeps == ASSUME SettingsIInv, NEW t \in Threads, H!CheckGcc(t) PROVE SettingsIInv'
<1>1. /\ thread[t].pc = "gcc" /\ thread[t] \in Requests /\ SettingsTyped
      /\ UNCHANGED <<live, llm, cached, file, bak, origin, problem, ops, boots, seen>>
      /\ CheckHolds(thread[t], live, seen.moved)
  BY DEF H!CheckGcc, SettingsIInv, SettingsTyped, ChecksHold
<1>2. CASE thread' = [thread EXCEPT ![t].pc = "qemu", ![t].env.gcc = live.gcc]
  <2>1. PICK env : env = [thread[t].env EXCEPT !.gcc = live.gcc]
    OBVIOUS
  <2>2. env \in Prints /\ env.gcc = live.gcc
    BY <1>1, <2>1 DEF Requests, Prints, SettingsTyped, H!Paths
  <2>3. PICK rec : rec = [thread[t] EXCEPT !.pc = "qemu", !.env = env]
    OBVIOUS
  <2>4. /\ rec \in Requests /\ rec.pc = "qemu" /\ rec.env = env /\ rec.snap = thread[t].snap
        /\ rec.fp = thread[t].fp /\ rec.ok = thread[t].ok
    BY <1>1, <2>2, <2>3 DEF Requests, Checks
  <2>5. thread' = [thread EXCEPT ![t] = rec]
    BY <1>1, <1>2, <2>1, <2>3 DEF SettingsTyped, Requests
  <2>6. CheckHolds(rec, live, seen.moved)
    BY <1>1, <2>2, <2>4 DEF CheckHolds, Checks
  <2> QED
    BY <1>1, <2>4, <2>5, <2>6, CheckStep DEF Checks
<1>3. CASE H!Goto(t, "file")
  <2>1. PICK rec : rec = [thread[t] EXCEPT !.pc = "file"]
    OBVIOUS
  <2>2. /\ rec \in Requests /\ rec.pc = "file" /\ rec.env = thread[t].env
        /\ rec.snap = thread[t].snap /\ rec.fp = thread[t].fp /\ rec.ok = thread[t].ok
    BY <1>1, <2>1 DEF Requests, Checks
  <2>3. thread' = [thread EXCEPT ![t] = rec]
    BY <1>3, <2>1 DEF H!Goto
  <2>4. CheckHolds(rec, live, seen.moved)
    BY <1>1, <2>2 DEF CheckHolds, Checks
  <2> QED
    BY <1>1, <2>2, <2>3, <2>4, CheckStep DEF Checks
<1> QED
  BY <1>2, <1>3 DEF H!CheckGcc

LEMMA CheckQemuKeeps == ASSUME SettingsIInv, NEW t \in Threads, H!CheckQemu(t) PROVE SettingsIInv'
<1>1. /\ thread[t].pc = "qemu" /\ thread[t] \in Requests /\ SettingsTyped
      /\ UNCHANGED <<live, llm, cached, file, bak, origin, problem, ops, boots, seen>>
      /\ CheckHolds(thread[t], live, seen.moved)
  BY DEF H!CheckQemu, SettingsIInv, SettingsTyped, ChecksHold
<1>2. CASE thread' = [thread EXCEPT ![t].pc = "file", ![t].env.qemu = live.qemu, ![t].ok = TRUE]
  <2>1. PICK env : env = [thread[t].env EXCEPT !.qemu = live.qemu]
    OBVIOUS
  <2>2. env \in Prints /\ env.qemu = live.qemu /\ env.gcc = thread[t].env.gcc
    BY <1>1, <2>1 DEF Requests, Prints, SettingsTyped, H!Paths
  <2>3. PICK rec : rec = [thread[t] EXCEPT !.pc = "file", !.env = env, !.ok = TRUE]
    OBVIOUS
  <2>4. /\ rec \in Requests /\ rec.pc = "file" /\ rec.env = env /\ rec.snap = thread[t].snap
        /\ rec.fp = thread[t].fp
    BY <1>1, <2>2, <2>3 DEF Requests, Checks
  <2>5. thread' = [thread EXCEPT ![t] = rec]
    BY <1>1, <1>2, <2>1, <2>3 DEF SettingsTyped, Requests
  <2>6. CheckHolds(rec, live, seen.moved)
    BY <1>1, <2>2, <2>4 DEF CheckHolds, Checks
  <2> QED
    BY <1>1, <2>4, <2>5, <2>6, CheckStep DEF Checks
<1>3. CASE H!Goto(t, "file")
  <2>1. PICK rec : rec = [thread[t] EXCEPT !.pc = "file"]
    OBVIOUS
  <2>2. /\ rec \in Requests /\ rec.pc = "file" /\ rec.env = thread[t].env
        /\ rec.snap = thread[t].snap /\ rec.fp = thread[t].fp /\ rec.ok = thread[t].ok
    BY <1>1, <2>1 DEF Requests, Checks
  <2>3. thread' = [thread EXCEPT ![t] = rec]
    BY <1>3, <2>1 DEF H!Goto
  <2>4. CheckHolds(rec, live, seen.moved)
    BY <1>1, <2>2 DEF CheckHolds, Checks
  <2> QED
    BY <1>1, <2>2, <2>3, <2>4, CheckStep DEF Checks
<1> QED
  BY <1>2, <1>3 DEF H!CheckQemu

LEMMA LoadSettingsKeeps ==
    ASSUME SettingsIInv, NEW t \in Threads, NEW backed \in BOOLEAN, H!LoadSettings(t, backed)
    PROVE  SettingsIInv'
<1> DEFINE read == H!LoadText(file)
<1>1. /\ H!Off /\ SettingsTyped /\ UpAsAWhole /\ CopiedFirst /\ ResultsHold /\ H!FoundAreVersions
      /\ UNCHANGED <<file, origin, ops, boots>> /\ llm' = 0
  BY DEF H!LoadSettings, SettingsIInv
<1>2. /\ read.settings = IF file.version \in {"old", "current"} THEN file.doc ELSE H!Defaults
      /\ read.outcome = IF file.version = "torn" THEN "missing" ELSE file.version
  BY DEF H!LoadText
<1>3. /\ problem' = (read.outcome = "newer")
      /\ IF read.outcome = "old" THEN H!BackUp(backed) ELSE backed /\ UNCHANGED <<bak, seen>>
      /\ cached' = read.settings
      /\ live' = [gcc |-> read.settings.gcc, qemu |-> read.settings.qemu]
      /\ thread' = [u \in Threads |->
                      IF u = t /\ read.outcome = "old" THEN SnapshotNext ELSE H!Idle]
  BY DEF H!LoadSettings, SnapshotNext
<1> HIDE DEF read
<1>4. /\ cached' \in Docs /\ live' \in [gcc : H!Paths, qemu : H!Paths]
      /\ live'.gcc = cached'.gcc /\ live'.qemu = cached'.qemu
  <2>1. read.settings \in Docs
    BY <1>1, <1>2, ConstantsHold DEF SettingsTyped
  <2> QED
    BY <1>3, <2>1 DEF Docs
<1>5. /\ \A u \in Threads : thread'[u] \in Requests /\ thread'[u].snap = H!Defaults
      /\ \A u \in Threads : thread'[u].pc \in {"snapshot", "idle"}
      /\ \A u \in Threads \ {t} : thread'[u].pc = "idle"
      /\ thread'[t].pc = IF read.outcome = "old" THEN "snapshot" ELSE "idle"
  BY <1>3, ConstantsHold, SnapshotNextHolds
<1>6. H!Original' = H!Original
  BY <1>1 DEF H!Original
<1>7. /\ seen' \in [overlap : BOOLEAN, failed : BOOLEAN, moved : BOOLEAN, rebound : BOOLEAN]
      /\ seen'.overlap = seen.overlap /\ (seen.failed => seen'.failed)
      /\ seen'.moved = seen.moved /\ seen'.rebound = seen.rebound
  BY <1>1, <1>3 DEF H!BackUp, SettingsTyped
<1>8. SettingsTyped'
  <2>1. thread' \in [Threads -> Requests]
    BY <1>3, ConstantsHold, SnapshotNextHolds
  <2>2. problem' \in BOOLEAN
    BY <1>3
  <2> QED
    BY <1>1, <1>4, <1>6, <1>7, <2>1, <2>2 DEF SettingsTyped
<1>9. ~H!Off' /\ UpAsAWhole'
  BY <1>5 DEF H!Off, UpAsAWhole
<1>10. CopiedFirst'
  <2> SUFFICES ASSUME origin = "old", ~seen'.failed PROVE bak' = H!Original
    BY <1>1, <1>6 DEF CopiedFirst
  <2>1. bak = H!Original \/ file = H!Original
    BY <1>1, <1>7 DEF CopiedFirst
  <2>2. CASE read.outcome = "old"
    <3>1. backed /\ bak' = file
      BY <1>1, <1>3, <2>2 DEF H!BackUp, SettingsTyped
    <3>2. file = H!Original
      BY <1>1, <1>2, <2>2 DEF SettingsTyped
    <3> QED
      BY <3>1, <3>2
  <2>3. CASE read.outcome # "old"
    <3>1. file # H!Original
      BY <1>1, <1>2, <2>3, OriginalHolds
    <3> QED
      BY <1>3, <2>1, <2>3, <3>1
  <2> QED
    BY <2>2, <2>3
<1>11. ResultsHold'
  <2>1. Disturbed' = Disturbed
    BY <1>7 DEF Disturbed
  <2>2. ResultHolds(cached'.preflight, Disturbed)
    BY <1>1, <1>2, <1>3, ConstantsHold, NothingHolds DEF ResultsHold
  <2>3. \A u \in Threads : ResultHolds(thread'[u].snap.preflight, Disturbed)
    BY <1>5, ConstantsHold, NothingHolds
  <2> QED
    BY <1>1, <2>1, <2>2, <2>3 DEF ResultsHold
<1>12. ChecksHold'
  <2>1. ASSUME NEW u \in Threads PROVE CheckHolds(thread'[u], live', seen'.moved)
    BY <1>5 DEF CheckHolds, Checks
  <2> QED
    BY <2>1 DEF ChecksHold
<1>13. LoneSave'
  <2> SUFFICES ASSUME Undisturbed'
               PROVE  /\ SaveIsKnown(thread[t])'
                      /\ \A u \in Threads \ {t} : thread'[u].pc \notin Writes
    BY DEF LoneSave
  <2>1. \A u \in Threads \ {t} : thread'[u].pc \notin Writes
    BY <1>5 DEF Writes
  <2>2. file = H!Original
    BY <1>1 DEF UpAsAWhole, Undisturbed
  <2>3. InStep'
    BY <1>4 DEF InStep
  <2>4. CASE read.outcome = "old"
    BY <1>5, <2>1, <2>3, <2>4 DEF SaveIsKnown, H!Writing
  <2>5. CASE read.outcome # "old"
    <3>1. read.outcome # "newer"
      BY <1>3 DEF Undisturbed
    <3>2. file.version = "current"
      BY <1>1, <1>2, <2>2, <2>5, <3>1, OriginalHolds DEF SettingsTyped
    <3>3. cached' = file.doc
      BY <1>2, <1>3, <3>2
    <3>4. OnDisk'
      BY <1>1, <1>6, <2>2, <3>3 DEF OnDisk
    <3> QED
      BY <1>5, <2>1, <2>3, <2>5, <3>4 DEF SaveIsKnown
  <2> QED
    BY <2>4, <2>5
<1>14. H!FoundAreVersions'
  BY <1>1 DEF H!FoundAreVersions
<1> QED
  BY <1>8, <1>9, <1>10, <1>11, <1>12, <1>13, <1>14 DEF SettingsIInv

LEMMA OffHolds ==
    LET down == [H!Idle EXCEPT !.pc = "off"] IN
    down \in Requests /\ down.pc = "off" /\ down.snap = H!Defaults
BY ConstantsHold DEF Requests

LEMMA DieKeeps == ASSUME SettingsIInv, H!Die PROVE SettingsIInv'
<1> DEFINE down == [H!Idle EXCEPT !.pc = "off"]
<1>1. /\ ~H!Off /\ SettingsTyped /\ CopiedFirst /\ ResultsHold /\ H!FoundAreVersions
      /\ UNCHANGED <<live, llm, cached, file, bak, origin, problem, ops, seen>>
      /\ boots' = boots + 1 /\ thread' = [t \in Threads |-> down]
  BY DEF H!Die, SettingsIInv
<1>2. down \in Requests /\ down.pc = "off" /\ down.snap = H!Defaults
  BY OffHolds
<1> HIDE DEF down
<1>3. /\ thread' \in [Threads -> Requests]
      /\ \A t \in Threads : thread'[t].pc = "off" /\ thread'[t].snap = H!Defaults
  BY <1>1, <1>2
<1>4. H!Original' = H!Original
  BY <1>1 DEF H!Original
<1>5. boots' \in Nat /\ boots' # 0
  BY <1>1 DEF SettingsTyped
<1>6. SettingsTyped'
  BY <1>1, <1>3, <1>4, <1>5 DEF SettingsTyped
<1>7. H!Off' /\ UpAsAWhole'
  BY <1>3, <1>5 DEF H!Off, UpAsAWhole
<1>8. CopiedFirst'
  BY <1>1, <1>4 DEF CopiedFirst
<1>9. ResultsHold'
  <2>1. Disturbed' = Disturbed
    BY <1>1 DEF Disturbed
  <2>2. \A t \in Threads : ResultHolds(thread'[t].snap.preflight, Disturbed)
    BY <1>3, ConstantsHold, NothingHolds
  <2> QED
    BY <1>1, <2>1, <2>2 DEF ResultsHold
<1>10. ChecksHold'
  <2>1. ASSUME NEW t \in Threads PROVE CheckHolds(thread'[t], live', seen'.moved)
    BY <1>3 DEF CheckHolds, Checks
  <2> QED
    BY <2>1 DEF ChecksHold
<1>11. LoneSave'
  BY <1>7 DEF LoneSave
<1>12. H!FoundAreVersions'
  BY <1>1 DEF H!FoundAreVersions
<1> QED
  BY <1>6, <1>7, <1>8, <1>9, <1>10, <1>11, <1>12 DEF SettingsIInv

LEMMA SettingsInit == ASSUME H!FoundAreVersions, H!Init PROVE SettingsIInv
<1> DEFINE down == [H!Idle EXCEPT !.pc = "off"]
<1>1. /\ live = [gcc |-> "auto", qemu |-> "auto"] /\ llm = 0 /\ cached = H!Defaults
      /\ origin \in Found /\ file = H!Original /\ bak = H!Torn
      /\ thread = [t \in Threads |-> down]
      /\ problem = FALSE /\ ops = 0 /\ boots = 0
      /\ seen = [overlap |-> FALSE, failed |-> FALSE, moved |-> FALSE, rebound |-> FALSE]
  BY DEF H!Init
<1>2. down \in Requests /\ down.pc = "off" /\ down.snap = H!Defaults
  BY OffHolds
<1> HIDE DEF down
<1>3. /\ thread \in [Threads -> Requests]
      /\ \A t \in Threads : thread[t].pc = "off" /\ thread[t].snap = H!Defaults
  BY <1>1, <1>2
<1>4. SettingsTyped /\ file.doc.preflight = H!NoResult
  <2>1. origin \in {"old", "current", "newer"}
    BY <1>1 DEF H!FoundAreVersions
  <2>2. /\ file \in [version : {"old", "current", "newer", "torn"}, doc : Docs]
        /\ file.doc.preflight = H!NoResult
    <3> DEFINE doc == [gcc |-> "manual", qemu |-> "auto", theme |-> 1, preflight |-> H!NoResult]
    <3>1. doc \in Docs /\ doc.preflight = H!NoResult
      BY ConstantsHold DEF Docs, H!Paths
    <3>2. file = [version |-> origin, doc |-> doc]
      BY <1>1 DEF H!Original
    <3> HIDE DEF doc
    <3> QED
      BY <2>1, <3>1, <3>2
  <2>3. live \in [gcc : H!Paths, qemu : H!Paths]
    BY <1>1 DEF H!Paths
  <2>4. seen \in [overlap : BOOLEAN, failed : BOOLEAN, moved : BOOLEAN, rebound : BOOLEAN]
    BY <1>1
  <2>5. cached \in Docs /\ file = H!Original
    BY <1>1, ConstantsHold
  <2>6. llm \in 0 .. 1 /\ ops \in Nat /\ boots \in Nat
    BY <1>1
  <2>7. problem \in BOOLEAN
    BY <1>1
  <2> QED
    BY <1>3, <2>1, <2>2, <2>3, <2>4, <2>5, <2>6, <2>7 DEF SettingsTyped
<1>5. H!Off
  BY <1>3 DEF H!Off
<1>6. UpAsAWhole /\ CopiedFirst /\ LoneSave
  BY <1>1, <1>5 DEF UpAsAWhole, CopiedFirst, LoneSave
<1>7. ResultsHold
  BY <1>1, <1>3, <1>4, ConstantsHold, NothingHolds DEF ResultsHold
<1>8. ChecksHold
  BY <1>3 DEF ChecksHold, CheckHolds, Checks
<1> QED
  BY <1>4, <1>6, <1>7, <1>8 DEF SettingsIInv

LEMMA SettingsNext == ASSUME SettingsIInv, [H!Next]_H!vars PROVE SettingsIInv'
<1>1. ASSUME NEW t \in Threads, NEW which \in {"gcc", "qemu"}, NEW value \in H!Paths,
             H!SetPath(t, which, value)
      PROVE  SettingsIInv'
  BY <1>1, SetPathKeeps
<1>2. ASSUME NEW t \in Threads, NEW backed \in BOOLEAN, H!LoadSettings(t, backed)
      PROVE  SettingsIInv'
  BY <1>2, LoadSettingsKeeps
<1>3. ASSUME NEW t \in Threads, NEW value \in 0 .. 1,
             H!SetPreference(t, value) \/ H!SetModel(t, value)
      PROVE  SettingsIInv'
  BY <1>3, SetPreferenceKeeps, SetModelKeeps
<1>4. ASSUME NEW t \in Threads, NEW force \in BOOLEAN, H!EnsurePreflight(t, force)
      PROVE  SettingsIInv'
  BY <1>4, EnsurePreflightKeeps
<1>5. ASSUME NEW t \in Threads,
             \/ H!Snapshot(t) \/ H!Truncate(t) \/ H!WriteOut(t)
             \/ H!SetPathCaches(t) \/ H!ClearPreflight(t)
             \/ H!CheckGcc(t) \/ H!CheckQemu(t) \/ H!FileResult(t) \/ H!Acknowledge(t)
      PROVE  SettingsIInv'
  BY <1>5, SnapshotKeeps, TruncateKeeps, WriteOutKeeps, SetPathCachesKeeps, ClearPreflightKeeps,
     CheckGccKeeps, CheckQemuKeeps, FileResultKeeps, AcknowledgeKeeps
<1>6. CASE UNCHANGED H!vars
  <2>1. UNCHANGED <<live, llm, cached, file, bak, origin, thread, problem, ops, boots, seen>>
    BY <1>6 DEF H!vars
  <2>2. (H!Original' = H!Original) /\ (H!Off' <=> H!Off) /\ Disturbed' = Disturbed
    BY <2>1 DEF H!Original, H!Off, Disturbed
  <2>3. SettingsTyped' /\ UpAsAWhole' /\ CopiedFirst' /\ ResultsHold' /\ ChecksHold'
    BY <2>1, <2>2 DEF SettingsIInv, SettingsTyped, UpAsAWhole, CopiedFirst, ResultsHold, ChecksHold
  <2>4. LoneSave'
    BY <2>1, <2>2 DEF SettingsIInv, LoneSave, Undisturbed, SaveIsKnown, InStep, OnDisk, OneSlotAhead
  <2> QED
    BY <2>3, <2>4 DEF SettingsIInv, H!FoundAreVersions
<1> QED
  BY <1>1, <1>2, <1>3, <1>4, <1>5, <1>6, DieKeeps DEF H!Next

LEMMA SettingsSafe == ASSUME SettingsIInv PROVE H!SettingsInv
<1>1. SettingsTyped /\ UpAsAWhole /\ CopiedFirst /\ ResultsHold /\ LoneSave
  BY DEF SettingsIInv
<1>2. H!AloneDiskIsCurrent
  <2> SUFFICES ASSUME H!Quiet, ~seen.overlap, ~seen.failed, ops > 0, ~problem, boots = 0
               PROVE  /\ \/ file = [version |-> "current", doc |-> cached]
                         \/ file = H!Original /\ cached = H!Original.doc
                      /\ live = [gcc |-> cached.gcc, qemu |-> cached.qemu]
    BY DEF H!AloneDiskIsCurrent
  <2>1. ~H!Off
    BY <1>1 DEF UpAsAWhole
  <2>2. PICK t \in Threads : SaveIsKnown(thread[t])
    BY <1>1, <2>1 DEF LoneSave, Undisturbed
  <2>3. thread[t].pc = "idle"
    BY DEF H!Quiet
  <2>4. InStep /\ OnDisk
    BY <2>2, <2>3 DEF SaveIsKnown, H!Writing
  <2>5. live = [gcc |-> live.gcc, qemu |-> live.qemu]
    BY <1>1 DEF SettingsTyped
  <2> QED
    BY <2>4, <2>5 DEF InStep, OnDisk
<1>3. H!OriginalIsKept
  BY <1>1 DEF H!OriginalIsKept, CopiedFirst
<1>4. H!ShownPassIsItsOwn
  <2> SUFFICES ASSUME H!Shown.ok, ~seen.moved, ~seen.rebound PROVE H!OwnPass
    BY DEF H!ShownPassIsItsOwn
  <2>1. /\ H!Shown = cached.preflight /\ cached.preflight.of = H!RunFingerprint
    BY ConstantsHold DEF H!Shown
  <2>2. ResultHolds(cached.preflight, FALSE)
    BY <1>1 DEF ResultsHold, Disturbed, SettingsTyped
  <2>3. H!RunFingerprint.gcc = live.gcc /\ H!RunFingerprint.qemu = live.qemu
    BY DEF H!RunFingerprint
  <2> QED
    BY <2>1, <2>2, <2>3 DEF ResultHolds, H!OwnPass
<1> QED
  BY <1>2, <1>3, <1>4 DEF H!SettingsInv

(* Request by request the file is what the node works with, whoever dies    *)
(* and however often; a file of an older build is copied before it is       *)
(* replaced; and a pass is shown for the paths it was run on, as long as no *)
(* path moved under a check and nobody acknowledged another's result        *)
(* (save_settings, load_settings, run_preflight_now, acknowledge_preflight).*)
THEOREM SettingsSettle == ASSUME H!FoundAreVersions PROVE H!Spec => []H!SettingsInv
<1>1. H!Init => SettingsIInv
  BY SettingsInit
<1>2. SettingsIInv /\ [H!Next]_H!vars => SettingsIInv'
  BY SettingsNext
<1>3. SettingsIInv => H!SettingsInv
  BY SettingsSafe
<1> QED
  BY <1>1, <1>2, <1>3, PTL DEF H!Spec
=============================================================================
