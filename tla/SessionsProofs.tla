--------------------------- MODULE SessionsProofs ---------------------------
(***************************************************************************)
(* That conversations stay where they belong (ConversationsInv), for any   *)
(* executors, ids, concurrent runs and bounds; and, of the other stores of *)
(* the host, that an export is whole (Backup: PackageInv) and that a key   *)
(* stays with its owner (LlmConfig: KeysInv), and of the agent that its    *)
(* turns are whole (AgentLoop: LoopInv), each for an instance of the       *)
(* component with constants and variables of its own.                      *)
(***************************************************************************)
EXTENDS Sessions, Integers, FiniteSets, SequenceTheorems, TLAPS

(***************************************************************************)
(* The inductive invariant.  An id names one session for good (UsedOnce),  *)
(* so a pointer or a run that holds one cannot come to name another's; and *)
(* while the old version is stamped nothing but the migration has touched  *)
(* the file (OldIsUntouched).                                              *)
(***************************************************************************)
OldRows == [i \in Ids |-> IF i = Old THEN <<Msg(0)>> ELSE <<>>]

Stages == {"none", "forget", "create", "load", "ask", "loop", "persist"}
Fields == {"at", "id", "pre", "conv", "made", "iters"}
Holding(t) == run[t].at \in {"load", "ask", "loop", "persist"}

Shape ==
    /\ DOMAIN owner = Ids /\ DOMAIN rows = Ids /\ used \subseteq Ids
    /\ current \in [Executors -> used \cup {NoId}]
    /\ DOMAIN run = Threads
    /\ \A t \in Threads : DOMAIN run[t] = Fields /\ run[t].at \in Stages
    /\ disk \in [column : BOOLEAN, version : {0, 1}, bak : {NoBak, OldRows}]
    /\ boot \in {"closed", "copied", "altered", "open"}

UsedOnce ==
    /\ \A i \in Ids : Live(i) => i \in used
    /\ \A t \in Threads : Holding(t) => run[t].id \in used

RunsAreTheNodes == \A t \in Threads :
    Holding(t) /\ Live(run[t].id) => Belongs(run[t].id, Node)

OldIsUntouched ==
    /\ boot = "altered" => disk.column
    /\ boot = "open" => disk.version = 1
    /\ disk.version = 0 => rows = OldRows
    /\ boot # "open" => \A t \in Threads : run[t].at = "none"

SInv == /\ Shape /\ UsedOnce /\ RunsAreTheNodes /\ OldIsUntouched
        /\ CurrentIsOwn /\ MessagesHaveASession /\ StampedMeansMigrated

(* The invariant says all that ConversationsInv says.                      *)
LEMMA SInvImplies == SInv => ConversationsInv
BY DEF SInv, Shape, ConversationsInv, BackupIsOld, OldRows, CurrentIsOwn,
       MessagesHaveASession, StampedMeansMigrated

(* The process meets the file of an older build, untouched.                *)
LEMMA InitSessions == Init => SInv
BY SessionsAssumption DEF Init, SInv, Shape, UsedOnce, RunsAreTheNodes, OldIsUntouched,
       CurrentIsOwn, MessagesHaveASession, StampedMeansMigrated, NoRun, NoBak, OldRows,
       Stages, Fields, Holding, Live, Belongs, Absent, Unnamed

(* The steps of an open touch the file's version, column and copy only.    *)
LEMMA OpeningKeeps ==
    ASSUME SInv, OpenCopies \/ OpenAlters \/ OpenStamps
    PROVE  SInv'
<1> USE DEF SInv, Shape, OldIsUntouched, StampedMeansMigrated
<1>1. UNCHANGED <<owner, rows, current, used, run>>
  BY DEF OpenCopies, OpenAlters, OpenStamps
<1>2. disk' \in [column : BOOLEAN, version : {0, 1}, bak : {NoBak, OldRows}]
  <2>1. CASE OpenCopies
    <3>1. disk.version < 1 => rows = OldRows
      OBVIOUS
    <3>2. disk' = disk \/ (rows = OldRows /\ disk' = [disk EXCEPT !.bak = OldRows])
      BY <2>1, <3>1 DEF OpenCopies
    <3> QED BY <3>2
  <2>2. CASE OpenAlters
    BY <2>2 DEF OpenAlters
  <2>3. CASE OpenStamps
    BY <2>3 DEF OpenStamps
  <2> QED BY <2>1, <2>2, <2>3
<1>3. Shape'
  BY <1>1, <1>2 DEF OpenCopies, OpenAlters, OpenStamps
<1>4. UsedOnce' /\ RunsAreTheNodes' /\ CurrentIsOwn' /\ MessagesHaveASession'
  BY <1>1 DEF UsedOnce, RunsAreTheNodes, CurrentIsOwn, MessagesHaveASession, Holding, Live, Belongs
<1>5. OldIsUntouched' /\ StampedMeansMigrated'
  BY <1>1 DEF OpenCopies, OpenAlters, OpenStamps
<1> QED BY <1>3, <1>4, <1>5

(* A crash forgets the pointers and the runs.                              *)
LEMMA CrashKeeps == ASSUME SInv, Crash PROVE SInv'
BY SessionsAssumption DEF Crash, SInv, Shape, UsedOnce, RunsAreTheNodes, OldIsUntouched,
       CurrentIsOwn, MessagesHaveASession, StampedMeansMigrated, NoRun, Stages, Fields,
       Holding, Live, Belongs

(* A new session takes an id nobody holds; a run that made it holds it.    *)
LEMMA MadeKeeps ==
    ASSUME SInv, NEW id, NEW e \in Executors, Made(id, e),
           boot = "open",
           \/ run' = run
           \/ \E t \in Threads : e = Node /\ run' = [run EXCEPT ![t].at = "load", ![t].id = id]
    PROVE  SInv'
<1> USE DEF SInv, Shape, Stages, Fields
<1>0. id \in Ids /\ id \notin used /\ id # NoId /\ disk.version = 1
  BY SessionsAssumption DEF Made, OldIsUntouched
<1>1. Shape'
  <2>1. DOMAIN owner' = Ids /\ DOMAIN rows' = Ids /\ used' \subseteq Ids
    BY <1>0 DEF Made
  <2>2. current' \in [Executors -> used' \cup {NoId}]
    BY <1>0 DEF Made
  <2>3. DOMAIN run' = Threads /\ \A t \in Threads : DOMAIN run'[t] = Fields /\ run'[t].at \in Stages
    <3>1. CASE run' = run
      BY <3>1
    <3>2. ASSUME NEW t \in Threads, run' = [run EXCEPT ![t].at = "load", ![t].id = id]
          PROVE  DOMAIN run' = Threads /\ \A u \in Threads : DOMAIN run'[u] = Fields /\ run'[u].at \in Stages
      <4>1. DOMAIN run' = Threads /\ \A u \in Threads \ {t} : run'[u] = run[u]
        BY <3>2
      <4>2. DOMAIN run'[t] = Fields /\ run'[t].at = "load"
        BY <3>2
      <4> QED BY <4>1, <4>2
    <3> QED BY <3>1, <3>2
  <2> QED BY <2>1, <2>2, <2>3 DEF Made
<1>2. \A i \in Ids : owner'[i] = IF i = id THEN e ELSE owner[i]
  BY <1>0 DEF Made
<1>3. \A t \in Threads : Holding(t)' => \/ Holding(t) /\ run'[t].id = run[t].id
                                        \/ e = Node /\ run'[t].id = id
  BY DEF Holding
<1>4. UsedOnce'
  BY <1>0, <1>2, <1>3 DEF Made, UsedOnce, Live
<1>5. RunsAreTheNodes'
  BY <1>0, <1>2, <1>3 DEF UsedOnce, RunsAreTheNodes, Live, Belongs
<1>6. CurrentIsOwn'
  BY <1>0, <1>2 DEF Made, CurrentIsOwn, Live, Belongs
<1>7. MessagesHaveASession'
  BY <1>0, <1>2 DEF Made, UsedOnce, MessagesHaveASession, Live, Belongs
<1>8. OldIsUntouched' /\ StampedMeansMigrated'
  BY <1>0 DEF Made, OldIsUntouched, StampedMeansMigrated
<1> QED BY <1>1, <1>4, <1>5, <1>6, <1>7, <1>8

(* Deleting sessions takes their messages with them.                       *)
LEMMA DeletingKeeps ==
    ASSUME SInv, boot = "open", NEW gone \in SUBSET Ids,
           owner' = [i \in Ids |-> IF i \in gone THEN Absent ELSE owner[i]],
           rows' = [i \in Ids |-> IF i \in gone THEN <<>> ELSE rows[i]],
           current' \in [Executors -> used \cup {NoId}],
           \A e \in Executors : current'[e] \in {current[e], NoId},
           UNCHANGED <<disk, boot, used, boots, run, runs>>
    PROVE  SInv'
BY DEF SInv, Shape, UsedOnce, RunsAreTheNodes, OldIsUntouched, CurrentIsOwn,
       MessagesHaveASession, StampedMeansMigrated, Holding, Live, Belongs

(* A step of a run that keeps the tables keeps the invariant, if the       *)
(* session it goes on with was its own or is one of the node's.            *)
LEMMA RunGoesOn ==
    ASSUME SInv, NEW t \in Threads, run[t].at # "none" \/ boot = "open",
           UNCHANGED <<owner, rows, disk, used, boot>>,
           current' \in [Executors -> used \cup {NoId}],
           \A e \in Executors : current'[e] \in {current[e], NoId},
           DOMAIN run' = Threads, \A u \in Threads \ {t} : run'[u] = run[u],
           DOMAIN run'[t] = Fields, run'[t].at \in Stages,
           Holding(t)' => /\ run'[t].id \in used
                          /\ Live(run'[t].id) => Belongs(run'[t].id, Node)
    PROVE  SInv'
<1>1. Shape'
  BY DEF SInv, Shape
<1>2. UsedOnce' /\ RunsAreTheNodes'
  BY DEF SInv, Shape, UsedOnce, RunsAreTheNodes, Holding, Live, Belongs
<1>3. OldIsUntouched' /\ StampedMeansMigrated'
  BY DEF SInv, Shape, OldIsUntouched, StampedMeansMigrated
<1>4. CurrentIsOwn' /\ MessagesHaveASession'
  BY DEF SInv, Shape, CurrentIsOwn, MessagesHaveASession, Live, Belongs
<1> QED BY <1>1, <1>2, <1>3, <1>4 DEF SInv

(* What a run persists goes to a session of the node that is there.        *)
LEMMA WritingKeeps ==
    ASSUME SInv, NEW t \in Threads, run[t].at = "persist",
           Live(run[t].id), NEW written, rows' = [rows EXCEPT ![run[t].id] = written],
           UNCHANGED <<owner, disk, used>>,
           \/ UNCHANGED <<boot, current>> /\ run' = [run EXCEPT ![t] = NoRun]
           \/ /\ boot' = "closed" /\ current' = [e \in Executors |-> NoId]
              /\ run' = [u \in Threads |-> NoRun]
    PROVE  SInv'
<1> USE DEF SInv
<1>1. disk.version = 1 /\ boot = "open"
  BY DEF Shape, OldIsUntouched
<1>2. \A u \in Threads : run'[u] = run[u] \/ run'[u] = NoRun
  BY DEF Shape
<1>3. Shape'
  BY <1>2 DEF Shape, NoRun, Fields, Stages
<1>4. UsedOnce' /\ RunsAreTheNodes'
  BY <1>2 DEF Shape, UsedOnce, RunsAreTheNodes, Holding, Live, Belongs, NoRun
<1>5. OldIsUntouched' /\ StampedMeansMigrated'
  BY <1>1, <1>2 DEF OldIsUntouched, StampedMeansMigrated, NoRun
<1>6. CurrentIsOwn'
  BY DEF CurrentIsOwn, Live, Belongs
<1>7. MessagesHaveASession'
  BY DEF Shape, MessagesHaveASession, RunsAreTheNodes, UsedOnce, Holding, Live, Belongs
<1> QED BY <1>3, <1>4, <1>5, <1>6, <1>7

(* Every step of a run, one action after the other.                        *)
LEMMA RunStepKeeps ==
    ASSUME SInv, NEW t \in Threads, RunStep(t)
    PROVE  SInv'
<1> USE DEF Store
<1>0. /\ DOMAIN run = Threads /\ DOMAIN run[t] = Fields
      /\ Holding(t) => run[t].id \in used /\ (Live(run[t].id) => Belongs(run[t].id, Node))
      /\ current \in [Executors -> used \cup {NoId}]
      /\ Node \in Executors
  BY SessionsAssumption DEF SInv, Shape, UsedOnce, RunsAreTheNodes
<1>1. CASE RunEnsures(t)
  <2> DEFINE id == current[Node]
             at == IF id = NoId THEN "create" ELSE IF Live(id) /\ Belongs(id, Node) THEN "load"
                                              ELSE "forget"
  <2>1. run' = [run EXCEPT ![t] = [NoRun EXCEPT !.at = at, !.id = id]]
    BY <1>1 DEF RunEnsures
  <2>2. run'[t].at = at /\ run'[t].id = id /\ DOMAIN run'[t] = Fields
    BY <1>0, <2>1 DEF NoRun, Fields
  <2>3. Holding(t)' => run'[t].id \in used /\ (Live(run'[t].id) => Belongs(run'[t].id, Node))
    BY <1>0, <2>2 DEF Holding
  <2>4. DOMAIN run' = Threads /\ \A u \in Threads \ {t} : run'[u] = run[u]
    BY <1>0, <2>1
  <2>5. UNCHANGED <<owner, rows, disk, used, boot, current>> /\ boot = "open"
    BY <1>1 DEF RunEnsures
  <2>6. run'[t].at \in Stages
    BY <2>2 DEF Stages
  <2> HIDE DEF at, id
  <2> QED BY <1>0, <2>2, <2>3, <2>4, <2>5, <2>6, RunGoesOn
<1>2. CASE RunForgets(t)
  <2>1. run' = [run EXCEPT ![t].at = "create"] /\ run[t].at = "forget"
    BY <1>2 DEF RunForgets
  <2>2. DOMAIN run'[t] = Fields /\ run'[t].at = "create"
    BY <1>0, <2>1 DEF Fields
  <2>3. current' = [current EXCEPT ![Node] = NoId] /\ UNCHANGED <<owner, rows, disk, used, boot>>
    BY <1>2 DEF RunForgets
  <2>4. current' \in [Executors -> used \cup {NoId}]
    BY <1>0, <2>3
  <2>5. \A e \in Executors : current'[e] \in {current[e], NoId}
    BY <1>0, <2>3
  <2>6. DOMAIN run' = Threads /\ \A u \in Threads \ {t} : run'[u] = run[u]
    BY <1>0, <2>1
  <2> QED BY <2>1, <2>2, <2>3, <2>4, <2>5, <2>6, RunGoesOn DEF Holding, Stages
<1>3. CASE RunCreates(t)
  <2>1. PICK id \in Ids : Made(id, Node) /\ run' = [run EXCEPT ![t].at = "load", ![t].id = id]
    BY <1>3 DEF RunCreates
  <2>2. boot = "open"
    BY <1>3 DEF RunCreates, SInv, Shape, OldIsUntouched
  <2> QED BY <1>0, <2>1, <2>2, MadeKeeps
<1>4. CASE RunLoads(t) \/ RunAsks(t) \/ RunIterates(t) \/ RunStops(t)
  <2>1. /\ Holding(t) /\ UNCHANGED <<owner, rows, disk, used, boot, current>>
        /\ DOMAIN run' = Threads /\ \A u \in Threads \ {t} : run'[u] = run[u]
    BY <1>0, <1>4 DEF RunLoads, RunAsks, RunIterates, RunStops, Holding
  <2>2. DOMAIN run'[t] = Fields /\ run'[t].id = run[t].id /\ run'[t].at \in {"ask", "loop", "persist"}
    <3>1. CASE RunLoads(t)
      BY <1>0, <3>1 DEF RunLoads, Fields
    <3>2. CASE RunAsks(t)
      BY <1>0, <3>2 DEF RunAsks, Fields
    <3>3. CASE RunIterates(t)
      <4>1. PICK n \in 1 .. 2 :
              LET new == [k \in 1 .. n |-> Numbered(t, k)]
              IN  run' = [run EXCEPT ![t].conv = TrimContext(@) \o new, ![t].made = @ \o new,
                                     ![t].iters = @ + 1,
                                     ![t].at = IF n = 1 THEN "persist" ELSE "loop"]
        BY <3>3 DEF RunIterates
      <4> DEFINE new   == [k \in 1 .. n |-> Numbered(t, k)]
                 one   == [run EXCEPT ![t].conv = TrimContext(@) \o new]
                 two   == [one EXCEPT ![t].made = @ \o new]
                 three == [two EXCEPT ![t].iters = @ + 1]
                 four  == [three EXCEPT ![t].at = IF n = 1 THEN "persist" ELSE "loop"]
      <4>2. run' = four
        BY <4>1
      <4> HIDE DEF new
      <4>3. DOMAIN one = Threads /\ DOMAIN one[t] = Fields /\ one[t].id = run[t].id
        BY <1>0 DEF Fields
      <4> HIDE DEF one
      <4>4. DOMAIN two = Threads /\ DOMAIN two[t] = Fields /\ two[t].id = run[t].id
        BY <4>3 DEF Fields
      <4> HIDE DEF two
      <4>5. DOMAIN three = Threads /\ DOMAIN three[t] = Fields /\ three[t].id = run[t].id
        BY <4>4 DEF Fields
      <4> HIDE DEF three
      <4>6. DOMAIN four[t] = Fields /\ four[t].id = run[t].id /\ four[t].at \in {"persist", "loop"}
        BY <4>5 DEF Fields
      <4> QED BY <4>2, <4>6
    <3>4. CASE RunStops(t)
      BY <1>0, <3>4 DEF RunStops, Fields
    <3> QED BY <1>4, <3>1, <3>2, <3>3, <3>4
  <2> QED BY <1>0, <2>1, <2>2, RunGoesOn DEF Holding, Stages
<1>5. CASE RunPersists(t)
  <2>1. CASE Live(run[t].id)
    BY <1>5, <2>1, WritingKeeps DEF RunPersists
  <2>2. CASE ~Live(run[t].id)
    <3>1. run' = [run EXCEPT ![t] = NoRun] /\ run[t].at = "persist"
          /\ UNCHANGED <<owner, rows, disk, used, boot, current>>
      BY <1>5, <2>2 DEF RunPersists
    <3>2. /\ DOMAIN run' = Threads /\ \A u \in Threads \ {t} : run'[u] = run[u]
          /\ DOMAIN run'[t] = Fields /\ run'[t].at = "none"
      BY <1>0, <3>1 DEF NoRun, Fields
    <3> QED BY <1>0, <3>1, <3>2, RunGoesOn DEF Holding, Stages
  <2> QED BY <2>1, <2>2
<1>6. CASE PersistCrashes(t)
  BY <1>6, WritingKeeps DEF PersistCrashes
<1> QED BY <1>1, <1>2, <1>3, <1>4, <1>5, <1>6 DEF RunStep

(* What an interface does with sessions.                                   *)
LEMMA InterfaceKeeps ==
    ASSUME SInv, NEW e \in Executors,
           \/ ClearAll(e)
           \/ \E id \in Ids : CreateSession(id, e) \/ OpenSession(id, e) \/ DeleteSession(id, e)
    PROVE  SInv'
<1>0. /\ DOMAIN owner = Ids /\ DOMAIN rows = Ids
      /\ current \in [Executors -> used \cup {NoId}]
  BY DEF SInv, Shape
<1>1. CASE ClearAll(e)
  <2> DEFINE gone == {i \in Ids : Live(i) /\ Belongs(i, e)}
  <2>1. /\ owner' = [i \in Ids |-> IF i \in gone THEN Absent ELSE owner[i]]
        /\ rows' = [i \in Ids |-> IF i \in gone THEN <<>> ELSE rows[i]]
        /\ current' = [current EXCEPT ![e] = NoId]
        /\ boot = "open" /\ UNCHANGED <<disk, boot, used, boots, run, runs>>
    BY <1>1 DEF ClearAll
  <2>2. /\ current' \in [Executors -> used \cup {NoId}]
        /\ \A x \in Executors : current'[x] \in {current[x], NoId}
    BY <1>0, <2>1
  <2>3. gone \in SUBSET Ids
    OBVIOUS
  <2> HIDE DEF gone
  <2> QED BY <2>1, <2>2, <2>3, DeletingKeeps
<1>2. ASSUME NEW id \in Ids, CreateSession(id, e) PROVE SInv'
  BY <1>2, MadeKeeps DEF CreateSession
<1>3. ASSUME NEW id \in Ids, OpenSession(id, e) PROVE SInv'
  <2>1. UNCHANGED <<owner, rows, disk, boot, used, run>> /\ current' = [current EXCEPT ![e] = id]
    BY <1>3 DEF OpenSession, Store
  <2>2. id \in used /\ Belongs(id, e)
    BY <1>3 DEF OpenSession, SInv, UsedOnce
  <2>3. Shape'
    <3>1. current' \in [Executors -> used \cup {NoId}]
      BY <1>0, <2>1, <2>2
    <3> QED BY <2>1, <3>1 DEF SInv, Shape
  <2>4. UsedOnce' /\ RunsAreTheNodes' /\ OldIsUntouched' /\ MessagesHaveASession' /\ StampedMeansMigrated'
    BY <2>1 DEF SInv, UsedOnce, RunsAreTheNodes, OldIsUntouched, MessagesHaveASession,
                StampedMeansMigrated, Holding, Live, Belongs
  <2>5. CurrentIsOwn'
    BY <1>0, <2>1, <2>2 DEF SInv, CurrentIsOwn, Live, Belongs
  <2> QED BY <2>3, <2>4, <2>5 DEF SInv
<1>4. ASSUME NEW id \in Ids, DeleteSession(id, e) PROVE SInv'
  <2>1. /\ owner' = [i \in Ids |-> IF i \in {id} THEN Absent ELSE owner[i]]
        /\ rows' = [i \in Ids |-> IF i \in {id} THEN <<>> ELSE rows[i]]
    BY <1>0, <1>4 DEF DeleteSession
  <2>2. /\ current' \in [Executors -> used \cup {NoId}]
        /\ \A x \in Executors : current'[x] \in {current[x], NoId}
        /\ boot = "open" /\ UNCHANGED <<disk, boot, used, boots, run, runs>>
    BY <1>0, <1>4 DEF DeleteSession
  <2>3. {id} \in SUBSET Ids
    OBVIOUS
  <2> QED BY <2>1, <2>2, <2>3, DeletingKeeps
<1> QED BY <1>1, <1>2, <1>3, <1>4

(***************************************************************************)
(* Sessions stay with their executor and messages with their session, and  *)
(* an interrupted migration is taken up again with the old file in the     *)
(* copy (open_session, ensure_session, persist_turn, SessionStore::open),  *)
(* in every execution.                                                     *)
(***************************************************************************)
THEOREM ConversationsKept == Spec => []ConversationsInv
<1>1. Init => SInv
  BY InitSessions
<1>2. SInv /\ [Next]_vars => SInv'
  <2> SUFFICES ASSUME SInv, [Next]_vars PROVE SInv'
    OBVIOUS
  <2>1. CASE OpenCopies \/ OpenAlters \/ OpenStamps
    BY <2>1, OpeningKeeps
  <2>2. CASE Crash
    BY <2>2, CrashKeeps
  <2>3. ASSUME NEW e \in Executors,
               \/ ClearAll(e)
               \/ \E id \in Ids : CreateSession(id, e) \/ OpenSession(id, e) \/ DeleteSession(id, e)
        PROVE  SInv'
    BY <2>3, InterfaceKeeps
  <2>4. ASSUME NEW t \in Threads, RunStep(t) PROVE SInv'
    BY <2>4, RunStepKeeps
  <2>5. CASE UNCHANGED vars
    BY <2>5 DEF vars, SInv, Shape, UsedOnce, RunsAreTheNodes, OldIsUntouched, CurrentIsOwn,
                MessagesHaveASession, StampedMeansMigrated, Holding, Live, Belongs
  <2> QED BY <2>1, <2>2, <2>3, <2>4, <2>5 DEF Next
<1>3. SInv => ConversationsInv
  BY SInvImplies
<1> QED BY <1>1, <1>2, <1>3, PTL DEF Spec


-----------------------------------------------------------------------------
(* Backup: what an export promises, for any files, any accounts and however *)
(* much the node writes meanwhile.                                          *)
CONSTANTS File, Account, MaxWrites, MaxKills
VARIABLES content, named, kept, inFile, stored, keyringUp, tool, copies, output, opened,
          kills, writes

B == INSTANCE Backup WITH rows <- kept

Names == File \cup {B!AuditEntry}
Kept(entries) == {e.name : e \in entries}

(* The accounts that were named: waiting, carried, or with their line.      *)
Derived(todo) ==
    \A a \in tool.accounts :
        a \in todo \cup tool.carried \cup tool.notDerived \/ "keyring" \in tool.notDerived

Tools ==
    [at : {"idle", "files", "vacuumed", "naming", "deriving", "building", "writing"},
     force : BOOLEAN, todo : SUBSET (File \cup Account),
     entries : SUBSET [name : Names, version : Nat], body : SUBSET [name : Names, version : Nat],
     accounts : SUBSET Account, carried : SUBSET Account,
     notDerived : SUBSET (Account \cup {"keyring", "settings"}), since : Nat]

ToolTyped ==
    /\ tool \in Tools
    /\ content \in [File -> Nat] /\ "settings" \in File
    /\ \A v \in DOMAIN named : named[v] \in SUBSET Account
    /\ content["settings"] \in DOMAIN named \cup {0}
    /\ kept \in Nat \ {0} /\ kills \in Nat /\ copies \in Int /\ writes \in Nat

(* What the export has at each of its places: nothing in the archive while  *)
(* it looks at the files, the history from then on, every file read a       *)
(* second time with what it held then, and no account forgotten.            *)
ExportKnows ==
    /\ tool.at = "files" => tool.body = {}
    /\ tool.at \in {"vacuumed", "naming", "deriving", "building", "writing"} =>
         B!AuditEntry \in Kept(tool.body)
    /\ tool.at # "idle" => tool.since <= kept
    /\ \A e \in tool.body : e.version # 0 /\ (e.name = B!AuditEntry => e.version >= tool.since)
    /\ tool.at = "writing" => Kept(tool.entries) \subseteq Kept(tool.body)
    /\ tool.at \in {"files", "vacuumed", "naming"} => tool.accounts = {}
    /\ tool.at = "deriving" => Derived(tool.todo)
    /\ tool.at \in {"building", "writing"} => Derived({})
    /\ tool.at = "deriving" => tool.todo \subseteq Account

CopiesAreHeld == kills = 0 => copies = (IF tool.at = "vacuumed" THEN 1 ELSE 0)

BackupIInv == ToolTyped /\ ExportKnows /\ CopiesAreHeld /\ B!PackageInv

LEMMA BackupInit == ASSUME "settings" \in File, B!Init PROVE BackupIInv
<1>1. /\ content = [f \in File |-> 1] /\ named = [v \in {1} |-> Account] /\ kept = 1
      /\ tool = B!Resting /\ copies = 0 /\ kills = 0 /\ opened = {} /\ writes = 0
      /\ output.state # "package"
  BY DEF B!Init, B!NoPackage
<1>2. /\ tool.at = "idle" /\ tool.body = {}
  BY <1>1 DEF B!Resting
<1>3. ToolTyped
  <2>1. tool \in Tools
    BY <1>1 DEF Tools, B!Resting
  <2> QED
    BY <1>1, <2>1 DEF ToolTyped
<1>4. ExportKnows /\ CopiesAreHeld
  BY <1>1, <1>2 DEF ExportKnows, CopiesAreHeld
<1>5. B!PackageInv
  BY <1>1, <1>2 DEF B!PackageInv, B!Exported, B!HistoryIsWhole, B!ManifestIsCarried,
                    B!NothingIsMissedSilently, B!NothingIsLeft, B!OpenedIsSealed
<1> QED
  BY <1>3, <1>4, <1>5 DEF BackupIInv

(* Nothing the node writes touches what the export holds.                   *)
LEMMA NodeGoesOn ==
    ASSUME BackupIInv,
           (\E f \in File : B!WriteFile(f)) \/ B!CommitRow \/ (\E a \in Account : B!ForgetKey(a))
    PROVE  BackupIInv'
<1>1. /\ UNCHANGED <<tool, copies, output, opened, kills>> /\ kept' \in {kept, kept + 1}
      /\ writes' = writes + 1
  BY DEF B!WriteFile, B!CommitRow, B!ForgetKey
<1>2. kept' \in Nat \ {0} /\ kept <= kept' /\ writes' \in Nat
  BY <1>1 DEF BackupIInv, ToolTyped
<1>3. /\ content' \in [File -> Nat] /\ (\A v \in DOMAIN named' : named'[v] \in SUBSET Account)
      /\ content'["settings"] \in DOMAIN named' \cup {0}
  <2>1. ASSUME NEW f \in File, B!WriteFile(f)
        PROVE  /\ content' \in [File -> Nat]
               /\ \A v \in DOMAIN named' : named'[v] \in SUBSET Account
               /\ content'["settings"] \in DOMAIN named' \cup {0}
    <3>1. /\ content \in [File -> Nat] /\ "settings" \in File /\ writes \in Nat
          /\ \A v \in DOMAIN named : named[v] \in SUBSET Account
          /\ content["settings"] \in DOMAIN named \cup {0}
      BY DEF BackupIInv, ToolTyped
    <3>2. PICK v \in {0, writes + 2} : content' = [content EXCEPT ![f] = v]
      BY <2>1 DEF B!WriteFile
    <3>3. PICK accounts \in SUBSET Account :
            named' = IF f = "settings" /\ content'[f] # 0
                     THEN [w \in DOMAIN named \cup {content'[f]} |->
                             IF w \in DOMAIN named THEN named[w] ELSE accounts]
                     ELSE named
      BY <2>1 DEF B!WriteFile
    <3>4. v \in Nat /\ content' \in [File -> Nat] /\ content'[f] = v
      BY <3>1, <3>2
    <3>5. \A w \in DOMAIN named' : named'[w] \in SUBSET Account
      BY <3>1, <3>3
    <3>6. content'["settings"] \in DOMAIN named' \cup {0}
      BY <3>1, <3>2, <3>3, <3>4
    <3> QED
      BY <3>4, <3>5, <3>6
  <2>2. CASE B!CommitRow \/ \E a \in Account : B!ForgetKey(a)
    <3>1. UNCHANGED <<content, named>>
      BY <2>2 DEF B!CommitRow, B!ForgetKey
    <3> QED
      BY <3>1 DEF BackupIInv, ToolTyped
  <2> QED
    BY <2>1, <2>2
<1>4. ToolTyped'
  BY <1>1, <1>2, <1>3 DEF BackupIInv, ToolTyped
<1>5. ExportKnows' /\ CopiesAreHeld'
  <2>1. tool.since \in Nat /\ kept \in Nat
    BY DEF BackupIInv, ToolTyped, Tools
  <2>2. ExportKnows'
    BY <1>1, <1>2, <2>1 DEF BackupIInv, ExportKnows, Kept, Derived
  <2> QED
    BY <1>1, <2>2 DEF BackupIInv, CopiesAreHeld
<1>6. B!PackageInv'
  BY <1>1 DEF BackupIInv, B!PackageInv, B!Exported, B!HistoryIsWhole, B!ManifestIsCarried,
              B!NothingIsMissedSilently, B!NothingIsLeft, B!OpenedIsSealed, B!At, B!In
<1> QED
  BY <1>4, <1>5, <1>6 DEF BackupIInv

(* A step of the export that writes no package and reads none.              *)
LEMMA ExportGoesOn ==
    ASSUME BackupIInv, UNCHANGED <<content, named, kept, inFile, stored, keyringUp, writes>>,
           UNCHANGED opened, output' = output \/ output'.state # "package",
           copies' \in Int, kills' \in Nat,
           tool' \in Tools,
           ExportKnows', CopiesAreHeld'
    PROVE  BackupIInv'
<1>1. ToolTyped'
  BY DEF BackupIInv, ToolTyped
<1>2. B!NothingIsLeft'
  BY DEF CopiesAreHeld, B!NothingIsLeft, B!At
<1>3. B!OpenedIsSealed'
  BY DEF BackupIInv, B!PackageInv, B!OpenedIsSealed
<1>4. (B!HistoryIsWhole /\ B!ManifestIsCarried /\ B!NothingIsMissedSilently)'
  BY DEF BackupIInv, B!PackageInv, B!Exported, B!HistoryIsWhole, B!ManifestIsCarried,
         B!NothingIsMissedSilently, B!In
<1> QED
  BY <1>1, <1>2, <1>3, <1>4 DEF BackupIInv, B!PackageInv


(* The export begins, and collects the files and the history.               *)
LEMMA Collecting ==
    ASSUME BackupIInv,
           \/ \E force \in BOOLEAN : B!Begin(force)
           \/ \E f \in File : B!CollectFile(f)
           \/ B!CollectAudit \/ B!DropCopy
    PROVE  BackupIInv'
<1>1. /\ UNCHANGED <<content, named, kept, inFile, stored, keyringUp, writes, opened, output, kills>>
  BY DEF B!Begin, B!CollectFile, B!CollectAudit, B!DropCopy, B!node
<1>2. ToolTyped /\ ExportKnows /\ CopiesAreHeld
  BY DEF BackupIInv
<1>3. ASSUME NEW force \in BOOLEAN, B!Begin(force) PROVE BackupIInv'
  <2>1. /\ tool.at = "idle" /\ copies' = copies
        /\ tool' = [B!Resting EXCEPT !.at = "files", !.force = force, !.todo = File, !.since = kept]
    BY <1>3 DEF B!Begin, B!At
  <2>2. /\ tool'.at = "files" /\ tool'.body = {} /\ tool'.accounts = {} /\ tool'.since = kept
    BY <2>1 DEF B!Resting
  <2>3. tool' \in Tools
    BY <1>2, <2>1 DEF Tools, ToolTyped, B!Resting
  <2>4. ExportKnows'
    BY <1>1, <1>2, <2>2 DEF ExportKnows, ToolTyped
  <2>5. CopiesAreHeld'
    BY <1>1, <1>2, <2>1, <2>2 DEF CopiesAreHeld
  <2> QED
    BY <1>1, <1>2, <2>1, <2>3, <2>4, <2>5, ExportGoesOn DEF ToolTyped
<1>4. ASSUME NEW f \in File, B!CollectFile(f) PROVE BackupIInv'
  <2>1. /\ tool.at = "files" /\ copies' = copies
        /\ tool' = [tool EXCEPT !.todo = @ \ {f},
                     !.entries = IF content[f] = 0 THEN @ ELSE @ \cup {B!Entry(f, content[f])}]
    BY <1>4 DEF B!CollectFile, B!At
  <2>2. /\ tool'.at = "files" /\ tool'.body = tool.body /\ tool'.accounts = tool.accounts
        /\ tool'.since = tool.since
    BY <1>2, <2>1 DEF ToolTyped, Tools
  <2>3. B!Entry(f, content[f]) \in [name : Names, version : Nat]
    BY <1>2 DEF B!Entry, Names, ToolTyped
  <2>4. tool' \in Tools
    BY <1>2, <2>1, <2>3 DEF Tools, ToolTyped
  <2>5. ExportKnows'
    BY <1>1, <1>2, <2>1, <2>2 DEF ExportKnows
  <2>6. CopiesAreHeld'
    BY <1>1, <1>2, <2>1, <2>2 DEF CopiesAreHeld
  <2> QED
    BY <1>1, <1>2, <2>1, <2>4, <2>5, <2>6, ExportGoesOn DEF ToolTyped
<1>5. ASSUME B!CollectAudit PROVE BackupIInv'
  <2> DEFINE e == B!Entry(B!AuditEntry, kept)
  <2>1. /\ tool.at = "files" /\ copies' = copies + 1
        /\ tool' = [tool EXCEPT !.at = "vacuumed", !.entries = @ \cup {e}, !.body = @ \cup {e}]
    BY <1>5 DEF B!CollectAudit, B!CopyAudit, B!At
  <2>2. e \in [name : Names, version : Nat] /\ e.name = B!AuditEntry /\ e.version = kept
    BY <1>2 DEF B!Entry, Names, ToolTyped
  <2> HIDE DEF e
  <2>3. /\ tool'.at = "vacuumed" /\ tool'.body = tool.body \cup {e} /\ tool'.accounts = tool.accounts
        /\ tool'.since = tool.since
    BY <1>2, <2>1 DEF ToolTyped, Tools
  <2>4. tool' \in Tools
    BY <1>2, <2>1, <2>2 DEF Tools, ToolTyped
  <2>5. B!AuditEntry \in Kept(tool'.body)
    BY <2>2, <2>3 DEF Kept
  <2>6. /\ tool.body = {} /\ tool.since <= kept /\ tool.accounts = {} /\ kept \in Nat \ {0}
    BY <1>2, <2>1 DEF ExportKnows, ToolTyped
  <2>7. ExportKnows'
    BY <1>1, <2>2, <2>3, <2>5, <2>6 DEF ExportKnows
  <2>8. CopiesAreHeld'
    BY <1>1, <1>2, <2>1, <2>3 DEF CopiesAreHeld, ToolTyped
  <2>9. copies' \in Int
    BY <1>2, <2>1 DEF ToolTyped, Tools
  <2> QED
    BY <1>1, <1>2, <2>4, <2>7, <2>8, <2>9, ExportGoesOn DEF ToolTyped
<1>6. ASSUME B!DropCopy PROVE BackupIInv'
  <2>1. tool.at = "vacuumed" /\ copies' = copies - 1 /\ tool' = [tool EXCEPT !.at = "naming"]
    BY <1>6 DEF B!DropCopy, B!At
  <2>2. /\ tool'.at = "naming" /\ tool'.body = tool.body /\ tool'.accounts = tool.accounts
        /\ tool'.since = tool.since
    BY <1>2, <2>1 DEF ToolTyped, Tools
  <2>3. tool' \in Tools
    BY <1>2, <2>1 DEF Tools, ToolTyped
  <2>4. ExportKnows'
    BY <1>1, <1>2, <2>1, <2>2 DEF ExportKnows
  <2>5. CopiesAreHeld'
    BY <1>1, <1>2, <2>1, <2>2 DEF CopiesAreHeld, ToolTyped
  <2>6. copies' \in Int
    BY <1>2, <2>1 DEF ToolTyped
  <2> QED
    BY <1>1, <1>2, <2>3, <2>4, <2>5, <2>6, ExportGoesOn DEF ToolTyped
<1> QED
  BY <1>3, <1>4, <1>5, <1>6


(* The accounts the settings name are looked up one after the other.        *)
LEMMA Deriving ==
    ASSUME BackupIInv, B!NameAccounts \/ B!Derived \/ \E a \in Account : B!Derive(a)
    PROVE  BackupIInv'
<1>1. /\ UNCHANGED <<content, named, kept, inFile, stored, keyringUp, writes, opened, output, kills>>
      /\ copies' = copies
  BY DEF B!NameAccounts, B!Derived, B!Derive, B!node
<1>2. ToolTyped /\ ExportKnows /\ CopiesAreHeld
  BY DEF BackupIInv
<1>3. SUFFICES /\ tool' \in Tools
               /\ tool.at \in {"naming", "deriving"} /\ tool'.at \in {"deriving", "building"}
               /\ tool'.body = tool.body /\ tool'.since = tool.since
               /\ IF tool'.at = "deriving" THEN Derived(tool.todo)' /\ tool'.todo \subseteq Account
                                           ELSE Derived({})'
  <2> SUFFICES ASSUME /\ tool' \in Tools
                      /\ tool.at \in {"naming", "deriving"} /\ tool'.at \in {"deriving", "building"}
                      /\ tool'.body = tool.body /\ tool'.since = tool.since
                      /\ IF tool'.at = "deriving" THEN Derived(tool.todo)' /\ tool'.todo \subseteq Account
                                                  ELSE Derived({})'
               PROVE  BackupIInv'
    OBVIOUS
  <2>1. ExportKnows'
    BY <1>1, <1>2 DEF ExportKnows
  <2>2. CopiesAreHeld'
    BY <1>1, <1>2 DEF CopiesAreHeld
  <2> QED
    BY <1>1, <1>2, <2>1, <2>2, ExportGoesOn DEF ToolTyped
<1>4. CASE B!NameAccounts
  <2>1. PICK readable \in BOOLEAN :
         tool' = IF content["settings"] = 0 THEN [tool EXCEPT !.at = "building"]
                 ELSE IF readable
                 THEN [tool EXCEPT !.at = "deriving", !.accounts = named[content["settings"]],
                                   !.todo = named[content["settings"]]]
                 ELSE [tool EXCEPT !.at = "building", !.notDerived = {"settings"}]
    BY <1>4 DEF B!NameAccounts
  <2>2. tool.at = "naming" /\ tool.accounts = {}
    BY <1>2, <1>4 DEF B!NameAccounts, B!At, ExportKnows
  <2>3. content["settings"] # 0 => named[content["settings"]] \in SUBSET Account
    BY <1>2 DEF ToolTyped
  <2>4. tool' \in Tools
    BY <1>2, <2>1, <2>3 DEF ToolTyped, Tools
  <2>5. tool'.body = tool.body /\ tool'.since = tool.since /\ tool'.at \in {"deriving", "building"}
    BY <1>2, <2>1 DEF ToolTyped, Tools
  <2>6. tool'.at = "deriving" => tool'.accounts = tool'.todo /\ tool'.todo \subseteq Account
    BY <1>2, <2>1, <2>3 DEF ToolTyped, Tools
  <2>7. tool'.at = "building" => tool'.accounts = {}
    BY <1>2, <2>1, <2>2 DEF ToolTyped, Tools
  <2> QED
    BY <2>2, <2>4, <2>5, <2>6, <2>7 DEF Derived
<1>5. ASSUME NEW a \in Account, B!Derive(a)
      PROVE  /\ tool' \in Tools
             /\ tool.at \in {"naming", "deriving"} /\ tool'.at \in {"deriving", "building"}
             /\ tool'.body = tool.body /\ tool'.since = tool.since
             /\ IF tool'.at = "deriving" THEN Derived(tool.todo)' /\ tool'.todo \subseteq Account
                                         ELSE Derived({})'
  <2>1. /\ tool.at = "deriving" /\ a \in tool.todo
        /\ tool' = [tool EXCEPT !.todo = @ \ {a},
                            !.carried = IF keyringUp /\ a \in stored THEN @ \cup {a} ELSE @,
                            !.notDerived = IF ~keyringUp THEN @ \cup {"keyring"}
                                           ELSE IF a \in stored THEN @ ELSE @ \cup {a}]
    BY <1>5 DEF B!Derive, B!At
  <2>2. tool' \in Tools
    BY <1>2, <2>1 DEF ToolTyped, Tools
  <2>3. /\ tool'.at = "deriving" /\ tool'.body = tool.body /\ tool'.since = tool.since
        /\ tool'.accounts = tool.accounts /\ tool'.todo = tool.todo \ {a}
        /\ tool'.carried = IF keyringUp /\ a \in stored THEN tool.carried \cup {a} ELSE tool.carried
        /\ tool'.notDerived = IF ~keyringUp THEN tool.notDerived \cup {"keyring"}
                              ELSE IF a \in stored THEN tool.notDerived ELSE tool.notDerived \cup {a}
    BY <1>2, <2>1 DEF ToolTyped, Tools
  <2>4. Derived(tool.todo) /\ tool.todo \subseteq Account
    BY <1>2, <2>1 DEF ExportKnows
  <2>5. Derived(tool.todo)'
    <3> SUFFICES ASSUME NEW x \in tool.accounts
                 PROVE  \/ x \in tool'.todo \cup tool'.carried \cup tool'.notDerived
                        \/ "keyring" \in tool'.notDerived
      BY <2>3 DEF Derived
    <3>1. \/ x \in tool.todo \cup tool.carried \cup tool.notDerived
          \/ "keyring" \in tool.notDerived
      BY <2>4 DEF Derived
    <3> QED
      BY <2>3, <3>1
  <2> QED
    BY <2>1, <2>2, <2>3, <2>4, <2>5
<1>6. CASE B!Derived
  <2>1. tool.at = "deriving" /\ tool.todo = {} /\ tool' = [tool EXCEPT !.at = "building"]
    BY <1>6 DEF B!Derived, B!At
  <2>2. tool' \in Tools
    BY <1>2, <2>1 DEF ToolTyped, Tools
  <2>3. /\ tool'.at = "building" /\ tool'.body = tool.body /\ tool'.since = tool.since
        /\ tool'.accounts = tool.accounts /\ tool'.carried = tool.carried
        /\ tool'.notDerived = tool.notDerived
    BY <1>2, <2>1 DEF ToolTyped, Tools
  <2>4. Derived({})
    BY <1>2, <2>1 DEF ExportKnows
  <2> QED
    BY <2>1, <2>2, <2>3, <2>4 DEF Derived
<1> QED
  BY <1>4, <1>5, <1>6

(* The archive is built, and the export may end without a package.          *)
LEMMA Building ==
    ASSUME BackupIInv,
           (\E e \in tool.entries : B!AppendFile(e)) \/ B!WriteOutput \/ B!Kill
    PROVE  BackupIInv'
<1>1. /\ UNCHANGED <<content, named, kept, inFile, stored, keyringUp, writes, opened>>
      /\ copies' = copies /\ kills' \in Nat /\ (kills' = kills \/ kills' # 0)
      /\ output' = output \/ output'.state # "package"
  BY DEF B!AppendFile, B!WriteOutput, B!Kill, B!node, B!NoPackage, BackupIInv, ToolTyped
<1>2. ToolTyped /\ ExportKnows /\ CopiesAreHeld
  BY DEF BackupIInv
<1>3. ASSUME tool' = B!Resting, tool.at = "building" \/ kills' # 0 PROVE BackupIInv'
  <2>1. tool'.at = "idle" /\ tool'.body = {} /\ tool' \in Tools
    BY <1>3 DEF B!Resting, Tools
  <2>2. ExportKnows'
    BY <1>1, <2>1 DEF ExportKnows
  <2>3. CopiesAreHeld'
    BY <1>1, <1>2, <1>3, <2>1 DEF CopiesAreHeld
  <2> QED
    BY <1>1, <1>2, <2>1, <2>2, <2>3, ExportGoesOn DEF ToolTyped
<1>4. ASSUME NEW e \in tool.entries, B!AppendFile(e) PROVE BackupIInv'
  <2>1. tool.at = "building" /\ e.name \in B!Waiting /\ e \in [name : Names, version : Nat]
    BY <1>2, <1>4 DEF B!AppendFile, B!At, ToolTyped, Tools
  <2>2. CASE content[e.name] = 0
    BY <1>3, <1>4, <2>1, <2>2 DEF B!AppendFile, B!Refused
  <2>3. CASE content[e.name] # 0
    <3> DEFINE x == B!Entry(e.name, content[e.name])
    <3>1. tool' = [tool EXCEPT !.body = @ \cup {x}]
      BY <1>4, <2>3 DEF B!AppendFile
    <3>2. e.name # B!AuditEntry /\ e.name \in File
      <4>1. B!AuditEntry \in Kept(tool.body)
        BY <1>2, <2>1 DEF ExportKnows
      <4>2. e.name \notin Kept(tool.body)
        BY <2>1 DEF B!Waiting, Kept
      <4> QED
        BY <2>1, <4>1, <4>2 DEF Names
    <3>3. x \in [name : Names, version : Nat] /\ x.name # B!AuditEntry /\ x.version # 0
      BY <1>2, <2>3, <3>2 DEF B!Entry, Names, ToolTyped
    <3> HIDE DEF x
    <3>4. tool' \in Tools
      BY <1>2, <3>1, <3>3 DEF ToolTyped, Tools
    <3>5. /\ tool'.at = "building" /\ tool'.body = tool.body \cup {x} /\ tool'.since = tool.since
          /\ tool'.accounts = tool.accounts /\ tool'.carried = tool.carried
          /\ tool'.notDerived = tool.notDerived
      BY <1>2, <2>1, <3>1 DEF ToolTyped, Tools
    <3>6. Kept(tool.body) \subseteq Kept(tool'.body)
      BY <3>5 DEF Kept
    <3>7. Derived({})'
      BY <1>2, <2>1, <3>5 DEF ExportKnows, Derived
    <3>8. ExportKnows'
      BY <1>1, <1>2, <2>1, <3>3, <3>5, <3>6, <3>7 DEF ExportKnows
    <3>9. CopiesAreHeld'
      BY <1>1, <1>2, <1>4, <2>1, <3>5 DEF CopiesAreHeld, B!AppendFile
    <3> QED
      BY <1>1, <1>2, <3>4, <3>8, <3>9, ExportGoesOn DEF ToolTyped
  <2> QED
    BY <2>2, <2>3
<1>5. CASE B!WriteOutput
  <2>1. tool.at = "building" /\ B!Waiting = {} /\ tool' = [tool EXCEPT !.at = "writing"]
    BY <1>5 DEF B!WriteOutput, B!At
  <2>2. tool' \in Tools
    BY <1>2, <2>1 DEF ToolTyped, Tools
  <2>3. /\ tool'.at = "writing" /\ tool'.body = tool.body /\ tool'.since = tool.since
        /\ tool'.accounts = tool.accounts /\ tool'.carried = tool.carried
        /\ tool'.notDerived = tool.notDerived /\ tool'.entries = tool.entries
    BY <1>2, <2>1 DEF ToolTyped, Tools
  <2>4. Kept(tool.entries) \subseteq Kept(tool.body)
    BY <2>1 DEF B!Waiting, Kept
  <2>5. Derived({})'
    BY <1>2, <2>1, <2>3 DEF ExportKnows, Derived
  <2>6. ExportKnows'
    BY <1>1, <1>2, <2>1, <2>3, <2>4, <2>5 DEF ExportKnows
  <2>7. CopiesAreHeld'
    BY <1>1, <1>2, <1>5, <2>1, <2>3 DEF CopiesAreHeld, B!WriteOutput
  <2> QED
    BY <1>1, <1>2, <2>2, <2>6, <2>7, ExportGoesOn DEF ToolTyped
<1>6. CASE B!Kill
  <2>1. kills' # 0
    BY <1>2, <1>6 DEF B!Kill, ToolTyped
  <2> QED
    BY <1>3, <1>6, <2>1 DEF B!Kill, B!Refused
<1> QED
  BY <1>4, <1>5, <1>6

(* The package is what the export had when it was written.                  *)
LEMMA Packing == ASSUME BackupIInv, B!Finish \/ B!ReadManifest PROVE BackupIInv'
<1>1. ToolTyped /\ ExportKnows /\ CopiesAreHeld /\ B!PackageInv
  BY DEF BackupIInv
<1>2. CASE B!Finish
  <2>1. /\ tool.at = "writing" /\ tool' = B!Resting
        /\ UNCHANGED <<content, named, kept, inFile, stored, keyringUp, writes, copies, opened, kills>>
        /\ output' = [state |-> "package", entries |-> tool.entries, body |-> tool.body,
                      carried |-> tool.carried, notDerived |-> tool.notDerived,
                      read |-> tool.accounts, since |-> tool.since]
    BY <1>2 DEF B!Finish, B!At, B!Refused, B!node
  <2>2. tool'.at = "idle" /\ tool'.body = {} /\ tool' \in Tools
    BY <2>1 DEF B!Resting, Tools
  <2>3. ToolTyped' /\ ExportKnows' /\ CopiesAreHeld'
    BY <1>1, <2>1, <2>2 DEF ToolTyped, ExportKnows, CopiesAreHeld
  <2>4. /\ output'.entries = tool.entries /\ output'.body = tool.body /\ output'.read = tool.accounts
        /\ output'.carried = tool.carried /\ output'.notDerived = tool.notDerived
        /\ output'.since = tool.since
    BY <2>1
  <2>5. B!HistoryIsWhole'
    <3>1. \A x \in tool.body : x.name = B!AuditEntry => tool.since <= x.version
      BY <1>1 DEF ExportKnows, ToolTyped, Tools
    <3> QED
      BY <2>4, <3>1 DEF B!HistoryIsWhole, B!In
  <2>6. B!ManifestIsCarried'
    <3> SUFFICES ASSUME NEW e \in tool.entries
                 PROVE  \E v \in B!In(tool.body, e.name) : v # 0
      BY <2>4 DEF B!ManifestIsCarried, B!In
    <3>1. e.name \in Kept(tool.body)
      BY <1>1, <2>1 DEF ExportKnows, Kept
    <3>2. PICK x \in tool.body : x.name = e.name
      BY <3>1 DEF Kept
    <3>3. x.version # 0 /\ x.version \in B!In(tool.body, e.name)
      BY <1>1, <3>2 DEF ExportKnows, B!In
    <3> QED
      BY <3>3
  <2>7. B!NothingIsMissedSilently'
    BY <1>1, <2>1, <2>4 DEF ExportKnows, Derived, B!NothingIsMissedSilently
  <2>8. B!NothingIsLeft' /\ B!OpenedIsSealed'
    BY <1>1, <2>1, <2>2, <2>3 DEF CopiesAreHeld, B!NothingIsLeft, B!OpenedIsSealed, B!PackageInv, B!At
  <2> QED
    BY <2>3, <2>5, <2>6, <2>7, <2>8 DEF BackupIInv, B!PackageInv
<1>3. CASE B!ReadManifest
  <2>1. /\ UNCHANGED <<content, named, kept, inFile, stored, keyringUp, writes, tool, copies, output, kills>>
        /\ opened' = opened \cup {<<"package", FALSE>>}
    <3>1. PICK altered \in BOOLEAN : /\ output.state = "package" /\ ~altered
                                     /\ opened' = opened \cup {<<output.state, altered>>}
      BY <1>3 DEF B!ReadManifest, B!Opens
    <3>2. altered = FALSE
      BY <3>1
    <3> QED
      BY <1>3, <3>1, <3>2 DEF B!ReadManifest, B!node
  <2>2. ToolTyped' /\ ExportKnows' /\ CopiesAreHeld'
    <3>1. ExportKnows'
      BY <1>1, <2>1 DEF ExportKnows, Kept, Derived
    <3> QED
      BY <1>1, <2>1, <3>1 DEF ToolTyped, CopiesAreHeld
  <2>3. B!OpenedIsSealed'
    BY <1>1, <2>1 DEF B!OpenedIsSealed, B!PackageInv
  <2>4. (B!HistoryIsWhole /\ B!ManifestIsCarried /\ B!NothingIsMissedSilently /\ B!NothingIsLeft)'
    BY <1>1, <2>1 DEF B!PackageInv, B!Exported, B!HistoryIsWhole, B!ManifestIsCarried,
                      B!NothingIsMissedSilently, B!NothingIsLeft, B!In, B!At
  <2> QED
    BY <2>2, <2>3, <2>4 DEF BackupIInv, B!PackageInv
<1> QED
  BY <1>2, <1>3

(* A package made while the node writes carries every file it lists and a   *)
(* history no shorter than when the export began, says of every account it  *)
(* was told of whether it is in it, leaves no copy of the history behind    *)
(* unless it is killed, and opens only as it was sealed (export_with,       *)
(* collect_credentials, decrypt).                                           *)
THEOREM PackagesAreWhole == ASSUME B!BackupAssumption PROVE B!Spec => []B!PackageInv
<1>1. B!Init => BackupIInv
  BY BackupInit DEF B!BackupAssumption
<1>2. BackupIInv /\ [B!Next]_(B!vars) => BackupIInv'
  <2>1. ASSUME BackupIInv, B!Next PROVE BackupIInv'
    BY <2>1, NodeGoesOn, Collecting, Deriving, Building, Packing DEF B!Next
  <2>2. ASSUME BackupIInv, B!vars' = B!vars PROVE BackupIInv'
    <3>1. UNCHANGED <<content, named, kept, inFile, stored, keyringUp, writes, tool, copies, output,
                      opened, kills>>
      BY <2>2 DEF B!vars, B!node
    <3>2. ExportKnows'
      BY <2>2, <3>1 DEF BackupIInv, ExportKnows, Kept, Derived
    <3>3. ToolTyped' /\ CopiesAreHeld'
      BY <2>2, <3>1 DEF BackupIInv, ToolTyped, CopiesAreHeld
    <3>4. B!PackageInv'
      BY <2>2, <3>1 DEF BackupIInv, B!PackageInv, B!Exported, B!HistoryIsWhole, B!ManifestIsCarried,
                        B!NothingIsMissedSilently, B!NothingIsLeft, B!OpenedIsSealed, B!In, B!At
    <3> QED
      BY <3>2, <3>3, <3>4 DEF BackupIInv
  <2> QED
    BY <2>1, <2>2
<1>3. BackupIInv => B!PackageInv
  BY DEF BackupIInv
<1> QED
  BY <1>1, <1>2, <1>3, PTL DEF B!Spec


-----------------------------------------------------------------------------
(* LlmConfig: whose key is used where, and what a lone request leaves       *)
(* behind, for any executors and any number of request threads.             *)
CONSTANT MaxOps
VARIABLES llm, entries, ring, legacy, flag, thread, ops, starts, out, seen

K == INSTANCE LlmConfig WITH Local <- Node, boots <- starts

Keys == Executors \cup {"none", "legacy", "env"}
Entries == [provider : K!Providers \cup {"none"}, url : {"none", "own", "api", "localhost"}, key : Keys]
Requests == [pc : {"idle", "keyring", "settings", "memory", "flag", "pair", "delete"},
             op : {"none", "set", "load", "clear"}, e : Executors, input : Entries,
             remember : BOOLEAN, saved : BOOLEAN]

(* The keys an executor may be given. *)
Mine(e) == {"none", e} \cup (IF e = Node THEN {"legacy", "env"} ELSE {})

(* A request on its way, and what it carries. *)
OpFits(r) ==
    /\ r.pc = "keyring" => r.op = "set"
    /\ r.pc = "pair" => r.op = "load"
    /\ r.pc = "delete" => r.op = "clear"
    /\ r.pc = "settings" => r.op \in {"set", "clear"}
    /\ r.pc = "memory" => r.op \in {"set", "load"}
    /\ r.pc = "flag" => r.op \in {"set", "load", "clear"}
    /\ r.pc = "flag" /\ r.op # "set" => r.e = Node
    /\ r.pc # "idle" /\ r.op \in {"set", "load"} => r.input.provider \in K!Providers
    /\ r.pc = "delete" => r.input.provider \in K!Providers
    /\ r.pc # "idle" /\ r.op = "clear" => r.saved = FALSE
    /\ r.input.key \in Mine(r.e)

KeysTyped ==
    /\ llm \in [Executors -> Entries] /\ entries \in [Executors -> Entries]
    /\ ring \in [Executors \X K!Providers -> Keys] /\ legacy \subseteq K!Providers
    /\ flag \in BOOLEAN /\ thread \in [Threads -> Requests]
    /\ seen \in [overlap : BOOLEAN, failed : BOOLEAN, others : BOOLEAN]
    /\ out \subseteq Executors \X K!Providers /\ Node \in Executors
    /\ \A t \in Threads : OpFits(thread[t])
    /\ \A e \in Executors : /\ llm[e].provider = "none" => llm[e] = K!NoEntry
                            /\ entries[e].provider = "none" => entries[e] = K!NoEntry

OptedOut == ~seen.failed => \A ep \in out : ep[2] \notin legacy => ring[ep] = "none"

(* What the keyring would still give the node after a restart. *)
Stored(p) == ring[<<Node, p>>] # "none" \/ p \in legacy

SameUrl(c, e) == c.provider = entries[e].provider /\ c.key # "env" => c.url = entries[e].url

(* Where one request is under way at most, r: what it has done and not yet  *)
(* done is all that memory, settings.json and keyring differ by.            *)
Saving(r, e) == r.e = e /\ r.op = "set" /\ r.pc = "memory"

Remembered(r) ==
    /\ flag /\ llm[Node] # K!NoEntry =>
         \/ Stored(llm[Node].provider)
         \/ r.op = "set" /\ r.pc \in {"settings", "memory", "flag"}
    /\ r.op = "set" /\ r.pc \in {"settings", "memory", "flag"} =>
         r.e = Node /\ (r.saved => Stored(r.input.provider))
    /\ r.op = "load" /\ r.pc \in {"pair", "memory", "flag"} /\ r.e = Node => Stored(r.input.provider)
    /\ r.op \in {"set", "load"} /\ r.pc = "flag" => llm[Node].provider = r.input.provider

Lone(r) ==
    /\ \A e \in Executors : SameUrl(llm[e], e) \/ Saving(r, e)
    /\ r.pc = "memory" => SameUrl(r.input, r.e)
    /\ r.op = "clear" /\ r.pc # "idle" => llm[r.e] = K!NoEntry
    /\ starts = 0 => \A e \in Executors : llm[e] = K!NoEntry =>
         \/ entries[e] = K!NoEntry
         \/ Saving(r, e)
         \/ r.e = e /\ r.op = "clear" /\ r.pc \in {"delete", "settings"}
    /\ ~seen.others => Remembered(r)

LoneRequest ==
    \E r \in Requests :
        /\ \A t \in Threads : thread[t].pc # "idle" => thread[t] = r
        /\ \A t, u \in Threads : thread[t].pc # "idle" /\ thread[u].pc # "idle" => t = u
        /\ r.pc # "idle" => \E t \in Threads : thread[t] = r
        /\ Lone(r)

KeysIInv ==
    /\ KeysTyped /\ starts \in Nat
    /\ \A e \in Executors : /\ llm[e].key \in Mine(e)
                            /\ \A p \in K!Providers : ring[<<e, p>>] \in Mine(e)
    /\ OptedOut
    /\ ~seen.overlap => LoneRequest

LEMMA KeysInit == ASSUME Node \in Executors, K!Init PROVE KeysIInv
<1>1. /\ llm = [e \in Executors |-> K!NoEntry] /\ entries = llm
      /\ ring = [ep \in Executors \X K!Providers |-> "none"] /\ legacy \in {{}, {"cloud"}}
      /\ flag = FALSE /\ thread = [t \in Threads |-> K!Idle] /\ starts = 0 /\ out = {}
      /\ seen = [overlap |-> FALSE, failed |-> FALSE, others |-> FALSE]
  BY DEF K!Init, K!None
<1>2. K!NoEntry \in Entries /\ K!NoEntry.key = "none" /\ K!NoEntry.provider = "none"
  BY DEF K!NoEntry, Entries, Keys, K!None
<1>3. K!Idle \in Requests /\ K!Idle.pc = "idle" /\ K!Idle.input = K!NoEntry
      /\ K!Idle.op = "none" /\ K!Idle.e = Node
  BY <1>2 DEF K!Idle, Requests, K!None
<1>4. KeysTyped
  <2>1. llm \in [Executors -> Entries] /\ entries \in [Executors -> Entries]
    BY <1>1, <1>2
  <2>2. ring \in [Executors \X K!Providers -> Keys]
    BY <1>1 DEF Keys
  <2>3. thread \in [Threads -> Requests] /\ legacy \subseteq K!Providers
    BY <1>1, <1>3 DEF K!Providers
  <2>4. \A t \in Threads : OpFits(thread[t])
    BY <1>1, <1>2, <1>3 DEF OpFits, Mine
  <2> QED
    BY <1>1, <2>1, <2>2, <2>3, <2>4 DEF KeysTyped
<1>5. OptedOut /\ \A e \in Executors : /\ llm[e].key \in Mine(e)
                            /\ \A p \in K!Providers : ring[<<e, p>>] \in Mine(e)
  BY <1>1, <1>2 DEF OptedOut, Mine
<1>6. LoneRequest
  <2>1. Lone(K!Idle)
    BY <1>1, <1>2, <1>3 DEF Lone, Remembered, SameUrl
  <2> QED
    BY <1>1, <1>3, <2>1 DEF LoneRequest
<1> QED
  BY <1>1, <1>4, <1>5, <1>6 DEF KeysIInv


(* A step of thread t, whose request it takes from one place to the next or *)
(* begins, with nobody else at work.                                        *)
LEMMA LoneStep ==
    ASSUME NEW t \in Threads, thread' \in [Threads -> Requests],
           \A u \in Threads : u # t => thread'[u].pc = "idle",
           Lone(thread[t])'
    PROVE  LoneRequest'
<1>1. thread'[t] \in Requests
  OBVIOUS
<1> QED
  BY <1>1 DEF LoneRequest

(* What is known of the request of t before its step.                       *)
LEMMA LoneBefore ==
    ASSUME KeysIInv, ~seen.overlap, NEW t \in Threads, thread[t].pc # "idle" \/ K!Quiet
    PROVE  /\ \A u \in Threads : u # t => thread[u].pc = "idle"
           /\ thread[t].pc # "idle" => Lone(thread[t])
           /\ K!Quiet => \E r \in Requests : r.pc = "idle" /\ Lone(r)
<1>1. PICK r \in Requests :
        /\ \A u \in Threads : thread[u].pc # "idle" => thread[u] = r
        /\ \A u, v \in Threads : thread[u].pc # "idle" /\ thread[v].pc # "idle" => u = v
        /\ r.pc # "idle" => \E u \in Threads : thread[u] = r
        /\ Lone(r)
  BY DEF KeysIInv, LoneRequest
<1>2. \A u \in Threads : u # t => thread[u].pc = "idle"
  BY <1>1 DEF K!Quiet
<1>3. thread[t].pc # "idle" => Lone(thread[t])
  BY <1>1
<1>4. K!Quiet => r.pc = "idle"
  BY <1>1 DEF K!Quiet
<1> QED
  BY <1>1, <1>2, <1>3, <1>4

(* With nobody at work, everything agrees.                                  *)
LEMMA LoneQuiet ==
    ASSUME KeysIInv, ~seen.overlap, K!Quiet
    PROVE  /\ \A e \in Executors : SameUrl(llm[e], e)
           /\ starts = 0 => \A e \in Executors : llm[e] = K!NoEntry => entries[e] = K!NoEntry
           /\ ~seen.others /\ flag /\ llm[Node] # K!NoEntry => Stored(llm[Node].provider)
<1>1. PICK r \in Requests :
        /\ r.pc # "idle" => \E u \in Threads : thread[u] = r
        /\ Lone(r)
  BY DEF KeysIInv, LoneRequest
<1>2. r.pc = "idle"
  BY <1>1 DEF K!Quiet
<1> QED
  BY <1>1, <1>2 DEF Lone, Remembered, Saving

(* A request that begins while nobody is at work.                           *)
LEMMA Begins ==
    ASSUME KeysIInv, NEW t \in Threads, K!Begin(t)
    PROVE  /\ seen'.others = seen.others /\ seen'.failed = seen.failed
           /\ seen' \in [overlap : BOOLEAN, failed : BOOLEAN, others : BOOLEAN]
           /\ ~seen'.overlap => ~seen.overlap /\ K!Quiet
BY DEF KeysIInv, KeysTyped, K!Begin

LEMMA StepSetConfig ==
    ASSUME KeysIInv, NEW t \in Threads, NEW e \in Executors, NEW p \in K!Providers,
           NEW url \in {"none", "own"}, NEW typed \in BOOLEAN, NEW remember \in BOOLEAN,
           K!SetConfig(t, e, p, url, IF typed THEN e ELSE "none", remember)
    PROVE  KeysIInv'
<1> DEFINE key == IF typed THEN e ELSE "none"
           input == [provider |-> p, url |-> IF url = "none" THEN K!PresetUrl[p] ELSE url, key |-> key]
           r == [pc |-> "keyring", op |-> "set", e |-> e, input |-> input, remember |-> remember,
                 saved |-> FALSE]
<1>1. /\ K!Begin(t) /\ thread' = [thread EXCEPT ![t] = r]
      /\ UNCHANGED <<llm, entries, ring, legacy, flag, starts, out>>
  BY DEF K!SetConfig, K!None
<1>2. input \in Entries
  BY DEF Entries, Keys, K!PresetUrl, K!Providers, K!None
<1>3. r \in Requests /\ OpFits(r)
  BY <1>2 DEF Requests, OpFits, Mine
<1> HIDE DEF r
<1>4. KeysTyped'
  BY <1>1, <1>3, Begins DEF KeysIInv, KeysTyped
<1>5. OptedOut'
  BY <1>1, Begins DEF KeysIInv, OptedOut
<1>6. ~seen'.overlap => LoneRequest'
  <2> SUFFICES ASSUME ~seen'.overlap PROVE LoneRequest'
    OBVIOUS
  <2>1. ~seen.overlap /\ K!Quiet /\ seen'.others = seen.others
    BY <1>1, Begins
  <2>2. thread'[t] = r /\ r.pc = "keyring" /\ r.op = "set"
    BY <1>1 DEF r, KeysIInv, KeysTyped
  <2>3. Lone(thread[t])'
    BY <1>1, <2>1, <2>2, LoneQuiet DEF Lone, Remembered, SameUrl, Stored, Saving
  <2>4. \A u \in Threads : u # t => thread'[u].pc = "idle"
    BY <1>1, <2>1 DEF K!Quiet, KeysIInv, KeysTyped
  <2> QED
    BY <1>4, <2>3, <2>4, LoneStep DEF KeysTyped
<1> QED
  BY <1>1, <1>4, <1>5, <1>6 DEF KeysIInv


(* What is known of a request on its way.                                   *)
LEMMA Carried ==
    ASSUME KeysIInv, NEW t \in Threads
    PROVE  /\ thread[t] \in Requests /\ OpFits(thread[t])
           /\ thread[t].e \in Executors /\ thread[t].input \in Entries
           /\ thread[t].pc # "idle" /\ thread[t].op \in {"set", "load"} =>
                thread[t].input.provider \in K!Providers
BY DEF KeysIInv, KeysTyped, OpFits, Requests

LEMMA StepSaveKey ==
    ASSUME KeysIInv, NEW t \in Threads, NEW works \in BOOLEAN, K!SaveKey(t, works)
    PROVE  KeysIInv'
<1> DEFINE r == thread[t]
           w == <<r.e, r.input.provider>>
           keeps == r.remember /\ r.input.key # "none"
           s == [r EXCEPT !.pc = "settings", !.saved = keeps /\ works]
<1>1. /\ r.pc = "keyring"
      /\ ring' = [ring EXCEPT ![w] = IF ~works \/ (r.remember /\ ~keeps) THEN @
                                     ELSE IF keeps THEN r.input.key ELSE "none"]
      /\ thread' = [thread EXCEPT ![t] = s]
      /\ out' = IF r.remember THEN out \ {w} ELSE out \cup {w}
      /\ seen' = [seen EXCEPT !.failed = @ \/ ~works, !.others = @ \/ r.e # Node]
      /\ UNCHANGED <<llm, entries, legacy, flag, starts>>
  BY DEF K!SaveKey, K!None, KeysIInv, KeysTyped
<1>2. /\ r \in Requests /\ OpFits(r) /\ r.e \in Executors /\ r.input \in Entries
      /\ r.op = "set" /\ r.input.provider \in K!Providers /\ r.input.key \in Mine(r.e)
  BY <1>1, Carried DEF OpFits
<1>3. w \in Executors \X K!Providers /\ r.input.key \in Keys /\ r.remember \in BOOLEAN
  BY <1>2 DEF Entries, Requests
<1>4. s \in Requests /\ OpFits(s)
  BY <1>1, <1>2, <1>3 DEF Requests, OpFits
<1>5. /\ s.pc = "settings" /\ s.op = "set" /\ s.e = r.e /\ s.input = r.input
      /\ (s.saved <=> keeps /\ works)
  BY <1>2 DEF Requests
<1>6. ring \in [Executors \X K!Providers -> Keys] /\ out \subseteq Executors \X K!Providers
      /\ seen \in [overlap : BOOLEAN, failed : BOOLEAN, others : BOOLEAN]
      /\ thread \in [Threads -> Requests]
  BY DEF KeysIInv, KeysTyped
<1> HIDE DEF s
<1>7. /\ ring' \in [Executors \X K!Providers -> Keys] /\ out' \subseteq Executors \X K!Providers
      /\ \A ep \in Executors \X K!Providers : ep # w => ring'[ep] = ring[ep]
      /\ ring'[w] \in {ring[w], r.input.key, "none"}
      /\ works /\ ~r.remember => ring'[w] = "none"
      /\ keeps /\ works => ring'[w] = r.input.key
  BY <1>1, <1>3, <1>6 DEF Keys
<1>8. /\ seen' \in [overlap : BOOLEAN, failed : BOOLEAN, others : BOOLEAN]
      /\ seen'.overlap = seen.overlap
      /\ ~seen'.failed => ~seen.failed /\ works
      /\ ~seen'.others => ~seen.others /\ r.e = Node
  BY <1>1, <1>6
<1>9. KeysTyped'
  BY <1>1, <1>4, <1>7, <1>8 DEF KeysIInv, KeysTyped
<1>10. OptedOut'
  BY <1>1, <1>3, <1>6, <1>7, <1>8 DEF KeysIInv, OptedOut
<1>11. \A e \in Executors : \A p \in K!Providers : ring'[<<e, p>>] \in Mine(e)
  <2> TAKE e \in Executors
  <2> TAKE p \in K!Providers
  <2>1. ring[<<e, p>>] \in Mine(e) /\ "none" \in Mine(e)
    BY DEF KeysIInv, Mine
  <2>2. CASE <<e, p>> = w
    BY <2>1, <2>2, <1>2, <1>7
  <2>3. CASE <<e, p>> # w
    BY <2>1, <2>3, <1>7
  <2> QED
    BY <2>2, <2>3
<1>12. ~seen'.overlap => LoneRequest'
  <2> SUFFICES ASSUME ~seen'.overlap PROVE LoneRequest'
    OBVIOUS
  <2>1. Lone(r) /\ \A u \in Threads : u # t => thread[u].pc = "idle"
    BY <1>1, <1>8, LoneBefore
  <2>2. thread'[t] = s /\ \A u \in Threads : u # t => thread'[u].pc = "idle"
    BY <1>1, <1>6, <2>1
  <2>3. s.saved => Stored(thread[t].input.provider)' \/ s.e # Node
    BY <2>2, <1>1, <1>3, <1>5, <1>7 DEF Stored
  <2>4. Lone(thread[t])'
    BY <1>1, <1>2, <1>5, <1>8, <2>1, <2>2, <2>3 DEF Lone, Remembered, SameUrl, Saving, Stored
  <2> QED
    BY <1>9, <2>2, <2>4, LoneStep DEF KeysTyped
<1> QED
  BY <1>1, <1>9, <1>10, <1>11, <1>12 DEF KeysIInv

LEMMA StepPersistConfig ==
    ASSUME KeysIInv, NEW t \in Threads, K!PersistConfig(t)
    PROVE  KeysIInv'
<1> DEFINE r == thread[t]
           bare == [r.input EXCEPT !.key = "none"]
           s == [r EXCEPT !.pc = "memory"]
<1>1. /\ r.pc = "settings" /\ r.op = "set"
      /\ entries' = [entries EXCEPT ![r.e] = bare] /\ thread' = [thread EXCEPT ![t] = s]
      /\ UNCHANGED <<llm, ring, legacy, flag, starts, out, seen>>
  BY DEF K!PersistConfig, K!Goto, K!None, KeysIInv, KeysTyped
<1>2. /\ r \in Requests /\ OpFits(r) /\ r.e \in Executors /\ r.input \in Entries
      /\ r.input.provider \in K!Providers
  BY <1>1, Carried
<1>3. /\ bare \in Entries /\ bare.provider = r.input.provider /\ bare.url = r.input.url
      /\ bare.provider # "none"
  BY <1>2 DEF Entries, Keys, K!Providers
<1>4. /\ s \in Requests /\ OpFits(s) /\ s.pc = "memory" /\ s.op = "set" /\ s.e = r.e
      /\ s.input = r.input /\ s.saved = r.saved
  BY <1>1, <1>2 DEF Requests, OpFits
<1> HIDE DEF s, bare
<1>5. /\ entries' \in [Executors -> Entries] /\ entries'[r.e] = bare
      /\ \A e \in Executors : e # r.e => entries'[e] = entries[e]
      /\ thread' \in [Threads -> Requests] /\ thread'[t] = s
      /\ \A u \in Threads : u # t => thread'[u] = thread[u]
  BY <1>1, <1>2, <1>3, <1>4 DEF KeysIInv, KeysTyped
<1>6. KeysTyped'
  BY <1>1, <1>3, <1>4, <1>5 DEF KeysIInv, KeysTyped
<1>7. ~seen'.overlap => LoneRequest'
  <2> SUFFICES ASSUME ~seen.overlap PROVE LoneRequest'
    BY <1>1
  <2>1. Lone(r) /\ \A u \in Threads : u # t => thread[u].pc = "idle"
    BY <1>1, LoneBefore
  <2>2. \A e \in Executors : SameUrl(llm[e], e)' \/ Saving(thread[t], e)'
    BY <1>1, <1>4, <1>5, <2>1 DEF Lone, SameUrl, Saving
  <2>3. SameUrl(thread[t].input, thread[t].e)'
    BY <1>3, <1>4, <1>5 DEF SameUrl
  <2>4. Lone(thread[t])'
    BY <1>1, <1>4, <1>5, <2>1, <2>2, <2>3 DEF Lone, Remembered, Saving, Stored
  <2> QED
    BY <1>5, <2>1, <2>4, LoneStep
<1> QED
  BY <1>1, <1>6, <1>7 DEF KeysIInv, OptedOut

LEMMA StepStoreMemory ==
    ASSUME KeysIInv, NEW t \in Threads, K!StoreMemory(t)
    PROVE  KeysIInv'
<1> DEFINE r == thread[t]
           pc == IF r.op = "load" /\ r.e # Node THEN "idle" ELSE "flag"
           s == [r EXCEPT !.pc = pc]
<1>1. /\ r.pc = "memory"
      /\ llm' = [llm EXCEPT ![r.e] = r.input] /\ thread' = [thread EXCEPT ![t] = s]
      /\ UNCHANGED <<entries, ring, legacy, flag, starts, out, seen>>
  BY DEF K!StoreMemory, K!Goto, KeysIInv, KeysTyped
<1>2. /\ r \in Requests /\ OpFits(r) /\ r.e \in Executors /\ r.input \in Entries
      /\ r.op \in {"set", "load"} /\ r.input.provider \in K!Providers
      /\ r.input.key \in Mine(r.e) /\ r.input.provider # "none" /\ r.input # K!NoEntry
  <2>1. r \in Requests /\ OpFits(r) /\ r.e \in Executors /\ r.input \in Entries
    BY Carried
  <2>2. r.op \in {"set", "load"} /\ r.input.key \in Mine(r.e)
    BY <1>1, <2>1 DEF OpFits
  <2>3. r.input.provider \in K!Providers
    BY <1>1, <2>2, Carried
  <2>4. r.input.provider # "none" /\ K!NoEntry.provider = "none"
    BY <2>3 DEF K!Providers, K!NoEntry, K!None
  <2> QED
    BY <2>1, <2>2, <2>3, <2>4
<1>3. /\ s \in Requests /\ OpFits(s) /\ s.pc = pc /\ s.op = r.op /\ s.e = r.e
      /\ s.input = r.input /\ s.saved = r.saved
  BY <1>1, <1>2 DEF Requests, OpFits
<1> HIDE DEF s
<1>4. /\ llm' \in [Executors -> Entries] /\ llm'[r.e] = r.input
      /\ \A e \in Executors : e # r.e => llm'[e] = llm[e]
      /\ thread' \in [Threads -> Requests] /\ thread'[t] = s
      /\ \A u \in Threads : u # t => thread'[u] = thread[u]
  BY <1>1, <1>2, <1>3 DEF KeysIInv, KeysTyped
<1>5. KeysTyped'
  BY <1>1, <1>2, <1>3, <1>4 DEF KeysIInv, KeysTyped
<1>6. ~seen'.overlap => LoneRequest'
  <2> SUFFICES ASSUME ~seen.overlap PROVE LoneRequest'
    BY <1>1
  <2>1. Lone(r) /\ \A u \in Threads : u # t => thread[u].pc = "idle"
    BY <1>1, LoneBefore
  <2>2. \A e \in Executors : SameUrl(llm[e], e)'
    <3> TAKE e \in Executors
    <3>1. CASE e = r.e
      BY <3>1, <1>1, <1>4, <2>1 DEF Lone, SameUrl
    <3>2. CASE e # r.e
      BY <3>2, <1>1, <1>4, <2>1 DEF Lone, SameUrl, Saving
    <3> QED
      BY <3>1, <3>2
  <2>3. starts' = 0 => \A e \in Executors : llm'[e] = K!NoEntry => entries'[e] = K!NoEntry
    BY <1>1, <1>2, <1>4, <2>1 DEF Lone, Saving
  <2>4. ~seen'.others => Remembered(thread[t])'
    <3> SUFFICES ASSUME ~seen.others PROVE Remembered(thread[t])'
      BY <1>1
    <3>1. Remembered(r)
      BY <2>1 DEF Lone
    <3>2. CASE r.op = "set"
      BY <3>1, <3>2, <1>1, <1>3, <1>4 DEF Remembered, Stored
    <3>3. CASE r.op = "load" /\ r.e = Node
      BY <3>1, <3>3, <1>1, <1>3, <1>4 DEF Remembered, Stored
    <3>4. CASE r.op = "load" /\ r.e # Node
      BY <3>1, <3>4, <1>1, <1>3, <1>4 DEF Remembered, Stored, KeysIInv, KeysTyped
    <3> QED
      BY <3>2, <3>3, <3>4, <1>2
  <2>5. s.pc # "memory" /\ s.op # "clear"
    BY <1>2, <1>3
  <2>6. Lone(thread[t])'
    BY <1>4, <2>2, <2>3, <2>4, <2>5 DEF Lone
  <2> QED
    BY <1>4, <2>1, <2>6, LoneStep
<1> QED
  BY <1>1, <1>2, <1>4, <1>5, <1>6 DEF KeysIInv, OptedOut

LEMMA StepSetFlag ==
    ASSUME KeysIInv, NEW t \in Threads, K!SetFlag(t)
    PROVE  KeysIInv'
<1> DEFINE r == thread[t]
<1>1. /\ r.pc = "flag" /\ flag' = r.saved /\ thread' = [thread EXCEPT ![t] = K!Idle]
      /\ UNCHANGED <<llm, entries, ring, legacy, starts, out, seen>>
  BY DEF K!SetFlag
<1>2. r \in Requests /\ OpFits(r) /\ r.saved \in BOOLEAN /\ r.op \in {"set", "load", "clear"}
  BY <1>1, Carried DEF Requests, OpFits
<1>3. /\ K!Idle \in Requests /\ OpFits(K!Idle) /\ K!Idle.pc = "idle" /\ K!Idle.op = "none"
  BY DEF K!Idle, K!NoEntry, K!None, Requests, OpFits, Mine, Entries, Keys, KeysIInv, KeysTyped
<1>4. /\ thread' \in [Threads -> Requests] /\ thread'[t] = K!Idle
      /\ \A u \in Threads : u # t => thread'[u] = thread[u]
  BY <1>1, <1>3 DEF KeysIInv, KeysTyped
<1>5. KeysTyped'
  BY <1>1, <1>2, <1>3, <1>4 DEF KeysIInv, KeysTyped
<1>6. ~seen'.overlap => LoneRequest'
  <2> SUFFICES ASSUME ~seen.overlap PROVE LoneRequest'
    BY <1>1
  <2>1. Lone(r) /\ \A u \in Threads : u # t => thread[u].pc = "idle"
    BY <1>1, LoneBefore
  <2>2. \A e \in Executors : SameUrl(llm[e], e)'
    BY <1>1, <2>1 DEF Lone, SameUrl, Saving
  <2>3. starts' = 0 => \A e \in Executors : llm'[e] = K!NoEntry => entries'[e] = K!NoEntry
    BY <1>1, <2>1 DEF Lone, Saving
  <2>4. ~seen'.others => Remembered(thread[t])'
    <3> SUFFICES ASSUME ~seen.others PROVE Remembered(thread[t])'
      BY <1>1
    <3>1. Remembered(r)
      BY <2>1 DEF Lone
    <3>2. CASE r.op = "clear"
      BY <3>1, <3>2, <1>1, <1>2, <1>3, <1>4 DEF Remembered, Stored, OpFits
    <3>3. CASE r.op = "set"
      BY <3>1, <3>3, <1>1, <1>2, <1>3, <1>4 DEF Remembered, Stored
    <3>4. CASE r.op = "load"
      BY <3>1, <3>4, <1>1, <1>2, <1>3, <1>4 DEF Remembered, Stored, OpFits
    <3> QED
      BY <3>2, <3>3, <3>4, <1>2
  <2>5. Lone(thread[t])'
    BY <1>3, <1>4, <2>2, <2>3, <2>4 DEF Lone
  <2> QED
    BY <1>4, <2>1, <2>5, LoneStep
<1> QED
  BY <1>1, <1>5, <1>6 DEF KeysIInv, OptedOut


LEMMA IdleFits ==
    ASSUME KeysIInv
    PROVE  /\ K!Idle \in Requests /\ OpFits(K!Idle) /\ K!Idle.saved = FALSE
           /\ K!Idle.pc = "idle" /\ K!Idle.op = "none"
BY DEF K!Idle, K!NoEntry, K!None, Requests, OpFits, Mine, Entries, Keys, KeysIInv, KeysTyped

(* An executor's stored key is one of its own, and reading it may write the *)
(* older build's forward.                                                   *)
LEMMA Migrating ==
    ASSUME KeysIInv, NEW e \in Executors, NEW p \in K!Providers, NEW works \in BOOLEAN,
           ring' = K!Migrated(e, p, works), UNCHANGED legacy
    PROVE  /\ K!StoredKey(e, p) \in Mine(e) /\ K!StoredKey(e, p) \in Keys
           /\ ring' \in [Executors \X K!Providers -> Keys]
           /\ \A f \in Executors, q \in K!Providers : ring'[<<f, q>>] \in Mine(f)
           /\ \A q \in K!Providers : Stored(q) => Stored(q)'
           /\ K!StoredKey(e, p) # "none" /\ e = Node => Stored(p)'
           /\ \A ep \in Executors \X K!Providers :
                ep[2] \notin legacy /\ ring[ep] = "none" => ring'[ep] = "none"
<1> DEFINE w == <<e, p>>
           key == K!StoredKey(e, p)
<1>1. /\ ring \in [Executors \X K!Providers -> Keys] /\ Node \in Executors
      /\ \A f \in Executors, q \in K!Providers : ring[<<f, q>>] \in Mine(f)
  BY DEF KeysIInv, KeysTyped
<1>2. w \in Executors \X K!Providers /\ w[2] = p
  OBVIOUS
<1>3. ring' = [ring EXCEPT ![w] = IF works THEN key ELSE ring[w]]
  BY <1>1, <1>2 DEF K!Migrated
<1>4. /\ key = ring[w] \/ (ring[w] = "none" /\ key = "none")
                       \/ (ring[w] = "none" /\ e = Node /\ p \in legacy /\ key = "legacy")
      /\ key # "none" => ring[w] = key \/ p \in legacy
  BY DEF K!StoredKey, K!None
<1>5. key \in Mine(e)
  BY <1>1, <1>4 DEF Mine
<1>6. key \in Keys
  BY <1>1, <1>2, <1>4 DEF Keys
<1> HIDE DEF key
<1>7. /\ ring' \in [Executors \X K!Providers -> Keys] /\ ring'[w] \in {ring[w], key}
      /\ \A ep \in Executors \X K!Providers : ep # w => ring'[ep] = ring[ep]
  BY <1>1, <1>2, <1>3, <1>6
<1>8. \A f \in Executors, q \in K!Providers : ring'[<<f, q>>] \in Mine(f)
  <2> TAKE f \in Executors, q \in K!Providers
  <2>1. CASE <<f, q>> = w
    BY <2>1, <1>1, <1>5, <1>7
  <2>2. CASE <<f, q>> # w
    BY <2>2, <1>1, <1>7
  <2> QED
    BY <2>1, <2>2
<1>9. \A q \in K!Providers : Stored(q) => Stored(q)'
  <2> TAKE q \in K!Providers
  <2>1. CASE <<Node, q>> = w
    BY <2>1, <1>4, <1>7 DEF Stored
  <2>2. CASE <<Node, q>> # w
    BY <2>2, <1>1, <1>7 DEF Stored
  <2> QED
    BY <2>1, <2>2
<1>10. key # "none" /\ e = Node => Stored(p)'
  BY <1>4, <1>7 DEF Stored
<1>11. \A ep \in Executors \X K!Providers :
         ep[2] \notin legacy /\ ring[ep] = "none" => ring'[ep] = "none"
  BY <1>2, <1>4, <1>7
<1> QED
  BY <1>5, <1>6, <1>7, <1>8, <1>9, <1>10, <1>11 DEF key

LEMMA StepHasStoredKey ==
    ASSUME KeysIInv, NEW t \in Threads, NEW e \in Executors, NEW p \in K!Providers,
           NEW works \in BOOLEAN, K!HasStoredKey(t, e, p, works)
    PROVE  KeysIInv'
<1>1. /\ K!Begin(t) /\ ring' = K!Migrated(e, p, works) /\ thread[t].pc = "idle"
      /\ UNCHANGED <<llm, entries, legacy, flag, thread, starts, out>>
  BY DEF K!HasStoredKey, K!Begin
<1>2. KeysTyped'
  BY <1>1, Begins, Migrating DEF KeysIInv, KeysTyped
<1>3. OptedOut'
  BY <1>1, Begins, Migrating DEF KeysIInv, KeysTyped, OptedOut
<1>4. ~seen'.overlap => LoneRequest'
  <2> SUFFICES ASSUME ~seen'.overlap PROVE LoneRequest'
    OBVIOUS
  <2>1. ~seen.overlap /\ K!Quiet /\ seen'.others = seen.others
    BY <1>1, Begins
  <2>2. \A u \in Threads : thread'[u].pc = "idle"
    BY <1>1, <2>1 DEF K!Quiet
  <2>3. ~seen'.others /\ flag' /\ llm'[Node] # K!NoEntry => Stored(llm[Node].provider)'
    <3> SUFFICES ASSUME ~seen.others, flag, llm[Node] # K!NoEntry
                 PROVE  Stored(llm[Node].provider)'
      BY <1>1, <2>1
    <3>1. Stored(llm[Node].provider) /\ llm[Node].provider \in K!Providers
      BY <2>1, LoneQuiet DEF KeysIInv, KeysTyped, Entries
    <3> QED
      BY <1>1, <3>1, Migrating DEF Stored
  <2>4. Lone(thread[t])'
    BY <1>1, <2>1, <2>2, <2>3, LoneQuiet DEF Lone, Remembered, SameUrl
  <2> QED
    BY <1>2, <2>2, <2>4, LoneStep DEF KeysTyped
<1> QED
  BY <1>1, <1>2, <1>3, <1>4, Migrating DEF KeysIInv

LEMMA StepLoadStoredKey ==
    ASSUME KeysIInv, NEW t \in Threads, NEW e \in Executors, NEW p \in K!Providers,
           NEW works \in BOOLEAN, K!LoadStoredKey(t, e, p, works)
    PROVE  KeysIInv'
<1> DEFINE input == [provider |-> p, url |-> "none", key |-> K!StoredKey(e, p)]
           r == [K!Idle EXCEPT !.pc = "pair", !.op = "load", !.e = e, !.saved = TRUE, !.input = input]
<1>1. /\ K!Begin(t) /\ ring' = K!Migrated(e, p, works) /\ K!StoredKey(e, p) # "none"
      /\ thread' = [thread EXCEPT ![t] = r]
      /\ UNCHANGED <<llm, entries, legacy, flag, starts, out>>
  BY DEF K!LoadStoredKey, K!None
<1>2. input \in Entries /\ K!StoredKey(e, p) \in Mine(e)
  BY <1>1, Migrating DEF Entries
<1>3. r \in Requests /\ r.pc = "pair" /\ r.op = "load" /\ r.e = e /\ r.input = input
  BY <1>2, IdleFits DEF Requests
<1>4. OpFits(r)
  BY <1>2, <1>3 DEF OpFits
<1> HIDE DEF r
<1>5. /\ thread' \in [Threads -> Requests] /\ thread'[t] = r
      /\ \A u \in Threads : u # t => thread'[u] = thread[u]
  BY <1>1, <1>3 DEF KeysIInv, KeysTyped
<1>6. KeysTyped'
  BY <1>1, <1>4, <1>5, Begins, Migrating DEF KeysIInv, KeysTyped
<1>7. OptedOut'
  BY <1>1, Begins, Migrating DEF KeysIInv, KeysTyped, OptedOut
<1>8. ~seen'.overlap => LoneRequest'
  <2> SUFFICES ASSUME ~seen'.overlap PROVE LoneRequest'
    OBVIOUS
  <2>1. ~seen.overlap /\ K!Quiet /\ seen'.others = seen.others
    BY <1>1, Begins
  <2>2. \A u \in Threads : u # t => thread'[u].pc = "idle"
    BY <1>5, <2>1 DEF K!Quiet
  <2>3. ~seen'.others /\ flag' /\ llm'[Node] # K!NoEntry => Stored(llm[Node].provider)'
    <3> SUFFICES ASSUME ~seen.others, flag, llm[Node] # K!NoEntry
                 PROVE  Stored(llm[Node].provider)'
      BY <1>1, <2>1
    <3>1. Stored(llm[Node].provider) /\ llm[Node].provider \in K!Providers
      BY <2>1, LoneQuiet DEF KeysIInv, KeysTyped, Entries
    <3> QED
      BY <1>1, <3>1, Migrating DEF Stored
  <2>4. e = Node => Stored(thread[t].input.provider)'
    BY <1>1, <1>3, <1>5, Migrating DEF Stored
  <2>5. Lone(thread[t])'
    BY <1>1, <1>3, <1>5, <2>1, <2>3, <2>4, LoneQuiet DEF Lone, Remembered, SameUrl
  <2> QED
    BY <1>5, <2>2, <2>5, LoneStep
<1> QED
  BY <1>1, <1>6, <1>7, <1>8, Migrating DEF KeysIInv

LEMMA StepPairKey ==
    ASSUME KeysIInv, NEW t \in Threads, K!PairKey(t)
    PROVE  KeysIInv'
<1> DEFINE r == thread[t]
           paired == [r.input EXCEPT !.url = K!UrlFor(r.e, r.input.provider)]
           pc == IF K!Ready(paired) THEN "memory" ELSE "idle"
           s == [r EXCEPT !.pc = pc, !.input = paired]
<1>1. /\ r.pc = "pair" /\ thread' = [thread EXCEPT ![t] = s]
      /\ UNCHANGED <<llm, entries, ring, legacy, flag, starts, out, seen>>
  BY DEF K!PairKey, KeysIInv, KeysTyped
<1>2. r \in Requests /\ OpFits(r) /\ r.e \in Executors /\ r.input \in Entries /\ r.op = "load"
  BY <1>1, Carried DEF OpFits
<1>3. r.input.provider \in K!Providers /\ r.input.key \in Mine(r.e)
  BY <1>1, <1>2, Carried DEF OpFits
<1>4. /\ llm \in [Executors -> Entries] /\ entries \in [Executors -> Entries]
      /\ thread \in [Threads -> Requests]
  BY DEF KeysIInv, KeysTyped
<1>5. K!UrlFor(r.e, r.input.provider) \in {"none", "own", "api", "localhost"}
  BY <1>2, <1>3, <1>4 DEF K!UrlFor, K!PresetUrl, K!Providers, K!None, Entries
<1>6. /\ paired \in Entries /\ paired.provider = r.input.provider /\ paired.key = r.input.key
      /\ paired.url = K!UrlFor(r.e, r.input.provider)
  BY <1>2, <1>5 DEF Entries
<1>7. pc \in {"memory", "idle"}
  OBVIOUS
<1> HIDE DEF paired, pc
<1>8. /\ s \in Requests /\ OpFits(s) /\ s.pc = pc /\ s.op = "load" /\ s.e = r.e
      /\ s.input = paired
  BY <1>1, <1>2, <1>3, <1>6, <1>7 DEF Requests, OpFits
<1> HIDE DEF s
<1>9. /\ thread' \in [Threads -> Requests] /\ thread'[t] = s
      /\ \A u \in Threads : u # t => thread'[u] = thread[u]
  BY <1>1, <1>4, <1>8
<1>10. KeysTyped'
  BY <1>1, <1>8, <1>9 DEF KeysIInv, KeysTyped
<1>11. ~seen'.overlap => LoneRequest'
  <2> SUFFICES ASSUME ~seen.overlap PROVE LoneRequest'
    BY <1>1
  <2>1. Lone(r) /\ \A u \in Threads : u # t => thread[u].pc = "idle"
    BY <1>1, LoneBefore
  <2>2. SameUrl(thread[t].input, thread[t].e)'
    BY <1>1, <1>6, <1>8, <1>9 DEF SameUrl, K!UrlFor
  <2>3. Lone(thread[t])'
    BY <1>1, <1>2, <1>6, <1>7, <1>8, <1>9, <2>1, <2>2
    DEF Lone, Remembered, SameUrl, Saving, Stored
  <2> QED
    BY <1>9, <2>1, <2>3, LoneStep
<1> QED
  BY <1>1, <1>10, <1>11 DEF KeysIInv, OptedOut


LEMMA StepClearConfig ==
    ASSUME KeysIInv, NEW t \in Threads, NEW e \in Executors, K!ClearConfig(t, e)
    PROVE  KeysIInv'
<1> DEFINE pc == IF llm[e] = K!NoEntry THEN "settings" ELSE "delete"
           r == [K!Idle EXCEPT !.pc = pc, !.op = "clear", !.e = e, !.input = llm[e]]
<1>1. /\ K!Begin(t) /\ llm' = [llm EXCEPT ![e] = K!NoEntry]
      /\ thread' = [thread EXCEPT ![t] = r]
      /\ UNCHANGED <<entries, ring, legacy, flag, starts, out>>
  BY DEF K!ClearConfig
<1>2. /\ llm \in [Executors -> Entries] /\ entries \in [Executors -> Entries]
      /\ thread \in [Threads -> Requests] /\ llm[e] \in Entries /\ llm[e].key \in Mine(e)
      /\ \A f \in Executors : /\ llm[f].provider = "none" => llm[f] = K!NoEntry
                              /\ entries[f].provider = "none" => entries[f] = K!NoEntry
  BY DEF KeysIInv, KeysTyped
<1>3. /\ K!NoEntry \in Entries /\ K!NoEntry.provider = "none" /\ K!NoEntry.key \in Mine(e)
      /\ K!NoEntry.url = "none"
  BY DEF K!NoEntry, K!None, Entries, Keys, Mine
<1>4. pc \in {"settings", "delete"} /\ (pc = "delete" => llm[e].provider \in K!Providers)
  BY <1>2 DEF Entries
<1> HIDE DEF pc
<1>5. /\ r \in Requests /\ OpFits(r) /\ r.pc = pc /\ r.op = "clear" /\ r.e = e
  <2>1. /\ r \in Requests /\ r.pc = pc /\ r.op = "clear" /\ r.e = e /\ r.input = llm[e]
        /\ r.saved = FALSE
    BY <1>2, <1>4, IdleFits DEF Requests
  <2> QED
    BY <1>2, <1>4, <2>1 DEF OpFits
<1> HIDE DEF r
<1>6. /\ llm' \in [Executors -> Entries] /\ llm'[e] = K!NoEntry
      /\ \A f \in Executors : f # e => llm'[f] = llm[f]
      /\ thread' \in [Threads -> Requests] /\ thread'[t] = r
      /\ \A u \in Threads : u # t => thread'[u] = thread[u]
  BY <1>1, <1>2, <1>3, <1>5
<1>7. KeysTyped'
  BY <1>1, <1>2, <1>5, <1>6, Begins DEF KeysIInv, KeysTyped
<1>8. OptedOut'
  BY <1>1, Begins DEF KeysIInv, OptedOut
<1>9. ~seen'.overlap => LoneRequest'
  <2> SUFFICES ASSUME ~seen'.overlap PROVE LoneRequest'
    OBVIOUS
  <2>1. ~seen.overlap /\ K!Quiet /\ seen'.others = seen.others
    BY <1>1, Begins
  <2>2. \A u \in Threads : u # t => thread'[u].pc = "idle"
    BY <1>6, <2>1 DEF K!Quiet
  <2>3. \A f \in Executors : SameUrl(llm[f], f)'
    <3> TAKE f \in Executors
    <3>1. CASE f = e
      BY <3>1, <1>1, <1>2, <1>3, <1>6 DEF SameUrl
    <3>2. CASE f # e
      BY <3>2, <1>1, <1>6, <2>1, LoneQuiet DEF SameUrl
    <3> QED
      BY <3>1, <3>2
  <2>4. starts' = 0 => \A f \in Executors : llm'[f] = K!NoEntry => entries'[f] = K!NoEntry \/ f = e
    BY <1>1, <1>6, <2>1, LoneQuiet
  <2>5. ~seen'.others => Remembered(thread[t])'
    BY <1>1, <1>4, <1>5, <1>6, <2>1, LoneQuiet DEF Remembered, Stored, KeysIInv, KeysTyped
  <2>6. Lone(thread[t])'
    BY <1>1, <1>4, <1>5, <1>6, <2>3, <2>4, <2>5 DEF Lone
  <2> QED
    BY <1>6, <2>2, <2>6, LoneStep
<1> QED
  BY <1>1, <1>3, <1>6, <1>7, <1>8, <1>9 DEF KeysIInv

LEMMA StepDeleteKey ==
    ASSUME KeysIInv, NEW t \in Threads, NEW works \in BOOLEAN, K!DeleteKey(t, works)
    PROVE  KeysIInv'
<1> DEFINE r == thread[t]
           w == <<r.e, r.input.provider>>
           s == [r EXCEPT !.pc = "settings"]
<1>1. /\ r.pc = "delete" /\ ring' = [ring EXCEPT ![w] = IF works THEN "none" ELSE @]
      /\ thread' = [thread EXCEPT ![t] = s]
      /\ seen' = [seen EXCEPT !.failed = @ \/ ~works]
      /\ UNCHANGED <<llm, entries, legacy, flag, starts, out>>
  BY DEF K!DeleteKey, K!Goto, K!None, KeysIInv, KeysTyped
<1>2. /\ r \in Requests /\ OpFits(r) /\ r.e \in Executors /\ r.op = "clear"
      /\ r.input.provider \in K!Providers
  BY <1>1, Carried DEF OpFits
<1>3. /\ ring \in [Executors \X K!Providers -> Keys] /\ thread \in [Threads -> Requests]
      /\ seen \in [overlap : BOOLEAN, failed : BOOLEAN, others : BOOLEAN]
  BY DEF KeysIInv, KeysTyped
<1>4. /\ s \in Requests /\ OpFits(s) /\ s.pc = "settings" /\ s.op = "clear" /\ s.e = r.e
  BY <1>1, <1>2 DEF Requests, OpFits
<1> HIDE DEF s
<1>5. /\ ring' \in [Executors \X K!Providers -> Keys] /\ ring'[w] \in {ring[w], "none"}
      /\ \A ep \in Executors \X K!Providers : ep # w => ring'[ep] = ring[ep]
  BY <1>1, <1>2, <1>3 DEF Keys
<1>6. /\ seen' \in [overlap : BOOLEAN, failed : BOOLEAN, others : BOOLEAN]
      /\ seen'.overlap = seen.overlap /\ seen'.others = seen.others
      /\ ~seen'.failed => ~seen.failed
  BY <1>1, <1>3
<1>7. /\ thread' \in [Threads -> Requests] /\ thread'[t] = s
      /\ \A u \in Threads : u # t => thread'[u] = thread[u]
  BY <1>1, <1>3, <1>4
<1>8. KeysTyped'
  BY <1>1, <1>4, <1>5, <1>6, <1>7 DEF KeysIInv, KeysTyped
<1>9. OptedOut'
  BY <1>1, <1>5, <1>6 DEF KeysIInv, KeysTyped, OptedOut
<1>10. \A e \in Executors : \A p \in K!Providers : ring'[<<e, p>>] \in Mine(e)
  <2> TAKE e \in Executors
  <2> TAKE p \in K!Providers
  <2>1. ring[<<e, p>>] \in Mine(e) /\ "none" \in Mine(e)
    BY DEF KeysIInv, Mine
  <2>2. CASE <<e, p>> = w
    BY <2>1, <2>2, <1>5
  <2>3. CASE <<e, p>> # w
    BY <2>1, <2>3, <1>5
  <2> QED
    BY <2>2, <2>3
<1>11. ~seen'.overlap => LoneRequest'
  <2> SUFFICES ASSUME ~seen'.overlap PROVE LoneRequest'
    OBVIOUS
  <2>1. Lone(r) /\ \A u \in Threads : u # t => thread[u].pc = "idle"
    BY <1>1, <1>6, LoneBefore
  <2>2. ~seen'.others /\ flag' /\ llm'[Node] # K!NoEntry => Stored(llm[Node].provider)'
    <3> SUFFICES ASSUME ~seen.others, flag, llm[Node] # K!NoEntry
                 PROVE  Stored(llm[Node].provider)'
      BY <1>1, <1>6
    <3>1. Stored(llm[Node].provider) /\ llm[Node].provider \in K!Providers
      BY <1>2, <2>1 DEF Lone, Remembered, KeysIInv, KeysTyped, Entries
    <3>2. r.e # Node
      BY <1>1, <1>2, <2>1 DEF Lone
    <3> QED
      BY <1>1, <1>2, <1>5, <3>1, <3>2 DEF Stored, KeysIInv, KeysTyped
  <2>3. Lone(thread[t])'
    BY <1>1, <1>2, <1>4, <1>6, <1>7, <2>1, <2>2 DEF Lone, Remembered, SameUrl, Saving
  <2> QED
    BY <1>7, <2>1, <2>3, LoneStep
<1> QED
  BY <1>1, <1>8, <1>9, <1>10, <1>11 DEF KeysIInv

LEMMA StepForgetConfig ==
    ASSUME KeysIInv, NEW t \in Threads, K!ForgetConfig(t)
    PROVE  KeysIInv'
<1> DEFINE r == thread[t]
           pc == IF r.e = Node THEN "flag" ELSE "idle"
           s == [r EXCEPT !.pc = pc]
<1>1. /\ r.pc = "settings" /\ r.op = "clear"
      /\ entries' = [entries EXCEPT ![r.e] = K!NoEntry] /\ thread' = [thread EXCEPT ![t] = s]
      /\ UNCHANGED <<llm, ring, legacy, flag, starts, out, seen>>
  BY DEF K!ForgetConfig, K!Goto, KeysIInv, KeysTyped
<1>2. r \in Requests /\ OpFits(r) /\ r.e \in Executors
  BY Carried
<1>3. K!NoEntry \in Entries /\ K!NoEntry.provider = "none" /\ K!NoEntry.url = "none"
  BY DEF K!NoEntry, K!None, Entries, Keys
<1>4. r.saved \in BOOLEAN /\ pc \in {"flag", "idle"} /\ (pc = "flag" => r.e = Node)
  BY <1>2 DEF Requests
<1>5. s \in Requests /\ s.pc = pc /\ s.op = "clear" /\ s.e = r.e /\ s.input = r.input
      /\ s.saved = r.saved
  BY <1>1, <1>2, <1>4 DEF Requests
<1>6. OpFits(s)
  BY <1>1, <1>2, <1>4, <1>5 DEF OpFits
<1> HIDE DEF s, pc
<1>7. /\ entries' \in [Executors -> Entries] /\ entries'[r.e] = K!NoEntry
      /\ \A e \in Executors : e # r.e => entries'[e] = entries[e]
      /\ thread' \in [Threads -> Requests] /\ thread'[t] = s
      /\ \A u \in Threads : u # t => thread'[u] = thread[u]
  BY <1>1, <1>2, <1>3, <1>5 DEF KeysIInv, KeysTyped
<1>8. KeysTyped'
  BY <1>1, <1>5, <1>6, <1>7 DEF KeysIInv, KeysTyped
<1>9. ~seen'.overlap => LoneRequest'
  <2> SUFFICES ASSUME ~seen.overlap PROVE LoneRequest'
    BY <1>1
  <2>1. Lone(r) /\ \A u \in Threads : u # t => thread[u].pc = "idle"
    BY <1>1, LoneBefore
  <2>2. llm[r.e] = K!NoEntry
    BY <1>1, <2>1 DEF Lone
  <2>3. \A e \in Executors : SameUrl(llm[e], e)'
    <3> TAKE e \in Executors
    <3>1. CASE e = r.e
      BY <3>1, <1>1, <1>3, <1>7, <2>2 DEF SameUrl
    <3>2. CASE e # r.e
      BY <3>2, <1>1, <1>7, <2>1 DEF Lone, SameUrl, Saving
    <3> QED
      BY <3>1, <3>2
  <2>4. starts' = 0 => \A e \in Executors : llm'[e] = K!NoEntry => entries'[e] = K!NoEntry
    BY <1>1, <1>7, <2>1 DEF Lone, Saving
  <2>5. ~seen'.others => Remembered(thread[t])'
    <3> SUFFICES ASSUME ~seen.others PROVE Remembered(thread[t])'
      BY <1>1
    <3>1. Remembered(r)
      BY <2>1 DEF Lone
    <3> QED
      BY <3>1, <1>1, <1>4, <1>5, <1>7 DEF Remembered, Stored
  <2>6. Lone(thread[t])'
    BY <1>1, <1>4, <1>5, <1>7, <2>2, <2>3, <2>4, <2>5 DEF Lone
  <2> QED
    BY <1>7, <2>1, <2>6, LoneStep
<1> QED
  BY <1>1, <1>8, <1>9 DEF KeysIInv, OptedOut

LEMMA StepBoot ==
    ASSUME KeysIInv, NEW env \in BOOLEAN, K!Boot(env)
    PROVE  KeysIInv'
<1> DEFINE given == [provider |-> "cloud", url |-> "api", key |-> "env"]
<1>1. /\ starts' = starts + 1 /\ flag' = FALSE /\ thread' = [t \in Threads |-> K!Idle]
      /\ llm' = [e \in Executors |-> IF env /\ e = Node THEN given ELSE K!NoEntry]
      /\ seen' = [seen EXCEPT !.overlap = @ \/ ~K!Quiet]
      /\ UNCHANGED <<entries, ring, legacy, out>>
  BY DEF K!Boot
<1>2. /\ K!NoEntry \in Entries /\ K!NoEntry.provider = "none" /\ K!NoEntry.url = "none"
      /\ K!NoEntry.key = "none"
  BY DEF K!NoEntry, K!None, Entries, Keys
<1>3. given \in Entries /\ given.provider # "none" /\ given.key = "env"
  BY DEF Entries, Keys, K!Providers
<1>4. K!Idle \in Requests /\ OpFits(K!Idle) /\ K!Idle.pc = "idle" /\ K!Idle.op = "none"
  BY IdleFits
<1> HIDE DEF given
<1>5. /\ \A e \in Executors : llm'[e] = K!NoEntry \/ (llm'[e] = given /\ e = Node)
      /\ llm' \in [Executors -> Entries] /\ thread' \in [Threads -> Requests]
      /\ \A t \in Threads : thread'[t] = K!Idle
  BY <1>1, <1>2, <1>3, <1>4
<1>6. /\ seen' \in [overlap : BOOLEAN, failed : BOOLEAN, others : BOOLEAN]
      /\ seen'.failed = seen.failed
      /\ ~seen'.overlap => ~seen.overlap /\ K!Quiet
  BY <1>1 DEF KeysIInv, KeysTyped
<1>7. KeysTyped'
  BY <1>1, <1>2, <1>3, <1>4, <1>5, <1>6 DEF KeysIInv, KeysTyped
<1>8. \A e \in Executors : llm'[e].key \in Mine(e)
  BY <1>2, <1>3, <1>5 DEF Mine
<1>9. ~seen'.overlap => LoneRequest'
  <2> SUFFICES ASSUME ~seen'.overlap PROVE LoneRequest'
    OBVIOUS
  <2>1. \A e \in Executors : SameUrl(llm[e], e)'
    BY <1>1, <1>2, <1>3, <1>5 DEF SameUrl, KeysIInv, KeysTyped
  <2>2. starts' # 0
    BY <1>1 DEF KeysIInv
  <2>3. PICK r \in Requests : r = K!Idle
    BY <1>4
  <2>4. Lone(r)'
    BY <1>1, <1>4, <2>1, <2>2, <2>3 DEF Lone, Remembered
  <2> QED
    BY <1>4, <1>5, <2>3, <2>4 DEF LoneRequest
<1>10. starts' \in Nat
  BY <1>1 DEF KeysIInv
<1> QED
  BY <1>1, <1>6, <1>7, <1>8, <1>9, <1>10 DEF KeysIInv, OptedOut

LEMMA KeysNext == KeysIInv /\ [K!Next]_(K!vars) => KeysIInv'
<1> SUFFICES ASSUME KeysIInv, [K!Next]_(K!vars) PROVE KeysIInv'
  OBVIOUS
<1>1. ASSUME NEW env \in BOOLEAN, K!Boot(env) PROVE KeysIInv'
  BY <1>1, StepBoot
<1>2. ASSUME NEW t \in Threads, NEW e \in Executors, NEW p \in K!Providers,
             NEW url \in {K!None, "own"}, NEW typed \in BOOLEAN, NEW remember \in BOOLEAN,
             K!SetConfig(t, e, p, url, IF typed THEN e ELSE K!None, remember)
      PROVE  KeysIInv'
  BY <1>2, StepSetConfig DEF K!None
<1>3. ASSUME NEW t \in Threads, NEW works \in BOOLEAN,
             K!SaveKey(t, works) \/ K!DeleteKey(t, works)
      PROVE  KeysIInv'
  BY <1>3, StepSaveKey, StepDeleteKey
<1>4. ASSUME NEW t \in Threads, NEW works \in BOOLEAN, NEW e \in Executors, NEW p \in K!Providers,
             K!HasStoredKey(t, e, p, works) \/ K!LoadStoredKey(t, e, p, works)
      PROVE  KeysIInv'
  BY <1>4, StepHasStoredKey, StepLoadStoredKey
<1>5. ASSUME NEW t \in Threads, NEW e \in Executors, K!ClearConfig(t, e) PROVE KeysIInv'
  BY <1>5, StepClearConfig
<1>6. ASSUME NEW t \in Threads,
             \/ K!PersistConfig(t) \/ K!StoreMemory(t) \/ K!SetFlag(t) \/ K!PairKey(t)
             \/ K!ForgetConfig(t)
      PROVE  KeysIInv'
  BY <1>6, StepPersistConfig, StepStoreMemory, StepSetFlag, StepPairKey, StepForgetConfig
<1>7. CASE UNCHANGED K!vars
  <2>1. UNCHANGED <<llm, entries, ring, legacy, flag, thread, starts, out, seen>>
    BY <1>7 DEF K!vars
  <2>2. KeysTyped'
    BY <2>1 DEF KeysIInv, KeysTyped
  <2>3. OptedOut'
    BY <2>1 DEF KeysIInv, OptedOut
  <2>4. ASSUME LoneRequest PROVE LoneRequest'
    <3>1. \A r \in Requests : Lone(r) => Lone(r)'
      BY <2>1 DEF Lone, Remembered, SameUrl, Stored, Saving
    <3> QED
      BY <2>1, <2>4, <3>1 DEF LoneRequest
  <2> QED
    BY <2>1, <2>2, <2>3, <2>4 DEF KeysIInv
<1>8. ASSUME NEW t \in Threads, NEW works \in BOOLEAN,
             \/ K!SaveKey(t, works) \/ K!DeleteKey(t, works)
             \/ \E e \in Executors, p \in K!Providers :
                  K!HasStoredKey(t, e, p, works) \/ K!LoadStoredKey(t, e, p, works)
      PROVE  KeysIInv'
  BY <1>3, <1>4, <1>8
<1>9. ASSUME NEW t \in Threads,
             \E e \in Executors, p \in K!Providers, url \in {K!None, "own"}, typed, remember \in BOOLEAN :
                 K!SetConfig(t, e, p, url, IF typed THEN e ELSE K!None, remember)
      PROVE  KeysIInv'
  BY <1>2, <1>9
<1> QED
  BY <1>1, <1>5, <1>6, <1>7, <1>8, <1>9, ZenonT(30) DEF K!Next

LEMMA KeysSafe == KeysIInv => K!KeysInv
<1> SUFFICES ASSUME KeysIInv PROVE K!KeysInv
  OBVIOUS
<1>1. K!KeyGoesWithItsOwner
  BY DEF KeysIInv, K!KeyGoesWithItsOwner, Mine, K!None
<1>2. K!AloneEndpointIsRestored
  BY LoneQuiet DEF K!AloneEndpointIsRestored, K!Alone, SameUrl
<1>3. K!AloneClearedIsForgotten
  BY LoneQuiet DEF K!AloneClearedIsForgotten, K!Alone
<1>4. K!AloneOptOutForgets
  BY DEF KeysIInv, OptedOut, K!AloneOptOutForgets, K!Alone, K!None
<1>5. K!AloneRememberedIsStored
  BY LoneQuiet DEF K!AloneRememberedIsStored, K!Alone, K!ShownPersisted, Stored, K!None
<1> QED
  BY <1>1, <1>2, <1>3, <1>4, <1>5 DEF K!KeysInv

(* A key reaches only the executor it was typed for, through every save,    *)
(* migration, clear and restart of any number of requests; and as long as   *)
(* requests come one at a time, memory, settings.json and keyring agree     *)
(* (build_llm, set_llm_config_with_for, clear_llm_config).                  *)
THEOREM KeysStayWithTheirOwner ==
    ASSUME K!LocalIsAnExecutor PROVE K!Spec => []K!KeysInv
<1>1. K!Init => KeysIInv
  BY KeysInit DEF K!LocalIsAnExecutor
<1> QED
  BY <1>1, KeysNext, KeysSafe, PTL DEF K!Spec

-----------------------------------------------------------------------------
(***************************************************************************)
(* AgentLoop: the conversation of an agent, its turns and their rows.      *)
(***************************************************************************)
CONSTANTS Caps, Kinds, MaxCalls, MaxTurns, ReadWait, SettleQuiet
VARIABLES msgs, pc, iter, cap, calls, trail, vm, files, guest, read, turns

A == INSTANCE AgentLoop WITH rows <- trail

Message == [role : {"system", "notice", "user", "assistant", "tool"}, n : Nat]

(* A conversation begins with the constitution.                             *)
Conversation(m) == m \in Seq(Message) /\ Len(m) >= 1 /\ m[1] = A!System

(* The assistant's message at i has all its results behind it.              *)
Replied(m, i) == \A k \in 1 .. m[i].n : i + k <= Len(m) /\ m[i + k] = A!ToolMsg(k)
RepliedUpTo(m, b) == \A i \in 1 .. b : m[i].role = "assistant" => Replied(m, i)

(* A result stands in a row of results, which begins behind its call, or    *)
(* behind the notice of a cut.                                              *)
RowFrom(m, b, i) ==
    /\ m[b].role # "tool" /\ \A h \in (b + 1) .. i : m[h].role = "tool"
    /\ \/ m[b].role = "assistant" /\ m[i].n = i - b
       \/ m[b] = A!Notice /\ b = 2
ResultsInRows(m) == \A i \in 1 .. Len(m) : m[i].role = "tool" => \E b \in 1 .. i : RowFrom(m, b, i)

(* The answer whose calls are being executed: it is the last message but    *)
(* for the results that are there, and c calls are left.                    *)
OpenAt(m, a, c) ==
    /\ a \in 1 .. Len(m) /\ m[a].role = "assistant" /\ m[a].n >= 1
    /\ c <= m[a].n /\ Len(m) = a + (m[a].n - c)
    /\ \A k \in 1 .. (m[a].n - c) : m[a + k] = A!ToolMsg(k)
    /\ RepliedUpTo(m, a - 1)

LoopTyped ==
    /\ Conversation(msgs) /\ calls \in Seq(Kinds)
    /\ pc \in {"idle", "request", "stream", "tools", "reading"}
    /\ iter \in Nat /\ cap \in Caps /\ guest \in Nat
    /\ trail \in [A!Actions -> Nat]
    /\ read \in [waited : Nat, seen : Nat, quiet : Nat,
                 answer : {"none", "error", "output", "silent"}]

MayAsk == iter < (IF cap = 0 THEN 1 ELSE cap)
NewestIsTheirs == msgs[Len(msgs)].role \in {"user", "tool"}

TalkKnown ==
    /\ ResultsInRows(msgs)
    /\ pc \in {"idle", "request", "stream"} => RepliedUpTo(msgs, Len(msgs))
    /\ pc \in {"tools", "reading"} => \E a \in 1 .. Len(msgs) : OpenAt(msgs, a, Len(calls))
    /\ pc = "reading" => calls # << >>
    /\ pc \in {"request", "stream"} => NewestIsTheirs
    /\ pc = "stream" => Len(msgs) <= ContextMax

RowsKnown ==
    /\ trail["llm.request"] = trail["stream.start"] /\ trail["llm.response"] = trail["stream.end"]
    /\ trail["llm.request"] - trail["llm.response"] \in 0 .. 1
    /\ pc \in {"request", "tools", "reading"} => trail["llm.request"] = trail["llm.response"]
    /\ pc = "stream" => trail["llm.request"] = trail["llm.response"] + 1
    /\ trail["tool.call"] = trail["tool.result"] + (IF pc = "reading" THEN 1 ELSE 0)

CapKnown == A!CapHolds /\ (pc = "request" => MayAsk)

LoopIInv ==
    A!LoopAssumption /\ LoopTyped /\ TalkKnown /\ RowsKnown /\ CapKnown /\ A!SilentMeansSilent

LEMMA MessagesAre ==
    /\ A!System \in Message /\ A!Notice \in Message /\ A!User \in Message
    /\ \A k \in Nat : A!Assistant(k) \in Message /\ A!ToolMsg(k) \in Message
    /\ A!System.role = "system" /\ A!Notice.role = "notice" /\ A!User.role = "user"
    /\ \A k \in Nat : /\ A!Assistant(k).role = "assistant" /\ A!Assistant(k).n = k
                      /\ A!ToolMsg(k).role = "tool" /\ A!ToolMsg(k).n = k
BY DEF Message, A!System, A!Notice, A!User, A!Assistant, A!ToolMsg

LEMMA OneMore ==
    ASSUME NEW m, Conversation(m), NEW x \in Message
    PROVE  /\ Conversation(Append(m, x)) /\ Len(Append(m, x)) = Len(m) + 1
           /\ Append(m, x)[Len(m) + 1] = x
           /\ \A i \in 1 .. Len(m) : Append(m, x)[i] = m[i] /\ m[i] \in Message
           /\ Len(m) \in Nat
BY DEF Conversation

(* What was replied stays replied.                                          *)
LEMMA AppendKeepsReplies ==
    ASSUME NEW m, Conversation(m), NEW x \in Message, NEW b \in 0 .. Len(m), RepliedUpTo(m, b)
    PROVE  RepliedUpTo(Append(m, x), b)
<1> SUFFICES ASSUME NEW i \in 1 .. b, Append(m, x)[i].role = "assistant",
                    NEW k \in 1 .. Append(m, x)[i].n
             PROVE  /\ i + k <= Len(Append(m, x)) /\ Append(m, x)[i + k] = A!ToolMsg(k)
  BY DEF RepliedUpTo, Replied
<1>1. Append(m, x)[i] = m[i] /\ m[i] \in Message /\ Len(m) \in Nat /\ i \in 1 .. Len(m)
  BY OneMore
<1>2. m[i].n \in Nat /\ k \in 1 .. m[i].n
  BY <1>1 DEF Message
<1>3. i + k <= Len(m) /\ m[i + k] = A!ToolMsg(k)
  BY <1>1, <1>2 DEF RepliedUpTo, Replied
<1>4. i + k \in 1 .. Len(m)
  BY <1>1, <1>2, <1>3
<1> QED
  BY <1>3, <1>4, OneMore

LEMMA AppendKeepsRows ==
    ASSUME NEW m, Conversation(m), ResultsInRows(m), NEW x \in Message,
           x.role = "tool" => \E b \in 1 .. Len(m) + 1 : RowFrom(Append(m, x), b, Len(m) + 1)
    PROVE  ResultsInRows(Append(m, x))
<1> DEFINE l == Append(m, x)
<1>1. /\ Len(l) = Len(m) + 1 /\ l[Len(m) + 1] = x /\ Len(m) \in Nat
      /\ \A i \in 1 .. Len(m) : l[i] = m[i]
  BY OneMore
<1> HIDE DEF l
<1>2. ASSUME NEW i \in 1 .. Len(m), l[i].role = "tool"
      PROVE  \E b \in 1 .. i : RowFrom(l, b, i)
  <2>1. PICK b \in 1 .. i : RowFrom(m, b, i)
    BY <1>1, <1>2 DEF ResultsInRows
  <2>2. RowFrom(l, b, i)
    <3>1. l[b] = m[b] /\ l[i] = m[i] /\ \A h \in (b + 1) .. i : l[h] = m[h]
      BY <1>1
    <3> QED
      BY <2>1, <3>1 DEF RowFrom
  <2> QED
    BY <2>2
<1>3. x.role = "tool" => \E b \in 1 .. Len(m) + 1 : RowFrom(l, b, Len(m) + 1)
  BY DEF l
<1>4. ResultsInRows(l)
  <2> SUFFICES ASSUME NEW i \in 1 .. Len(l), l[i].role = "tool"
               PROVE  \E b \in 1 .. i : RowFrom(l, b, i)
    BY DEF ResultsInRows
  <2>1. CASE i \in 1 .. Len(m)
    BY <1>2, <2>1
  <2>2. CASE i = Len(m) + 1
    BY <1>1, <1>3, <2>2
  <2> QED
    BY <1>1, <2>1, <2>2
<1> QED
  BY <1>4 DEF l

(* The open answer is the one the loop finds, and its next result goes on   *)
(* with its row.                                                            *)
LEMMA OpenIsAsked ==
    ASSUME Conversation(msgs), NEW a, NEW c \in Nat, OpenAt(msgs, a, c)
    PROVE  A!Asked = a
<1>1. /\ a \in 1 .. Len(msgs) /\ msgs[a].role = "assistant" /\ msgs[a].n \in Nat
      /\ Len(msgs) \in Nat
      /\ \A j \in (a + 1) .. Len(msgs) : msgs[j].role = "tool"
  <2>1. /\ a \in 1 .. Len(msgs) /\ msgs[a] \in Message /\ Len(msgs) \in Nat
        /\ msgs[a].n \in Nat /\ Len(msgs) = a + (msgs[a].n - c) /\ c <= msgs[a].n
    <3>1. msgs \in Seq(Message) /\ a \in 1 .. Len(msgs)
      BY DEF OpenAt, Conversation
    <3>2. msgs[a] \in Message /\ Len(msgs) \in Nat
      BY <3>1
    <3>3. msgs[a].n \in Nat
      BY <3>2 DEF Message
    <3> QED
      BY <3>1, <3>2, <3>3 DEF OpenAt
  <2>2. ASSUME NEW j \in (a + 1) .. Len(msgs) PROVE msgs[j].role = "tool"
    <3>1. j - a \in 1 .. (msgs[a].n - c) /\ j = a + (j - a) /\ j - a \in Nat
      BY <2>1
    <3>2. msgs[a + (j - a)] = A!ToolMsg(j - a)
      BY <3>1 DEF OpenAt
    <3> QED
      BY <3>1, <3>2, MessagesAre
  <2> QED
    BY <2>1, <2>2 DEF OpenAt
<1>2. ASSUME NEW i \in 1 .. Len(msgs), msgs[i].role = "assistant",
             \A j \in (i + 1) .. Len(msgs) : msgs[j].role = "tool"
      PROVE  i = a
  <2>1. CASE i < a
    <3>1. a \in (i + 1) .. Len(msgs)
      BY <1>1, <2>1
    <3> QED
      BY <1>1, <1>2, <3>1
  <2>2. CASE i > a
    <3>1. i \in (a + 1) .. Len(msgs)
      BY <1>1, <2>2
    <3> QED
      BY <1>1, <1>2, <3>1
  <2> QED
    BY <1>1, <2>1, <2>2
<1> QED
  BY <1>1, <1>2 DEF A!Asked

LEMMA CallsAre ==
    ASSUME calls \in Seq(Kinds)
    PROVE  /\ Len(calls) \in Nat
           /\ calls # << >> => /\ Len(calls) >= 1
                              /\ Tail(calls) \in Seq(Kinds) /\ Len(Tail(calls)) = Len(calls) - 1
BY EmptySeq, HeadTailProperties

(* A result that is pushed is the next of its answer.                       *)
LEMMA PushKeepsTalk ==
    ASSUME LoopTyped, TalkKnown, pc \in {"tools", "reading"}, calls # << >>, A!PushResult
    PROVE  /\ Conversation(msgs') /\ calls' \in Seq(Kinds) /\ pc' = "tools"
           /\ TalkKnown'
<1> DEFINE c == Len(calls)
<1>1. PICK a \in 1 .. Len(msgs) : OpenAt(msgs, a, c)
  BY DEF TalkKnown
<1>2. /\ Conversation(msgs) /\ c \in Nat /\ c >= 1
      /\ calls' \in Seq(Kinds) /\ Len(calls') = c - 1
  BY CallsAre DEF LoopTyped, A!PushResult
<1>3. A!Asked = a
  BY <1>1, <1>2, OpenIsAsked
<1>4. msgs[a] \in Message /\ Len(msgs) \in Nat
  BY <1>1, <1>2 DEF Conversation
<1> DEFINE n == msgs[a].n
           x == A!ToolMsg(n - c + 1)
<1>5. /\ n \in Nat /\ c <= n /\ n - c + 1 \in Nat /\ Len(msgs) = a + (n - c)
      /\ a \in Nat /\ a >= 1 /\ msgs[a].role = "assistant" /\ n >= 1
      /\ \A k \in 1 .. (n - c) : msgs[a + k] = A!ToolMsg(k)
      /\ RepliedUpTo(msgs, a - 1)
  <2>1. n \in Nat /\ a \in Nat /\ a >= 1
    BY <1>4 DEF Message
  <2>2. /\ c <= n /\ Len(msgs) = a + (n - c) /\ msgs[a].role = "assistant" /\ n >= 1
        /\ \A k \in 1 .. (n - c) : msgs[a + k] = A!ToolMsg(k)
        /\ RepliedUpTo(msgs, a - 1)
    BY <1>1 DEF OpenAt
  <2> HIDE DEF c, n
  <2> QED
    BY <1>2, <2>1, <2>2
<1>6. msgs' = Append(msgs, x) /\ x \in Message /\ x.role = "tool" /\ x.n = n - c + 1
      /\ pc' = "tools"
  BY <1>3, <1>5, MessagesAre DEF A!PushResult
<1> HIDE DEF c, n, x
<1>7. /\ Conversation(msgs') /\ Len(msgs') = Len(msgs) + 1 /\ msgs'[Len(msgs) + 1] = x
      /\ \A i \in 1 .. Len(msgs) : msgs'[i] = msgs[i]
  BY <1>2, <1>6, OneMore
<1>8. /\ msgs'[a].role = "assistant" /\ msgs'[a].n = n
  BY <1>1, <1>5, <1>7 DEF n
<1>9. ASSUME NEW k \in 1 .. (n - c + 1) PROVE msgs'[a + k] = A!ToolMsg(k) /\ k \in Nat
  <2>1. CASE k <= n - c
    <3>1. k \in 1 .. (n - c) /\ a + k \in 1 .. Len(msgs)
      BY <1>2, <1>5, <2>1
    <3> QED
      BY <1>5, <1>7, <3>1
  <2>2. CASE k = n - c + 1
    <3>1. a + k = Len(msgs) + 1
      BY <1>2, <1>5, <2>2
    <3> QED
      BY <1>5, <1>7, <2>2, <3>1 DEF x
  <2> QED
    BY <1>2, <1>5, <2>1, <2>2
<1>10. OpenAt(msgs', a, c - 1)
  <2>1. RepliedUpTo(msgs', a - 1)
    <3>1. a - 1 \in 0 .. Len(msgs)
      BY <1>1, <1>5
    <3> QED
      BY <1>2, <1>5, <1>6, <3>1, AppendKeepsReplies
  <2>2. n - (c - 1) = n - c + 1
    BY <1>2, <1>5
  <2>3. a \in 1 .. Len(msgs') /\ c - 1 <= n /\ Len(msgs') = a + (n - (c - 1))
    BY <1>1, <1>2, <1>4, <1>5, <1>7
  <2> QED
    BY <1>5, <1>8, <1>9, <2>1, <2>2, <2>3 DEF OpenAt
<1>11. RowFrom(msgs', a, Len(msgs) + 1)
  <2>1. ASSUME NEW h \in (a + 1) .. (Len(msgs) + 1) PROVE msgs'[h].role = "tool"
    <3>1. h - a \in 1 .. (n - c + 1) /\ h = a + (h - a)
      BY <1>2, <1>4, <1>5
    <3>2. msgs'[a + (h - a)] = A!ToolMsg(h - a) /\ h - a \in Nat
      BY <1>9, <3>1
    <3> QED
      BY <3>1, <3>2, MessagesAre
  <2>2. msgs'[Len(msgs) + 1].n = (Len(msgs) + 1) - a
    BY <1>2, <1>5, <1>6, <1>7
  <2> QED
    BY <1>8, <2>1, <2>2 DEF RowFrom
<1>12. ResultsInRows(msgs')
  <2>1. a \in 1 .. Len(msgs) + 1
    BY <1>1, <1>4
  <2> QED
    BY <1>2, <1>6, <1>11, <2>1, AppendKeepsRows DEF TalkKnown
<1>13. TalkKnown'
  <2>1. a \in 1 .. Len(msgs') /\ OpenAt(msgs', a, Len(calls'))
    BY <1>2, <1>10 DEF OpenAt
  <2> QED
    BY <1>6, <1>12, <2>1 DEF TalkKnown
<1> QED
  BY <1>2, <1>6, <1>7, <1>13

(* Once no call is left the last answer is replied to as well.              *)
LEMMA AllReplied ==
    ASSUME LoopTyped, TalkKnown, pc = "tools", calls = << >>
    PROVE  RepliedUpTo(msgs, Len(msgs)) /\ NewestIsTheirs
<1>1. PICK a \in 1 .. Len(msgs) : OpenAt(msgs, a, 0)
  <2>1. Len(calls) = 0
    OBVIOUS
  <2> QED
    BY <2>1 DEF TalkKnown
<1>2. msgs[a] \in Message /\ Len(msgs) \in Nat
  BY DEF LoopTyped, Conversation
<1> DEFINE n == msgs[a].n
<1>3. /\ n \in Nat /\ n >= 1 /\ Len(msgs) = a + n /\ a \in Nat /\ a >= 1
      /\ \A k \in 1 .. n : msgs[a + k] = A!ToolMsg(k)
      /\ RepliedUpTo(msgs, a - 1)
  <2>1. n \in Nat /\ a \in Nat /\ a >= 1
    BY <1>2 DEF Message
  <2>2. /\ n >= 1 /\ Len(msgs) = a + (n - 0)
        /\ \A k \in 1 .. (n - 0) : msgs[a + k] = A!ToolMsg(k)
        /\ RepliedUpTo(msgs, a - 1)
    BY <1>1 DEF OpenAt
  <2>3. n - 0 = n
    BY <2>1
  <2> HIDE DEF n
  <2> QED
    BY <2>1, <2>2, <2>3
<1>4. ASSUME NEW i \in 1 .. Len(msgs), msgs[i].role = "assistant" PROVE Replied(msgs, i)
  <2>1. CASE i < a
    <3>1. i \in 1 .. (a - 1)
      BY <1>3, <2>1
    <3> QED
      BY <1>3, <1>4, <3>1 DEF RepliedUpTo
  <2>2. CASE i = a
    BY <1>2, <1>3, <2>2 DEF Replied
  <2>3. CASE i > a
    <3>1. i - a \in 1 .. n /\ i = a + (i - a) /\ i - a \in Nat
      <4>1. i \in Nat /\ i > a /\ i <= a + n /\ a \in Nat /\ n \in Nat
        BY <1>2, <1>3, <2>3
      <4> HIDE DEF n
      <4> QED
        BY <4>1
    <3>2. msgs[a + (i - a)] = A!ToolMsg(i - a)
      BY <1>3, <3>1
    <3> QED
      BY <1>4, <3>1, <3>2, MessagesAre
  <2> QED
    BY <1>3, <2>1, <2>2, <2>3
<1>5. msgs[Len(msgs)].role = "tool"
  <2>1. n \in 1 .. n
    BY <1>3
  <2>2. msgs[a + n] = A!ToolMsg(n) /\ A!ToolMsg(n).role = "tool"
    BY <1>3, <2>1, MessagesAre
  <2> QED
    BY <1>3, <2>2
<1> QED
  BY <1>4, <1>5 DEF RepliedUpTo, NewestIsTheirs

(* trim_context: the constitution, the notice, and the newest messages.     *)
LEMMA TrimIs ==
    ASSUME A!LoopAssumption, NEW m, Conversation(m), Len(m) > ContextMax
    PROVE  /\ Conversation(A!TrimContext(m)) /\ Len(A!TrimContext(m)) = ContextKeep + 2
           /\ A!TrimContext(m)[2] = A!Notice
           /\ \A j \in 1 .. ContextKeep : A!TrimContext(m)[j + 2] = m[Len(m) - ContextKeep + j]
<1> DEFINE front == <<A!System>>
           note == <<A!Notice>>
           tail == SubSeq(m, Len(m) - ContextKeep + 1, Len(m))
           t == (front \o note) \o tail
<1>1. /\ m \in Seq(Message) /\ Len(m) \in Nat /\ m[1] = A!System
      /\ ContextKeep \in Nat /\ ContextKeep >= 1 /\ ContextMax \in Nat /\ ContextKeep + 2 <= ContextMax
  BY DEF Conversation, A!LoopAssumption
<1>2. A!TrimContext(m) = t
  BY <1>1 DEF A!TrimContext
<1>3. /\ tail \in Seq(Message) /\ Len(tail) = ContextKeep
      /\ \A j \in 1 .. ContextKeep : tail[j] = m[Len(m) - ContextKeep + j]
  <2> DEFINE s == Len(m) - ContextKeep + 1
             e == Len(m)
  <2>1. s \in Int /\ e \in Int /\ s <= e /\ e - s + 1 = ContextKeep /\ s >= 1
    BY <1>1
  <2>2. \A i \in s .. e : m[i] \in Message
    BY <1>1, <2>1
  <2> HIDE DEF s, e
  <2>3. /\ SubSeq(m, s, e) \in Seq(Message) /\ Len(SubSeq(m, s, e)) = ContextKeep
        /\ \A j \in 1 .. ContextKeep : SubSeq(m, s, e)[j] = m[s + j - 1]
    BY <2>1, <2>2, SubSeqProperties
  <2>4. \A j \in 1 .. ContextKeep : s + j - 1 = Len(m) - ContextKeep + j
    BY <1>1 DEF s
  <2> QED
    BY <2>3, <2>4 DEF s, e
<1>4. /\ front \in Seq(Message) /\ note \in Seq(Message) /\ Len(front) = 1 /\ Len(note) = 1
      /\ front[1] = A!System /\ note[1] = A!Notice
  BY MessagesAre
<1> HIDE DEF front, note, tail
<1>5. /\ front \o note \in Seq(Message) /\ Len(front \o note) = 2
      /\ (front \o note)[1] = A!System /\ (front \o note)[2] = A!Notice
  <2>1. /\ front \o note \in Seq(Message) /\ Len(front \o note) = Len(front) + Len(note)
        /\ \A i \in 1 .. Len(front) + Len(note) : (front \o note)[i] =
             IF i <= Len(front) THEN front[i] ELSE note[i - Len(front)]
    BY <1>4, ConcatProperties
  <2> QED
    BY <1>4, <2>1
<1>6. /\ t \in Seq(Message) /\ Len(t) = ContextKeep + 2
      /\ \A i \in 1 .. ContextKeep + 2 : t[i] = IF i <= 2 THEN (front \o note)[i] ELSE tail[i - 2]
  <2>1. /\ t \in Seq(Message) /\ Len(t) = Len(front \o note) + Len(tail)
        /\ \A i \in 1 .. Len(front \o note) + Len(tail) : t[i] =
             IF i <= Len(front \o note) THEN (front \o note)[i] ELSE tail[i - Len(front \o note)]
    BY <1>3, <1>5, ConcatProperties
  <2>2. /\ t \in Seq(Message) /\ Len(t) = 2 + ContextKeep
        /\ \A i \in 1 .. 2 + ContextKeep : t[i] =
             IF i <= 2 THEN (front \o note)[i] ELSE tail[i - 2]
    BY <1>3, <1>5, <2>1
  <2>3. 2 + ContextKeep = ContextKeep + 2
    BY <1>1
  <2> HIDE DEF t
  <2> QED
    BY <2>2, <2>3
<1> HIDE DEF t
<1>7. t[1] = A!System /\ t[2] = A!Notice
  BY <1>1, <1>5, <1>6
<1>8. ASSUME NEW j \in 1 .. ContextKeep PROVE t[j + 2] = m[Len(m) - ContextKeep + j]
  <2>1. j + 2 \in 1 .. ContextKeep + 2 /\ ~(j + 2 <= 2) /\ (j + 2) - 2 = j
    BY <1>1
  <2> QED
    BY <1>3, <1>6, <2>1
<1> QED
  BY <1>1, <1>2, <1>6, <1>7, <1>8 DEF Conversation

LEMMA TrimKeepsTalk ==
    ASSUME A!LoopAssumption, NEW m, Conversation(m), ResultsInRows(m), RepliedUpTo(m, Len(m)),
           Len(m) > ContextMax
    PROVE  LET t == A!TrimContext(m)
           IN  /\ Conversation(t) /\ ResultsInRows(t) /\ RepliedUpTo(t, Len(t))
               /\ Len(t) <= ContextMax /\ t[Len(t)] = m[Len(m)]
<1> DEFINE t == A!TrimContext(m)
           off == Len(m) - ContextKeep - 2
<1>1. /\ Conversation(t) /\ Len(t) = ContextKeep + 2 /\ t[2] = A!Notice
      /\ \A j \in 1 .. ContextKeep : t[j + 2] = m[Len(m) - ContextKeep + j]
  BY TrimIs
<1>2. /\ Len(m) \in Nat /\ ContextKeep \in Nat /\ ContextKeep >= 1 /\ ContextMax \in Nat
      /\ ContextKeep + 2 <= ContextMax /\ Len(m) > ContextMax /\ off \in Nat /\ off >= 1
      /\ Len(m) = off + ContextKeep + 2
  BY DEF Conversation, A!LoopAssumption
<1> HIDE DEF t, off
<1>3. /\ t[1] = A!System /\ t[1].role = "system" /\ t[2].role = "notice"
  BY <1>1, MessagesAre DEF Conversation
<1>4. ASSUME NEW i \in 3 .. Len(t) PROVE t[i] = m[off + i] /\ off + i \in 1 .. Len(m)
  <2>1. i - 2 \in 1 .. ContextKeep /\ (i - 2) + 2 = i /\ Len(m) - ContextKeep + (i - 2) = off + i
    BY <1>1, <1>2
  <2>2. off + i \in 1 .. Len(m)
    BY <1>1, <1>2
  <2> QED
    BY <1>1, <2>1, <2>2
<1>5. ASSUME NEW i \in 1 .. Len(t), t[i].role \notin {"system", "notice"} PROVE i \in 3 .. Len(t)
  BY <1>1, <1>2, <1>3, <1>5
<1>6. RepliedUpTo(t, Len(t))
  <2> SUFFICES ASSUME NEW i \in 1 .. Len(t), t[i].role = "assistant", NEW k \in 1 .. t[i].n
               PROVE  i + k <= Len(t) /\ t[i + k] = A!ToolMsg(k)
    BY DEF RepliedUpTo, Replied
  <2>1. i \in 3 .. Len(t)
    BY <1>5
  <2>2. t[i] = m[off + i] /\ off + i \in 1 .. Len(m)
    BY <1>4, <2>1
  <2>3. m[off + i] \in Message /\ m[off + i].n \in Nat
    <3>1. m[off + i] \in Message
      BY <2>2 DEF Conversation
    <3> QED
      BY <3>1 DEF Message
  <2>4. off + i + k <= Len(m) /\ m[off + i + k] = A!ToolMsg(k)
    BY <2>2 DEF RepliedUpTo, Replied
  <2>5. k \in Nat /\ k >= 1 /\ i + k <= Len(t) /\ i + k \in 3 .. Len(t) /\ off + (i + k) = off + i + k
    BY <1>1, <1>2, <2>1, <2>2, <2>3, <2>4
  <2> QED
    BY <1>4, <2>4, <2>5
<1>7. ResultsInRows(t)
  <2> SUFFICES ASSUME NEW i \in 1 .. Len(t), t[i].role = "tool"
               PROVE  \E b \in 1 .. i : RowFrom(t, b, i)
    BY DEF ResultsInRows
  <2>1. i \in 3 .. Len(t)
    BY <1>5
  <2>2. t[i] = m[off + i] /\ off + i \in 1 .. Len(m)
    BY <1>4, <2>1
  <2>3. PICK b \in 1 .. off + i : RowFrom(m, b, off + i)
    BY <2>2 DEF ResultsInRows
  <2>4. CASE b >= off + 3
    <3>1. /\ b - off \in 3 .. i /\ off + (b - off) = b /\ b - off \in 3 .. Len(t)
          /\ b - off \in 1 .. i /\ i - (b - off) = (off + i) - b
      BY <1>1, <1>2, <2>1, <2>4
    <3>2. t[b - off] = m[b]
      BY <1>4, <3>1
    <3>3. m[b].role = "assistant" /\ m[off + i].n = (off + i) - b /\ m[b].role # "tool"
      <4>1. b # 2
        BY <1>2, <2>4
      <4> QED
        BY <2>3, <4>1, MessagesAre DEF RowFrom
    <3>4. ASSUME NEW h \in ((b - off) + 1) .. i PROVE t[h].role = "tool"
      <4>1. h \in 3 .. Len(t) /\ off + h \in (b + 1) .. (off + i)
        BY <1>1, <1>2, <2>1, <3>1
      <4> QED
        BY <1>4, <2>3, <4>1 DEF RowFrom
    <3>5. RowFrom(t, b - off, i)
      BY <2>2, <3>1, <3>2, <3>3, <3>4 DEF RowFrom
    <3> QED
      BY <3>1, <3>5
  <2>5. CASE b < off + 3
    <3>1. ASSUME NEW h \in 3 .. i PROVE t[h].role = "tool"
      <4>1. h \in 3 .. Len(t) /\ off + h \in (b + 1) .. (off + i)
        BY <1>1, <1>2, <2>1, <2>5
      <4> QED
        BY <1>4, <2>3, <4>1 DEF RowFrom
    <3>2. RowFrom(t, 2, i)
      BY <1>1, <1>3, <3>1 DEF RowFrom
    <3>3. 2 \in 1 .. i
      BY <2>1
    <3> QED
      BY <3>2, <3>3
  <2> QED
    BY <1>2, <2>3, <2>4, <2>5
<1>8. Len(t) <= ContextMax /\ t[Len(t)] = m[Len(m)]
  <2>1. Len(t) \in 3 .. Len(t) /\ off + Len(t) = Len(m)
    BY <1>1, <1>2
  <2> QED
    BY <1>1, <1>2, <1>4, <2>1
<1> QED
  BY <1>1, <1>6, <1>7, <1>8 DEF t

(* A message that is no result joins a conversation in which all is replied. *)
LEMMA AppendToReplied ==
    ASSUME NEW m, Conversation(m), ResultsInRows(m), RepliedUpTo(m, Len(m)),
           NEW x \in Message, x.role # "tool"
    PROVE  /\ Conversation(Append(m, x)) /\ ResultsInRows(Append(m, x))
           /\ RepliedUpTo(Append(m, x), Len(m))
           /\ Len(Append(m, x)) = Len(m) + 1 /\ Append(m, x)[Len(m) + 1] = x
<1>1. Len(m) \in Nat /\ Len(m) \in 0 .. Len(m)
  BY DEF Conversation
<1> QED
  BY <1>1, OneMore, AppendKeepsReplies, AppendKeepsRows

LEMMA TrailAdds ==
    ASSUME LoopTyped, NEW as \in SUBSET A!Actions, trail' = A!Add(as)
    PROVE  /\ trail' \in [A!Actions -> Nat]
           /\ \A a \in as : trail'[a] = trail[a] + 1
           /\ \A a \in A!Actions \ as : trail'[a] = trail[a]
<1>1. \A a \in A!Actions : trail[a] \in Nat
  BY DEF LoopTyped
<1>2. /\ DOMAIN trail' = A!Actions
      /\ \A a \in A!Actions : trail'[a] = trail[a] + (IF a \in as THEN 1 ELSE 0)
      /\ trail' = [a \in A!Actions |-> trail'[a]]
  BY DEF A!Add
<1>3. ASSUME NEW a \in as PROVE trail'[a] = trail[a] + 1 /\ trail'[a] \in Nat
  <2>1. a \in A!Actions /\ trail[a] \in Nat
    BY <1>1
  <2>2. trail'[a] = trail[a] + 1
    BY <1>2, <2>1
  <2>3. trail[a] + 1 \in Nat
    BY <2>1
  <2> QED
    BY <2>2, <2>3
<1>4. ASSUME NEW a \in A!Actions \ as PROVE trail'[a] = trail[a] /\ trail'[a] \in Nat
  <2>1. trail[a] + 0 = trail[a] /\ trail[a] \in Nat
    BY <1>1
  <2>2. trail'[a] = trail[a] + 0
    BY <1>2
  <2> QED
    BY <2>1, <2>2
<1>5. \A a \in A!Actions : trail'[a] \in Nat
  <2>1. \A a \in A!Actions : a \in as \/ a \in A!Actions \ as
    OBVIOUS
  <2> QED
    BY <1>3, <1>4, <2>1
<1> QED
  BY <1>2, <1>3, <1>4, <1>5

LEMMA CountsAreNumbers ==
    ASSUME LoopTyped
    PROVE  /\ trail["llm.request"] \in Nat /\ trail["stream.start"] \in Nat
           /\ trail["llm.response"] \in Nat /\ trail["stream.end"] \in Nat
           /\ trail["tool.call"] \in Nat /\ trail["tool.result"] \in Nat
BY DEF LoopTyped, A!Actions

LEMMA LoopInit == ASSUME A!LoopAssumption, A!Init PROVE LoopIInv
<1>1. /\ msgs = <<A!System>> /\ pc = "idle" /\ iter = 0 /\ cap \in Caps /\ calls = << >>
      /\ trail = A!NoRows /\ guest = 0 /\ read = A!NoRead /\ Caps \subseteq Nat
  BY DEF A!Init, A!LoopAssumption
<1>2. Conversation(msgs) /\ Len(msgs) = 1 /\ msgs[1].role = "system"
  BY <1>1, MessagesAre DEF Conversation
<1>3. trail \in [A!Actions -> Nat] /\ \A a \in A!Actions : trail[a] = 0
  BY <1>1 DEF A!NoRows
<1>4. LoopTyped
  BY <1>1, <1>2, <1>3 DEF LoopTyped, A!NoRead
<1>5. TalkKnown
  <2>1. \A i \in 1 .. Len(msgs) : msgs[i].role = "system"
    BY <1>2
  <2> QED
    BY <1>1, <2>1 DEF TalkKnown, ResultsInRows, RepliedUpTo
<1>6. RowsKnown
  BY <1>1, <1>3 DEF RowsKnown, A!Actions
<1>7. CapKnown /\ A!SilentMeansSilent
  BY <1>1 DEF CapKnown, A!CapHolds, A!SilentMeansSilent, A!NoRead
<1> QED
  BY <1>4, <1>5, <1>6, <1>7 DEF LoopIInv

LEMMA RunKeepsLoop == ASSUME LoopIInv, A!RunRefused \/ A!RunBegins PROVE LoopIInv'
<1>1. /\ pc = "idle" /\ iter' = 0 /\ trail' = A!NoRows
      /\ cap' = cap /\ calls' = calls /\ guest' = guest /\ read' = read
      /\ cap \in Nat /\ LoopTyped /\ TalkKnown
  BY DEF LoopIInv, LoopTyped, A!LoopAssumption, A!RunRefused, A!RunBegins
<1>2. trail' \in [A!Actions -> Nat] /\ \A a \in A!Actions : trail'[a] = 0
  BY <1>1 DEF A!NoRows
<1>3. RowsKnown' <=> pc' \notin {"reading", "stream"}
  BY <1>2 DEF RowsKnown, A!Actions
<1>4. A!CapHolds' /\ MayAsk' /\ A!SilentMeansSilent'
  BY <1>1 DEF A!CapHolds, MayAsk, LoopIInv, A!SilentMeansSilent
<1>5. CASE A!RunRefused
  <2>1. msgs' = msgs /\ pc' = pc
    BY <1>5 DEF A!RunRefused
  <2>2. LoopTyped' /\ TalkKnown'
    BY <1>1, <1>2, <2>1 DEF LoopTyped, TalkKnown, NewestIsTheirs
  <2> QED
    BY <1>1, <1>3, <1>4, <2>1, <2>2 DEF LoopIInv, CapKnown, A!LoopAssumption
<1>6. CASE A!RunBegins
  <2>1. msgs' = Append(msgs, A!User) /\ pc' = "request"
    BY <1>6 DEF A!RunBegins
  <2>2. /\ Conversation(msgs) /\ ResultsInRows(msgs) /\ RepliedUpTo(msgs, Len(msgs))
        /\ Len(msgs) \in Nat
    BY <1>1 DEF LoopTyped, TalkKnown, Conversation
  <2>3. /\ Conversation(msgs') /\ ResultsInRows(msgs') /\ RepliedUpTo(msgs', Len(msgs))
        /\ Len(msgs') = Len(msgs) + 1 /\ msgs'[Len(msgs) + 1] = A!User
    BY <2>1, <2>2, MessagesAre, AppendToReplied
  <2>4. RepliedUpTo(msgs', Len(msgs'))
    BY <2>2, <2>3, MessagesAre DEF RepliedUpTo
  <2>5. TalkKnown'
    BY <2>1, <2>3, <2>4, MessagesAre DEF TalkKnown, NewestIsTheirs
  <2>6. LoopTyped'
    BY <1>1, <1>2, <2>1, <2>3 DEF LoopTyped
  <2> QED
    BY <1>1, <1>3, <1>4, <2>1, <2>5, <2>6 DEF LoopIInv, CapKnown, A!LoopAssumption
<1> QED
  BY <1>5, <1>6

LEMMA RequestKeepsLoop == ASSUME LoopIInv, A!Request PROVE LoopIInv'
<1>1. /\ pc = "request" /\ pc' = "stream" /\ msgs' = A!TrimContext(msgs) /\ iter' = iter + 1
      /\ trail' = A!Add({"llm.request", "stream.start"})
      /\ cap' = cap /\ calls' = calls /\ guest' = guest /\ read' = read
      /\ LoopTyped /\ TalkKnown /\ RowsKnown /\ CapKnown /\ A!LoopAssumption /\ iter \in Nat
      /\ cap \in Nat /\ ContextMax \in Nat
  BY DEF LoopIInv, LoopTyped, A!Request, A!LoopAssumption
<1>2. /\ Conversation(msgs) /\ ResultsInRows(msgs) /\ RepliedUpTo(msgs, Len(msgs))
      /\ Len(msgs) \in Nat /\ NewestIsTheirs
  BY <1>1 DEF LoopTyped, TalkKnown, Conversation
<1>3. /\ Conversation(msgs') /\ ResultsInRows(msgs') /\ RepliedUpTo(msgs', Len(msgs'))
      /\ Len(msgs') <= ContextMax /\ msgs'[Len(msgs')] = msgs[Len(msgs)]
  <2>1. CASE Len(msgs) <= ContextMax
    <3>1. msgs' = msgs
      BY <1>1, <2>1 DEF A!TrimContext
    <3> QED
      BY <1>2, <2>1, <3>1
  <2>2. CASE Len(msgs) > ContextMax
    BY <1>1, <1>2, <2>2, TrimKeepsTalk
  <2> QED
    BY <1>1, <1>2, <2>1, <2>2
<1>4. TalkKnown'
  BY <1>1, <1>2, <1>3 DEF TalkKnown, NewestIsTheirs
<1>5. /\ trail' \in [A!Actions -> Nat]
      /\ \A a \in {"llm.request", "stream.start"} : trail'[a] = trail[a] + 1
      /\ \A a \in A!Actions \ {"llm.request", "stream.start"} : trail'[a] = trail[a]
  <2>1. {"llm.request", "stream.start"} \in SUBSET A!Actions
    BY DEF A!Actions
  <2> QED
    BY <1>1, <2>1, TrailAdds
<1>6. RowsKnown'
  <2>1. /\ trail'["llm.request"] = trail["llm.request"] + 1
        /\ trail'["stream.start"] = trail["stream.start"] + 1
        /\ trail'["llm.response"] = trail["llm.response"] /\ trail'["stream.end"] = trail["stream.end"]
        /\ trail'["tool.call"] = trail["tool.call"] /\ trail'["tool.result"] = trail["tool.result"]
    BY <1>5 DEF A!Actions
  <2> QED
    BY <1>1, <2>1, CountsAreNumbers DEF RowsKnown
<1>7. LoopTyped'
  BY <1>1, <1>3, <1>5 DEF LoopTyped
<1>8. CapKnown'
  BY <1>1 DEF CapKnown, A!CapHolds, MayAsk
<1> QED
  BY <1>1, <1>4, <1>6, <1>7, <1>8 DEF LoopIInv, A!SilentMeansSilent, A!LoopAssumption

LEMMA StreamKeepsLoop == ASSUME LoopIInv, A!StreamFails \/ A!NoChoices PROVE LoopIInv'
<1>1. /\ pc = "stream" /\ pc' = "idle" /\ msgs' = msgs /\ iter' = iter
      /\ cap' = cap /\ calls' = calls /\ guest' = guest /\ read' = read
      /\ LoopTyped /\ TalkKnown /\ RowsKnown /\ CapKnown
  BY DEF LoopIInv, A!StreamFails, A!NoChoices
<1>2. trail' \in [A!Actions -> Nat] /\ RowsKnown'
  <2>1. CASE trail' = trail
    BY <1>1, <2>1, CountsAreNumbers DEF RowsKnown, LoopTyped
  <2>2. CASE trail' = A!Add({"stream.end", "llm.response"})
    <3>1. {"stream.end", "llm.response"} \in SUBSET A!Actions
      BY DEF A!Actions
    <3>2. /\ trail' \in [A!Actions -> Nat]
          /\ trail'["llm.request"] = trail["llm.request"] /\ trail'["stream.start"] = trail["stream.start"]
          /\ trail'["llm.response"] = trail["llm.response"] + 1
          /\ trail'["stream.end"] = trail["stream.end"] + 1
          /\ trail'["tool.call"] = trail["tool.call"] /\ trail'["tool.result"] = trail["tool.result"]
      BY <1>1, <2>2, <3>1, TrailAdds DEF A!Actions
    <3> QED
      BY <1>1, <3>2, CountsAreNumbers DEF RowsKnown
  <2> QED
    BY <2>1, <2>2 DEF A!StreamFails, A!NoChoices
<1>3. LoopTyped' /\ TalkKnown'
  BY <1>1, <1>2 DEF LoopTyped, TalkKnown, NewestIsTheirs
<1>4. CapKnown'
  BY <1>1 DEF CapKnown, A!CapHolds
<1> QED
  BY <1>1, <1>2, <1>3, <1>4 DEF LoopIInv, A!SilentMeansSilent, A!LoopAssumption

(* An answer: its calls stand open behind it, or it is the final one.       *)
LEMMA AnswerKeepsLoop ==
    ASSUME LoopIInv, NEW cs \in A!AnswersOf(MaxCalls), A!Answer(cs) PROVE LoopIInv'
<1>1. /\ pc = "stream" /\ pc' = (IF cs = << >> THEN "idle" ELSE "tools")
      /\ msgs' = Append(msgs, A!Assistant(Len(cs))) /\ calls' = cs
      /\ trail' = A!Add({"stream.end", "llm.response"})
      /\ iter' = iter /\ cap' = cap /\ guest' = guest /\ read' = read
      /\ LoopTyped /\ TalkKnown /\ RowsKnown /\ CapKnown /\ MaxCalls \in Nat
  BY DEF LoopIInv, A!Answer, A!LoopAssumption
<1>2. cs \in Seq(Kinds) /\ Len(cs) \in Nat
  <2>1. PICK k \in 0 .. MaxCalls : cs \in [1 .. k -> Kinds]
    BY DEF A!AnswersOf
  <2>2. k \in Nat
    BY <1>1, <2>1
  <2>3. cs \in Seq(Kinds)
    BY <2>1, <2>2, IsASeq
  <2> QED
    BY <2>3
<1> DEFINE x == A!Assistant(Len(cs))
<1>3. x \in Message /\ x.role = "assistant" /\ x.n = Len(cs)
  BY <1>2, MessagesAre
<1> HIDE DEF x
<1>4. /\ Conversation(msgs) /\ ResultsInRows(msgs) /\ RepliedUpTo(msgs, Len(msgs))
      /\ Len(msgs) \in Nat
  BY <1>1 DEF LoopTyped, TalkKnown, Conversation
<1>5. /\ Conversation(msgs') /\ ResultsInRows(msgs') /\ RepliedUpTo(msgs', Len(msgs))
      /\ Len(msgs') = Len(msgs) + 1 /\ msgs'[Len(msgs) + 1] = x
  BY <1>1, <1>3, <1>4, AppendToReplied DEF x
<1>6. TalkKnown'
  <2>1. ASSUME cs = << >> PROVE pc' = "idle" /\ RepliedUpTo(msgs', Len(msgs'))
    <3>1. x.n = 0
      BY <1>3, <2>1
    <3>2. Replied(msgs', Len(msgs) + 1)
      BY <1>5, <3>1 DEF Replied
    <3> QED
      BY <1>1, <1>4, <1>5, <2>1, <3>2 DEF RepliedUpTo
  <2>2. ASSUME cs # << >> PROVE /\ pc' = "tools"
                                /\ \E a \in 1 .. Len(msgs') : OpenAt(msgs', a, Len(calls'))
    <3>1. Len(cs) >= 1
      BY <1>2, <2>2, EmptySeq
    <3>2. x.n - Len(calls') = 0 /\ x.n >= 1 /\ Len(calls') <= x.n
      BY <1>1, <1>2, <1>3, <3>1
    <3>3. (Len(msgs) + 1) - 1 = Len(msgs) /\ Len(msgs) + 1 \in 1 .. Len(msgs')
      BY <1>4, <1>5
    <3>4. OpenAt(msgs', Len(msgs) + 1, Len(calls'))
      BY <1>3, <1>4, <1>5, <3>2, <3>3 DEF OpenAt
    <3> QED
      BY <1>1, <2>2, <3>3, <3>4
  <2> QED
    BY <1>5, <2>1, <2>2 DEF TalkKnown
<1>7. /\ trail' \in [A!Actions -> Nat]
      /\ trail'["llm.request"] = trail["llm.request"] /\ trail'["stream.start"] = trail["stream.start"]
      /\ trail'["llm.response"] = trail["llm.response"] + 1
      /\ trail'["stream.end"] = trail["stream.end"] + 1
      /\ trail'["tool.call"] = trail["tool.call"] /\ trail'["tool.result"] = trail["tool.result"]
  <2>1. {"stream.end", "llm.response"} \in SUBSET A!Actions
    BY DEF A!Actions
  <2> QED
    BY <1>1, <2>1, TrailAdds DEF A!Actions
<1>8. RowsKnown'
  BY <1>1, <1>7, CountsAreNumbers DEF RowsKnown
<1>9. LoopTyped'
  BY <1>1, <1>2, <1>5, <1>7 DEF LoopTyped
<1>10. CapKnown'
  BY <1>1 DEF CapKnown, A!CapHolds
<1> QED
  BY <1>1, <1>6, <1>8, <1>9, <1>10 DEF LoopIInv, A!SilentMeansSilent, A!LoopAssumption

LEMMA LimitKeepsLoop == ASSUME LoopIInv, A!Limit PROVE LoopIInv'
<1>1. /\ pc = "tools" /\ calls = << >> /\ pc' = (IF iter >= cap THEN "idle" ELSE "request")
      /\ msgs' = msgs /\ iter' = iter /\ cap' = cap /\ calls' = calls /\ trail' = trail
      /\ guest' = guest /\ read' = read
      /\ LoopTyped /\ TalkKnown /\ RowsKnown /\ CapKnown /\ iter \in Nat /\ cap \in Nat
  BY DEF LoopIInv, A!Limit, LoopTyped, A!LoopAssumption
<1>2. RepliedUpTo(msgs, Len(msgs)) /\ NewestIsTheirs
  BY <1>1, AllReplied
<1>3. TalkKnown'
  BY <1>1, <1>2 DEF TalkKnown, NewestIsTheirs
<1>4. LoopTyped'
  BY <1>1 DEF LoopTyped
<1>5. RowsKnown'
  BY <1>1 DEF RowsKnown
<1>6. CapKnown'
  BY <1>1 DEF CapKnown, A!CapHolds, MayAsk
<1> QED
  BY <1>1, <1>3, <1>4, <1>5, <1>6 DEF LoopIInv, A!SilentMeansSilent, A!LoopAssumption

(* A tool that ran to its end: its result is pushed, and the rows of a call *)
(* and of its result are there, or neither.                                 *)
Ran(as) == trail' = A!Add(as) /\ as \subseteq A!Actions
           /\ as \cap {"llm.request", "stream.start", "llm.response", "stream.end"} = {}
LEMMA ToolKeepsLoop ==
    ASSUME LoopIInv, pc \in {"tools", "reading"}, calls # << >>, A!PushResult,
           iter' = iter, cap' = cap, read' = read, guest' \in Nat,
           \/ pc = "tools" /\ trail' = trail
           \/ pc = "tools" /\ \E as : Ran(as) /\ "tool.call" \in as /\ "tool.result" \in as
           \/ pc = "reading" /\ \E as : Ran(as) /\ "tool.call" \notin as /\ "tool.result" \in as
    PROVE  LoopIInv'
<1>1. LoopTyped /\ TalkKnown /\ RowsKnown /\ CapKnown /\ A!LoopAssumption /\ A!SilentMeansSilent
  BY DEF LoopIInv
<1>2. Conversation(msgs') /\ calls' \in Seq(Kinds) /\ pc' = "tools" /\ TalkKnown'
  BY <1>1, PushKeepsTalk
<1>3. ASSUME NEW as, Ran(as)
      PROVE  /\ trail' \in [A!Actions -> Nat]
             /\ \A a \in {"llm.request", "stream.start", "llm.response", "stream.end"} : trail'[a] = trail[a]
             /\ "tool.result" \in as => trail'["tool.result"] = trail["tool.result"] + 1
             /\ "tool.call" \in as => trail'["tool.call"] = trail["tool.call"] + 1
             /\ "tool.call" \notin as => trail'["tool.call"] = trail["tool.call"]
  <2>1. /\ trail' \in [A!Actions -> Nat]
        /\ \A a \in as : trail'[a] = trail[a] + 1
        /\ \A a \in A!Actions \ as : trail'[a] = trail[a]
    BY <1>1, <1>3, TrailAdds DEF Ran
  <2>2. /\ {"llm.request", "stream.start", "llm.response", "stream.end"} \subseteq A!Actions \ as
        /\ "tool.call" \in A!Actions
    BY <1>3 DEF Ran, A!Actions
  <2> QED
    BY <2>1, <2>2
<1>4. trail' \in [A!Actions -> Nat] /\ RowsKnown'
  <2>1. CASE pc = "tools" /\ trail' = trail
    BY <1>1, <1>2, <2>1, CountsAreNumbers DEF RowsKnown, LoopTyped
  <2>2. CASE pc = "tools" /\ \E as : Ran(as) /\ "tool.call" \in as /\ "tool.result" \in as
    <3>1. PICK as : Ran(as) /\ "tool.call" \in as /\ "tool.result" \in as
      BY <2>2
    <3> QED
      BY <1>1, <1>2, <1>3, <2>2, <3>1, CountsAreNumbers DEF RowsKnown
  <2>3. CASE pc = "reading" /\ \E as : Ran(as) /\ "tool.call" \notin as /\ "tool.result" \in as
    <3>1. PICK as : Ran(as) /\ "tool.call" \notin as /\ "tool.result" \in as
      BY <2>3
    <3> QED
      BY <1>1, <1>2, <1>3, <2>3, <3>1, CountsAreNumbers DEF RowsKnown
  <2> QED
    BY <2>1, <2>2, <2>3
<1>5. LoopTyped'
  BY <1>1, <1>2, <1>4 DEF LoopTyped
<1>6. CapKnown'
  BY <1>1, <1>2 DEF CapKnown, A!CapHolds
<1>7. A!SilentMeansSilent' /\ A!LoopAssumption'
  BY <1>1 DEF A!SilentMeansSilent, A!LoopAssumption
<1> QED
  BY <1>2, <1>4, <1>5, <1>6, <1>7 DEF LoopIInv

LEMMA ToolsKeepLoop ==
    ASSUME LoopIInv,
           \/ A!BadArguments \/ A!WriteSource \/ A!Compile \/ A!StartVm \/ A!StopVm
           \/ \E k \in {"list", "ask"} : A!Inspect(k)
           \/ \E k \in {"write", "compile", "start", "ask", "unknown"} : A!Refused(k)
           \/ A!ReadEnds
    PROVE  LoopIInv'
<1>1. LoopTyped /\ guest \in Nat /\ (pc = "reading" => calls # << >>)
  BY DEF LoopIInv, LoopTyped, TalkKnown
<1>2. /\ Ran(A!Bracket \cup {"policy.deny"}) <=> trail' = A!Add(A!Bracket \cup {"policy.deny"})
      /\ Ran(A!Bracket \cup {"file.write"}) <=> trail' = A!Add(A!Bracket \cup {"file.write"})
      /\ Ran(A!Bracket) <=> trail' = A!Add(A!Bracket)
      /\ Ran({"tool.result"}) <=> trail' = A!Add({"tool.result"})
      /\ \A w : "tool.call" \in A!Bracket \cup w /\ "tool.result" \in A!Bracket \cup w
  BY DEF Ran, A!Bracket, A!Actions
<1>3. /\ "tool.call" \in A!Bracket /\ "tool.result" \in A!Bracket
      /\ A!Bracket \cup {} = A!Bracket
  BY DEF A!Bracket
<1>4. ASSUME A!BadArguments PROVE LoopIInv'
  <2>1. /\ pc = "tools" /\ calls # << >> /\ A!PushResult /\ trail' = trail
        /\ iter' = iter /\ cap' = cap /\ read' = read /\ guest' = guest
    BY <1>4 DEF A!BadArguments, A!Calling
  <2> QED
    BY <1>1, <2>1, ToolKeepsLoop
<1>5. ASSUME pc = "tools", calls # << >>, A!PushResult, NEW as, Ran(as), "tool.call" \in as,
             "tool.result" \in as, iter' = iter, cap' = cap, read' = read, guest' \in Nat
      PROVE  LoopIInv'
  BY <1>5, ToolKeepsLoop
<1>6. ASSUME A!WriteSource PROVE LoopIInv'
  <2>1. /\ pc = "tools" /\ calls # << >> /\ A!PushResult
        /\ iter' = iter /\ cap' = cap /\ read' = read /\ guest' \in Nat
        /\ trail' = A!Add(A!Bracket \cup {"file.write"}) \/ trail' = A!Add(A!Bracket)
    BY <1>1, <1>6 DEF A!WriteSource, A!Calling
  <2>2. Ran(A!Bracket \cup {"file.write"}) \/ Ran(A!Bracket)
    BY <1>2, <2>1
  <2> QED
    BY <1>2, <1>3, <1>5, <2>1, <2>2
<1>7. ASSUME A!Compile PROVE LoopIInv'
  <2>1. /\ pc = "tools" /\ calls # << >> /\ A!PushResult
        /\ iter' = iter /\ cap' = cap /\ read' = read /\ guest' \in Nat
        /\ trail' = A!Add(A!Bracket)
    BY <1>1, <1>7 DEF A!Compile, A!Calling
  <2> QED
    BY <1>2, <1>3, <1>5, <2>1
<1>8. ASSUME A!StartVm PROVE LoopIInv'
  <2>1. /\ pc = "tools" /\ calls # << >> /\ A!PushResult
        /\ iter' = iter /\ cap' = cap /\ read' = read /\ guest' \in Nat
        /\ trail' = A!Add(A!Bracket)
    BY <1>1, <1>8 DEF A!StartVm, A!Calling
  <2> QED
    BY <1>2, <1>3, <1>5, <2>1
<1>9. ASSUME A!StopVm PROVE LoopIInv'
  <2>1. /\ pc = "tools" /\ calls # << >> /\ A!PushResult
        /\ iter' = iter /\ cap' = cap /\ read' = read /\ guest' \in Nat
        /\ trail' = A!Add(A!Bracket)
    BY <1>1, <1>9 DEF A!StopVm, A!Calling
  <2> QED
    BY <1>2, <1>3, <1>5, <2>1
<1>10. ASSUME NEW k, A!Inspect(k) PROVE LoopIInv'
  <2>1. /\ pc = "tools" /\ calls # << >> /\ A!PushResult
        /\ iter' = iter /\ cap' = cap /\ read' = read /\ guest' \in Nat
        /\ trail' = A!Add(A!Bracket)
    BY <1>1, <1>10 DEF A!Inspect, A!Calling
  <2> QED
    BY <1>2, <1>3, <1>5, <2>1
<1>11. ASSUME NEW k, A!Refused(k) PROVE LoopIInv'
  <2>1. /\ pc = "tools" /\ calls # << >> /\ A!PushResult
        /\ iter' = iter /\ cap' = cap /\ read' = read /\ guest' \in Nat
        /\ trail' = A!Add(A!Bracket \cup {"policy.deny"}) \/ trail' = A!Add(A!Bracket)
    BY <1>1, <1>3, <1>11 DEF A!Refused, A!Calling
  <2>2. Ran(A!Bracket \cup {"policy.deny"}) \/ Ran(A!Bracket)
    BY <1>2, <2>1
  <2> QED
    BY <1>2, <1>3, <1>5, <2>1, <2>2
<1>12. ASSUME A!ReadEnds PROVE LoopIInv'
  <2>1. /\ pc = "reading" /\ calls # << >> /\ A!PushResult
        /\ iter' = iter /\ cap' = cap /\ read' = read /\ guest' \in Nat
        /\ trail' = A!Add({"tool.result"})
    BY <1>1, <1>12 DEF A!ReadEnds
  <2>2. "tool.call" \notin {"tool.result"} /\ "tool.result" \in {"tool.result"}
    OBVIOUS
  <2>3. Ran({"tool.result"})
    BY <1>2, <2>1
  <2> QED
    BY <2>1, <2>2, <2>3, ToolKeepsLoop
<1> QED
  BY <1>4, <1>6, <1>7, <1>8, <1>9, <1>10, <1>11, <1>12

(* A read begins and polls: nothing is pushed, one call stays open.         *)
LEMMA ReadsKeepLoop == ASSUME LoopIInv, A!ReadBegins \/ A!Poll PROVE LoopIInv'
<1>1. /\ LoopTyped /\ TalkKnown /\ RowsKnown /\ CapKnown /\ A!LoopAssumption /\ A!SilentMeansSilent
      /\ guest \in Nat
  BY DEF LoopIInv, LoopTyped
<1>2. /\ msgs' = msgs /\ iter' = iter /\ cap' = cap /\ calls' = calls /\ guest' = guest
      /\ pc \in {"tools", "reading"} /\ pc' = "reading" /\ calls # << >>
  BY <1>1 DEF A!ReadBegins, A!Poll, A!Calling, TalkKnown
<1>3. /\ read' \in [waited : Nat, seen : Nat, quiet : Nat,
                    answer : {"none", "error", "output", "silent"}]
      /\ A!SilentMeansSilent'
  <2>1. CASE A!ReadBegins
    BY <2>1 DEF A!ReadBegins, A!NoRead, A!SilentMeansSilent
  <2>2. CASE A!Poll
    <3> DEFINE quiet == IF guest > read.seen THEN 0 ELSE read.quiet + 1
               answer == IF guest > 0 /\ quiet >= SettleQuiet THEN "output"
                         ELSE IF read.waited + 1 >= ReadWait
                         THEN IF guest > 0 THEN "output" ELSE "silent"
                         ELSE "none"
    <3>1. read' = [read EXCEPT !.seen = guest, !.quiet = quiet, !.waited = read.waited + 1,
                               !.answer = answer]
      BY <2>2 DEF A!Poll
    <3>2. /\ quiet \in Nat /\ read.waited + 1 \in Nat
          /\ answer \in {"none", "error", "output", "silent"}
      BY <1>1 DEF LoopTyped
    <3>3. answer = "silent" => guest = 0
      BY <1>1
    <3> HIDE DEF quiet, answer
    <3>4. read \in [waited : Nat, seen : Nat, quiet : Nat,
                    answer : {"none", "error", "output", "silent"}]
      BY <1>1 DEF LoopTyped
    <3>5. read'.answer = answer /\ read'.seen = guest
      BY <3>1, <3>4
    <3> QED
      BY <1>1, <3>1, <3>2, <3>3, <3>4, <3>5 DEF A!SilentMeansSilent
  <2> QED
    BY <2>1, <2>2
<1>4. trail' \in [A!Actions -> Nat] /\ RowsKnown'
  <2>1. CASE A!ReadBegins
    <3>1. pc = "tools" /\ trail' = A!Add({"tool.call"}) /\ {"tool.call"} \in SUBSET A!Actions
      BY <2>1 DEF A!ReadBegins, A!Calling, A!Actions
    <3>2. /\ trail' \in [A!Actions -> Nat]
          /\ trail'["llm.request"] = trail["llm.request"] /\ trail'["stream.start"] = trail["stream.start"]
          /\ trail'["llm.response"] = trail["llm.response"] /\ trail'["stream.end"] = trail["stream.end"]
          /\ trail'["tool.call"] = trail["tool.call"] + 1 /\ trail'["tool.result"] = trail["tool.result"]
      BY <1>1, <3>1, TrailAdds DEF A!Actions
    <3> QED
      BY <1>1, <1>2, <3>1, <3>2, CountsAreNumbers DEF RowsKnown
  <2>2. CASE A!Poll
    <3>1. pc = "reading" /\ trail' = trail
      BY <2>2 DEF A!Poll
    <3> QED
      BY <1>1, <1>2, <3>1 DEF RowsKnown, LoopTyped
  <2> QED
    BY <2>1, <2>2
<1>5. LoopTyped'
  BY <1>1, <1>2, <1>3, <1>4 DEF LoopTyped
<1>6. TalkKnown'
  BY <1>1, <1>2 DEF TalkKnown
<1>7. CapKnown'
  BY <1>1, <1>2 DEF CapKnown, A!CapHolds
<1> QED
  BY <1>1, <1>3, <1>4, <1>5, <1>6, <1>7 DEF LoopIInv, A!LoopAssumption

(* What happens around the loop is not its business.                        *)
LEMMA WorldKeepsLoop ==
    ASSUME LoopIInv, A!GuestPrints \/ A!VmDies \/ A!HostStops \/ UNCHANGED A!vars PROVE LoopIInv'
<1>1. /\ LoopTyped /\ TalkKnown /\ RowsKnown /\ CapKnown /\ A!LoopAssumption /\ A!SilentMeansSilent
  BY DEF LoopIInv
<1>2. /\ msgs' = msgs /\ pc' = pc /\ iter' = iter /\ cap' = cap /\ calls' = calls
      /\ trail' = trail /\ read' = read /\ guest' \in Nat
  BY <1>1 DEF A!GuestPrints, A!VmDies, A!HostStops, A!vars, LoopTyped
<1>3. LoopTyped'
  BY <1>1, <1>2 DEF LoopTyped
<1>4. TalkKnown'
  BY <1>1, <1>2 DEF TalkKnown, NewestIsTheirs
<1>5. RowsKnown' /\ CapKnown'
  BY <1>1, <1>2 DEF RowsKnown, CapKnown, A!CapHolds, MayAsk
<1> QED
  BY <1>1, <1>2, <1>3, <1>4, <1>5 DEF LoopIInv, A!SilentMeansSilent, A!LoopAssumption

LEMMA LoopNext == LoopIInv /\ [A!Next]_A!vars => LoopIInv'
<1> SUFFICES ASSUME LoopIInv, [A!Next]_A!vars PROVE LoopIInv'
  OBVIOUS
<1>1. CASE A!RunRefused \/ A!RunBegins
  BY <1>1, RunKeepsLoop
<1>2. CASE A!Request
  BY <1>2, RequestKeepsLoop
<1>3. CASE A!StreamFails \/ A!NoChoices
  BY <1>3, StreamKeepsLoop
<1>4. ASSUME NEW cs \in A!AnswersOf(MaxCalls), A!Answer(cs) PROVE LoopIInv'
  BY <1>4, AnswerKeepsLoop
<1>5. CASE A!Limit
  BY <1>5, LimitKeepsLoop
<1>6. CASE A!Tool
  <2>1. CASE A!ReadBegins \/ A!Poll
    BY <2>1, ReadsKeepLoop
  <2>2. CASE ~(A!ReadBegins \/ A!Poll)
    BY <1>6, <2>2, ToolsKeepLoop DEF A!Tool
  <2> QED
    BY <2>1, <2>2
<1>7. CASE A!GuestPrints \/ A!VmDies \/ A!HostStops \/ UNCHANGED A!vars
  BY <1>7, WorldKeepsLoop
<1> QED
  BY <1>1, <1>2, <1>3, <1>4, <1>5, <1>6, <1>7 DEF A!Next, A!Loop

LEMMA LoopSafe == LoopIInv => A!LoopInv
<1> SUFFICES ASSUME LoopIInv PROVE A!LoopInv
  OBVIOUS
<1>1. /\ LoopTyped /\ TalkKnown /\ RowsKnown /\ CapKnown /\ A!LoopAssumption /\ A!SilentMeansSilent
      /\ msgs \in Seq(Message) /\ Len(msgs) \in Nat /\ msgs[1] = A!System
  BY DEF LoopIInv, LoopTyped, Conversation
<1>2. A!CallsAreAnswered
  BY <1>1 DEF A!CallsAreAnswered, TalkKnown, RepliedUpTo, Replied
<1>3. A!OrphansFollowTheNotice
  <2> SUFFICES ASSUME NEW i \in 1 .. Len(msgs), msgs[i].role = "tool"
               PROVE  LET b == CHOOSE j \in 1 .. i : /\ msgs[j].role # "tool"
                                                     /\ \A h \in (j + 1) .. i : msgs[h].role = "tool"
                      IN \/ msgs[b].role = "assistant" /\ msgs[i].n = i - b
                         \/ msgs[b] = A!Notice /\ b <= 2
    BY DEF A!OrphansFollowTheNotice
  <2>1. PICK b \in 1 .. i : RowFrom(msgs, b, i)
    BY <1>1 DEF TalkKnown, ResultsInRows
  <2>2. ASSUME NEW j \in 1 .. i, msgs[j].role # "tool",
               \A h \in (j + 1) .. i : msgs[h].role = "tool"
        PROVE  j = b
    <3>1. CASE j < b
      <4>1. b \in (j + 1) .. i
        BY <3>1
      <4> QED
        BY <2>1, <2>2, <4>1 DEF RowFrom
    <3>2. CASE j > b
      <4>1. j \in (b + 1) .. i
        BY <3>2
      <4> QED
        BY <2>1, <2>2, <4>1 DEF RowFrom
    <3> QED
      BY <3>1, <3>2
  <2>3. (CHOOSE j \in 1 .. i : /\ msgs[j].role # "tool"
                               /\ \A h \in (j + 1) .. i : msgs[h].role = "tool") = b
    BY <2>1, <2>2 DEF RowFrom
  <2> QED
    BY <2>1, <2>3 DEF RowFrom
<1>4. A!RequestIsBounded
  BY <1>1 DEF A!RequestIsBounded, TalkKnown, NewestIsTheirs
<1>5. A!RowsTellTheTurn
  BY <1>1 DEF A!RowsTellTheTurn, RowsKnown, LoopTyped, A!Actions
<1> QED
  BY <1>1, <1>2, <1>3, <1>4, <1>5 DEF A!LoopInv, CapKnown

(* Whatever a model answers and whatever becomes of a call, every call of   *)
(* the conversation has its result when the model is asked again, a result  *)
(* without its call stands behind the notice of a cut, a request and a turn *)
(* keep their limits, the audit rows tell the turn, and an empty read means *)
(* a silent guest (Agent::run, trim_context, execute_tool,                  *)
(* tool_read_serial).                                                       *)
THEOREM TurnsAreWhole == ASSUME A!LoopAssumption PROVE A!Spec => []A!LoopInv
<1>1. A!Init => LoopIInv
  BY LoopInit
<1>2. LoopIInv /\ [A!Next]_A!vars => LoopIInv'
  BY LoopNext
<1> QED
  BY <1>1, <1>2, LoopSafe, PTL DEF A!Spec
=============================================================================
