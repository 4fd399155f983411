-------------------------- MODULE ReplayGuardProofs --------------------------
(***************************************************************************)
(* Proofs about ReplayGuard, for every set of peers and bodies, every      *)
(* window and every bound on clocks; about Rooms, the other thing that a   *)
(* node counts against its members; and about Downloads.                   *)
(***************************************************************************)
EXTENDS ReplayGuard, Integers, FiniteSetTheorems, TLAPS

(* A guard that has accepted nothing: ReplayGuard::new. *)
LEMMA InitInv == Init => GuardInv
<1> SUFFICES ASSUME Init PROVE GuardInv
  OBVIOUS
<1>0. \A p \in Peer : marks[p].high_water = 0 /\ marks[p].at_water = {}
  BY DEF Init, NoRecord
<1>1. TypeOK
  BY DEF Init, TypeOK, NoRecord
<1>2. RecordIsHistory
  BY <1>0 DEF Init, RecordIsHistory
<1>3. AtMostOnce
  BY DEF Init, AtMostOnce
<1>4. MarkWithinReach
  <2>1. 0 <= now + AHEAD_MS
    BY GuardAssumption DEF Init, GuardAssumption
  <2> QED BY <1>0, <2>1 DEF MarkWithinReach
<1> QED BY <1>1, <1>2, <1>3, <1>4 DEF GuardInv

(* What the record says of a message accepted before: it is a replay. *)
LEMMA SeenIsReplay ==
    ASSUME GuardInv, NEW m \in seen
    PROVE  IsReplay(m)
<1>1. m \in Message /\ m.from \in Peer /\ m.ts \in Nat /\ m.body \in Body
  BY DEF GuardInv, TypeOK, Message
<1>2. m.ts <= marks[m.from].high_water
  BY <1>1 DEF GuardInv, RecordIsHistory
<1>3. marks[m.from].high_water \in Nat
  BY <1>1 DEF GuardInv, TypeOK
<1>4. CASE m.ts = marks[m.from].high_water
  <2>1. m.body \in marks[m.from].at_water
    BY <1>1, <1>4 DEF GuardInv, RecordIsHistory
  <2> QED BY <1>4, <2>1 DEF IsReplay
<1>5. CASE m.ts < marks[m.from].high_water
  BY <1>5 DEF IsReplay
<1> QED BY <1>1, <1>2, <1>3, <1>4, <1>5

(* ReplayGuard::accept keeps the record equal to the history. *)
LEMMA AcceptInv ==
    ASSUME GuardInv, NEW m \in Message, Accept(m)
    PROVE  GuardInv'
<1> DEFINE r == marks[m.from]
<1>0. /\ m.from \in Peer /\ m.ts \in Nat /\ m.body \in Body
      /\ r.high_water \in Nat /\ r.at_water \subseteq Body
      /\ now \in Nat /\ now' = now
  BY DEF Message, GuardInv, TypeOK, Accept
<1>1. /\ marks'[m.from] = Recorded(r, m)
      /\ \A p \in Peer : p # m.from => marks'[p] = marks[p]
      /\ seen' = seen \cup {m}
  BY <1>0 DEF Accept, GuardInv, TypeOK
<1>2. m.ts >= r.high_water /\ (m.ts = r.high_water => m.body \notin r.at_water)
  BY <1>0 DEF Accept, IsReplay
<1>3. /\ marks'[m.from].high_water = m.ts
      /\ marks'[m.from].at_water = IF m.ts > r.high_water THEN {m.body}
                                   ELSE r.at_water \cup {m.body}
  BY <1>0, <1>1, <1>2 DEF Recorded
<1>4. TypeOK'
  <2>1. Recorded(r, m) \in [high_water : Nat, at_water : SUBSET Body]
    BY <1>0 DEF Recorded
  <2> QED BY <1>0, <2>1 DEF Accept, GuardInv, TypeOK
<1>5. RecordIsHistory'
  <2> SUFFICES ASSUME NEW p \in Peer
               PROVE  /\ \A x \in seen' : x.from = p => x.ts <= marks'[p].high_water
                      /\ marks'[p].at_water = {b \in Body : \E x \in seen' :
                            x.from = p /\ x.ts = marks'[p].high_water /\ x.body = b}
                      /\ marks'[p].high_water = 0
                         \/ \E x \in seen' : x.from = p /\ x.ts = marks'[p].high_water
    BY DEF RecordIsHistory
  <2>1. CASE p # m.from
    BY <1>1, <2>1 DEF GuardInv, RecordIsHistory
  <2>2. CASE p = m.from
    <3>1. \A x \in seen : x.from = p => x.ts \in Nat /\ x.ts <= r.high_water
      BY <2>2 DEF GuardInv, RecordIsHistory, TypeOK, Message
    <3>2. r.at_water = {b \in Body : \E x \in seen :
                          x.from = p /\ x.ts = r.high_water /\ x.body = b}
      BY <2>2 DEF GuardInv, RecordIsHistory
    <3>3. \A x \in seen' : x.from = p => x.ts <= marks'[p].high_water
      BY <1>0, <1>1, <1>2, <1>3, <2>2, <3>1
    <3>4. CASE m.ts > r.high_water
      <4>1. \A x \in seen' : x.from = p /\ x.ts = m.ts => x = m
        BY <1>0, <1>1, <3>1, <3>4
      <4> QED BY <1>0, <1>1, <1>3, <2>2, <3>3, <3>4, <4>1
    <3>5. CASE m.ts = r.high_water
      BY <1>0, <1>1, <1>3, <2>2, <3>2, <3>3, <3>5
    <3> QED BY <1>0, <1>2, <3>4, <3>5
  <2> QED BY <2>1, <2>2
<1>6. AtMostOnce'
  <2>1. m \notin seen
    BY SeenIsReplay DEF Accept
  <2> QED BY <2>1 DEF Accept, GuardInv, AtMostOnce
<1>7. MarkWithinReach'
  BY <1>0, <1>1, <1>3, GuardAssumption DEF GuardAssumption, Accept, InWindow, GuardInv, MarkWithinReach
<1> QED BY <1>4, <1>5, <1>6, <1>7 DEF GuardInv

(***************************************************************************)
(* The record a peer has is exactly its accepted history (GuardInv), in    *)
(* every state of every execution.                                         *)
(***************************************************************************)
THEOREM GuardInvariant == Spec => []GuardInv
<1>1. GuardInv /\ [Next]_vars => GuardInv'
  <2> SUFFICES ASSUME GuardInv, [Next]_vars PROVE GuardInv'
    OBVIOUS
  <2>1. CASE Tick
    <3>1. now' = now + 1 /\ now \in Nat /\ \A p \in Peer : marks[p].high_water \in Nat
      BY <2>1 DEF Tick, GuardInv, TypeOK
    <3>2. MarkWithinReach'
      BY <2>1, <3>1, GuardAssumption DEF GuardAssumption, Tick, GuardInv, MarkWithinReach
    <3> QED BY <2>1, <3>1, <3>2 DEF Tick, GuardInv, TypeOK, RecordIsHistory, AtMostOnce
  <2>2. ASSUME NEW m \in Frames, Accept(m) PROVE GuardInv'
    <3>1. m \in Message
      BY GuardAssumption DEF GuardAssumption, Frames, Times, Message
    <3> QED BY <2>2, <3>1, AcceptInv
  <2>3. CASE UNCHANGED vars
    BY <2>3 DEF vars, GuardInv, TypeOK, RecordIsHistory, AtMostOnce, MarkWithinReach
  <2>4. ASSUME NEW m \in Frames, Refuse(m) PROVE GuardInv'
    BY <2>3, <2>4 DEF Refuse
  <2>5. CASE Restart
    <3> USE <2>5 DEF Restart
    <3>0. \A p \in Peer : marks'[p].high_water = 0 /\ marks'[p].at_water = {}
      BY DEF NoRecord
    <3>1. TypeOK'
      BY DEF GuardInv, TypeOK, NoRecord
    <3>2. RecordIsHistory'
      BY <3>0 DEF RecordIsHistory
    <3>3. AtMostOnce'
      BY DEF AtMostOnce
    <3>4. MarkWithinReach'
      BY <3>0, GuardAssumption DEF GuardInv, TypeOK, MarkWithinReach, GuardAssumption
    <3> QED BY <3>1, <3>2, <3>3, <3>4 DEF GuardInv
  <2> QED BY <2>1, <2>2, <2>3, <2>4, <2>5 DEF Next
<1> QED BY <1>1, InitInv, PTL DEF Spec

(***************************************************************************)
(* No message is let in twice while the receiver runs (verify_at accepts   *)
(* each signed message at most once), however long the network repeats it. *)
(***************************************************************************)
THEOREM NoMessageTwice == Spec => []AtMostOnce
<1>1. GuardInv => AtMostOnce
  BY DEF GuardInv
<1> QED BY <1>1, GuardInvariant, PTL

(***************************************************************************)
(* What accept calls a replay was accepted before, or is older than what   *)
(* the same peer has already had accepted.                                 *)
(***************************************************************************)
THEOREM RefusalsAreJust == Spec => []RefusesOnlyOldOrSame
<1>1. GuardInv => RefusesOnlyOldOrSame
  <2> SUFFICES ASSUME GuardInv, NEW m \in Frames, IsReplay(m)
               PROVE  m \in seen \/ \E x \in seen : x.from = m.from /\ x.ts > m.ts
    BY DEF RefusesOnlyOldOrSame
  <2>1. m \in Message /\ m.from \in Peer /\ m.ts \in Nat /\ m.body \in Body
    BY GuardAssumption DEF GuardAssumption, Frames, Times, Message
  <2>2. CASE m.ts < marks[m.from].high_water
    <3>1. marks[m.from].high_water \in Nat /\ marks[m.from].high_water # 0
      BY <2>1, <2>2 DEF GuardInv, TypeOK
    <3>2. PICK x \in seen : x.from = m.from /\ x.ts = marks[m.from].high_water
      BY <2>1, <3>1 DEF GuardInv, RecordIsHistory
    <3> QED BY <2>1, <2>2, <3>1, <3>2
  <2>3. CASE m.ts = marks[m.from].high_water /\ m.body \in marks[m.from].at_water
    <3>1. PICK x \in seen : x.from = m.from /\ x.ts = m.ts /\ x.body = m.body
      BY <2>1, <2>3 DEF GuardInv, RecordIsHistory
    <3>2. x \in Message
      BY DEF GuardInv, TypeOK
    <3>3. x = m
      BY <2>1, <3>1, <3>2 DEF Message
    <3> QED BY <3>3
  <2> QED BY <2>2, <2>3 DEF IsReplay
<1> QED BY <1>1, GuardInvariant, PTL

(***************************************************************************)
(* A peer's mark is never further ahead than the window's forward side, so *)
(* a message minted within the window is never refused for long.           *)
(***************************************************************************)
THEOREM MarksStayInReach == Spec => []MarkWithinReach
<1>1. GuardInv => MarkWithinReach
  BY DEF GuardInv
<1> QED BY <1>1, GuardInvariant, PTL

(***************************************************************************)
(* The guard is fair (ReplayGuard::accept): nothing passes it twice, and   *)
(* what it refuses is old or a repetition, in every execution.             *)
(***************************************************************************)
THEOREM GuardStaysFair == Spec => []GuardIsFair
<1>1. GuardInv /\ RefusesOnlyOldOrSame => GuardIsFair
  BY DEF GuardIsFair
<1> QED BY <1>1, GuardInvariant, RefusalsAreJust, PTL


-----------------------------------------------------------------------------
(* Rooms: the budgets of a room, for any members, rooms and rules, however   *)
(* long the node runs.                                                       *)
CONSTANTS Member, Me, Room, Rule, Members, MaxRoomTime, MaxSends, MaxBack, MaxRestarts
VARIABLES file, time, back, budgets, admitted, verdict, known, adoption, sends, restarts

R == INSTANCE Rooms WITH MaxTime <- MaxRoomTime

Budget == [room : Room, member : Member, used : Nat, start : Int]

(* What a member got through since a time, and in the window's length that  *)
(* ended then.                                                              *)
From(A, r, m, t) == {a \in A : a.room = r /\ a.member = m /\ a.at >= t}
Before(A, r, m, t) == {a \in A : /\ a.room = r /\ a.member = m
                                 /\ a.at > t - file.rule.window /\ a.at < t}
In(A, r, m, t) == {a \in A : /\ a.room = r /\ a.member = m
                             /\ a.at > t - file.rule.window /\ a.at <= t}

RoomsTyped ==
    /\ file.rule.messages \in Nat /\ file.rule.window \in Nat
    /\ time \in Nat /\ back \in Nat /\ sends \in Nat /\ restarts \in Nat
    /\ IsFiniteSet(admitted)
    /\ \A a \in admitted : a.at \in Nat /\ a.at <= time /\ a.n \in Nat /\ a.n < sends
    /\ budgets \subseteq Budget
    /\ \A b \in budgets : b.start <= time /\ b.used <= file.rule.messages
    /\ verdict.at \in Nat /\ verdict.at <= time

(* A budget was used by messages since its window began: the clock has only *)
(* ever been set back, so that start is no later than it says.              *)
Paid == \A b \in budgets : Cardinality(From(admitted, b.room, b.member, b.start)) >= b.used

(* On a clock that goes on and a node that was not restarted, a window's    *)
(* messages lie within its length, are as many as were counted, and the one *)
(* before it holds one budget at most.                                      *)
Steady == back = 0 /\ restarts = 0 /\ file.rule.window > 0

Windows ==
    Steady =>
        /\ \A b \in budgets :
             /\ \A a \in admitted : a.room = b.room /\ a.member = b.member =>
                                       a.at < b.start + file.rule.window
             /\ Cardinality(From(admitted, b.room, b.member, b.start)) <= b.used
             /\ Cardinality(Before(admitted, b.room, b.member, b.start)) <= file.rule.messages
        /\ \A a \in admitted : \E b \in budgets : b.room = a.room /\ b.member = a.member

Twice ==
    Steady => \A r \in Room, m \in Member : \A t \in 0 .. time :
        Cardinality(In(admitted, r, m, t)) <= 2 * file.rule.messages

Refused ==
    ~verdict.ok =>
        Cardinality({a \in admitted : /\ a.room = verdict.room /\ a.member = verdict.member
                                      /\ a.at > verdict.at - file.rule.window - back
                                      /\ a.at <= verdict.at}) >= file.rule.messages

RoomsIInv == RoomsTyped /\ Paid /\ Windows /\ Twice /\ Refused /\ R!HeardInOwnRoom

LEMMA CountIs == \A X : R!Cardinality(X) = Cardinality(X)
BY DEF R!Cardinality, Cardinality

LEMMA PartsCounted ==
    ASSUME NEW X, NEW Y, IsFiniteSet(Y), X \subseteq Y
    PROVE  IsFiniteSet(X) /\ Cardinality(X) \in Nat /\ Cardinality(Y) \in Nat
           /\ Cardinality(X) <= Cardinality(Y)
BY FS_Subset, FS_CardinalityType

(* The sets above are parts of what was admitted.                           *)
LEMMA Parts ==
    ASSUME RoomsTyped, NEW r, NEW m, NEW t
    PROVE  /\ IsFiniteSet(From(admitted, r, m, t)) /\ Cardinality(From(admitted, r, m, t)) \in Nat
           /\ IsFiniteSet(Before(admitted, r, m, t)) /\ Cardinality(Before(admitted, r, m, t)) \in Nat
           /\ IsFiniteSet(In(admitted, r, m, t)) /\ Cardinality(In(admitted, r, m, t)) \in Nat
<1>1. /\ From(admitted, r, m, t) \subseteq admitted /\ Before(admitted, r, m, t) \subseteq admitted
      /\ In(admitted, r, m, t) \subseteq admitted /\ IsFiniteSet(admitted)
  BY DEF From, Before, In, RoomsTyped
<1> QED
  BY <1>1, PartsCounted

LEMMA RoomsInit == ASSUME R!RoomsAssumption, R!Init PROVE RoomsIInv
<1>1. /\ file \in [members : Members, rule : Rule] /\ time = 0 /\ back = 0 /\ budgets = {}
      /\ admitted = {} /\ verdict = R!Unheard /\ adoption = R!Nothing /\ sends = 0 /\ restarts = 0
  BY DEF R!Init
<1>2. file.rule.messages \in Nat /\ file.rule.window \in Nat
  BY <1>1 DEF R!RoomsAssumption
<1>3. R!Unheard.at = 0 /\ R!Unheard.ok = TRUE /\ R!Nothing.kind = "none"
  BY DEF R!Unheard, R!Nothing
<1>4. RoomsTyped
  BY <1>1, <1>2, <1>3, FS_EmptySet DEF RoomsTyped
<1>5. Twice
  <2>1. \A r, m, t : Cardinality(In(admitted, r, m, t)) = 0
    <3>1. \A r, m, t : In(admitted, r, m, t) = {}
      BY <1>1 DEF In
    <3> QED
      BY <3>1, FS_EmptySet
  <2>2. 0 <= 2 * file.rule.messages
    BY <1>2
  <2> QED
    BY <2>1, <2>2 DEF Twice
<1> QED
  BY <1>1, <1>3, <1>4, <1>5 DEF RoomsIInv, Paid, Windows, Refused, R!HeardInOwnRoom

(* What a message sees: the budget of its member, perhaps with a new window. *)
LEMMA TheBudget ==
    ASSUME RoomsIInv, NEW r \in Room, NEW m \in Member, R!Admit(r, m)
    PROVE  \E new \in Budget, ok \in BOOLEAN :
             /\ new.room = r /\ new.member = m
             /\ \/ new \in budgets /\ R!Now - new.start < file.rule.window
                \/ /\ new.used = 0 /\ new.start = R!Now
                   /\ \/ \A b \in budgets : ~(b.room = r /\ b.member = m)
                      \/ \E old \in budgets : /\ old.room = r /\ old.member = m
                                              /\ R!Now - old.start >= file.rule.window
             /\ ok <=> new.used < file.rule.messages
             /\ budgets' = {b \in budgets : ~(b.room = r /\ b.member = m)}
                           \cup {IF ok THEN [new EXCEPT !.used = @ + 1] ELSE new}
             /\ admitted' = IF ok THEN admitted \cup {[room |-> r, member |-> m, at |-> time, n |-> sends]}
                            ELSE admitted
             /\ verdict' = [room |-> r, member |-> m, at |-> time, ok |-> ok]
             /\ sends' = sends + 1
<1> DEFINE fresh == [room |-> r, member |-> m, used |-> 0, start |-> R!Now]
           old == IF R!Counted(r, m) = {} THEN fresh ELSE CHOOSE b \in R!Counted(r, m) : TRUE
           new == R!Window(old)
           ok == R!Allows(new.used)
<1>1. R!Now \in Int /\ file.rule.window \in Nat /\ budgets \subseteq Budget
  BY DEF R!Now, RoomsIInv, RoomsTyped
<1>2. fresh \in Budget
  BY <1>1 DEF Budget
<1>3. /\ R!Counted(r, m) = {} => old = fresh
      /\ R!Counted(r, m) # {} => old \in R!Counted(r, m)
  OBVIOUS
<1>4. R!Counted(r, m) = {b \in budgets : b.room = r /\ b.member = m}
  BY DEF R!Counted
<1>5. old \in Budget /\ old.room = r /\ old.member = m
  BY <1>1, <1>2, <1>3, <1>4
<1>6. new = IF R!Now - old.start >= file.rule.window
            THEN [old EXCEPT !.used = 0, !.start = R!Now] ELSE old
  BY DEF R!Window
<1>7. /\ budgets' = (budgets \ R!Counted(r, m)) \cup {IF ok THEN [new EXCEPT !.used = @ + 1] ELSE new}
      /\ admitted' = IF ok THEN admitted \cup {[room |-> r, member |-> m, at |-> time, n |-> sends]}
                     ELSE admitted
      /\ verdict' = [room |-> r, member |-> m, at |-> time, ok |-> ok]
      /\ sends' = sends + 1
  BY DEF R!Admit
<1>8. ok \in BOOLEAN /\ (ok <=> new.used < file.rule.messages)
  BY DEF R!Allows
<1> HIDE DEF ok, old, new
<1>9. new \in Budget /\ new.room = r /\ new.member = m
  BY <1>1, <1>5, <1>6 DEF Budget
<1>10. \/ new \in budgets /\ R!Now - new.start < file.rule.window
       \/ /\ new.used = 0 /\ new.start = R!Now
          /\ \/ \A b \in budgets : ~(b.room = r /\ b.member = m)
             \/ \E o \in budgets : /\ o.room = r /\ o.member = m
                                   /\ R!Now - o.start >= file.rule.window
  <2>1. CASE R!Counted(r, m) = {}
    <3>1. new.used = 0 /\ new.start = R!Now
      BY <1>1, <1>2, <1>3, <1>6, <2>1 DEF Budget
    <3> QED
      BY <1>4, <2>1, <3>1
  <2>2. CASE R!Counted(r, m) # {}
    <3>1. old \in budgets
      BY <1>3, <1>4, <2>2
    <3>2. CASE R!Now - old.start >= file.rule.window
      <4>1. new.used = 0 /\ new.start = R!Now
        BY <1>1, <1>5, <1>6, <3>2 DEF Budget
      <4> QED
        BY <1>5, <3>1, <3>2, <4>1
    <3>3. CASE ~(R!Now - old.start >= file.rule.window)
      <4>1. new = old /\ old.start \in Int
        BY <1>5, <1>6, <3>3 DEF Budget
      <4> QED
        BY <1>1, <3>1, <3>3, <4>1
    <3> QED
      BY <3>2, <3>3
  <2> QED
    BY <2>1, <2>2
<1>11. budgets \ R!Counted(r, m) = {b \in budgets : ~(b.room = r /\ b.member = m)}
  BY <1>4
<1> QED
  BY <1>7, <1>8, <1>9, <1>10, <1>11

(* Two windows' messages cover any stretch of one window's length.          *)
LEMMA TwoWindows ==
    ASSUME NEW A, IsFiniteSet(A), \A a \in A : a.at \in Nat, file.rule.window \in Nat,
           NEW r, NEW m, NEW s \in Int, NEW t \in Nat, s <= t, NEW u \in Nat, NEW v \in Nat,
           Cardinality(From(A, r, m, s)) <= u, Cardinality(Before(A, r, m, s)) <= v
    PROVE  Cardinality(In(A, r, m, t)) <= u + v
<1>1. In(A, r, m, t) \subseteq From(A, r, m, s) \cup Before(A, r, m, s)
  BY DEF In, From, Before
<1>2. From(A, r, m, s) \subseteq A /\ Before(A, r, m, s) \subseteq A
  BY DEF From, Before
<1>3. /\ IsFiniteSet(From(A, r, m, s)) /\ Cardinality(From(A, r, m, s)) \in Nat
      /\ IsFiniteSet(Before(A, r, m, s)) /\ Cardinality(Before(A, r, m, s)) \in Nat
  BY <1>2, PartsCounted
<1>4. From(A, r, m, s) \cap Before(A, r, m, s) = {}
  BY DEF From, Before
<1>5. /\ IsFiniteSet(From(A, r, m, s) \cup Before(A, r, m, s))
      /\ Cardinality(From(A, r, m, s) \cup Before(A, r, m, s))
           = Cardinality(From(A, r, m, s)) + Cardinality(Before(A, r, m, s))
           - Cardinality(From(A, r, m, s) \cap Before(A, r, m, s))
  BY <1>3, FS_Union
<1>6. /\ Cardinality(From(A, r, m, s) \cup Before(A, r, m, s))
           = Cardinality(From(A, r, m, s)) + Cardinality(Before(A, r, m, s))
  BY <1>3, <1>4, <1>5, FS_EmptySet
<1>7. /\ Cardinality(In(A, r, m, t)) \in Nat
      /\ Cardinality(In(A, r, m, t)) <= Cardinality(From(A, r, m, s) \cup Before(A, r, m, s))
  BY <1>1, <1>5, PartsCounted
<1> QED
  BY <1>3, <1>6, <1>7

LEMMA AdmitKeeps ==
    ASSUME RoomsIInv, NEW r \in Room, NEW m \in Member, R!Admit(r, m)
    PROVE  RoomsIInv'
<1>1. PICK new \in Budget, ok \in BOOLEAN :
        /\ new.room = r /\ new.member = m
        /\ \/ new \in budgets /\ R!Now - new.start < file.rule.window
           \/ /\ new.used = 0 /\ new.start = R!Now
              /\ \/ \A b \in budgets : ~(b.room = r /\ b.member = m)
                 \/ \E old \in budgets : /\ old.room = r /\ old.member = m
                                         /\ R!Now - old.start >= file.rule.window
        /\ ok <=> new.used < file.rule.messages
        /\ budgets' = {b \in budgets : ~(b.room = r /\ b.member = m)}
                      \cup {IF ok THEN [new EXCEPT !.used = @ + 1] ELSE new}
        /\ admitted' = IF ok THEN admitted \cup {[room |-> r, member |-> m, at |-> time, n |-> sends]}
                       ELSE admitted
        /\ verdict' = [room |-> r, member |-> m, at |-> time, ok |-> ok]
        /\ sends' = sends + 1
  BY TheBudget
<1> DEFINE msg == [room |-> r, member |-> m, at |-> time, n |-> sends]
           final == IF ok THEN [new EXCEPT !.used = @ + 1] ELSE new
<1>2. UNCHANGED <<file, time, back, known, adoption, restarts>>
  BY DEF R!Admit
<1>3. /\ file.rule.messages \in Nat /\ file.rule.window \in Nat
      /\ time \in Nat /\ back \in Nat /\ sends \in Nat /\ restarts \in Nat /\ IsFiniteSet(admitted)
      /\ \A a \in admitted : a.at \in Nat /\ a.at <= time /\ a.n \in Nat /\ a.n < sends
      /\ budgets \subseteq Budget
      /\ \A b \in budgets : b.start <= time /\ b.used <= file.rule.messages
  BY DEF RoomsIInv, RoomsTyped
<1>4. /\ new.start \in Int /\ new.used \in Nat /\ new.start <= time /\ new.used <= file.rule.messages
  BY <1>1, <1>3 DEF R!Now, Budget
<1>5. /\ final \in Budget /\ final.room = r /\ final.member = m /\ final.start = new.start
      /\ final.used = (IF ok THEN new.used + 1 ELSE new.used) /\ final.used <= file.rule.messages
  <2>1. CASE ok
    <3>1. final = [new EXCEPT !.used = new.used + 1]
      BY <2>1
    <3>2. /\ final \in Budget /\ final.room = new.room /\ final.member = new.member
          /\ final.start = new.start /\ final.used = new.used + 1
      BY <1>4, <3>1 DEF Budget
    <3> QED
      BY <1>1, <1>3, <1>4, <2>1, <3>2
  <2>2. CASE ~ok
    BY <1>1, <1>4, <2>2
  <2> QED
    BY <2>1, <2>2
<1>6. /\ msg \notin admitted /\ msg.room = r /\ msg.member = m /\ msg.at = time /\ msg.n = sends
  BY <1>3
<1>7. /\ admitted' = IF ok THEN admitted \cup {msg} ELSE admitted
      /\ budgets' = {b \in budgets : ~(b.room = r /\ b.member = m)} \cup {final}
  BY <1>1
<1> HIDE DEF msg, final
<1>8. \A b \in budgets' : b = final \/ (b \in budgets /\ ~(b.room = r /\ b.member = m))
  BY <1>7
<1>9. IsFiniteSet(admitted') /\ admitted \subseteq admitted'
      /\ \A a \in admitted' : a \in admitted \/ (a = msg /\ ok)
  <2>1. IsFiniteSet(admitted \cup {msg})
    BY <1>3, FS_AddElement
  <2> QED
    BY <1>3, <1>7, <2>1
<1>10. \A a \in admitted' : a.at \in Nat /\ a.at <= time /\ a.n \in Nat /\ a.n < sends + 1
  BY <1>3, <1>6, <1>9
<1>11. RoomsTyped'
  <2>1. verdict'.at = time
    BY <1>1
  <2>2. budgets' \subseteq Budget
        /\ \A b \in budgets' : b.start <= time /\ b.used <= file.rule.messages
    BY <1>3, <1>4, <1>5, <1>8
  <2> QED
    BY <1>1, <1>2, <1>3, <1>9, <1>10, <2>1, <2>2 DEF RoomsTyped, Budget
(* The others' messages are where they were, and their own are one more.    *)
<1>12. ASSUME NEW q, NEW p, ~(q = r /\ p = m), NEW t
       PROVE  /\ From(admitted', q, p, t) = From(admitted, q, p, t)
              /\ Before(admitted', q, p, t) = Before(admitted, q, p, t)
              /\ In(admitted', q, p, t) = In(admitted, q, p, t)
  BY <1>6, <1>9, <1>12 DEF From, Before, In
<1>13. ASSUME NEW t \in Int, t <= time
       PROVE  /\ Cardinality(From(admitted', r, m, t))
                   = Cardinality(From(admitted, r, m, t)) + (IF ok THEN 1 ELSE 0)
              /\ Before(admitted', r, m, t) = Before(admitted, r, m, t)
  <2>1. Before(admitted', r, m, t) = Before(admitted, r, m, t)
    BY <1>3, <1>6, <1>9, <1>13 DEF Before
  <2>2. IsFiniteSet(From(admitted, r, m, t)) /\ Cardinality(From(admitted, r, m, t)) \in Nat
    BY Parts DEF RoomsIInv
  <2>3. CASE ok
    <3>1. /\ From(admitted', r, m, t) = From(admitted, r, m, t) \cup {msg}
          /\ msg \notin From(admitted, r, m, t)
      BY <1>3, <1>6, <1>7, <1>13, <2>3 DEF From
    <3> QED
      BY <2>1, <2>2, <2>3, <3>1, FS_AddElement
  <2>4. CASE ~ok
    BY <1>7, <2>1, <2>2, <2>4
  <2> QED
    BY <2>3, <2>4
<1>14. Cardinality(From(admitted, r, m, new.start)) \in Nat
  BY Parts DEF RoomsIInv
<1>15. Paid'
  <2>1. Cardinality(From(admitted', r, m, new.start)) >= final.used
    <3>1. Cardinality(From(admitted, r, m, new.start)) >= new.used
      BY <1>1, <1>14 DEF RoomsIInv, Paid
    <3> QED
      BY <1>4, <1>5, <1>13, <1>14, <3>1
  <2>2. \A b \in budgets' : Cardinality(From(admitted', b.room, b.member, b.start)) >= b.used
    BY <1>5, <1>8, <1>12, <2>1 DEF RoomsIInv, Paid
  <2> QED
    BY <2>2 DEF Paid, From
(* The new window, or the one that goes on.                                 *)
<1>16. ASSUME Steady
       PROVE  /\ \A a \in admitted : a.room = r /\ a.member = m =>
                    a.at < new.start + file.rule.window
              /\ time < new.start + file.rule.window
              /\ Cardinality(From(admitted, r, m, new.start)) <= new.used
              /\ Cardinality(Before(admitted, r, m, new.start)) <= file.rule.messages
  <2>1. R!Now = time /\ file.rule.window > 0
    BY <1>3, <1>16 DEF Steady, R!Now
  <2>2. CASE new \in budgets /\ R!Now - new.start < file.rule.window
    BY <1>1, <1>3, <1>4, <1>16, <2>1, <2>2 DEF RoomsIInv, Windows
  <2>3. ASSUME new.used = 0, new.start = R!Now,
               \/ \A b \in budgets : ~(b.room = r /\ b.member = m)
               \/ \E old \in budgets : /\ old.room = r /\ old.member = m
                                       /\ R!Now - old.start >= file.rule.window
        PROVE  /\ From(admitted, r, m, time) = {}
               /\ Cardinality(Before(admitted, r, m, time)) <= file.rule.messages
    <3>1. CASE \A b \in budgets : ~(b.room = r /\ b.member = m)
      <4>1. \A a \in admitted : ~(a.room = r /\ a.member = m)
        BY <1>16, <3>1 DEF RoomsIInv, Windows
      <4>2. From(admitted, r, m, time) = {} /\ Before(admitted, r, m, time) = {}
        BY <4>1 DEF From, Before
      <4> QED
        BY <1>3, <4>2, FS_EmptySet
    <3>2. CASE \E old \in budgets : /\ old.room = r /\ old.member = m
                                    /\ R!Now - old.start >= file.rule.window
      <4>1. PICK old \in budgets : /\ old.room = r /\ old.member = m
                                   /\ time - old.start >= file.rule.window
        BY <2>1, <3>2
      <4>2. /\ \A a \in admitted : a.room = r /\ a.member = m => a.at < old.start + file.rule.window
            /\ Cardinality(From(admitted, r, m, old.start)) <= old.used
            /\ old.start \in Int /\ old.used \in Nat /\ old.used <= file.rule.messages
        BY <1>3, <1>16, <4>1 DEF RoomsIInv, Windows, Budget
      <4>3. From(admitted, r, m, time) = {}
        BY <1>3, <4>1, <4>2 DEF From
      <4>4. Before(admitted, r, m, time) \subseteq From(admitted, r, m, old.start)
        BY <1>3, <4>1, <4>2 DEF From, Before
      <4>5. IsFiniteSet(From(admitted, r, m, old.start))
            /\ Cardinality(From(admitted, r, m, old.start)) \in Nat
        BY Parts DEF RoomsIInv
      <4> QED
        BY <1>3, <4>2, <4>3, <4>4, <4>5, PartsCounted
    <3> QED
      BY <2>3, <3>1, <3>2
  <2>4. CASE ~(new \in budgets /\ R!Now - new.start < file.rule.window)
    <3>1. /\ new.used = 0 /\ new.start = time /\ From(admitted, r, m, time) = {}
          /\ Cardinality(Before(admitted, r, m, time)) <= file.rule.messages
      BY <1>1, <2>1, <2>3, <2>4
    <3>2. Cardinality(From(admitted, r, m, time)) = 0
      BY <3>1, FS_EmptySet
    <3>3. \A a \in admitted : a.at < time + file.rule.window
      BY <1>3, <2>1
    <3> QED
      BY <1>3, <2>1, <3>1, <3>2, <3>3
  <2> QED
    BY <2>2, <2>4
<1>17. ASSUME Steady
       PROVE  /\ \A b \in budgets' :
                   /\ \A a \in admitted' : a.room = b.room /\ a.member = b.member =>
                                             a.at < b.start + file.rule.window
                   /\ Cardinality(From(admitted', b.room, b.member, b.start)) <= b.used
                   /\ Cardinality(Before(admitted', b.room, b.member, b.start)) <= file.rule.messages
              /\ \A a \in admitted' : \E b \in budgets' : b.room = a.room /\ b.member = a.member
  <2>1. /\ \A a \in admitted' : a.room = r /\ a.member = m => a.at < final.start + file.rule.window
        /\ Cardinality(From(admitted', r, m, final.start)) <= final.used
        /\ Cardinality(Before(admitted', r, m, final.start)) <= file.rule.messages
    BY <1>4, <1>5, <1>6, <1>9, <1>13, <1>14, <1>16, <1>17
  <2>2. ASSUME NEW b \in budgets, ~(b.room = r /\ b.member = m)
        PROVE  /\ \A a \in admitted' : a.room = b.room /\ a.member = b.member =>
                                         a.at < b.start + file.rule.window
               /\ Cardinality(From(admitted', b.room, b.member, b.start)) <= b.used
               /\ Cardinality(Before(admitted', b.room, b.member, b.start)) <= file.rule.messages
    BY <1>6, <1>9, <1>12, <1>17, <2>2 DEF RoomsIInv, Windows
  <2>3. ASSUME NEW a \in admitted' PROVE \E b \in budgets' : b.room = a.room /\ b.member = a.member
    <3>1. CASE a.room = r /\ a.member = m
      BY <1>5, <1>7, <3>1
    <3>2. CASE ~(a.room = r /\ a.member = m)
      <4>1. a \in admitted
        BY <1>6, <1>9, <3>2
      <4>2. PICK b \in budgets : b.room = a.room /\ b.member = a.member
        BY <1>17, <4>1 DEF RoomsIInv, Windows
      <4> QED
        BY <1>7, <3>2, <4>2
    <3> QED
      BY <3>1, <3>2
  <2> QED
    BY <1>5, <1>8, <2>1, <2>2, <2>3
<1>18. Windows'
  BY <1>2, <1>17 DEF Windows, Steady, From, Before
<1>19. Twice'
  <2> SUFFICES ASSUME Steady, NEW q \in Room, NEW p \in Member, NEW t \in 0 .. time
               PROVE  Cardinality(In(admitted', q, p, t)) <= 2 * file.rule.messages
    BY <1>2 DEF Twice, Steady, In
  <2>1. Cardinality(In(admitted, q, p, t)) <= 2 * file.rule.messages
    BY DEF RoomsIInv, Twice
  <2>2. CASE ~(q = r /\ p = m)
    BY <1>12, <2>1, <2>2
  <2>3. CASE t < time
    <3>1. In(admitted', q, p, t) = In(admitted, q, p, t)
      BY <1>3, <1>6, <1>9, <2>3 DEF In
    <3> QED
      BY <2>1, <3>1
  <2>4. CASE q = r /\ p = m /\ t = time
    <3>1. final \in budgets'
      BY <1>7
    <3>2. /\ Cardinality(From(admitted', r, m, final.start)) <= final.used
          /\ Cardinality(Before(admitted', r, m, final.start)) <= file.rule.messages
      BY <1>5, <1>17, <3>1
    <3>3. final.start \in Int /\ final.start <= time /\ final.used \in Nat
      BY <1>4, <1>5 DEF Budget
    <3>4. Cardinality(In(admitted', r, m, time)) <= final.used + file.rule.messages
      BY <1>3, <1>9, <1>10, <3>2, <3>3, TwoWindows
    <3>5. Cardinality(In(admitted', r, m, time)) \in Nat
      <4>1. In(admitted', r, m, time) \subseteq admitted'
        BY DEF In
      <4> QED
        BY <1>9, <4>1, PartsCounted
    <3> QED
      BY <1>3, <1>5, <2>4, <3>3, <3>4, <3>5
  <2> QED
    BY <1>3, <2>2, <2>3, <2>4
<1>20. Refused'
  <2> SUFFICES ASSUME ~ok
               PROVE  Cardinality({a \in admitted : /\ a.room = r /\ a.member = m
                                                    /\ a.at > time - file.rule.window - back
                                                    /\ a.at <= time}) >= file.rule.messages
    BY <1>1, <1>2, <1>7 DEF Refused
  <2> DEFINE X == {a \in admitted : /\ a.room = r /\ a.member = m
                                    /\ a.at > time - file.rule.window - back /\ a.at <= time}
  <2>1. new.used >= file.rule.messages
    BY <1>1, <1>3, <1>4
  <2>2. IsFiniteSet(X) /\ Cardinality(X) \in Nat
    BY <1>3, FS_Subset, FS_CardinalityType
  <2>3. CASE new \in budgets /\ R!Now - new.start < file.rule.window
    <3>1. Cardinality(From(admitted, r, m, new.start)) >= new.used
      BY <1>1, <2>3 DEF RoomsIInv, Paid
    <3>2. From(admitted, r, m, new.start) \subseteq X
      BY <1>3, <1>4, <2>3 DEF From, R!Now
    <3>3. Cardinality(From(admitted, r, m, new.start)) <= Cardinality(X)
      BY <2>2, <3>2, PartsCounted
    <3> QED
      BY <1>3, <1>4, <1>14, <2>1, <2>2, <3>1, <3>3
  <2>4. CASE new.used = 0
    BY <1>3, <2>1, <2>2, <2>4
  <2> QED
    BY <1>1, <2>3, <2>4
<1>21. R!HeardInOwnRoom'
  BY <1>2 DEF RoomsIInv, R!HeardInOwnRoom
<1> QED
  BY <1>11, <1>15, <1>18, <1>19, <1>20, <1>21 DEF RoomsIInv

LEMMA TickKeeps == ASSUME RoomsIInv, R!Tick PROVE RoomsIInv'
<1>1. /\ time' = time + 1
      /\ UNCHANGED <<file, back, budgets, admitted, verdict, sends, known, adoption, restarts>>
  BY DEF R!Tick, R!rate
<1>2. RoomsTyped'
  BY <1>1 DEF RoomsIInv, RoomsTyped, Budget
<1>3. Paid' /\ Windows' /\ Refused' /\ R!HeardInOwnRoom'
  BY <1>1 DEF RoomsIInv, Paid, Windows, Steady, Refused, R!HeardInOwnRoom, From, Before
<1>4. Twice'
  <2> SUFFICES ASSUME Steady, NEW r \in Room, NEW m \in Member, NEW t \in 0 .. time + 1
               PROVE  Cardinality(In(admitted, r, m, t)) <= 2 * file.rule.messages
    BY <1>1 DEF Twice, Steady, In
  <2>1. time \in Nat /\ file.rule.messages \in Nat
    BY DEF RoomsIInv, RoomsTyped
  <2>2. CASE t \in 0 .. time
    BY <2>2 DEF RoomsIInv, Twice
  <2>3. CASE t = time + 1
    <3>1. CASE \E b \in budgets : b.room = r /\ b.member = m
      <4>1. PICK b \in budgets : b.room = r /\ b.member = m
        BY <3>1
      <4>2. /\ Cardinality(From(admitted, r, m, b.start)) <= b.used
            /\ Cardinality(Before(admitted, r, m, b.start)) <= file.rule.messages
        BY <4>1 DEF RoomsIInv, Windows
      <4>3. b.start \in Int /\ b.start <= t /\ b.used \in Nat /\ b.used <= file.rule.messages
            /\ t \in Nat
        BY <2>1, <2>3 DEF RoomsIInv, RoomsTyped, Budget
      <4>4. IsFiniteSet(admitted) /\ (\A a \in admitted : a.at \in Nat) /\ file.rule.window \in Nat
        BY DEF RoomsIInv, RoomsTyped
      <4>5. Cardinality(In(admitted, r, m, t)) <= b.used + file.rule.messages
        BY <2>1, <4>2, <4>3, <4>4, TwoWindows
      <4>6. Cardinality(In(admitted, r, m, t)) \in Nat
        BY Parts DEF RoomsIInv
      <4> QED
        BY <2>1, <4>3, <4>5, <4>6
    <3>2. CASE ~\E b \in budgets : b.room = r /\ b.member = m
      <4>1. In(admitted, r, m, t) = {}
        BY <3>2 DEF RoomsIInv, Windows, In
      <4> QED
        BY <2>1, <4>1, FS_EmptySet
    <3> QED
      BY <3>1, <3>2
  <2> QED
    BY <2>1, <2>2, <2>3
<1> QED
  BY <1>2, <1>3, <1>4 DEF RoomsIInv

(* The clock set back, or a new process: nothing is said of windows any     *)
(* more, and a start is still no later than what the clock said.            *)
LEMMA SetBackKeeps == ASSUME RoomsIInv, R!SetBack PROVE RoomsIInv'
<1>1. /\ back = 0 /\ back' \in Nat /\ back' > 0
      /\ UNCHANGED <<file, time, budgets, admitted, verdict, sends, known, adoption, restarts>>
  BY DEF R!SetBack, R!rate
<1>2. RoomsTyped'
  BY <1>1 DEF RoomsIInv, RoomsTyped, Budget
<1>3. Paid' /\ Windows' /\ Twice' /\ R!HeardInOwnRoom'
  BY <1>1 DEF RoomsIInv, Paid, Windows, Twice, Steady, R!HeardInOwnRoom, From
<1>4. Refused'
  <2> DEFINE Reach(k) == {a \in admitted : /\ a.room = verdict.room /\ a.member = verdict.member
                                           /\ a.at > verdict.at - file.rule.window - k
                                           /\ a.at <= verdict.at}
  <2>1. /\ verdict.at \in Nat /\ file.rule.window \in Nat /\ IsFiniteSet(admitted)
        /\ \A a \in admitted : a.at \in Nat
        /\ file.rule.messages \in Nat
    BY DEF RoomsIInv, RoomsTyped
  <2>2. Reach(back) \subseteq Reach(back') /\ Reach(back') \subseteq admitted
    BY <1>1, <2>1
  <2>3. Cardinality(Reach(back)) <= Cardinality(Reach(back')) /\ Cardinality(Reach(back)) \in Nat
        /\ Cardinality(Reach(back')) \in Nat
    BY <2>1, <2>2, PartsCounted
  <2>4. ~verdict.ok => Cardinality(Reach(back)) >= file.rule.messages
    BY DEF RoomsIInv, Refused
  <2> HIDE DEF Reach
  <2>5. ~verdict.ok => Cardinality(Reach(back')) >= file.rule.messages
    BY <2>1, <2>3, <2>4
  <2> QED
    BY <1>1, <2>5 DEF Refused, Reach
<1> QED
  BY <1>2, <1>3, <1>4 DEF RoomsIInv

LEMMA RestartKeeps == ASSUME RoomsIInv, R!Restart PROVE RoomsIInv'
<1>1. /\ budgets' = {} /\ restarts' = restarts + 1
      /\ UNCHANGED <<file, time, back, admitted, verdict, sends, known, adoption>>
  BY DEF R!Restart
<1>2. RoomsTyped'
  BY <1>1 DEF RoomsIInv, RoomsTyped
<1>3. restarts' # 0
  BY <1>1 DEF RoomsIInv, RoomsTyped
<1> QED
  BY <1>1, <1>2, <1>3
  DEF RoomsIInv, Paid, Windows, Twice, Steady, Refused, R!HeardInOwnRoom

LEMMA RoomsStutter ==
    ASSUME RoomsIInv, UNCHANGED <<file, time, back, budgets, admitted, verdict, sends, restarts>>
    PROVE  RoomsTyped' /\ Paid' /\ Windows' /\ Twice' /\ Refused'
<1>1. RoomsTyped'
  BY DEF RoomsIInv, RoomsTyped, Budget
<1>2. Paid' /\ Windows'
  BY DEF RoomsIInv, Paid, Windows, Steady, From, Before
<1>3. Twice'
  BY DEF RoomsIInv, Twice, Steady, In
<1>4. Refused'
  BY DEF RoomsIInv, Refused
<1> QED
  BY <1>1, <1>2, <1>3, <1>4

LEMMA HearKeeps ==
    ASSUME RoomsIInv, NEW m, NEW names \in SUBSET Room, R!HearAnnouncement(m, names)
    PROVE  RoomsIInv'
<1>1. UNCHANGED <<file, time, back, budgets, admitted, verdict, sends, known, restarts>>
  BY DEF R!HearAnnouncement, R!rate
<1>2. /\ adoption'.from = m /\ adoption'.rooms = names
      /\ adoption'.kind = IF ~R!Admits(names) THEN "ignored"
                          ELSE IF m \in known THEN "refreshed" ELSE "reported"
  BY DEF R!HearAnnouncement
<1>3. R!Admits(names) => \E r \in names : Me \in file.members[r]
  BY DEF R!Admits, R!RoomsFor
<1>4. R!HeardInOwnRoom'
  BY <1>1, <1>2, <1>3 DEF R!HeardInOwnRoom
<1> QED
  BY <1>1, <1>4, RoomsStutter DEF RoomsIInv

LEMMA RoomsNext == ASSUME RoomsIInv, [R!Next]_(R!vars) PROVE RoomsIInv'
<1>1. CASE R!Tick
  BY <1>1, TickKeeps
<1>2. CASE R!SetBack
  BY <1>2, SetBackKeeps
<1>3. CASE R!Restart
  BY <1>3, RestartKeeps
<1>4. CASE \E r \in Room, m \in Member : R!Admit(r, m)
  BY <1>4, AdmitKeeps
<1>5. CASE \E m \in Member \ {Me}, rooms \in SUBSET Room : R!HearAnnouncement(m, rooms)
  BY <1>5, HearKeeps
<1>6. CASE UNCHANGED R!vars
  <2>1. UNCHANGED <<file, time, back, budgets, admitted, verdict, sends, known, adoption, restarts>>
    BY <1>6 DEF R!vars, R!rate
  <2> QED
    BY <2>1, RoomsStutter DEF RoomsIInv, R!HeardInOwnRoom
<1> QED
  BY <1>1, <1>2, <1>3, <1>4, <1>5, <1>6 DEF R!Next

LEMMA RoomsSafe == ASSUME RoomsIInv PROVE R!RoomsInv
<1>1. R!AtMostTwice
  <2> SUFFICES ASSUME back = 0, restarts = 0, NEW r \in Room, NEW m \in Member, NEW t \in 0 .. time
               PROVE  R!Since(r, m, t - file.rule.window, t) <= 2 * file.rule.messages
    BY DEF R!AtMostTwice
  <2>1. R!Since(r, m, t - file.rule.window, t) = Cardinality(In(admitted, r, m, t))
    BY CountIs DEF R!Since, In
  <2>2. CASE file.rule.window > 0
    BY <2>1, <2>2 DEF RoomsIInv, Twice, Steady
  <2>3. CASE file.rule.window = 0
    <3>1. t \in Nat /\ (\A a \in admitted : a.at \in Nat) /\ file.rule.messages \in Nat
      BY DEF RoomsIInv, RoomsTyped
    <3>2. In(admitted, r, m, t) = {}
      BY <2>3, <3>1 DEF In
    <3> QED
      BY <2>1, <3>1, <3>2, FS_EmptySet
  <2> QED
    BY <2>2, <2>3 DEF RoomsIInv, RoomsTyped
<1>2. R!RefusedForItsOwn
  BY CountIs DEF RoomsIInv, Refused, R!RefusedForItsOwn, R!Since
<1> QED
  BY <1>1, <1>2 DEF RoomsIInv, R!RoomsInv

(***************************************************************************)
(* Whatever the rooms and their rules, and however many messages come when: *)
(* a member gets two budgets at most into any stretch of a window's length  *)
(* while the node goes on and its clock is not set back; who is refused has *)
(* itself used its budget, under restarts and a clock set back too; and     *)
(* what is announced is heard on behalf of rooms that list this node only   *)
(* (RateCounters::admit, consider_announcement).                            *)
(***************************************************************************)
THEOREM BudgetsAreOwn == ASSUME R!RoomsAssumption PROVE R!Spec => []R!RoomsInv
<1>1. R!Init => RoomsIInv
  BY RoomsInit
<1>2. RoomsIInv /\ [R!Next]_(R!vars) => RoomsIInv'
  BY RoomsNext
<1>3. RoomsIInv => R!RoomsInv
  BY RoomsSafe
<1> QED
  BY <1>1, <1>2, <1>3, PTL DEF R!Spec

-----------------------------------------------------------------------------
(***************************************************************************)
(* Downloads: the slots of every process, and the files all of them share. *)
(***************************************************************************)
CONSTANTS Procs, Kinds, Platform, Rustc, Chunks, Entries, MaxStarts, MaxCrashes
VARIABLES slot, worker, archive, staging, install, path, rows, crashes, crowded

D == INSTANCE Downloads

Places == {"idle", "look", "connect", "fetch", "verify", "stage", "unpack", "locate", "done",
           "clean", "adopt", "free"}
Slots == [kind : Kinds \cup {"free"}, cancel : BOOLEAN]
Workers == [pc : Places, kind : Kinds \cup {"none"}, count : Nat, early : BOOLEAN,
            out : {"none", "done", "failed", "cancelled"}]
Archives == [Kinds -> [read : Nat, good : BOOLEAN]]
Stagings == [D!Families -> [kind : Kinds \cup {"none", "mixed"}, count : Nat, good : BOOLEAN]]
Installs == [Kinds -> {"none", "whole", "broken"}]

DownloadsTyped ==
    /\ slot \in [Procs -> [D!Families -> Slots]]
    /\ worker \in [Procs -> [D!Families -> Workers]]
    /\ archive \in Archives /\ staging \in Stagings /\ install \in Installs
    /\ rows \in [starts : Nat, ends : Nat, lost : Nat] /\ crowded \in BOOLEAN

(* A slot is held exactly while its worker is under way, and a cancel that  *)
(* came early is still to be seen or was obeyed.                            *)
HoldsSlot(w, s, f) ==
    /\ s = D!Free <=> w.pc = "idle"
    /\ w.pc # "idle" => w.kind \in Kinds /\ D!Family(w.kind) = f
    /\ w.early => s.cancel /\ w.pc \in {"fetch", "verify", "clean", "free"}

(* What a worker has verified and unpacked is in the files, as long as it   *)
(* shares them with nobody.                                                 *)
HasFiles(w, f, a, s) ==
    /\ w.pc \in {"stage", "unpack", "locate"} => a[w.kind].good
    /\ w.pc = "unpack" => s[f] = [kind |-> w.kind, count |-> w.count, good |-> TRUE]
    /\ w.pc = "locate" => s[f] = [kind |-> w.kind, count |-> Entries, good |-> TRUE]

AloneInFamily == \A p, q \in Procs, f \in D!Families : D!Busy(p, f) /\ D!Busy(q, f) => p = q

Working == {b \in Procs \X D!Families : D!Busy(b[1], b[2])}

SlotsHeld == \A p \in Procs, f \in D!Families : HoldsSlot(worker[p][f], slot[p][f], f)
FilesHeld ==
    ~crowded =>
        /\ AloneInFamily
        /\ \A p \in Procs, f \in D!Families : HasFiles(worker[p][f], f, archive, staging)
        /\ \A k \in Kinds : install[k] # "broken"
RowsSettle == IsFiniteSet(Working) /\ rows.starts = rows.ends + rows.lost + Cardinality(Working)

DownloadsIInv ==
    D!DownloadsAssumption /\ DownloadsTyped /\ SlotsHeld /\ FilesHeld /\ RowsSettle

LEMMA DownloadsInit == ASSUME D!DownloadsAssumption, D!Init PROVE DownloadsIInv
<1>1. /\ D!Idle \in Workers /\ D!Free \in Slots /\ D!Idle.pc = "idle" /\ ~D!Idle.early
      /\ D!NoFile \in [kind : Kinds \cup {"none", "mixed"}, count : Nat, good : BOOLEAN]
  BY DEF D!Idle, D!Free, D!NoFile, Workers, Slots, Places
<1>2. /\ \A p \in Procs, f \in D!Families : worker[p][f] = D!Idle /\ slot[p][f] = D!Free
      /\ \A k \in Kinds : install[k] = "none"
      /\ rows = [starts |-> 0, ends |-> 0, lost |-> 0] /\ crowded = FALSE
  BY DEF D!Init
<1>3. slot \in [Procs -> [D!Families -> Slots]] /\ worker \in [Procs -> [D!Families -> Workers]]
  BY <1>1 DEF D!Init
<1>4. archive \in Archives /\ staging \in Stagings /\ install \in Installs
  BY <1>1 DEF D!Init, Archives, Stagings, Installs
<1>5. DownloadsTyped
  BY <1>2, <1>3, <1>4 DEF DownloadsTyped
<1>6. SlotsHeld /\ FilesHeld
  BY <1>1, <1>2 DEF SlotsHeld, FilesHeld, HoldsSlot, HasFiles, AloneInFamily, D!Busy
<1>7. Working = {}
  BY <1>1, <1>2 DEF Working, D!Busy
<1> QED
  BY <1>2, <1>5, <1>6, <1>7, FS_EmptySet DEF DownloadsIInv, RowsSettle

(* A step of one worker: its own record, its own archive, the staging       *)
(* directory of its family.                                                 *)
Advances(p, f, w) ==
    /\ D!Busy(p, f) /\ w \in Workers /\ w.pc # "idle" /\ w.kind = worker[p][f].kind
    /\ worker' = [worker EXCEPT ![p][f] = w] /\ slot' = slot
    /\ archive' \in Archives /\ \A k \in Kinds \ {w.kind} : archive'[k] = archive[k]
    /\ staging' \in Stagings /\ \A g \in D!Families \ {f} : staging'[g] = staging[g]
    /\ install' \in Installs /\ rows' = rows /\ crowded' = crowded
    /\ HoldsSlot(w, slot[p][f], f)
    /\ ~crowded => HasFiles(w, f, archive', staging') /\ \A k \in Kinds : install'[k] # "broken"

LEMMA AdvanceKeepsDownloads ==
    ASSUME DownloadsIInv, NEW p \in Procs, NEW f \in D!Families, NEW w, Advances(p, f, w)
    PROVE  DownloadsIInv'
<1>1. /\ worker' \in [Procs -> [D!Families -> Workers]]
      /\ worker'[p][f] = w
      /\ \A q \in Procs, g \in D!Families : <<q, g>> # <<p, f>> => worker'[q][g] = worker[q][g]
  BY DEF DownloadsIInv, DownloadsTyped, Advances
<1>2. \A q \in Procs, g \in D!Families : worker'[q][g].pc # "idle" <=> D!Busy(q, g)
  BY <1>1 DEF Advances, D!Busy
<1>3. DownloadsTyped'
  BY <1>1 DEF DownloadsIInv, DownloadsTyped, Advances
<1>4. SlotsHeld'
  BY <1>1 DEF DownloadsIInv, SlotsHeld, Advances
<1>5. FilesHeld'
  <2> SUFFICES ASSUME ~crowded PROVE
        /\ AloneInFamily'
        /\ \A q \in Procs, g \in D!Families : HasFiles(worker'[q][g], g, archive', staging')
        /\ \A k \in Kinds : install'[k] # "broken"
    BY DEF FilesHeld, Advances
  <2>1. AloneInFamily
    BY DEF DownloadsIInv, FilesHeld
  <2>2. AloneInFamily'
    BY <1>2, <2>1 DEF AloneInFamily, D!Busy
  <2>3. ASSUME NEW q \in Procs, NEW g \in D!Families
        PROVE  HasFiles(worker'[q][g], g, archive', staging')
    <3>1. CASE q = p /\ g = f
      BY <1>1, <3>1 DEF Advances
    <3>2. CASE g = f /\ q # p
      <4>1. worker'[q][g] = worker[q][g] /\ worker[q][g].pc = "idle"
        BY <1>1, <2>1, <3>2 DEF AloneInFamily, Advances, D!Busy
      <4> QED
        BY <4>1 DEF HasFiles
    <3>3. CASE g # f
      <4>1. worker'[q][g] = worker[q][g] /\ staging'[g] = staging[g]
        BY <1>1, <3>3 DEF Advances
      <4>2. HasFiles(worker[q][g], g, archive, staging) /\ HoldsSlot(worker[q][g], slot[q][g], g)
        BY DEF DownloadsIInv, FilesHeld, SlotsHeld
      <4>3. HoldsSlot(worker[p][f], slot[p][f], f)
        BY DEF DownloadsIInv, SlotsHeld
      <4>4. worker[q][g].pc # "idle" => archive'[worker[q][g].kind] = archive[worker[q][g].kind]
        BY <3>3, <4>2, <4>3 DEF HoldsSlot, Advances, D!Busy
      <4> QED
        BY <4>1, <4>2, <4>4 DEF HasFiles
    <3> QED
      BY <3>1, <3>2, <3>3
  <2> QED
    BY <2>2, <2>3 DEF Advances
<1>6. Working' = Working
  BY <1>2 DEF Working, D!Busy
<1> QED
  BY <1>3, <1>4, <1>5, <1>6 DEF DownloadsIInv, RowsSettle, Advances

LEMMA WorkersAre ==
    ASSUME DownloadsIInv, NEW p \in Procs, NEW f \in D!Families
    PROVE  /\ worker \in [Procs -> [D!Families -> Workers]] /\ worker[p][f] \in Workers
           /\ slot \in [Procs -> [D!Families -> Slots]] /\ slot[p][f] \in Slots
BY DEF DownloadsIInv, DownloadsTyped

(* A worker that goes on without touching a file that matters to it later.  *)
LEMMA MoveAdvances ==
    ASSUME DownloadsIInv, NEW p \in Procs, NEW f \in D!Families, NEW w \in Workers,
           D!Busy(p, f), w.kind = worker[p][f].kind, w.early = worker[p][f].early,
           w.pc \in {"connect", "fetch", "verify", "done", "clean", "adopt", "free"},
           w.early => w.pc \in {"fetch", "verify", "clean", "free"},
           worker' = [worker EXCEPT ![p][f] = w], slot' = slot,
           archive' \in Archives, \A k \in Kinds \ {w.kind} : archive'[k] = archive[k],
           staging' \in Stagings, \A g \in D!Families \ {f} : staging'[g] = staging[g],
           install' \in Installs, ~crowded => \A k \in Kinds : install'[k] # "broken",
           rows' = rows, crowded' = crowded
    PROVE  Advances(p, f, w)
<1>1. HoldsSlot(worker[p][f], slot[p][f], f)
  BY DEF DownloadsIInv, SlotsHeld
<1>2. HoldsSlot(w, slot[p][f], f)
  BY <1>1 DEF HoldsSlot, D!Busy
<1>3. HasFiles(w, f, archive', staging')
  BY DEF HasFiles
<1> QED
  BY <1>2, <1>3 DEF Advances

LEMMA FilesAre ==
    ASSUME DownloadsIInv
    PROVE  /\ archive \in Archives /\ staging \in Stagings /\ install \in Installs
           /\ ~crowded => \A k \in Kinds : install[k] # "broken"
BY DEF DownloadsIInv, DownloadsTyped, FilesHeld

LEMMA ArchiveBecomes ==
    ASSUME DownloadsIInv, NEW k \in Kinds, NEW a \in [read : Nat, good : BOOLEAN],
           archive' = [archive EXCEPT ![k] = a]
    PROVE  archive' \in Archives /\ archive'[k] = a /\ \A j \in Kinds \ {k} : archive'[j] = archive[j]
BY FilesAre DEF Archives

LEMMA StagingBecomes ==
    ASSUME DownloadsIInv, NEW f \in D!Families, NEW s,
           s \in [kind : Kinds \cup {"none", "mixed"}, count : Nat, good : BOOLEAN],
           staging' = [staging EXCEPT ![f] = s]
    PROVE  /\ staging' \in Stagings /\ staging'[f] = s
           /\ \A g \in D!Families \ {f} : staging'[g] = staging[g]
BY FilesAre DEF Stagings

LEMMA LookAdvances ==
    ASSUME DownloadsIInv, NEW p \in Procs, NEW f \in D!Families, D!Look(p, f)
    PROVE  \E w \in Workers : Advances(p, f, w)
<1> DEFINE old == worker[p][f]
           w == [old EXCEPT !.pc = IF install[old.kind] = "none" THEN "connect" ELSE "adopt"]
<1>1. /\ old \in Workers /\ old.pc = "look" /\ worker' = [worker EXCEPT ![p][f] = w]
      /\ ~old.early
  BY WorkersAre DEF D!Look, D!Goto, DownloadsIInv, SlotsHeld, HoldsSlot
<1>2. w \in Workers /\ w.pc \in {"connect", "adopt"} /\ w.kind = old.kind /\ w.early = old.early
  BY <1>1 DEF Workers, Places
<1>3. Advances(p, f, w)
  <2> HIDE DEF w
  <2> QED
    BY <1>1, <1>2, FilesAre, MoveAdvances DEF D!Look, D!Busy
<1> QED
  BY <1>2, <1>3

LEMMA ConnectAdvances ==
    ASSUME DownloadsIInv, NEW p \in Procs, NEW f \in D!Families, D!Connect(p, f)
    PROVE  \E w \in Workers : Advances(p, f, w)
<1> DEFINE old == worker[p][f]
           fails == [old EXCEPT !.pc = "clean", !.out = "failed"]
           goes == [old EXCEPT !.pc = "fetch", !.count = 0]
<1>1. old \in Workers /\ old.pc = "connect" /\ old.kind \in Kinds
  BY WorkersAre DEF D!Connect, DownloadsIInv, SlotsHeld, HoldsSlot
<1>2. ASSUME D!Fail(p, f, "failed"), archive' = archive
      PROVE  \E w \in Workers : Advances(p, f, w)
  <2>1. fails \in Workers /\ fails.pc = "clean" /\ fails.kind = old.kind /\ fails.early = old.early
    BY <1>1 DEF Workers, Places
  <2>2. worker' = [worker EXCEPT ![p][f] = fails]
    BY <1>2, WorkersAre DEF D!Fail
  <2>3. Advances(p, f, fails)
    <3> HIDE DEF fails
    <3> QED
      BY <1>1, <1>2, <2>1, <2>2, FilesAre, MoveAdvances DEF D!Connect, D!Busy
  <2> QED
    BY <2>1, <2>3
<1>3. ASSUME D!Count(p, f, "fetch", 0),
             archive' = [archive EXCEPT ![old.kind] = [read |-> 0, good |-> TRUE]]
      PROVE  \E w \in Workers : Advances(p, f, w)
  <2>1. goes \in Workers /\ goes.pc = "fetch" /\ goes.kind = old.kind /\ goes.early = old.early
    BY <1>1 DEF Workers, Places
  <2>2. [read |-> 0, good |-> TRUE] \in [read : Nat, good : BOOLEAN]
    OBVIOUS
  <2>3. worker' = [worker EXCEPT ![p][f] = goes]
    BY <1>3, WorkersAre DEF D!Count
  <2>4. Advances(p, f, goes)
    <3>1. archive' \in Archives /\ \A k \in Kinds \ {old.kind} : archive'[k] = archive[k]
      BY <1>1, <1>3, <2>2, ArchiveBecomes
    <3> HIDE DEF goes
    <3> QED
      BY <1>1, <1>3, <2>1, <2>3, <3>1, FilesAre, MoveAdvances DEF D!Connect, D!Busy
  <2> QED
    BY <2>1, <2>4
<1> QED
  BY <1>2, <1>3 DEF D!Connect

LEMMA FetchAdvances ==
    ASSUME DownloadsIInv, NEW p \in Procs, NEW f \in D!Families, D!Fetch(p, f)
    PROVE  \E w \in Workers : Advances(p, f, w)
<1> DEFINE old == worker[p][f]
<1>1. old \in Workers /\ old.pc = "fetch" /\ old.kind \in Kinds /\ old.count \in Nat
  BY WorkersAre DEF D!Fetch, DownloadsIInv, SlotsHeld, HoldsSlot, Workers
<1>2. PICK w : /\ worker' = [worker EXCEPT ![p][f] = w]
               /\ w \in Workers /\ w.pc \in {"clean", "verify", "fetch"}
               /\ w.kind = old.kind /\ w.early = old.early
               /\ archive' \in Archives /\ \A k \in Kinds \ {w.kind} : archive'[k] = archive[k]
  <2>1. ASSUME NEW out \in {"cancelled", "failed"}, D!Fail(p, f, out), archive' = archive
        PROVE  \E w : /\ worker' = [worker EXCEPT ![p][f] = w]
                      /\ w \in Workers /\ w.pc \in {"clean", "verify", "fetch"}
                      /\ w.kind = old.kind /\ w.early = old.early
                      /\ archive' \in Archives /\ \A k \in Kinds \ {w.kind} : archive'[k] = archive[k]
    <3> DEFINE w == [old EXCEPT !.pc = "clean", !.out = out]
    <3>1. w \in Workers /\ w.pc = "clean" /\ w.kind = old.kind /\ w.early = old.early
      BY <1>1 DEF Workers, Places
    <3>2. worker' = [worker EXCEPT ![p][f] = w]
      BY <2>1, WorkersAre DEF D!Fail
    <3> HIDE DEF w
    <3> QED
      BY <2>1, <3>1, <3>2, FilesAre
  <2>2. ASSUME D!Goto(p, f, "verify"), archive' = archive
        PROVE  \E w : /\ worker' = [worker EXCEPT ![p][f] = w]
                      /\ w \in Workers /\ w.pc \in {"clean", "verify", "fetch"}
                      /\ w.kind = old.kind /\ w.early = old.early
                      /\ archive' \in Archives /\ \A k \in Kinds \ {w.kind} : archive'[k] = archive[k]
    <3> DEFINE w == [old EXCEPT !.pc = "verify"]
    <3>1. w \in Workers /\ w.pc = "verify" /\ w.kind = old.kind /\ w.early = old.early
      BY <1>1 DEF Workers, Places
    <3>2. worker' = [worker EXCEPT ![p][f] = w]
      BY <2>2, WorkersAre DEF D!Goto
    <3> HIDE DEF w
    <3> QED
      BY <2>2, <3>1, <3>2, FilesAre
  <2>3. ASSUME NEW good \in BOOLEAN, D!Count(p, f, "fetch", old.count + 1),
               archive' = [archive EXCEPT ![old.kind] =
                             [read |-> old.count + 1, good |-> archive[old.kind].good /\ good]]
        PROVE  \E w : /\ worker' = [worker EXCEPT ![p][f] = w]
                      /\ w \in Workers /\ w.pc \in {"clean", "verify", "fetch"}
                      /\ w.kind = old.kind /\ w.early = old.early
                      /\ archive' \in Archives /\ \A k \in Kinds \ {w.kind} : archive'[k] = archive[k]
    <3> DEFINE w == [old EXCEPT !.pc = "fetch", !.count = old.count + 1]
               a == [read |-> old.count + 1, good |-> archive[old.kind].good /\ good]
    <3>1. w \in Workers /\ w.pc = "fetch" /\ w.kind = old.kind /\ w.early = old.early
      <4>1. old.count + 1 \in Nat /\ "fetch" \in Places
        BY <1>1 DEF Places
      <4> QED
        BY <1>1, <4>1 DEF Workers
    <3>2. worker' = [worker EXCEPT ![p][f] = w]
      BY <2>3, WorkersAre DEF D!Count
    <3>3. a \in [read : Nat, good : BOOLEAN]
      BY <1>1, FilesAre DEF Archives
    <3>4. archive' = [archive EXCEPT ![old.kind] = a]
      BY <2>3
    <3> HIDE DEF w, a
    <3>5. archive' \in Archives /\ \A k \in Kinds \ {old.kind} : archive'[k] = archive[k]
      BY <1>1, <3>3, <3>4, ArchiveBecomes
    <3> QED
      BY <3>1, <3>2, <3>5
  <2> QED
    BY <2>1, <2>2, <2>3 DEF D!Fetch
<1>3. Advances(p, f, w)
  BY <1>1, <1>2, FilesAre, MoveAdvances DEF D!Fetch, D!Busy
<1> QED
  BY <1>2, <1>3

LEMMA VerifyAdvances ==
    ASSUME DownloadsIInv, NEW p \in Procs, NEW f \in D!Families, D!Verify(p, f)
    PROVE  \E w \in Workers : Advances(p, f, w)
<1> DEFINE old == worker[p][f]
<1>1. /\ old \in Workers /\ old.pc = "verify" /\ old.kind \in Kinds
      /\ HoldsSlot(old, slot[p][f], f)
      /\ D!Cancelled(p, f) <=> slot[p][f].cancel
  BY WorkersAre DEF D!Verify, DownloadsIInv, SlotsHeld, HoldsSlot, D!Cancelled
<1>2. ASSUME NEW out \in {"cancelled", "failed"}, D!Fail(p, f, out)
      PROVE  \E w \in Workers : Advances(p, f, w)
  <2> DEFINE w == [old EXCEPT !.pc = "clean", !.out = out]
  <2>1. w \in Workers /\ w.pc = "clean" /\ w.kind = old.kind /\ w.early = old.early
    BY <1>1 DEF Workers, Places
  <2>2. worker' = [worker EXCEPT ![p][f] = w]
    BY <1>2, WorkersAre DEF D!Fail
  <2>3. Advances(p, f, w)
    <3> HIDE DEF w
    <3> QED
      BY <1>1, <2>1, <2>2, FilesAre, MoveAdvances DEF D!Verify, D!Busy
  <2> QED
    BY <2>1, <2>3
<1>3. ASSUME ~D!Cancelled(p, f), D!ChecksumMatches(archive[old.kind]), D!Goto(p, f, "stage")
      PROVE  \E w \in Workers : Advances(p, f, w)
  <2> DEFINE w == [old EXCEPT !.pc = "stage"]
  <2>1. w \in Workers /\ w.pc = "stage" /\ w.kind = old.kind /\ w.early = old.early
    BY <1>1 DEF Workers, Places
  <2>2. worker' = [worker EXCEPT ![p][f] = w]
    BY <1>3, WorkersAre DEF D!Goto
  <2> HIDE DEF w
  <2>3. HoldsSlot(w, slot[p][f], f)
    BY <1>1, <1>3, <2>1 DEF HoldsSlot
  <2>4. HasFiles(w, f, archive', staging')
    BY <1>3, <2>1 DEF HasFiles, D!ChecksumMatches, D!Verify
  <2>5. Advances(p, f, w)
    BY <1>1, <2>1, <2>2, <2>3, <2>4, FilesAre DEF D!Verify, D!Busy, Advances
  <2> QED
    BY <2>1, <2>5
<1> QED
  BY <1>2, <1>3 DEF D!Verify

LEMMA StageAdvances ==
    ASSUME DownloadsIInv, NEW p \in Procs, NEW f \in D!Families, D!Stage(p, f)
    PROVE  \E w \in Workers : Advances(p, f, w)
<1> DEFINE old == worker[p][f]
           w == [old EXCEPT !.pc = "unpack", !.count = 0]
           s == [kind |-> old.kind, count |-> 0, good |-> TRUE]
<1>1. /\ old \in Workers /\ old.pc = "stage" /\ old.kind \in Kinds
      /\ HoldsSlot(old, slot[p][f], f)
      /\ ~crowded => HasFiles(old, f, archive, staging)
  BY WorkersAre DEF D!Stage, DownloadsIInv, SlotsHeld, HoldsSlot, FilesHeld
<1>2. /\ w \in Workers /\ w.pc = "unpack" /\ w.kind = old.kind /\ w.early = old.early
      /\ w.count = 0
  BY <1>1 DEF Workers, Places
<1>3. worker' = [worker EXCEPT ![p][f] = w]
  BY WorkersAre DEF D!Stage, D!Count
<1>4. s \in [kind : Kinds \cup {"none", "mixed"}, count : Nat, good : BOOLEAN]
  BY <1>1
<1>5. /\ staging' \in Stagings /\ staging'[f] = s
      /\ \A g \in D!Families \ {f} : staging'[g] = staging[g]
  BY <1>4, StagingBecomes DEF D!Stage
<1> HIDE DEF w
<1>6. HoldsSlot(w, slot[p][f], f)
  BY <1>1, <1>2 DEF HoldsSlot
<1>7. ~crowded => HasFiles(w, f, archive', staging')
  BY <1>1, <1>2, <1>5 DEF HasFiles, D!Stage
<1>8. Advances(p, f, w)
  BY <1>1, <1>2, <1>3, <1>5, <1>6, <1>7, FilesAre DEF D!Stage, D!Busy, Advances
<1> QED
  BY <1>2, <1>8

(* A staging directory that goes leaves the other families theirs.          *)
LEMMA StagingGoes ==
    ASSUME DownloadsIInv, NEW f \in D!Families, staging' = [staging EXCEPT ![f] = D!NoFile]
    PROVE  staging' \in Stagings /\ \A g \in D!Families \ {f} : staging'[g] = staging[g]
<1>1. D!NoFile \in [kind : Kinds \cup {"none", "mixed"}, count : Nat, good : BOOLEAN]
  BY DEF D!NoFile
<1> QED
  BY <1>1, StagingBecomes

LEMMA UnpackAdvances ==
    ASSUME DownloadsIInv, NEW p \in Procs, NEW f \in D!Families, D!Unpack(p, f)
    PROVE  \E w \in Workers : Advances(p, f, w)
<1> DEFINE old == worker[p][f]
<1>1. /\ old \in Workers /\ old.pc = "unpack" /\ old.kind \in Kinds /\ old.count \in Nat
      /\ HoldsSlot(old, slot[p][f], f) /\ ~old.early
      /\ ~crowded => HasFiles(old, f, archive, staging)
      /\ archive' = archive /\ install' = install /\ slot' = slot /\ rows' = rows
      /\ crowded' = crowded
  BY WorkersAre DEF D!Unpack, DownloadsIInv, SlotsHeld, HoldsSlot, FilesHeld, Workers
<1>2. ASSUME NEW out \in {"cancelled", "failed"}, D!Fail(p, f, out),
             staging' = [staging EXCEPT ![f] = D!NoFile]
      PROVE  \E w \in Workers : Advances(p, f, w)
  <2> DEFINE w == [old EXCEPT !.pc = "clean", !.out = out]
  <2>1. w \in Workers /\ w.pc = "clean" /\ w.kind = old.kind /\ w.early = old.early
    BY <1>1 DEF Workers, Places
  <2>2. worker' = [worker EXCEPT ![p][f] = w]
    BY <1>2, WorkersAre DEF D!Fail
  <2>3. Advances(p, f, w)
    <3> HIDE DEF w
    <3> QED
      BY <1>1, <1>2, <2>1, <2>2, FilesAre, StagingGoes, MoveAdvances DEF D!Busy
  <2> QED
    BY <2>1, <2>3
<1>3. ASSUME D!Count(p, f, "unpack", old.count + 1),
             staging' = [staging EXCEPT ![f] = D!Unpacked(f, old.kind)]
      PROVE  \E w \in Workers : Advances(p, f, w)
  <2> DEFINE w == [old EXCEPT !.pc = "unpack", !.count = old.count + 1]
             s == D!Unpacked(f, old.kind)
  <2>1. /\ w \in Workers /\ w.pc = "unpack" /\ w.kind = old.kind /\ w.early = old.early
        /\ w.count = old.count + 1
    <3>1. old.count + 1 \in Nat /\ "unpack" \in Places
      BY <1>1 DEF Places
    <3> QED
      BY <1>1, <3>1 DEF Workers
  <2>2. worker' = [worker EXCEPT ![p][f] = w]
    BY <1>3, WorkersAre DEF D!Count
  <2>3. s \in [kind : Kinds \cup {"none", "mixed"}, count : Nat, good : BOOLEAN]
    BY <1>1, FilesAre DEF D!Unpacked, Stagings, Archives
  <2>4. /\ staging' \in Stagings /\ staging'[f] = s
        /\ \A g \in D!Families \ {f} : staging'[g] = staging[g]
    BY <1>3, <2>3, StagingBecomes
  <2>5. ~crowded => archive[old.kind].good
                    /\ staging[f] = [kind |-> old.kind, count |-> old.count, good |-> TRUE]
    BY <1>1 DEF HasFiles
  <2>6. ~crowded => s = [kind |-> old.kind, count |-> old.count + 1, good |-> TRUE]
    <3>1. ~crowded => /\ staging[f].kind = old.kind /\ staging[f].count = old.count
                      /\ staging[f].good /\ archive[old.kind].good
      BY <2>5
    <3>2. ~crowded => (staging[f].good /\ archive[old.kind].good) = TRUE
      BY <3>1
    <3> QED
      BY <3>1, <3>2 DEF D!Unpacked
  <2> HIDE DEF w, s
  <2>7. HoldsSlot(w, slot[p][f], f)
    BY <1>1, <2>1 DEF HoldsSlot
  <2>8. ~crowded => HasFiles(w, f, archive', staging')
    BY <1>1, <2>1, <2>4, <2>5, <2>6 DEF HasFiles
  <2>9. Advances(p, f, w)
    BY <1>1, <2>1, <2>2, <2>4, <2>7, <2>8, FilesAre DEF D!Busy, Advances
  <2> QED
    BY <2>1, <2>9
<1>4. ASSUME old.count = Entries, D!Goto(p, f, "locate"), staging' = staging
      PROVE  \E w \in Workers : Advances(p, f, w)
  <2> DEFINE w == [old EXCEPT !.pc = "locate"]
  <2>1. w \in Workers /\ w.pc = "locate" /\ w.kind = old.kind /\ w.early = old.early
    BY <1>1 DEF Workers, Places
  <2>2. worker' = [worker EXCEPT ![p][f] = w]
    BY <1>4, WorkersAre DEF D!Goto
  <2> HIDE DEF w
  <2>3. HoldsSlot(w, slot[p][f], f)
    BY <1>1, <2>1 DEF HoldsSlot
  <2>4. ~crowded => HasFiles(w, f, archive', staging')
    BY <1>1, <1>4, <2>1 DEF HasFiles
  <2>5. Advances(p, f, w)
    BY <1>1, <1>4, <2>1, <2>2, <2>3, <2>4, FilesAre DEF D!Busy, Advances
  <2> QED
    BY <2>1, <2>5
<1> QED
  BY <1>2, <1>3, <1>4 DEF D!Unpack

LEMMA LocateAdvances ==
    ASSUME DownloadsIInv, NEW p \in Procs, NEW f \in D!Families, D!LocateAndMove(p, f)
    PROVE  \E w \in Workers : Advances(p, f, w)
<1> DEFINE old == worker[p][f]
<1>1. /\ old \in Workers /\ old.pc = "locate" /\ old.kind \in Kinds /\ ~old.early
      /\ ~crowded => HasFiles(old, f, archive, staging)
      /\ staging' = [staging EXCEPT ![f] = D!NoFile]
      /\ archive' = archive /\ slot' = slot /\ rows' = rows /\ crowded' = crowded
  BY WorkersAre DEF D!LocateAndMove, DownloadsIInv, SlotsHeld, HoldsSlot, FilesHeld
<1>2. ASSUME D!Fail(p, f, "failed"), install' = install
      PROVE  \E w \in Workers : Advances(p, f, w)
  <2> DEFINE w == [old EXCEPT !.pc = "clean", !.out = "failed"]
  <2>1. w \in Workers /\ w.pc = "clean" /\ w.kind = old.kind /\ w.early = old.early
    BY <1>1 DEF Workers, Places
  <2>2. worker' = [worker EXCEPT ![p][f] = w]
    BY <1>2, WorkersAre DEF D!Fail
  <2>3. Advances(p, f, w)
    <3> HIDE DEF w
    <3> QED
      BY <1>1, <1>2, <2>1, <2>2, FilesAre, StagingGoes, MoveAdvances DEF D!Busy
  <2> QED
    BY <2>1, <2>3
<1>3. ASSUME D!Goto(p, f, "done"),
             install' = [install EXCEPT ![old.kind] =
               IF staging[f] = [kind |-> old.kind, count |-> Entries, good |-> TRUE]
               THEN "whole" ELSE "broken"]
      PROVE  \E w \in Workers : Advances(p, f, w)
  <2> DEFINE w == [old EXCEPT !.pc = "done"]
  <2>1. w \in Workers /\ w.pc = "done" /\ w.kind = old.kind /\ w.early = old.early
    BY <1>1 DEF Workers, Places
  <2>2. worker' = [worker EXCEPT ![p][f] = w]
    BY <1>3, WorkersAre DEF D!Goto
  <2>3. install' \in Installs
    BY <1>1, <1>3, FilesAre DEF Installs
  <2>4. ~crowded => staging[f] = [kind |-> old.kind, count |-> Entries, good |-> TRUE]
    BY <1>1 DEF HasFiles
  <2>5. ~crowded => \A k \in Kinds : install'[k] # "broken"
    BY <1>1, <1>3, <2>4, FilesAre DEF Installs
  <2>6. Advances(p, f, w)
    <3> HIDE DEF w
    <3> QED
      BY <1>1, <2>1, <2>2, <2>3, <2>5, FilesAre, StagingGoes, MoveAdvances DEF D!Busy
  <2> QED
    BY <2>1, <2>6
<1> QED
  BY <1>2, <1>3 DEF D!LocateAndMove

LEMMA TidyAdvances ==
    ASSUME DownloadsIInv, NEW p \in Procs, NEW f \in D!Families, D!Installed(p, f) \/ D!Clean(p, f)
    PROVE  \E w \in Workers : Advances(p, f, w)
<1> DEFINE old == worker[p][f]
           a == [read |-> 0, good |-> FALSE]
<1>1. /\ old \in Workers /\ old.pc \in {"done", "clean"} /\ old.kind \in Kinds
      /\ old.pc = "done" => ~old.early
      /\ archive' = [archive EXCEPT ![old.kind] = a]
      /\ slot' = slot /\ staging' = staging /\ install' = install /\ rows' = rows
      /\ crowded' = crowded
  BY WorkersAre DEF D!Installed, D!Clean, DownloadsIInv, SlotsHeld, HoldsSlot
<1>2. a \in [read : Nat, good : BOOLEAN]
  OBVIOUS
<1>3. archive' \in Archives /\ \A k \in Kinds \ {old.kind} : archive'[k] = archive[k]
  <2> HIDE DEF a
  <2> QED
    BY <1>1, <1>2, ArchiveBecomes
<1>4. ASSUME NEW pc \in {"adopt", "free"}, D!Goto(p, f, pc), old.early => pc = "free"
      PROVE  \E w \in Workers : Advances(p, f, w)
  <2> DEFINE w == [old EXCEPT !.pc = pc]
  <2>1. w \in Workers /\ w.pc = pc /\ w.kind = old.kind /\ w.early = old.early
    BY <1>1 DEF Workers, Places
  <2>2. worker' = [worker EXCEPT ![p][f] = w]
    BY <1>4, WorkersAre DEF D!Goto
  <2>3. Advances(p, f, w)
    <3> HIDE DEF w
    <3> QED
      BY <1>1, <1>3, <1>4, <2>1, <2>2, FilesAre, MoveAdvances DEF D!Busy
  <2> QED
    BY <2>1, <2>3
<1>5. CASE D!Installed(p, f)
  BY <1>1, <1>4, <1>5 DEF D!Installed
<1>6. CASE D!Clean(p, f)
  BY <1>4, <1>6 DEF D!Clean
<1> QED
  BY <1>5, <1>6

LEMMA AdoptAdvances ==
    ASSUME DownloadsIInv, NEW p \in Procs, NEW f \in D!Families, NEW runs \in BOOLEAN,
           D!Adopt(p, f, runs)
    PROVE  \E w \in Workers : Advances(p, f, w)
<1> DEFINE old == worker[p][f]
           out == IF runs THEN "done" ELSE "failed"
           w == [old EXCEPT !.pc = "free", !.out = out]
<1>1. old \in Workers /\ old.pc = "adopt"
  BY WorkersAre DEF D!Adopt
<1>2. w \in Workers /\ w.pc = "free" /\ w.kind = old.kind /\ w.early = old.early
  <2>1. out \in {"done", "failed"}
    OBVIOUS
  <2> HIDE DEF out
  <2> QED
    BY <1>1, <2>1 DEF Workers, Places
<1>3. worker' = [worker EXCEPT ![p][f] = w]
  BY WorkersAre DEF D!Adopt
<1>4. Advances(p, f, w)
  <2> HIDE DEF w
  <2> QED
    BY <1>1, <1>2, <1>3, FilesAre, MoveAdvances DEF D!Adopt, D!Busy
<1> QED
  BY <1>2, <1>4

LEMMA InstallKeepsDownloads ==
    ASSUME DownloadsIInv, NEW p \in Procs, NEW f \in D!Families,
           \/ D!Look(p, f) \/ D!Connect(p, f) \/ D!Fetch(p, f) \/ D!Verify(p, f)
           \/ D!Stage(p, f) \/ D!Unpack(p, f) \/ D!LocateAndMove(p, f)
           \/ D!Installed(p, f) \/ D!Clean(p, f) \/ \E runs \in BOOLEAN : D!Adopt(p, f, runs)
    PROVE  DownloadsIInv'
<1>1. \E w \in Workers : Advances(p, f, w)
  BY LookAdvances, ConnectAdvances, FetchAdvances, VerifyAdvances, StageAdvances, UnpackAdvances,
     LocateAdvances, TidyAdvances, AdoptAdvances
<1> QED
  BY <1>1, AdvanceKeepsDownloads

(* A slot is taken and given back with its worker, and the others stay.     *)
LEMMA SlotAndWorker ==
    ASSUME DownloadsIInv, NEW p \in Procs, NEW f \in D!Families, NEW s \in Slots, NEW w \in Workers,
           slot' = [slot EXCEPT ![p][f] = s], worker' = [worker EXCEPT ![p][f] = w],
           HoldsSlot(w, s, f)
    PROVE  /\ slot' \in [Procs -> [D!Families -> Slots]]
           /\ worker' \in [Procs -> [D!Families -> Workers]]
           /\ worker'[p][f] = w
           /\ \A q \in Procs, g \in D!Families : <<q, g>> # <<p, f>> => worker'[q][g] = worker[q][g]
           /\ SlotsHeld'
<1>1. /\ slot' \in [Procs -> [D!Families -> Slots]] /\ slot'[p][f] = s
      /\ \A q \in Procs, g \in D!Families : <<q, g>> # <<p, f>> => slot'[q][g] = slot[q][g]
  BY WorkersAre
<1>2. /\ worker' \in [Procs -> [D!Families -> Workers]] /\ worker'[p][f] = w
      /\ \A q \in Procs, g \in D!Families : <<q, g>> # <<p, f>> => worker'[q][g] = worker[q][g]
  BY WorkersAre
<1>3. SlotsHeld'
  BY <1>1, <1>2 DEF DownloadsIInv, SlotsHeld
<1> QED
  BY <1>1, <1>2, <1>3

LEMMA BeginKeepsDownloads ==
    ASSUME DownloadsIInv, NEW p \in Procs, NEW k \in Kinds, D!BeginDownload(p, k)
    PROVE  DownloadsIInv'
<1> DEFINE f == D!Family(k)
           s == [kind |-> k, cancel |-> FALSE]
           w == [D!Idle EXCEPT !.pc = "look", !.kind = k]
<1>1. /\ D!DownloadsAssumption /\ k # "free" /\ f \in D!Families
      /\ slot' = [slot EXCEPT ![p][f] = s] /\ worker' = [worker EXCEPT ![p][f] = w]
      /\ rows' = [rows EXCEPT !.starts = @ + 1]
      /\ crowded' = (crowded \/ \E q \in Procs \ {p} : D!Busy(q, f))
      /\ archive' = archive /\ staging' = staging /\ install' = install
  BY DEF DownloadsIInv, D!DownloadsAssumption, D!BeginDownload, D!Family, D!Families
<1>2. /\ s \in Slots /\ s # D!Free
      /\ w \in Workers /\ w.pc = "look" /\ w.kind = k /\ ~w.early
  BY <1>1 DEF Slots, Workers, Places, D!Idle, D!Free
<1>3. ~D!Busy(p, f)
  <2>1. HoldsSlot(worker[p][f], slot[p][f], f) /\ slot[p][f] = D!Free
    BY <1>1 DEF DownloadsIInv, SlotsHeld, D!BeginDownload, D!SlotIsFree
  <2> QED
    BY <2>1 DEF HoldsSlot, D!Busy
<1>4. HoldsSlot(w, s, f)
  BY <1>2 DEF HoldsSlot
<1> HIDE DEF s, w, f
<1>5. /\ slot' \in [Procs -> [D!Families -> Slots]]
      /\ worker' \in [Procs -> [D!Families -> Workers]]
      /\ worker'[p][f] = w
      /\ \A q \in Procs, g \in D!Families : <<q, g>> # <<p, f>> => worker'[q][g] = worker[q][g]
      /\ SlotsHeld'
  BY <1>1, <1>2, <1>4, SlotAndWorker
<1>6. /\ rows' \in [starts : Nat, ends : Nat, lost : Nat]
      /\ rows'.starts = rows.starts + 1 /\ rows'.ends = rows.ends /\ rows'.lost = rows.lost
      /\ rows.starts \in Nat /\ rows.ends \in Nat /\ rows.lost \in Nat
  BY <1>1 DEF DownloadsIInv, DownloadsTyped
<1>7. DownloadsTyped'
  <2>1. crowded' \in BOOLEAN
    BY <1>1 DEF DownloadsIInv, DownloadsTyped
  <2> QED
    BY <1>1, <1>5, <1>6, <2>1, FilesAre DEF DownloadsTyped
<1>8. FilesHeld'
  <2> SUFFICES ASSUME ~crowded' PROVE
        /\ AloneInFamily'
        /\ \A q \in Procs, g \in D!Families : HasFiles(worker'[q][g], g, archive', staging')
        /\ \A j \in Kinds : install'[j] # "broken"
    BY DEF FilesHeld
  <2>1. ~crowded /\ \A q \in Procs \ {p} : ~D!Busy(q, f)
    BY <1>1
  <2>2. /\ AloneInFamily
        /\ \A q \in Procs, g \in D!Families : HasFiles(worker[q][g], g, archive, staging)
        /\ \A j \in Kinds : install[j] # "broken"
    BY <2>1 DEF DownloadsIInv, FilesHeld
  <2>3. AloneInFamily'
    <3> SUFFICES ASSUME NEW q \in Procs, NEW r \in Procs, NEW g \in D!Families,
                        worker'[q][g].pc # "idle", worker'[r][g].pc # "idle"
                 PROVE  q = r
      BY DEF AloneInFamily, D!Busy
    <3>1. CASE g = f
      BY <1>5, <2>1, <3>1 DEF D!Busy
    <3>2. CASE g # f
      <4>1. D!Busy(q, g) /\ D!Busy(r, g)
        BY <1>5, <3>2 DEF D!Busy
      <4> QED
        BY <2>2, <4>1 DEF AloneInFamily
    <3> QED
      BY <3>1, <3>2
  <2>4. ASSUME NEW q \in Procs, NEW g \in D!Families
        PROVE  HasFiles(worker'[q][g], g, archive', staging')
    BY <1>1, <1>2, <1>5, <2>2 DEF HasFiles
  <2> QED
    BY <1>1, <2>2, <2>3, <2>4
<1>9. RowsSettle'
  <2>1. Working' = Working \cup {<<p, f>>}
    <3>1. ASSUME NEW q \in Procs, NEW g \in D!Families
          PROVE  worker'[q][g].pc # "idle" <=> D!Busy(q, g) \/ (q = p /\ g = f)
      BY <1>2, <1>5 DEF D!Busy
    <3> QED
      BY <1>1, <3>1 DEF Working, D!Busy
  <2>2. <<p, f>> \notin Working
    BY <1>3 DEF Working
  <2>3. /\ IsFiniteSet(Working) /\ rows.starts = rows.ends + rows.lost + Cardinality(Working)
    BY DEF DownloadsIInv, RowsSettle
  <2>4. /\ IsFiniteSet(Working \cup {<<p, f>>})
        /\ Cardinality(Working \cup {<<p, f>>}) = Cardinality(Working) + 1
        /\ Cardinality(Working) \in Nat
    BY <2>2, <2>3, FS_AddElement, FS_CardinalityType
  <2> QED
    BY <1>6, <2>1, <2>3, <2>4 DEF RowsSettle
<1> QED
  BY <1>1, <1>5, <1>7, <1>8, <1>9 DEF DownloadsIInv, D!DownloadsAssumption

LEMMA CancelKeepsDownloads ==
    ASSUME DownloadsIInv, NEW p \in Procs, NEW f \in D!Families, D!CancelDownload(p, f)
    PROVE  DownloadsIInv'
<1> DEFINE old == worker[p][f]
           w == [old EXCEPT !.early = old.early \/ old.pc \in {"fetch", "verify"}]
           s == [slot[p][f] EXCEPT !.cancel = TRUE]
<1>1. /\ old \in Workers /\ slot[p][f] \in Slots /\ slot[p][f] # D!Free
      /\ HoldsSlot(old, slot[p][f], f)
      /\ rows' = rows /\ crowded' = crowded
      /\ archive' = archive /\ staging' = staging /\ install' = install
  BY WorkersAre DEF D!CancelDownload, DownloadsIInv, SlotsHeld
<1>2. slot' = [slot EXCEPT ![p][f] = s] /\ worker' = [worker EXCEPT ![p][f] = w]
  BY WorkersAre DEF D!CancelDownload
<1>3. /\ s \in Slots /\ s.cancel
      /\ w \in Workers /\ w.pc = old.pc /\ w.kind = old.kind /\ w.count = old.count
      /\ w.early <=> old.early \/ old.pc \in {"fetch", "verify"}
  BY <1>1 DEF Slots, Workers
<1>4. s # D!Free
  BY <1>3 DEF D!Free
<1> HIDE DEF s, w
<1>5. HoldsSlot(w, s, f)
  BY <1>1, <1>3, <1>4 DEF HoldsSlot
<1>6. /\ slot' \in [Procs -> [D!Families -> Slots]]
      /\ worker' \in [Procs -> [D!Families -> Workers]]
      /\ worker'[p][f] = w
      /\ \A q \in Procs, g \in D!Families : <<q, g>> # <<p, f>> => worker'[q][g] = worker[q][g]
      /\ SlotsHeld'
  BY <1>2, <1>3, <1>5, SlotAndWorker
<1>7. \A q \in Procs, g \in D!Families :
        /\ worker'[q][g].pc = worker[q][g].pc /\ worker'[q][g].kind = worker[q][g].kind
        /\ worker'[q][g].count = worker[q][g].count
  BY <1>3, <1>6
<1>8. DownloadsTyped'
  BY <1>1, <1>6 DEF DownloadsIInv, DownloadsTyped
<1>9. FilesHeld'
  BY <1>1, <1>7 DEF DownloadsIInv, FilesHeld, AloneInFamily, HasFiles, D!Busy
<1>10. Working' = Working
  BY <1>7 DEF Working, D!Busy
<1> QED
  BY <1>1, <1>6, <1>8, <1>9, <1>10 DEF DownloadsIInv, RowsSettle, D!DownloadsAssumption

LEMMA FreeKeepsDownloads ==
    ASSUME DownloadsIInv, NEW p \in Procs, NEW f \in D!Families, D!FreeSlot(p, f)
    PROVE  DownloadsIInv'
<1>1. /\ slot' = [slot EXCEPT ![p][f] = D!Free] /\ worker' = [worker EXCEPT ![p][f] = D!Idle]
      /\ D!Busy(p, f)
      /\ rows' = [rows EXCEPT !.ends = @ + 1] /\ crowded' = crowded
      /\ archive' = archive /\ staging' = staging /\ install' = install
  BY DEF D!FreeSlot, D!Busy
<1>2. /\ D!Free \in Slots /\ D!Idle \in Workers /\ D!Idle.pc = "idle" /\ ~D!Idle.early
  BY DEF Slots, Workers, Places, D!Idle, D!Free
<1>3. HoldsSlot(D!Idle, D!Free, f)
  BY <1>2 DEF HoldsSlot
<1>4. /\ slot' \in [Procs -> [D!Families -> Slots]]
      /\ worker' \in [Procs -> [D!Families -> Workers]]
      /\ worker'[p][f] = D!Idle
      /\ \A q \in Procs, g \in D!Families : <<q, g>> # <<p, f>> => worker'[q][g] = worker[q][g]
      /\ SlotsHeld'
  BY <1>1, <1>2, <1>3, SlotAndWorker
<1>5. /\ rows' \in [starts : Nat, ends : Nat, lost : Nat]
      /\ rows'.starts = rows.starts /\ rows'.ends = rows.ends + 1 /\ rows'.lost = rows.lost
      /\ rows.starts \in Nat /\ rows.ends \in Nat /\ rows.lost \in Nat
  BY <1>1 DEF DownloadsIInv, DownloadsTyped
<1>6. DownloadsTyped'
  BY <1>1, <1>4, <1>5 DEF DownloadsIInv, DownloadsTyped
<1>7. FilesHeld'
  <2> SUFFICES ASSUME ~crowded PROVE
        /\ AloneInFamily'
        /\ \A q \in Procs, g \in D!Families : HasFiles(worker'[q][g], g, archive', staging')
        /\ \A j \in Kinds : install'[j] # "broken"
    BY <1>1 DEF FilesHeld
  <2>1. /\ AloneInFamily
        /\ \A q \in Procs, g \in D!Families : HasFiles(worker[q][g], g, archive, staging)
        /\ \A j \in Kinds : install[j] # "broken"
    BY DEF DownloadsIInv, FilesHeld
  <2>2. AloneInFamily'
    <3>1. \A q \in Procs, g \in D!Families : worker'[q][g].pc # "idle" => D!Busy(q, g)
      BY <1>2, <1>4 DEF D!Busy
    <3> QED
      BY <2>1, <3>1 DEF AloneInFamily, D!Busy
  <2>3. ASSUME NEW q \in Procs, NEW g \in D!Families
        PROVE  HasFiles(worker'[q][g], g, archive', staging')
    BY <1>1, <1>2, <1>4, <2>1 DEF HasFiles
  <2> QED
    BY <1>1, <2>1, <2>2, <2>3
<1>8. RowsSettle'
  <2>1. Working' = Working \ {<<p, f>>}
    <3>1. ASSUME NEW q \in Procs, NEW g \in D!Families
          PROVE  worker'[q][g].pc # "idle" <=> D!Busy(q, g) /\ ~(q = p /\ g = f)
      BY <1>2, <1>4 DEF D!Busy
    <3> QED
      BY <3>1 DEF Working, D!Busy
  <2>2. <<p, f>> \in Working
    BY <1>1 DEF Working
  <2>3. /\ IsFiniteSet(Working) /\ rows.starts = rows.ends + rows.lost + Cardinality(Working)
    BY DEF DownloadsIInv, RowsSettle
  <2>4. /\ IsFiniteSet(Working \ {<<p, f>>})
        /\ Cardinality(Working \ {<<p, f>>}) = Cardinality(Working) - 1
        /\ Cardinality(Working) \in Nat
    BY <2>2, <2>3, FS_RemoveElement, FS_CardinalityType
  <2> QED
    BY <1>5, <2>1, <2>3, <2>4 DEF RowsSettle
<1> QED
  BY <1>1, <1>4, <1>6, <1>7, <1>8 DEF DownloadsIInv, D!DownloadsAssumption

LEMMA SmallSets ==
    /\ Cardinality({}) = 0
    /\ Cardinality({"toolchain"}) = 1 /\ Cardinality({"qemu"}) = 1
    /\ Cardinality({"toolchain", "qemu"}) = 2
<1>1. \A x : IsFiniteSet({x}) /\ Cardinality({x}) = 1
  BY FS_Singleton
<1>2. ASSUME NEW x, NEW y, x # y PROVE Cardinality({x, y}) = 2
  <2>1. {x, y} = {x} \cup {y} /\ y \notin {x}
    BY <1>2
  <2>2. IsFiniteSet({x}) /\ Cardinality({x}) = 1
    BY <1>1
  <2>3. Cardinality({x} \cup {y}) =
          IF y \in {x} THEN Cardinality({x}) ELSE Cardinality({x}) + 1
    BY <2>2, FS_AddElement
  <2> QED
    BY <2>1, <2>2, <2>3
<1>3. Cardinality({"toolchain", "qemu"}) = 2
  BY <1>2
<1> QED
  BY <1>1, <1>3, FS_EmptySet

(* What a process had under way is at most one download of each family.     *)
LEMMA PartOfProcess ==
    ASSUME NEW W, IsFiniteSet(W), NEW p
    PROVE  /\ IsFiniteSet(W \ {<<p, "toolchain">>, <<p, "qemu">>})
           /\ Cardinality(W) = Cardinality(W \ {<<p, "toolchain">>, <<p, "qemu">>})
                               + Cardinality({f \in {"toolchain", "qemu"} : <<p, f>> \in W})
           /\ Cardinality({f \in {"toolchain", "qemu"} : <<p, f>> \in W}) \in Nat
           /\ Cardinality(W \ {<<p, "toolchain">>, <<p, "qemu">>}) \in Nat
<1> DEFINE a == <<p, "toolchain">>
           b == <<p, "qemu">>
           B == {f \in {"toolchain", "qemu"} : <<p, f>> \in W}
           V == W \ {a}
           Left == V \ {b}
<1>1. Left = W \ {a, b} /\ a # b
  OBVIOUS
<1>2. /\ IsFiniteSet(V) /\ Cardinality(V) = IF a \in W THEN Cardinality(W) - 1 ELSE Cardinality(W)
      /\ Cardinality(W) \in Nat
  BY FS_RemoveElement, FS_CardinalityType
<1>3. /\ IsFiniteSet(Left) /\ Cardinality(Left) = IF b \in V THEN Cardinality(V) - 1 ELSE Cardinality(V)
      /\ Cardinality(V) \in Nat /\ Cardinality(Left) \in Nat
  BY <1>2, FS_RemoveElement, FS_CardinalityType
<1>4. b \in V <=> b \in W
  BY <1>1
<1>5. /\ a \in W /\ b \in W => B = {"toolchain", "qemu"}
      /\ a \in W /\ b \notin W => B = {"toolchain"}
      /\ a \notin W /\ b \in W => B = {"qemu"}
      /\ a \notin W /\ b \notin W => B = {}
  OBVIOUS
<1> HIDE DEF a, b, B, V, Left
<1>6. IsFiniteSet(Left) /\ Cardinality(W) = Cardinality(Left) + Cardinality(B) /\ Cardinality(B) \in Nat
  <2>1. Cardinality(B) = (IF a \in W THEN 1 ELSE 0) + (IF b \in W THEN 1 ELSE 0)
    BY <1>5, SmallSets
  <2> QED
    BY <1>2, <1>3, <1>4, <2>1
<1> QED
  BY <1>1, <1>3, <1>6 DEF a, b, B

LEMMA CountsAre == \A X : D!Cardinality(X) = Cardinality(X)
BY DEF D!Cardinality, Cardinality

LEMMA CrashKeepsDownloads ==
    ASSUME DownloadsIInv, NEW p \in Procs, D!Crash(p)
    PROVE  DownloadsIInv'
<1> DEFINE B == {f \in D!Families : <<p, f>> \in Working}
<1>1. /\ slot' = [slot EXCEPT ![p] = [f \in D!Families |-> D!Free]]
      /\ worker' = [worker EXCEPT ![p] = [f \in D!Families |-> D!Idle]]
      /\ rows' = [rows EXCEPT !.lost = @ + D!Cardinality({f \in D!Families : D!Busy(p, f)})]
      /\ archive' = archive /\ staging' = staging /\ install' = install /\ crowded' = crowded
  BY DEF D!Crash
<1>2. /\ D!Free \in Slots /\ D!Idle \in Workers /\ D!Idle.pc = "idle" /\ ~D!Idle.early
  BY DEF Slots, Workers, Places, D!Idle, D!Free
<1>3. /\ slot \in [Procs -> [D!Families -> Slots]] /\ worker \in [Procs -> [D!Families -> Workers]]
  BY DEF DownloadsIInv, DownloadsTyped
<1>4. /\ slot' \in [Procs -> [D!Families -> Slots]] /\ worker' \in [Procs -> [D!Families -> Workers]]
      /\ \A g \in D!Families : slot'[p][g] = D!Free /\ worker'[p][g] = D!Idle
      /\ \A q \in Procs \ {p} : slot'[q] = slot[q] /\ worker'[q] = worker[q]
  BY <1>1, <1>2, <1>3
<1>5. SlotsHeld'
  BY <1>2, <1>4 DEF DownloadsIInv, SlotsHeld, HoldsSlot
<1>6. FilesHeld'
  <2> SUFFICES ASSUME ~crowded PROVE
        /\ AloneInFamily'
        /\ \A q \in Procs, g \in D!Families : HasFiles(worker'[q][g], g, archive', staging')
        /\ \A k \in Kinds : install'[k] # "broken"
    BY <1>1 DEF FilesHeld
  <2>1. /\ AloneInFamily
        /\ \A q \in Procs, g \in D!Families : HasFiles(worker[q][g], g, archive, staging)
        /\ \A k \in Kinds : install[k] # "broken"
    BY DEF DownloadsIInv, FilesHeld
  <2>2. AloneInFamily'
    BY <1>2, <1>4, <2>1 DEF AloneInFamily, D!Busy
  <2>3. \A q \in Procs, g \in D!Families : HasFiles(worker'[q][g], g, archive', staging')
    BY <1>1, <1>2, <1>4, <2>1 DEF HasFiles
  <2> QED
    BY <1>1, <2>1, <2>2, <2>3
<1>7. /\ D!Families = {"toolchain", "qemu"}
      /\ {f \in D!Families : D!Busy(p, f)} = B
  BY DEF Working, D!Families
<1>8. Working' = Working \ {<<p, "toolchain">>, <<p, "qemu">>}
  <2>1. ASSUME NEW q \in Procs, NEW g \in D!Families
        PROVE  worker'[q][g].pc # "idle" <=> D!Busy(q, g) /\ q # p
    BY <1>2, <1>4 DEF D!Busy
  <2>2. Working' = {b \in Procs \X D!Families : worker'[b[1]][b[2]].pc # "idle"}
    BY DEF Working, D!Busy
  <2>3. Working = {b \in Procs \X D!Families : D!Busy(b[1], b[2])}
    BY DEF Working
  <2>4. ASSUME NEW b \in Procs \X D!Families
        PROVE  b[1] # p <=> b \notin {<<p, "toolchain">>, <<p, "qemu">>}
    BY <1>7
  <2> QED
    BY <2>1, <2>2, <2>3, <2>4
<1>9. IsFiniteSet(Working) /\ rows.starts = rows.ends + rows.lost + Cardinality(Working)
  BY DEF DownloadsIInv, RowsSettle
<1>10. /\ IsFiniteSet(Working') /\ Cardinality(Working) = Cardinality(Working') + Cardinality(B)
       /\ Cardinality(B) \in Nat /\ Cardinality(Working') \in Nat
  BY <1>7, <1>8, <1>9, PartOfProcess
<1>11. /\ rows' \in [starts : Nat, ends : Nat, lost : Nat]
       /\ rows'.starts = rows.starts /\ rows'.ends = rows.ends
       /\ rows'.lost = rows.lost + Cardinality(B)
       /\ rows.starts \in Nat /\ rows.ends \in Nat /\ rows.lost \in Nat
  <2>1. D!Cardinality({f \in D!Families : D!Busy(p, f)}) = Cardinality(B)
    BY <1>7, CountsAre
  <2> HIDE DEF B
  <2>2. rows' = [rows EXCEPT !.lost = @ + Cardinality(B)]
    BY <1>1, <2>1
  <2> QED
    BY <1>10, <2>2 DEF DownloadsIInv, DownloadsTyped
<1>12. RowsSettle'
  <2> HIDE DEF B
  <2> QED
    BY <1>9, <1>10, <1>11 DEF RowsSettle
<1>13. DownloadsTyped'
  BY <1>1, <1>4, <1>11 DEF DownloadsIInv, DownloadsTyped
<1> QED
  BY <1>5, <1>6, <1>12, <1>13 DEF DownloadsIInv, D!DownloadsAssumption

LEMMA DownloadsNext == ASSUME DownloadsIInv, [D!Next]_(D!vars) PROVE DownloadsIInv'
<1>1. ASSUME UNCHANGED D!vars PROVE DownloadsIInv'
  <2>1. /\ slot' = slot /\ worker' = worker /\ archive' = archive /\ staging' = staging
        /\ install' = install /\ rows' = rows /\ crowded' = crowded
    BY <1>1 DEF D!vars
  <2>2. DownloadsTyped' /\ Working' = Working
    BY <2>1 DEF DownloadsIInv, DownloadsTyped, Working, D!Busy
  <2>3. SlotsHeld' /\ FilesHeld'
    BY <2>1 DEF DownloadsIInv, SlotsHeld, FilesHeld, AloneInFamily, D!Busy
  <2> QED
    BY <2>1, <2>2, <2>3 DEF DownloadsIInv, RowsSettle, D!DownloadsAssumption
<1>2. "qemu" \in Kinds /\ "toolchain" \in D!Families /\ "qemu" \in D!Families
  BY DEF DownloadsIInv, D!DownloadsAssumption, D!Families
<1>3. ASSUME NEW p \in Procs, D!BeginQemu(p) PROVE DownloadsIInv'
  BY <1>2, <1>3, BeginKeepsDownloads DEF D!BeginQemu
<1>4. ASSUME NEW p \in Procs, D!Work(p) PROVE DownloadsIInv'
  BY <1>2, <1>4, InstallKeepsDownloads, FreeKeepsDownloads
     DEF D!Work, D!DownloadToolchainNow, D!DownloadAndInstall, D!DownloadQemuNow, D!QemuFetch,
         D!QemuUnpack
<1>5. ASSUME NEW p \in Procs, D!Crash(p) PROVE DownloadsIInv'
  BY <1>5, CrashKeepsDownloads
<1>6. ASSUME NEW p \in Procs, NEW k \in Kinds, D!BeginDownload(p, k) PROVE DownloadsIInv'
  BY <1>6, BeginKeepsDownloads
<1>7. ASSUME NEW p \in Procs, NEW f \in D!Families, D!CancelDownload(p, f) PROVE DownloadsIInv'
  BY <1>7, CancelKeepsDownloads
<1> QED
  BY <1>1, <1>3, <1>4, <1>5, <1>6, <1>7 DEF D!Next

LEMMA DownloadsSafe == ASSUME DownloadsIInv PROVE D!DownloadsInv
<1>1. D!StartsAreSettled
  BY CountsAre DEF DownloadsIInv, RowsSettle, Working, D!StartsAreSettled
<1>2. D!EarlyCancelIsObeyed /\ D!AloneInstalledIsWhole
  BY DEF DownloadsIInv, SlotsHeld, HoldsSlot, FilesHeld, D!EarlyCancelIsObeyed,
         D!AloneInstalledIsWhole
<1> QED
  BY <1>1, <1>2 DEF D!DownloadsInv

(***************************************************************************)
(* For any processes on one data directory, any archives and any number of *)
(* downloads, cancels, failures and deaths: a download that was begun is   *)
(* told how it ended or died with its process; a cancel that comes before  *)
(* the checksum was taken installs nothing; and what is installed is the   *)
(* pinned archive, unless two processes downloaded one family at once      *)
(* (begin_toolchain_download, cancel_toolchain_download,                   *)
(* download_and_install, finish_toolchain_download).                       *)
(***************************************************************************)
THEOREM DownloadsAreSettled == ASSUME D!DownloadsAssumption PROVE D!Spec => []D!DownloadsInv
<1>1. D!Init => DownloadsIInv
  BY DownloadsInit
<1>2. DownloadsIInv /\ [D!Next]_(D!vars) => DownloadsIInv'
  BY DownloadsNext
<1>3. DownloadsIInv => D!DownloadsInv
  BY DownloadsSafe
<1> QED
  BY <1>1, <1>2, <1>3, PTL DEF D!Spec
=============================================================================
