------------------------------- MODULE Rooms -------------------------------
(***************************************************************************)
(* What rooms.json decides while a node runs (net rooms.rs, discovery.rs): *)
(* the budget of messages each member has in each room, counted in memory  *)
(* over fixed windows by whatever the clock says, and which announcements  *)
(* of other nodes are worth looking at.                                    *)
(*                                                                         *)
(* Time is counted in steps of a window's quarter or so; the machine's     *)
(* clock may be set back, and a restart forgets every count.               *)
(***************************************************************************)
EXTENDS Integers, FiniteSets

CONSTANTS Member,     \* the nodes; Me is one of them
          Me,
          Room,
          Rule,       \* the budgets a room may have: [messages, window]
          Members,    \* the memberships rooms.json may list: functions of rooms
          MaxTime,    \* bound: the time that passes
          MaxSends,   \* bound: messages
          MaxBack,    \* bound: how far the clock is set back, once
          MaxRestarts \* bound: restarts of the node

RoomsAssumption == Rule \subseteq [messages : Nat, window : Nat]

VARIABLES file,      \* rooms.json: [members, rule]
          time,      \* the time that has passed
          back,      \* how much earlier the clock shows
          budgets,   \* RateCounters: per room and member that has been counted
          admitted,  \* history: messages that were admitted: [room, member, at, n]
          verdict,   \* history: the last message, and what it was told
          known,     \* the nodes of peers.json
          adoption,  \* history: what the last announcement was allowed to do
          sends, restarts

rate == <<budgets, admitted, verdict, sends>>
vars == <<file, time, back, rate, known, adoption, restarts>>

Now == time - back
Unheard == [room |-> "-", member |-> "-", at |-> 0, ok |-> TRUE]
Nothing == [kind |-> "none", from |-> Me, rooms |-> {}]

Init == /\ file \in [members : Members, rule : Rule]
        /\ time = 0 /\ back = 0
        /\ budgets = {} /\ admitted = {} /\ verdict = Unheard
        /\ known \in SUBSET (Member \ {Me}) /\ adoption = Nothing
        /\ sends = 0 /\ restarts = 0

-----------------------------------------------------------------------------
(* The clock goes on, or is set back once. *)
Tick ==
    /\ time < MaxTime /\ time' = time + 1
    /\ UNCHANGED <<file, back, rate, known, adoption, restarts>>

SetBack ==
    /\ back = 0 /\ \E b \in 1 .. MaxBack : back' = b
    /\ UNCHANGED <<file, time, rate, known, adoption, restarts>>

Restart ==
    /\ restarts < MaxRestarts /\ restarts' = restarts + 1
    /\ budgets' = {}
    /\ UNCHANGED <<file, time, back, admitted, verdict, known, adoption, sends>>

-----------------------------------------------------------------------------
(* mutant: a budget for the room as a whole *)
CountedByRoom(r, m) == {b \in budgets : b.room = r}

(* The count of a member in a room, when there is one. *)
Counted(r, m) == {b \in budgets : b.room = r /\ b.member = m}

(* mutant: the window that is over is not started again *)
WindowKeepsItsStart(b) ==
    IF Now - b.start >= file.rule.window THEN [b EXCEPT !.used = 0] ELSE b

(* A window that is over starts again with this message. *)
Window(b) ==
    IF Now - b.start >= file.rule.window THEN [b EXCEPT !.used = 0, !.start = Now] ELSE b

(* RateRule::allows. *)
Allows(used) == used < file.rule.messages

(* RateCounters::admit: a member is counted from its first message on. *)
Admit(r, m) ==
    /\ sends < MaxSends /\ sends' = sends + 1
    /\ LET old == IF Counted(r, m) = {} THEN [room |-> r, member |-> m, used |-> 0, start |-> Now]
                  ELSE CHOOSE b \in Counted(r, m) : TRUE
           new == Window(old)
           ok  == Allows(new.used)
       IN  /\ budgets' = (budgets \ Counted(r, m)) \cup {IF ok THEN [new EXCEPT !.used = @ + 1] ELSE new}
           /\ admitted' = IF ok THEN admitted \cup {[room |-> r, member |-> m, at |-> time, n |-> sends]} ELSE admitted
           /\ verdict' = [room |-> r, member |-> m, at |-> time, ok |-> ok]
    /\ UNCHANGED <<file, time, back, known, adoption, restarts>>

-----------------------------------------------------------------------------
(* mutant: every room the file names *)
NamedRooms(n) == Room

(* room_names_for, RoomFilter::from_rooms: the rooms that list this node. *)
RoomsFor(n) == {r \in Room : n \in file.members[r]}

(* RoomFilter::admits: no room, no announcement. *)
Admits(rooms) == RoomsFor(Me) \cap rooms # {}

(* consider_announcement: the rooms it names first, then whether the node is known. *)
HearAnnouncement(m, rooms) ==
    /\ adoption' = [kind  |-> IF ~Admits(rooms) THEN "ignored"
                              ELSE IF m \in known THEN "refreshed" ELSE "reported",
                    from  |-> m,
                    rooms |-> rooms]
    /\ UNCHANGED <<file, time, back, rate, known, restarts>>

-----------------------------------------------------------------------------
Next == \/ Tick \/ SetBack \/ Restart
        \/ \E r \in Room, m \in Member : Admit(r, m)
        \/ \E m \in Member \ {Me}, rooms \in SUBSET Room : HearAnnouncement(m, rooms)

Spec == Init /\ [][Next]_vars

-----------------------------------------------------------------------------
Since(r, m, from, to) ==
    Cardinality({a \in admitted : a.room = r /\ a.member = m /\ a.at > from /\ a.at <= to})

(***************************************************************************)
(* Fixed windows let a burst at the end of one meet a burst at the start   *)
(* of the next, and no more: as long as the node is not restarted and its  *)
(* clock is not set back, a member gets at most two budgets into any       *)
(* stretch of one window's length (RateCounters::admit).                   *)
(***************************************************************************)
AtMostTwice ==
    back = 0 /\ restarts = 0 => \A r \in Room, m \in Member : \A t \in 0 .. time :
        Since(r, m, t - file.rule.window, t) <= 2 * file.rule.messages

(***************************************************************************)
(* "A room-wide budget would let one member starve the others" (RateRule): *)
(* a member who is refused has itself used a whole budget within the last  *)
(* window's length, or, when the clock was set back meanwhile, within that *)
(* and what it was set back by: nobody waits any longer.                   *)
(***************************************************************************)
RefusedForItsOwn ==
    ~verdict.ok =>
        Since(verdict.room, verdict.member, verdict.at - file.rule.window - back, verdict.at) >= file.rule.messages

(***************************************************************************)
(* "Configured for a room" is two things at once (RoomFilter): an address  *)
(* is refreshed, or a stranger reported, only on behalf of a room that     *)
(* rooms.json names and that lists this node, whatever rooms the           *)
(* announcement claims; and only for a node peers.json has is it refreshed.*)
(***************************************************************************)
HeardInOwnRoom ==
    /\ adoption.kind \in {"refreshed", "reported"} => \E r \in adoption.rooms : Me \in file.members[r]
    /\ adoption.kind = "refreshed" => adoption.from \in known

(***************************************************************************)
(* A member pays for its own messages only, gets two budgets at most in    *)
(* any window's length, and is heard where this node is a member (admit,   *)
(* consider_announcement).                                                 *)
(***************************************************************************)
RoomsInv == AtMostTwice /\ RefusedForItsOwn /\ HeardInOwnRoom
=============================================================================
