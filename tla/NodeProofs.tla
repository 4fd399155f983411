----------------------------- MODULE NodeProofs -----------------------------
(* Proofs about what a node does for the others: its one session with the   *)
(* server (NodeSession), for any sets of threads, any number of stops and   *)
(* cuts and any room in the sockets; and the tasks it hands out and takes   *)
(* (Dispatch), for any nodes, ids and routes and any number of dispatches;  *)
(* and the index of the runs it has worked on (RunIndex).                   *)
EXTENDS NodeSession, Integers, FiniteSetTheorems, WellFoundedInduction, TLAPS

CONSTANTS Nodes, Ids, Routes, MaxDispatches
VARIABLES call, run, child, events, net, reader, replies, allowed, rows

D == INSTANCE Dispatch

Calling == {"dialling", "signing", "writing", "reading"}

(* One thread at most is in a call, and it has the lock.                    *)
OneCalls ==
    /\ lock \in Thread \cup {Free}
    /\ at \in [Thread -> Calling \cup {"idle", "waiting"}]
    /\ \A t \in Thread : lock = t <=> at[t] \in Calling

(* So nobody signs between the signing and the writing of another's frame.  *)
InOrder == since = [t \in Thread |-> {}] /\ late = FALSE

Flags == registered \in BOOLEAN /\ half \in BOOLEAN /\ up \in BOOLEAN /\ row \in BOOLEAN

Threads == threads \subseteq Thread /\ stop \in [Thread -> {"run", "asked", "gone"}]

Pieces ==
    /\ session \in {"none", "live", "cut", "reset"}
    /\ down \in Seq({"begin", "end"}) /\ Len(down) <= MaxDown
    /\ session = "none" => down = << >>

IInv == OneCalls /\ InOrder /\ Flags /\ Threads /\ Pieces

-----------------------------------------------------------------------------
(* A thread that comes into a call or leaves it keeps the lock's account.   *)
LEMMA Enters ==
    ASSUME OneCalls, NEW t \in Thread, lock = Free, lock' = t,
           NEW loc \in Calling, Goto(t, loc)
    PROVE  OneCalls'
BY DEF OneCalls, Goto, Calling, Free, Thread

LEMMA Leaves ==
    ASSUME OneCalls, NEW t \in Thread, at[t] \in Calling, lock' = Free, Goto(t, "idle")
    PROVE  OneCalls'
<1>1. lock = t /\ Free \notin Thread
  BY DEF OneCalls, Free, Thread
<1>2. at' = [at EXCEPT ![t] = "idle"] /\ at \in [Thread -> Calling \cup {"idle", "waiting"}]
  BY DEF OneCalls, Goto
<1>3. \A u \in Thread : at'[u] \notin Calling
  BY <1>1, <1>2 DEF OneCalls, Calling
<1> QED
  BY <1>1, <1>2, <1>3 DEF OneCalls

LEMMA GoesOn ==
    ASSUME OneCalls, NEW t \in Thread, at[t] \in Calling, lock' = lock,
           NEW loc \in Calling, Goto(t, loc)
    PROVE  OneCalls'
BY DEF OneCalls, Goto

LEMMA Asks ==
    ASSUME OneCalls, NEW t \in Thread, at[t] = "idle", lock' = lock, Goto(t, "waiting")
    PROVE  OneCalls'
BY DEF OneCalls, Goto, Calling

(* A call that ends, however it ends: the lock is free and no frame of its  *)
(* thread waits to be written.                                              *)
LEMMA DoneKeeps ==
    ASSUME IInv, NEW t \in Thread, at[t] \in Calling, NEW ok \in BOOLEAN, Done(t, ok)
    PROVE  /\ OneCalls' /\ registered' \in BOOLEAN
           /\ since' = [u \in Thread |-> {}]
<1>1. OneCalls'
  BY Leaves DEF IInv, Done
<1>2. registered' \in BOOLEAN
  BY DEF IInv, Flags, Done, Outcome
<1>3. since' = [u \in Thread |-> {}]
  BY DEF IInv, InOrder, Done
<1> QED
  BY <1>1, <1>2, <1>3

LEMMA FailedKeeps ==
    ASSUME IInv, NEW t \in Thread, at[t] \in Calling, Failed(t),
           UNCHANGED <<threads, stop, late, server>>
    PROVE  IInv'
<1>1. OneCalls' /\ registered' \in BOOLEAN /\ since' = [u \in Thread |-> {}]
  BY DoneKeeps DEF Failed
<1>2. Flags' /\ Threads' /\ InOrder'
  BY <1>1 DEF IInv, Flags, Threads, InOrder, Failed, server
<1>3. Pieces'
  BY SessionAssumption DEF Pieces, Failed
<1> QED
  BY <1>1, <1>2, <1>3 DEF IInv

-----------------------------------------------------------------------------
(* The loops.                                                               *)
LEMMA CallKeeps ==
    ASSUME IInv, NEW t \in Thread, at[t] = "idle", NEW what, Call(t, what),
           UNCHANGED <<threads, stop, lock, session, registered, since, late, server, pushed>>
    PROVE  IInv'
<1>1. OneCalls'
  BY Asks DEF IInv, Call
<1>2. InOrder' /\ Flags' /\ Threads' /\ Pieces'
  BY DEF IInv, InOrder, Flags, Threads, Pieces, server, pushed
<1> QED
  BY <1>1, <1>2 DEF IInv

LEMMA WakesKeep ==
    ASSUME IInv, BeatDecides \/ ProbeWakes \/ DigestWakes
    PROVE  IInv'
<1>0. "beat" \in Thread /\ "probe" \in Thread /\ "digest" \in Thread
  BY DEF Thread
<1>1. CASE BeatDecides
  BY <1>0, <1>1, CallKeeps DEF BeatDecides
<1>2. CASE ProbeWakes
  BY <1>0, <1>2, CallKeeps DEF ProbeWakes
<1>3. CASE DigestWakes
  BY <1>0, <1>3, CallKeeps DEF DigestWakes
<1> QED
  BY <1>1, <1>2, <1>3

LEMMA StoppingKeeps ==
    ASSUME IInv, NEW t \in Thread, StopThread(t) \/ ThreadEnds(t)
    PROVE  IInv'
<1>1. UNCHANGED <<threads, client, server, sent, pushed>>
  BY DEF StopThread, ThreadEnds
<1>2. Threads'
  BY <1>1 DEF IInv, Threads, StopThread, ThreadEnds
<1>3. OneCalls' /\ InOrder' /\ Flags' /\ Pieces'
  BY <1>1 DEF IInv, OneCalls, InOrder, Flags, Pieces, client, server, pushed
<1> QED
  BY <1>2, <1>3 DEF IInv

-----------------------------------------------------------------------------
(* with_session.                                                            *)
LEMMA TakeLockKeeps ==
    ASSUME IInv, NEW t \in Thread, TakeLock(t)
    PROVE  IInv'
<1>1. PICK loc \in Calling : Goto(t, loc)
  BY DEF TakeLock, Calling
<1>2. lock = Free /\ lock' = t
  BY DEF TakeLock
<1>3. OneCalls'
  BY <1>1, <1>2, Enters DEF IInv
<1>4. InOrder' /\ Flags' /\ Threads' /\ Pieces'
  BY DEF TakeLock, IInv, InOrder, Flags, Threads, Pieces, server, pushed
<1> QED
  BY <1>3, <1>4 DEF IInv

LEMMA DialKeeps ==
    ASSUME IInv, NEW t \in Thread, Dial(t)
    PROVE  IInv'
<1>1. PICK loc \in Calling : Goto(t, loc)
  BY DEF Dial, Calling
<1>2. at[t] \in Calling /\ lock' = lock
  BY DEF Dial, Calling
<1>3. OneCalls'
  BY <1>1, <1>2, GoesOn DEF IInv
<1>4. InOrder' /\ Flags' /\ Threads' /\ Pieces'
  BY DEF Dial, IInv, InOrder, Flags, Threads, Pieces, server, pushed
<1> QED
  BY <1>3, <1>4 DEF IInv

(* The lock is why nobody else is between signing and writing.              *)
LEMMA SignKeeps ==
    ASSUME IInv, NEW t \in Thread, Sign(t)
    PROVE  IInv'
<1>1. at[t] = "signing" /\ Goto(t, "writing") /\ lock' = lock
  BY DEF Sign
<1>2. OneCalls'
  BY <1>1, GoesOn DEF IInv, Calling
<1>3. \A u \in Thread : u # t => at[u] \notin {"signed", "writing"}
  BY <1>1 DEF IInv, OneCalls, Calling
<1>4. InOrder'
  BY <1>3 DEF Sign, IInv, InOrder
<1>5. Flags' /\ Threads' /\ Pieces'
  BY DEF Sign, IInv, Flags, Threads, Pieces, server, pushed
<1> QED
  BY <1>2, <1>4, <1>5 DEF IInv

LEMMA WriteKeeps ==
    ASSUME IInv, NEW t \in Thread, Write(t)
    PROVE  IInv'
<1>1. /\ at[t] = "writing" /\ session \in {"live", "cut"} /\ Done(t, TRUE)
      /\ session' \in {"live", "reset"}
      /\ UNCHANGED <<threads, stop, part, server, pushed>>
      /\ late' = (late \/ \E u \in Thread : at[u] \in {"signed", "writing"} /\ t \in since[u])
  BY DEF Write
<1>2. OneCalls' /\ registered' \in BOOLEAN /\ since' = [u \in Thread |-> {}]
  BY <1>1, DoneKeeps DEF Calling
<1>3. late' = FALSE
  BY <1>1 DEF IInv, InOrder
<1>4. InOrder' /\ Flags' /\ Threads'
  BY <1>1, <1>2, <1>3 DEF IInv, InOrder, Flags, Threads, server, pushed
<1>5. Pieces'
  BY <1>1 DEF IInv, Pieces, pushed
<1> QED
  BY <1>2, <1>4, <1>5 DEF IInv

LEMMA FailsKeep ==
    ASSUME IInv, NEW t \in Thread, DialFails(t) \/ WriteFails(t) \/ ReadCloses(t)
    PROVE  IInv'
<1>1. at[t] \in Calling /\ Failed(t) /\ UNCHANGED <<threads, stop, late, server>>
  BY DEF DialFails, WriteFails, ReadCloses, Calling
<1> QED
  BY <1>1, FailedKeeps

-----------------------------------------------------------------------------
(* receive.                                                                 *)
LEMMA TailKeeps ==
    ASSUME IInv, down # << >>
    PROVE  /\ Tail(down) \in Seq({"begin", "end"}) /\ Len(Tail(down)) <= MaxDown
           /\ session # "none"
<1>1. /\ down \in Seq({"begin", "end"}) /\ Len(down) <= MaxDown
      /\ session = "none" => down = << >>
  BY DEF IInv, Pieces
<1>2. Tail(down) \in Seq({"begin", "end"}) /\ Len(Tail(down)) = Len(down) - 1 /\ Len(down) \in Nat
  BY <1>1
<1> QED
  BY <1>1, <1>2, SessionAssumption

LEMMA ReadKeeps ==
    ASSUME IInv, NEW t \in Thread, Read(t)
    PROVE  IInv'
<1>1. /\ at[t] \in Calling /\ down # << >>
      /\ UNCHANGED <<threads, stop, late, server>>
  BY DEF Read, Calling
<1>2. CASE Failed(t)
  BY <1>1, <1>2, FailedKeeps
<1>3. CASE down' = Tail(down) /\ UNCHANGED <<lock, session, at, does, registered, since, half>>
  <2>1. Pieces'
    BY <1>1, <1>3, TailKeeps DEF IInv, Pieces
  <2>2. OneCalls' /\ InOrder' /\ Flags' /\ Threads'
    BY <1>1, <1>3 DEF IInv, OneCalls, InOrder, Flags, Threads, server
  <2> QED
    BY <2>1, <2>2 DEF IInv
<1>4. CASE Done(t, TRUE) /\ down' = Tail(down) /\ UNCHANGED <<session, half>>
  <2>1. OneCalls' /\ registered' \in BOOLEAN /\ since' = [u \in Thread |-> {}]
    BY <1>1, <1>4, DoneKeeps
  <2>2. Pieces'
    BY <1>1, <1>4, TailKeeps DEF IInv, Pieces
  <2>3. InOrder' /\ Flags' /\ Threads'
    BY <1>1, <1>4, <2>1 DEF IInv, InOrder, Flags, Threads, server
  <2> QED
    BY <2>1, <2>2, <2>3 DEF IInv
<1> QED
  BY <1>2, <1>3, <1>4 DEF Read

LEMMA ReadTimesOutKeeps ==
    ASSUME IInv, NEW t \in Thread, ReadTimesOut(t)
    PROVE  IInv'
<1>1. /\ at[t] \in Calling /\ Done(t, TRUE)
      /\ UNCHANGED <<threads, stop, session, late, server, sent, pushed>>
  BY DEF ReadTimesOut, Calling
<1>2. OneCalls' /\ registered' \in BOOLEAN /\ since' = [u \in Thread |-> {}]
  BY <1>1, DoneKeeps
<1>3. InOrder' /\ Flags' /\ Threads' /\ Pieces'
  BY <1>1, <1>2 DEF IInv, InOrder, Flags, Threads, Pieces, server, pushed
<1> QED
  BY <1>2, <1>3 DEF IInv

-----------------------------------------------------------------------------
(* The server and the network touch nothing of the lock.                    *)
LEMMA PushKeeps ==
    ASSUME IInv, NEW piece \in {"begin", "end"}, session = "live", Len(down) < MaxDown,
           down' = Append(down, piece), session' = session
    PROVE  Pieces'
<1>1. down \in Seq({"begin", "end"}) /\ Len(down) \in Nat
  BY DEF IInv, Pieces
<1>2. Append(down, piece) \in Seq({"begin", "end"}) /\ Len(Append(down, piece)) = Len(down) + 1
  BY <1>1
<1>3. Len(down) + 1 <= MaxDown
  BY <1>1, SessionAssumption
<1> QED
  BY <1>2, <1>3 DEF Pieces

LEMMA ServerKeeps ==
    ASSUME IInv, ServerReads \/ ServerPushes \/ ServerStops \/ ServerStarts \/ Cut
    PROVE  IInv'
<1>1. /\ UNCHANGED <<threads, stop, lock, at, registered, since, late>>
      /\ up' \in BOOLEAN /\ row' \in BOOLEAN
  BY DEF IInv, Flags, ServerReads, ServerPushes, ServerStops, ServerStarts, Cut, client, server
<1>2. OneCalls' /\ InOrder' /\ Threads'
  BY <1>1 DEF IInv, OneCalls, InOrder, Threads
<1>3. Pieces' /\ half' \in BOOLEAN
  <2>1. CASE ServerReads
    <3>1. session' = session
      BY <2>1 DEF ServerReads, client
    <3>2. CASE UNCHANGED pushed
      BY <3>1, <3>2 DEF IInv, Pieces, Flags, pushed
    <3>3. CASE session = "live" /\ Len(down) < MaxDown /\ down' = Append(down, "begin") /\ half' = TRUE
      BY <3>1, <3>3, PushKeeps
    <3> QED
      BY <2>1, <3>2, <3>3 DEF ServerReads
  <2>2. CASE ServerPushes
    <3>1. PICK piece \in {"begin", "end"} : down' = Append(down, piece)
      BY <2>2 DEF ServerPushes
    <3>2. session = "live" /\ session' = session /\ Len(down) < MaxDown /\ half' = ~half
      BY <2>2 DEF ServerPushes, client
    <3>3. Pieces'
      BY <3>1, <3>2, PushKeeps
    <3> QED
      BY <3>2, <3>3, Zenon
  <2>3. CASE ServerStops \/ Cut
    BY <2>3 DEF IInv, Pieces, Flags, ServerStops, Cut, Gone, pushed
  <2>4. CASE ServerStarts
    BY <2>4 DEF IInv, Pieces, Flags, ServerStarts, client, pushed
  <2> QED
    BY <2>1, <2>2, <2>3, <2>4
<1>4. Flags'
  BY <1>1, <1>3 DEF IInv, Flags
<1> QED
  BY <1>2, <1>3, <1>4 DEF IInv

-----------------------------------------------------------------------------
LEMMA IInvInit == Init => IInv
<1> SUFFICES ASSUME Init PROVE IInv
  OBVIOUS
<1>1. OneCalls /\ InOrder
  BY DEF Init, OneCalls, InOrder, Calling, Free, Thread
<1>2. Flags /\ Pieces
  <2>1. registered = FALSE /\ up = TRUE /\ row = FALSE /\ half = FALSE
    BY DEF Init
  <2>2. Flags
    BY <2>1, Zenon DEF Flags
  <2>3. Pieces
    BY SessionAssumption DEF Init, Pieces
  <2> QED
    BY <2>2, <2>3
<1>3. Threads
  BY SessionAssumption DEF Init, Threads, Thread
<1> QED
  BY <1>1, <1>2, <1>3 DEF IInv

LEMMA IInvNext == IInv /\ [Next]_vars => IInv'
<1> SUFFICES ASSUME IInv, [Next]_vars PROVE IInv'
  OBVIOUS
<1>1. CASE BeatDecides \/ ProbeWakes \/ DigestWakes
  BY <1>1, WakesKeep
<1>2. ASSUME NEW t \in Thread, StopThread(t) \/ ThreadEnds(t) \/ TakeLock(t) PROVE IInv'
  BY <1>2, StoppingKeeps, TakeLockKeeps
<1>3. ASSUME NEW t \in Thread, Calls(t) PROVE IInv'
  BY <1>3, DialKeeps, SignKeeps, WriteKeeps, FailsKeep, ReadKeeps, ReadTimesOutKeeps DEF Calls
<1>4. CASE ServerReads \/ ServerPushes \/ ServerStops \/ ServerStarts \/ Cut
  BY <1>4, ServerKeeps
<1>5. CASE UNCHANGED vars
  BY <1>5 DEF vars, client, server, pushed, IInv, OneCalls, InOrder, Flags, Threads, Pieces
<1> QED
  BY <1>1, <1>2, <1>3, <1>4, <1>5 DEF Next

LEMMA IInvImplies == IInv => SessionInv
<1> SUFFICES ASSUME IInv PROVE SessionInv
  OBVIOUS
<1>1. TypeOK
  BY DEF IInv, OneCalls, Flags, Threads, Pieces, Calling, TypeOK
<1>2. WrittenAsSigned
  BY DEF IInv, InOrder, WrittenAsSigned
<1> QED
  BY <1>1, <1>2 DEF SessionInv

(***************************************************************************)
(* Whatever the loops, the server and the network do in which order: the   *)
(* session's lock is with the one thread whose call goes on, frames leave  *)
(* in the order they were signed in, and a session that was forgotten      *)
(* leaves nothing to read (with_session, send_body_to, receive_frame).     *)
(***************************************************************************)
THEOREM FramesLeaveInOrder == Spec => []SessionInv
<1>1. Init => IInv
  BY IInvInit
<1>2. IInv /\ [Next]_vars => IInv'
  BY IInvNext
<1>3. IInv => SessionInv
  BY IInvImplies
<1> QED
  BY <1>1, <1>2, <1>3, PTL DEF Spec

-----------------------------------------------------------------------------
(* Dispatch.                                                                *)
Active == {"spawn", "read", "reap"}
Ended == {"gone", "goneUnparsed", "dead"}
Refusals == {"unauthorised", "nobody"}

(* The fields of every record, and where the program counters may stand.    *)
CallTyped(a) ==
    /\ DOMAIN call[a] = {"pc", "at", "to", "id", "known", "result"}
    /\ call[a].pc \in {"off", "lock", "send", "running", "wait", "done"}
    /\ call[a].pc # "off" => call[a].at \in Nodes /\ call[a].to \in Nodes /\ call[a].id \in Ids

RunTyped(a) ==
    /\ DOMAIN run[a] = {"pc", "seen", "read", "shared"}
    /\ run[a].pc \in Active \cup {"off", "done"} /\ run[a].seen \in Nat
    /\ run[a].read \notin Refusals /\ run[a].shared \in BOOLEAN

TaskTyped ==
    /\ DOMAIN call = D!Attempts /\ DOMAIN run = D!Attempts /\ DOMAIN child = D!Attempts
    /\ \A a \in D!Attempts : CallTyped(a) /\ RunTyped(a)
    /\ events \in [Nodes -> Seq(D!Attempts)]
    /\ DOMAIN replies = Nodes /\ (\A n \in Nodes : DOMAIN replies[n] = Ids)
    /\ DOMAIN rows = Nodes

(* A dispatch that was not yet taken up has no run and no frame, and a      *)
(* worker belongs to a run that goes on.                                    *)
Standing(a) ==
    /\ call[a].pc \in {"off", "lock", "send"} => run[a].pc = "off"
    /\ run[a].pc \in {"off", "spawn"} => child[a] = "none"
    /\ run[a].pc = "done" => child[a] \in Ended \cup {"none"}

(* A task is on its way once, and only to a run that has not begun.         *)
Formed(f) ==
    /\ f.a \in D!Attempts /\ call[f.a].pc # "off" /\ f.kind \in {"task", "reply"}
    /\ f.kind = "task" => /\ f = [kind |-> "task", a |-> f.a, reply |-> D!NoReply]
                          /\ call[f.a].pc \in {"wait", "done"} /\ run[f.a].pc = "off"

(* While nobody else runs on the handle, every line since is this run's.    *)
KeepsToItself(a) ==
    run[a].pc \in Active /\ ~run[a].shared =>
      /\ \A b \in D!Attempts \ {a} : run[b].pc \in Active => call[b].to # call[a].to
      /\ \A i \in DOMAIN events[call[a].to] : i > run[a].seen => events[call[a].to][i] = a

(* No process ever worked on it and none will.                              *)
NeverRuns(a) ==
    /\ call[a].pc \in {"wait", "done"} /\ run[a].pc = "off" /\ child[a] = "none"
    /\ \A f \in net : f.a = a => f.kind # "task"

(* What an answer says of its dispatch is so, wherever the answer is.       *)
Sound(r) ==
    /\ r.of \in D!Attempts /\ call[r.of].pc # "off"
    /\ r.ok => run[r.of].pc = "done" /\ (~run[r.of].shared => r.by = r.of)
    /\ r.why \in Refusals => NeverRuns(r.of)

ResultsSound == \A a \in D!Attempts : call[a].pc = "done" =>
    Sound(call[a].result) /\ call[call[a].result.of].id = call[a].id
FramesSound == \A f \in net : f.kind = "reply" =>
    Sound(f.reply) /\ f.reply.of = f.a /\ f.a \in rows[call[f.a].to]
SlotsSound == \A n \in Nodes, i \in Ids : replies[n][i] # D!NoReply =>
    Sound(replies[n][i]) /\ call[replies[n][i].of].id = i

Places == (\A a \in D!Attempts : Standing(a) /\ KeepsToItself(a)) /\ (\A f \in net : Formed(f))

TaskInv == D!DispatchAssumption /\ TaskTyped /\ Places /\ ResultsSound /\ FramesSound /\ SlotsSound

-----------------------------------------------------------------------------
LEMMA Knows ==
    ASSUME TaskInv, NEW a \in D!Attempts
    PROVE  /\ CallTyped(a) /\ RunTyped(a) /\ Standing(a) /\ KeepsToItself(a)
           /\ DOMAIN call = D!Attempts /\ DOMAIN run = D!Attempts /\ DOMAIN child = D!Attempts
           /\ events \in [Nodes -> Seq(D!Attempts)]
           /\ DOMAIN replies = Nodes /\ DOMAIN rows = Nodes
           /\ run[a].pc # "off" => call[a].pc \in {"running", "wait", "done"}
BY DEF TaskInv, TaskTyped, Places, Standing, CallTyped

(* What a step may not do to a dispatch that was made: give it another id   *)
(* or another way, touch a run that is over, or start one that was refused. *)
Steady ==
    \A o \in D!Attempts :
      /\ call[o].pc # "off" => /\ call'[o].pc # "off" /\ call'[o].id = call[o].id
                               /\ call'[o].at = call[o].at /\ call'[o].to = call[o].to
      /\ run[o].pc = "done" => run'[o].pc = "done" /\ run'[o].shared = run[o].shared
      /\ NeverRuns(o) => NeverRuns(o)'

LEMMA SoundStays ==
    ASSUME Steady, NEW r, Sound(r)
    PROVE  Sound(r)' /\ call'[r.of].id = call[r.of].id
BY DEF Steady, Sound

(* A result, a frame or a slot is an old one or the new answer r.           *)
LEMMA ResultsKeep ==
    ASSUME TaskInv, Steady, NEW r,
           \A b \in D!Attempts : call'[b].pc = "done" =>
             \/ call[b].pc = "done" /\ call'[b].result = call[b].result
             \/ call'[b].result = r /\ Sound(r)' /\ call'[r.of].id = call'[b].id
    PROVE  ResultsSound'
<1> SUFFICES ASSUME NEW b \in D!Attempts, call'[b].pc = "done"
             PROVE  Sound(call[b].result)' /\ call'[call'[b].result.of].id = call'[b].id
  BY DEF ResultsSound
<1>1. CASE call[b].pc = "done" /\ call'[b].result = call[b].result
  <2>1. PICK s : s = call[b].result
    OBVIOUS
  <2>2. Sound(s) /\ call[s.of].id = call[b].id
    BY <1>1, <2>1 DEF TaskInv, ResultsSound
  <2>3. Sound(s)' /\ call'[s.of].id = call[s.of].id
    BY <2>2, SoundStays
  <2>4. call'[b].id = call[b].id
    BY <1>1 DEF Steady
  <2> QED
    BY <1>1, <2>1, <2>2, <2>3, <2>4 DEF Sound
<1>2. CASE call'[b].result = r /\ Sound(r)' /\ call'[r.of].id = call'[b].id
  BY <1>2 DEF Sound
<1> QED
  BY <1>1, <1>2

LEMMA ResultsStay ==
    ASSUME TaskInv, Steady,
           \A b \in D!Attempts : call'[b].pc = "done" =>
             call[b].pc = "done" /\ call'[b].result = call[b].result
    PROVE  ResultsSound'
<1>1. PICK r : r = 0
  OBVIOUS
<1> QED
  BY ResultsKeep

LEMMA FramesKeep ==
    ASSUME TaskInv, Steady, \A n \in Nodes : rows[n] \subseteq rows'[n], NEW r,
           \A f \in net' : f.kind = "reply" =>
             \/ f \in net
             \/ f.reply = r /\ Sound(r)' /\ r.of = f.a /\ f.a \in rows'[call'[f.a].to]
    PROVE  FramesSound'
<1> SUFFICES ASSUME NEW f \in net', f.kind = "reply"
             PROVE  Sound(f.reply)' /\ f.reply.of = f.a /\ f.a \in rows'[call'[f.a].to]
  BY DEF FramesSound
<1>1. CASE f \in net
  <2>1. /\ Sound(f.reply) /\ f.reply.of = f.a /\ f.a \in rows[call[f.a].to]
        /\ f.a \in D!Attempts /\ call[f.a].pc # "off"
    BY <1>1 DEF TaskInv, FramesSound, Places, Formed
  <2>2. Sound(f.reply)'
    BY <2>1, SoundStays
  <2>3. call'[f.a].to = call[f.a].to /\ call[f.a].to \in Nodes
    BY <2>1, Knows DEF Steady, CallTyped
  <2> QED
    BY <2>1, <2>2, <2>3
<1>2. CASE f.reply = r /\ Sound(r)' /\ r.of = f.a /\ f.a \in rows'[call'[f.a].to]
  BY <1>2
<1> QED
  BY <1>1, <1>2

LEMMA FramesStay ==
    ASSUME TaskInv, Steady, \A n \in Nodes : rows[n] \subseteq rows'[n],
           \A f \in net' : f.kind = "reply" => f \in net
    PROVE  FramesSound'
<1>1. PICK r : r = 0
  OBVIOUS
<1> QED
  BY FramesKeep

LEMMA SlotsKeep ==
    ASSUME TaskInv, Steady, NEW r,
           \A n \in Nodes, i \in Ids : replies'[n][i] # D!NoReply =>
             \/ replies'[n][i] = replies[n][i]
             \/ replies'[n][i] = r /\ Sound(r) /\ call[r.of].id = i
    PROVE  SlotsSound'
<1> SUFFICES ASSUME NEW n \in Nodes, NEW i \in Ids, replies'[n][i] # D!NoReply
             PROVE  Sound(replies[n][i])' /\ call'[replies'[n][i].of].id = i
  BY DEF SlotsSound, D!NoReply, D!NoAttempt
<1>1. PICK s : s = replies'[n][i]
  OBVIOUS
<1>2. Sound(s) /\ call[s.of].id = i
  BY <1>1 DEF TaskInv, SlotsSound
<1>3. Sound(s)' /\ call'[s.of].id = i
  BY <1>2, SoundStays
<1> QED
  BY <1>1, <1>3 DEF Sound

LEMMA SlotsStay ==
    ASSUME TaskInv, Steady,
           \A n \in Nodes, i \in Ids : replies'[n][i] \in {replies[n][i], D!NoReply}
    PROVE  SlotsSound'
<1>1. PICK r : r = 0
  OBVIOUS
<1> QED
  BY SlotsKeep

(* A step that starts no run and lets nobody announce itself.               *)
LEMMA AloneStays ==
    ASSUME TaskInv, Steady, events' = events,
           \A a \in D!Attempts : run'[a].pc \in Active =>
             /\ run[a].pc \in Active /\ run'[a].seen = run[a].seen
             /\ run'[a].shared = run[a].shared
    PROVE  \A a \in D!Attempts : KeepsToItself(a)'
<1> TAKE a \in D!Attempts
<1>1. \A b \in D!Attempts : run[b].pc \in Active => call'[b].to = call[b].to
  BY Knows DEF Steady, Active
<1> QED
  BY <1>1, Knows DEF KeepsToItself

LEMMA PartsKeep ==
    ASSUME TaskInv, TaskTyped', \A a \in D!Attempts : Standing(a)',
           \A a \in D!Attempts : KeepsToItself(a)', \A f \in net' : Formed(f)',
           ResultsSound', FramesSound', SlotsSound'
    PROVE  TaskInv'
BY DEF TaskInv, Places, D!DispatchAssumption

-----------------------------------------------------------------------------
(* The executor process and the thread that reads its answer.               *)
LEMMA WorkKeeps ==
    ASSUME TaskInv, NEW a \in D!Attempts, UNCHANGED <<call, events, net, replies, rows>>,
           run[a].pc \in Active, RunTyped(a)', run'[a].pc \in {"read", "reap"},
           run'[a].seen = run[a].seen, run'[a].shared = run[a].shared,
           DOMAIN run' = D!Attempts, DOMAIN child' = D!Attempts,
           \A b \in D!Attempts \ {a} : run'[b] = run[b] /\ child'[b] = child[b]
    PROVE  TaskInv'
<1>1. run[a].pc \notin {"off", "done"} /\ call[a].pc \in {"running", "wait", "done"}
  BY Knows DEF Active
<1>2. Steady
  BY <1>1 DEF Steady, NeverRuns
<1>3. TaskTyped'
  <2>1. \A b \in D!Attempts : CallTyped(b)' /\ RunTyped(b)'
    BY Knows DEF CallTyped, RunTyped
  <2> QED
    BY <2>1 DEF TaskInv, TaskTyped
<1>4. \A b \in D!Attempts : Standing(b)'
  BY <1>1, Knows DEF Standing
<1>5. \A b \in D!Attempts : KeepsToItself(b)'
  BY <1>2, AloneStays
<1>6. \A f \in net' : Formed(f)'
  BY <1>1 DEF TaskInv, Places, Formed
<1>7. ResultsSound' /\ FramesSound' /\ SlotsSound'
  BY <1>2, ResultsStay, FramesStay, SlotsStay
<1> QED
  BY <1>3, <1>4, <1>5, <1>6, <1>7, PartsKeep

LEMMA HandleGoesOn ==
    ASSUME TaskInv, NEW a \in D!Attempts, D!ReadAnswer(a) \/ D!GiveUp(a)
    PROVE  TaskInv'
<1>1. UNCHANGED <<call, events, net, replies, rows>> /\ run[a].pc = "read"
  BY DEF D!ReadAnswer, D!GiveUp
<1>2. /\ DOMAIN run' = D!Attempts /\ DOMAIN child' = D!Attempts
      /\ \A b \in D!Attempts \ {a} : run'[b] = run[b] /\ child'[b] = child[b]
  BY Knows DEF D!ReadAnswer, D!GiveUp
<1>3. PICK r \in {"own", "eof", "other", "late"} :
        run' = [run EXCEPT ![a].pc = "reap", ![a].read = r]
  BY DEF D!ReadAnswer, D!GiveUp
<1>4. /\ RunTyped(a)' /\ run'[a].pc = "reap" /\ run'[a].seen = run[a].seen
      /\ run'[a].shared = run[a].shared
  BY <1>3, Knows DEF RunTyped, Active, Refusals
<1> QED
  BY <1>1, <1>2, <1>4, WorkKeeps DEF Active

LEMMA ChildKeeps ==
    ASSUME TaskInv, NEW a \in D!Attempts, D!ChildAnswers(a) \/ D!ChildExits(a)
    PROVE  TaskInv'
<1>1. /\ UNCHANGED <<call, run, events, net, replies, rows>>
      /\ child[a] \in {"live", "ready", "answered", "unparsed"}
  BY DEF D!ChildAnswers, D!ChildExits
<1>2. run[a].pc \in {"read", "reap"}
  BY <1>1, Knows DEF Standing, RunTyped, Active, Ended
<1>3. DOMAIN child' = D!Attempts /\ \A b \in D!Attempts \ {a} : child'[b] = child[b]
  BY Knows DEF D!ChildAnswers, D!ChildExits
<1>4. RunTyped(a)' /\ DOMAIN run' = D!Attempts
  BY <1>1, Knows DEF RunTyped
<1> QED
  BY <1>1, <1>2, <1>3, <1>4, WorkKeeps DEF Active

LEMMA SpawnWorks ==
    ASSUME TaskInv, NEW a \in D!Attempts, run[a].pc = "spawn",
           child' = [child EXCEPT ![a] = "live"], run' = [run EXCEPT ![a].pc = "read"],
           UNCHANGED <<call, events, net, replies, rows>>
    PROVE  TaskInv'
<1>1. /\ RunTyped(a)' /\ run'[a].pc = "read" /\ run'[a].seen = run[a].seen
      /\ run'[a].shared = run[a].shared
  BY Knows DEF RunTyped, Active
<1>2. /\ DOMAIN run' = D!Attempts /\ DOMAIN child' = D!Attempts
      /\ \A b \in D!Attempts \ {a} : run'[b] = run[b] /\ child'[b] = child[b]
  BY Knows
<1> QED
  BY <1>1, <1>2, WorkKeeps DEF Active

(* worker:ready lands in the buffer of the handle; a run that has the       *)
(* handle to itself sees it only from its own child.                        *)
LEMMA AnnounceKeeps ==
    ASSUME TaskInv, NEW a \in D!Attempts, D!ChildAnnounces(a)
    PROVE  TaskInv'
<1>1. /\ child[a] = "live" /\ child' = [child EXCEPT ![a] = "ready"]
      /\ events' = [events EXCEPT ![call[a].to] = Append(@, a)]
      /\ UNCHANGED <<call, run, net, replies, rows>>
  BY DEF D!ChildAnnounces
<1>2. run[a].pc \in {"read", "reap"} /\ call[a].pc # "off"
  BY <1>1, Knows DEF Standing, RunTyped, Active, Ended
<1>3. call[a].to \in Nodes /\ events[call[a].to] \in Seq(D!Attempts)
  BY <1>2, Knows DEF CallTyped
<1>4. \A b \in D!Attempts \ {a} : child'[b] = child[b]
  BY <1>1
<1>5. DOMAIN child' = D!Attempts
  BY <1>1, Knows
<1>6. Steady
  BY <1>1, <1>2, <1>4 DEF Steady, NeverRuns
<1>7. TaskTyped'
  <2>1. \A b \in D!Attempts : CallTyped(b)' /\ RunTyped(b)'
    BY <1>1, Knows DEF CallTyped, RunTyped
  <2>2. events' \in [Nodes -> Seq(D!Attempts)]
    BY <1>1, <1>3, Knows
  <2> QED
    BY <1>1, <1>5, <2>1, <2>2 DEF TaskInv, TaskTyped
<1>8. \A b \in D!Attempts : Standing(b)'
  BY <1>1, <1>2, <1>4, Knows DEF Standing
<1>9. ASSUME NEW o \in D!Attempts PROVE KeepsToItself(o)'
  <2> SUFFICES ASSUME run[o].pc \in Active, ~run[o].shared
               PROVE  /\ \A b \in D!Attempts \ {o} : run[b].pc \in Active => call[b].to # call[o].to
                      /\ \A i \in DOMAIN events'[call[o].to] :
                           i > run[o].seen => events'[call[o].to][i] = o
    BY <1>1 DEF KeepsToItself
  <2>1. /\ \A b \in D!Attempts \ {o} : run[b].pc \in Active => call[b].to # call[o].to
        /\ \A i \in DOMAIN events[call[o].to] : i > run[o].seen => events[call[o].to][i] = o
    BY Knows DEF KeepsToItself
  <2>2. call[o].pc # "off" /\ call[o].to \in Nodes
    BY Knows DEF CallTyped, Active
  <2>3. CASE call[o].to # call[a].to
    BY <1>1, <2>1, <2>2, <2>3, Knows
  <2>4. CASE call[o].to = call[a].to
    <3>1. o = a
      BY <1>2, <2>1, <2>4 DEF Active
    <3>2. events'[call[o].to] = Append(events[call[o].to], a)
      BY <1>1, <2>2, <2>4, Knows
    <3>3. \A i \in DOMAIN Append(events[call[o].to], a) :
            \/ i \in DOMAIN events[call[o].to] /\ Append(events[call[o].to], a)[i] = events[call[o].to][i]
            \/ Append(events[call[o].to], a)[i] = a
      BY <1>3, <2>4
    <3> QED
      BY <2>1, <3>1, <3>2, <3>3
  <2> QED
    BY <2>3, <2>4
<1>10. \A f \in net' : Formed(f)'
  BY <1>1 DEF TaskInv, Places, Formed
<1>11. ResultsSound' /\ FramesSound' /\ SlotsSound'
  BY <1>1, <1>6, ResultsStay, FramesStay, SlotsStay
<1> QED
  BY <1>7, <1>8, <1>9, <1>10, <1>11, PartsKeep

-----------------------------------------------------------------------------
(* A run begins: it notes who else is on the handle, and they note it.      *)
LEMMA StartKeeps ==
    ASSUME TaskInv, NEW a \in D!Attempts, run[a].pc = "off", D!StartRun(a),
           UNCHANGED <<child, events, replies, rows>>, DOMAIN call' = D!Attempts,
           \A b \in D!Attempts \ {a} : call'[b] = call[b],
           CallTyped(a)', call[a].pc \notin {"off", "send"},
           call'[a].pc \notin {"off", "lock", "send"},
           call'[a].pc = "done" => call[a].pc = "done",
           call'[a].at = call[a].at, call'[a].to = call[a].to, call'[a].id = call[a].id,
           call'[a].result = call[a].result,
           net' \subseteq net, \A f \in net' : f.a = a => f.kind # "task", ~NeverRuns(a)
    PROVE  TaskInv'
<1> DEFINE others == {b \in D!Attempts : run[b].pc \in {"spawn", "read", "reap"} /\ call[b].to = call[a].to}
<1>1. DOMAIN run' = D!Attempts /\ run'[a].pc = "spawn" /\ run'[a].seen = Len(events[call[a].to])
      /\ run'[a].shared = (others # {}) /\ run'[a].read = "nothing"
      /\ DOMAIN run'[a] = {"pc", "seen", "read", "shared"}
  BY DEF D!StartRun
<1>2. ASSUME NEW b \in D!Attempts \ {a}
      PROVE  /\ DOMAIN run'[b] = DOMAIN run[b] /\ run'[b].pc = run[b].pc
             /\ run'[b].seen = run[b].seen /\ run'[b].read = run[b].read
             /\ run'[b].shared = (run[b].shared \/ b \in others)
  <2>1. run'[b] = [run[b] EXCEPT !.shared = @ \/ b \in others]
    BY DEF D!StartRun
  <2> QED
    BY <2>1, Knows DEF RunTyped
<1>3. \A b \in D!Attempts : b \in others <=> run[b].pc \in Active /\ call[b].to = call[a].to
  BY DEF Active
<1> HIDE DEF others
<1>4. run'[a].shared \in BOOLEAN /\ \A b \in D!Attempts \ {a} : run'[b].shared \in BOOLEAN
  BY <1>1, <1>2, Zenon
<1>5. call[a].to \in Nodes /\ events[call[a].to] \in Seq(D!Attempts)
  BY Knows DEF CallTyped
<1>6. Steady
  <2> SUFFICES ASSUME NEW o \in D!Attempts
               PROVE  /\ call[o].pc # "off" => /\ call'[o].pc # "off" /\ call'[o].id = call[o].id
                                               /\ call'[o].at = call[o].at /\ call'[o].to = call[o].to
                      /\ run[o].pc = "done" => run'[o].pc = "done" /\ run'[o].shared = run[o].shared
                      /\ NeverRuns(o) => NeverRuns(o)'
    BY DEF Steady
  <2>1. CASE o = a
    BY <2>1
  <2>2. CASE o # a
    <3>1. run[o].pc = "done" => run'[o].pc = "done" /\ run'[o].shared = run[o].shared
      <4> SUFFICES ASSUME run[o].pc = "done"
                   PROVE  run'[o].pc = "done" /\ run'[o].shared = run[o].shared
        OBVIOUS
      <4>1. o \notin others
        BY <1>3 DEF Active
      <4>2. (run[o].shared \/ o \in others) = run[o].shared
        BY <4>1, Knows DEF RunTyped
      <4> QED
        BY <1>2, <2>2, <4>2
    <3>2. NeverRuns(o) => NeverRuns(o)'
      BY <1>2, <2>2 DEF NeverRuns
    <3> QED
      BY <2>2, <3>1, <3>2
  <2> QED
    BY <2>1, <2>2
<1>7. TaskTyped'
  <2>1. \A b \in D!Attempts : CallTyped(b)'
    BY Knows DEF CallTyped
  <2>2. RunTyped(a)'
    BY <1>1, <1>4, <1>5 DEF RunTyped, Active, Refusals
  <2>3. \A b \in D!Attempts \ {a} : RunTyped(b)'
    BY <1>2, <1>4, Knows DEF RunTyped
  <2> QED
    BY <1>1, <2>1, <2>2, <2>3 DEF TaskInv, TaskTyped
<1>8. \A b \in D!Attempts : Standing(b)'
  <2>1. Standing(a)'
    BY <1>1, Knows DEF Standing
  <2>2. \A b \in D!Attempts \ {a} : Standing(b)'
    BY <1>2, Knows DEF Standing
  <2> QED
    BY <2>1, <2>2
<1>9. \A b \in D!Attempts : KeepsToItself(b)'
  <2>1. \A b \in D!Attempts : call'[b].to = call[b].to
    OBVIOUS
  <2>2. KeepsToItself(a)'
    <3>1. ~run'[a].shared => others = {}
      BY <1>1
    <3>2. ~run'[a].shared => \A b \in D!Attempts \ {a} : run'[b].pc \in Active => call[b].to # call[a].to
      BY <1>2, <1>3, <3>1
    <3>3. \A i \in DOMAIN events[call[a].to] : ~(i > run'[a].seen)
      BY <1>1, <1>5
    <3> QED
      BY <2>1, <3>2, <3>3 DEF KeepsToItself
  <2>3. ASSUME NEW b \in D!Attempts \ {a} PROVE KeepsToItself(b)'
    <3> SUFFICES ASSUME run'[b].pc \in Active, ~run'[b].shared
                 PROVE  /\ \A o \in D!Attempts \ {b} : run'[o].pc \in Active => call[o].to # call[b].to
                        /\ \A i \in DOMAIN events[call[b].to] : i > run'[b].seen => events[call[b].to][i] = b
      BY <2>1 DEF KeepsToItself
    <3>1. run[b].pc \in Active /\ ~run[b].shared /\ b \notin others
      BY <1>2
    <3>2. call[a].to # call[b].to
      BY <1>3, <3>1
    <3>3. KeepsToItself(b)
      BY Knows
    <3> QED
      BY <1>2, <3>1, <3>2, <3>3 DEF KeepsToItself
  <2> QED
    BY <2>2, <2>3
<1>10. \A f \in net' : Formed(f)'
  BY <1>2 DEF TaskInv, Places, Formed
<1>11. ResultsSound' /\ FramesSound' /\ SlotsSound'
  BY <1>6, ResultsStay, FramesStay, SlotsStay
<1> QED
  BY <1>7, <1>8, <1>9, <1>10, <1>11, PartsKeep

(* dispatch_task returns to its caller with an answer that holds.           *)
LEMMA ReturnKeeps ==
    ASSUME TaskInv, NEW a \in D!Attempts, call[a].pc \in {"lock", "send", "wait"},
           NEW r, D!Return(a, r),
           Sound(r) \/ (r.of = a /\ ~r.ok /\ (r.why \in Refusals => call[a].pc = "lock")),
           call[r.of].id = call[a].id, UNCHANGED <<run, child, events, net>>,
           DOMAIN replies' = Nodes, \A n \in Nodes : DOMAIN replies'[n] = Ids,
           \A n \in Nodes, i \in Ids : replies'[n][i] \in {replies[n][i], D!NoReply}
    PROVE  TaskInv'
<1>1. /\ call' = [call EXCEPT ![a].pc = "done", ![a].result = r]
      /\ rows' = IF r.ok THEN [rows EXCEPT ![call[a].at] = @ \cup {a}] ELSE rows
  BY DEF D!Return
<1>2. /\ DOMAIN call'[a] = {"pc", "at", "to", "id", "known", "result"}
      /\ call'[a].pc = "done" /\ call'[a].result = r /\ call'[a].at = call[a].at
      /\ call'[a].to = call[a].to /\ call'[a].id = call[a].id
      /\ DOMAIN call' = D!Attempts /\ \A b \in D!Attempts \ {a} : call'[b] = call[b]
  BY <1>1, Knows DEF CallTyped
<1>3. DOMAIN rows' = Nodes /\ \A n \in Nodes : rows[n] \subseteq rows'[n]
  BY <1>1, Knows
<1>4. Steady
  BY <1>2 DEF Steady, NeverRuns
<1>5. Sound(r)'
  <2>1. CASE Sound(r)
    BY <1>4, <2>1, SoundStays
  <2>2. CASE r.of = a /\ ~r.ok /\ (r.why \in Refusals => call[a].pc = "lock")
    <3>1. call[a].pc = "lock" => NeverRuns(a)'
      BY <1>2, Knows DEF NeverRuns, Standing, TaskInv, Places, Formed
    <3> QED
      BY <1>2, <2>2, <3>1 DEF Sound
  <2> QED
    BY <2>1, <2>2
<1>6. TaskTyped'
  <2>1. CallTyped(a)'
    BY <1>2, Knows DEF CallTyped
  <2>2. ASSUME NEW b \in D!Attempts, b # a PROVE CallTyped(b)'
    <3>1. call'[b] = call[b] /\ CallTyped(b)
      BY <1>2, <2>2, Knows
    <3> QED
      BY <3>1 DEF CallTyped
  <2>3. \A b \in D!Attempts : CallTyped(b)'
    BY <2>1, <2>2
  <2>4. \A b \in D!Attempts : RunTyped(b)'
    BY Knows DEF RunTyped
  <2> QED
    BY <1>2, <1>3, <2>3, <2>4 DEF TaskInv, TaskTyped
<1>7. \A b \in D!Attempts : Standing(b)'
  BY <1>2, Knows DEF Standing
<1>8. \A b \in D!Attempts : KeepsToItself(b)'
  BY <1>4, AloneStays
<1>9. \A f \in net' : Formed(f)'
  BY <1>2 DEF TaskInv, Places, Formed
<1>10. ResultsSound'
  <2>1. r.of \in D!Attempts
    BY <1>5 DEF Sound
  <2>2. call'[r.of].id = call'[a].id
    BY <1>2, <2>1
  <2>3. \A b \in D!Attempts : call'[b].pc = "done" =>
          \/ call[b].pc = "done" /\ call'[b].result = call[b].result
          \/ call'[b].result = r /\ Sound(r)' /\ call'[r.of].id = call'[b].id
    BY <1>2, <1>5, <2>2
  <2> QED
    BY <1>4, <2>3, ResultsKeep
<1>11. FramesSound' /\ SlotsSound'
  BY <1>3, <1>4, FramesStay, SlotsStay
<1> QED
  BY <1>6, <1>7, <1>8, <1>9, <1>10, <1>11, PartsKeep

(* A run is over: its answer goes to the caller here, or into a frame, with *)
(* the row of a peer's task already written.                                *)
LEMMA FinishKeeps ==
    ASSUME TaskInv, NEW a \in D!Attempts, run[a].pc \in Active, NEW r, D!FinishRun(a, r),
           r.of = a, r.why \notin Refusals, r.ok /\ ~run[a].shared => r.by = a,
           run' = [run EXCEPT ![a].pc = "done"], child[a] \in Ended \cup {"none"},
           UNCHANGED <<child, events, replies>>
    PROVE  TaskInv'
<1>1. /\ DOMAIN run'[a] = {"pc", "seen", "read", "shared"} /\ run'[a].pc = "done"
      /\ run'[a].seen = run[a].seen /\ run'[a].read = run[a].read
      /\ run'[a].shared = run[a].shared
      /\ DOMAIN run' = D!Attempts /\ \A b \in D!Attempts \ {a} : run'[b] = run[b]
  BY Knows DEF RunTyped
<1>2. /\ run[a].pc \notin {"off", "done"} /\ call[a].pc \in {"running", "wait", "done"}
      /\ call[a].at \in Nodes /\ call[a].to \in Nodes
  BY Knows DEF Active, CallTyped
<1>3. /\ DOMAIN call' = D!Attempts /\ \A b \in D!Attempts \ {a} : call'[b] = call[b]
      /\ CallTyped(a)' /\ call'[a].pc \notin {"off", "lock", "send"}
      /\ call'[a].at = call[a].at /\ call'[a].to = call[a].to /\ call'[a].id = call[a].id
      /\ \/ call'[a].pc = call[a].pc /\ call'[a].result = call[a].result
         \/ call'[a].pc = "done" /\ call'[a].result = r
  <2>1. CASE call[a].at = call[a].to
    <3>1. call' = [call EXCEPT ![a].pc = "done", ![a].result = r]
      BY <2>1 DEF D!FinishRun, D!Return
    <3>2. CallTyped(a)
      BY Knows
    <3> QED
      BY <1>2, <3>1, <3>2, Knows DEF CallTyped
  <2>2. CASE call[a].at # call[a].to
    <3>1. call' = call
      BY <2>2 DEF D!FinishRun
    <3> QED
      BY <1>2, <3>1, Knows DEF CallTyped
  <2> QED
    BY <2>1, <2>2
<1>4. DOMAIN rows' = Nodes /\ \A n \in Nodes : rows[n] \subseteq rows'[n]
  BY Knows DEF D!FinishRun, D!Return
<1>5. \A f \in net' : f \in net \/ (/\ f = [kind |-> "reply", a |-> a, reply |-> r]
                                    /\ a \in rows'[call[a].to])
  BY <1>2, Knows DEF D!FinishRun
<1>6. \A f \in net' : f.kind = "task" => f \in net
  BY <1>5
<1>7. Steady
  <2>1. \A o \in D!Attempts : NeverRuns(o) => o # a
    BY <1>2 DEF NeverRuns
  <2> QED
    BY <1>1, <1>2, <1>3, <1>6, <2>1 DEF Steady, NeverRuns
<1>8. Sound(r)'
  BY <1>1, <1>3 DEF Sound
<1>9. TaskTyped'
  <2>1. \A b \in D!Attempts : CallTyped(b)'
    <3> SUFFICES ASSUME NEW b \in D!Attempts, b # a PROVE CallTyped(b)'
      BY <1>3
    <3>1. call'[b] = call[b] /\ CallTyped(b)
      BY <1>3, Knows
    <3> QED
      BY <3>1 DEF CallTyped
  <2>2. \A b \in D!Attempts : RunTyped(b)'
    BY <1>1, Knows DEF RunTyped
  <2> QED
    BY <1>1, <1>3, <1>4, <2>1, <2>2 DEF TaskInv, TaskTyped
<1>10. \A b \in D!Attempts : Standing(b)'
  BY <1>1, <1>3, Knows DEF Standing
<1>11. \A b \in D!Attempts : KeepsToItself(b)'
  BY <1>1, <1>7, AloneStays DEF Active
<1>12. \A f \in net' : Formed(f)'
  <2> SUFFICES ASSUME NEW f \in net' PROVE Formed(f)'
    OBVIOUS
  <2>1. CASE f \in net
    BY <1>1, <1>2, <1>3, <2>1 DEF TaskInv, Places, Formed
  <2>2. CASE f = [kind |-> "reply", a |-> a, reply |-> r]
    BY <1>3, <2>2 DEF Formed
  <2> QED
    BY <1>5, <2>1, <2>2
<1>13. ResultsSound'
  <2>1. \A b \in D!Attempts : call'[b].pc = "done" =>
          \/ call[b].pc = "done" /\ call'[b].result = call[b].result
          \/ call'[b].result = r /\ Sound(r)' /\ call'[r.of].id = call'[b].id
    BY <1>3, <1>8
  <2> QED
    BY <1>7, <2>1, ResultsKeep
<1>14. FramesSound'
  <2>1. \A f \in net' : f.kind = "reply" =>
          \/ f \in net
          \/ f.reply = r /\ Sound(r)' /\ r.of = f.a /\ f.a \in rows'[call'[f.a].to]
    BY <1>3, <1>5, <1>8
  <2> QED
    BY <1>4, <1>7, <2>1, FramesKeep
<1>15. SlotsSound'
  BY <1>7, SlotsStay
<1> QED
  BY <1>9, <1>10, <1>11, <1>12, <1>13, <1>14, <1>15, PartsKeep

LEMMA SpawnKeeps ==
    ASSUME TaskInv, NEW a \in D!Attempts, D!Spawn(a)
    PROVE  TaskInv'
<1>1. run[a].pc = "spawn" /\ UNCHANGED <<events, replies>>
  BY DEF D!Spawn
<1>2. CASE /\ child' = [child EXCEPT ![a] = "live"] /\ run' = [run EXCEPT ![a].pc = "read"]
           /\ UNCHANGED <<call, net, reader, rows>>
  BY <1>1, <1>2, SpawnWorks
<1>3. CASE /\ run' = [run EXCEPT ![a].pc = "done"] /\ child' = child
           /\ D!FinishRun(a, D!Failed("spawn", a))
  <2>1. PICK r : r = D!Failed("spawn", a)
    OBVIOUS
  <2>2. r.of = a /\ r.why \notin Refusals /\ ~r.ok
    BY <2>1 DEF D!Failed, Refusals
  <2>3. D!FinishRun(a, r)
    BY <1>3, <2>1
  <2>4. child[a] \in Ended \cup {"none"}
    BY <1>1, Knows DEF Standing
  <2> QED
    BY <1>1, <1>3, <2>2, <2>3, <2>4, FinishKeeps DEF Active
<1> QED
  BY <1>2, <1>3 DEF D!Spawn

(* The first line since the run began is its own child's if nobody else was *)
(* on the handle.                                                           *)
LEMMA ReapKeeps ==
    ASSUME TaskInv, NEW a \in D!Attempts, D!Reap(a)
    PROVE  TaskInv'
<1>1. PICK r : r = IF run[a].read = "own" /\ D!Announced(a) # D!NoAttempt
                   THEN D!Answered(a, D!Announced(a)) ELSE D!Failed(run[a].read, a)
  OBVIOUS
<1>2. /\ run[a].pc = "reap" /\ child[a] \in Ended /\ run' = [run EXCEPT ![a].pc = "done"]
      /\ D!FinishRun(a, r) /\ UNCHANGED <<child, events, replies>>
  BY <1>1 DEF D!Reap, Ended
<1>3. r.of = a /\ r.why \notin Refusals
  BY <1>1, Knows DEF D!Answered, D!Failed, RunTyped, Refusals
<1>4. r.ok => D!Announced(a) # D!NoAttempt /\ r.by = D!Announced(a)
  BY <1>1 DEF D!Answered, D!Failed
<1>5. ASSUME ~run[a].shared, D!Announced(a) # D!NoAttempt PROVE D!Announced(a) = a
  <2>1. call[a].to \in Nodes /\ events[call[a].to] \in Seq(D!Attempts) /\ run[a].seen \in Nat
    BY <1>2, Knows DEF CallTyped, RunTyped
  <2>2. \A i \in DOMAIN events[call[a].to] : i > run[a].seen => events[call[a].to][i] = a
    BY <1>2, <1>5, Knows DEF KeepsToItself, Active
  <2>3. /\ Len(events[call[a].to]) > run[a].seen
        /\ D!Announced(a) = events[call[a].to][run[a].seen + 1]
    BY <1>5 DEF D!Announced
  <2>4. run[a].seen + 1 \in DOMAIN events[call[a].to] /\ run[a].seen + 1 > run[a].seen
    BY <2>1, <2>3
  <2> QED
    BY <2>2, <2>3, <2>4
<1> QED
  BY <1>2, <1>3, <1>4, <1>5, FinishKeeps DEF Active

-----------------------------------------------------------------------------
(* The caller, the wire and the reader.                                     *)
LEMMA DispatchTaskKeeps ==
    ASSUME TaskInv, NEW a \in D!Attempts, NEW way \in Routes, NEW id \in Ids, NEW known,
           D!DispatchTask(a, way[1], way[2], id, known)
    PROVE  TaskInv'
<1>1. way[1] \in Nodes /\ way[2] \in Nodes
  BY DEF TaskInv, D!DispatchAssumption
<1>2. /\ call[a].pc = "off" /\ UNCHANGED <<run, child, events, net, replies, rows>>
      /\ call' = [call EXCEPT ![a] = [pc |-> IF way[2] = way[1] THEN "lock" ELSE "send",
                                      at |-> way[1], to |-> way[2], id |-> id,
                                      known |-> known, result |-> D!NoReply]]
  BY DEF D!DispatchTask
<1>3. /\ DOMAIN call' = D!Attempts /\ \A b \in D!Attempts \ {a} : call'[b] = call[b]
      /\ DOMAIN call'[a] = {"pc", "at", "to", "id", "known", "result"}
      /\ call'[a].pc \in {"lock", "send"} /\ call'[a].at = way[1] /\ call'[a].to = way[2]
      /\ call'[a].id = id
  BY <1>2, Knows
<1>4. Steady
  BY <1>2, <1>3 DEF Steady, NeverRuns
<1>5. TaskTyped'
  <2>1. ASSUME NEW b \in D!Attempts, b # a PROVE CallTyped(b)'
    <3>1. call'[b] = call[b] /\ CallTyped(b)
      BY <1>3, <2>1, Knows
    <3> QED
      BY <3>1 DEF CallTyped
  <2>2. CallTyped(a)'
    BY <1>1, <1>3 DEF CallTyped
  <2>3. \A b \in D!Attempts : CallTyped(b)'
    BY <2>1, <2>2
  <2>4. \A b \in D!Attempts : RunTyped(b)'
    BY <1>2, Knows DEF RunTyped
  <2> QED
    BY <1>2, <1>3, <2>3, <2>4 DEF TaskInv, TaskTyped
<1>6. \A b \in D!Attempts : Standing(b)'
  BY <1>2, <1>3, Knows DEF Standing
<1>7. \A b \in D!Attempts : KeepsToItself(b)'
  BY <1>2, <1>4, AloneStays
<1>8. \A f \in net' : Formed(f)'
  BY <1>2, <1>3 DEF TaskInv, Places, Formed
<1>9. ResultsSound'
  <2>1. \A b \in D!Attempts : call'[b].pc = "done" =>
          call[b].pc = "done" /\ call'[b].result = call[b].result
    BY <1>3
  <2> QED
    BY <1>4, <2>1, ResultsStay
<1>10. FramesSound' /\ SlotsSound'
  BY <1>2, <1>4, FramesStay, SlotsStay
<1> QED
  BY <1>5, <1>6, <1>7, <1>8, <1>9, <1>10, PartsKeep

(* What Return needs to know of the slots it leaves alone.                  *)
LEMMA SlotsAsTheyWere ==
    ASSUME TaskInv, replies' = replies
    PROVE  /\ DOMAIN replies' = Nodes /\ \A n \in Nodes : DOMAIN replies'[n] = Ids
           /\ \A n \in Nodes, i \in Ids : replies'[n][i] \in {replies[n][i], D!NoReply}
BY DEF TaskInv, TaskTyped

LEMMA DispatchLocallyKeeps ==
    ASSUME TaskInv, NEW a \in D!Attempts, D!DispatchLocally(a)
    PROVE  TaskInv'
<1>1. call[a].pc = "lock" /\ UNCHANGED <<child, events, net, replies>> /\ run[a].pc = "off"
  BY Knows DEF D!DispatchLocally, Standing
<1>2. CASE call' = [call EXCEPT ![a].pc = "running"] /\ D!StartRun(a) /\ rows' = rows
  <2>1. /\ DOMAIN call' = D!Attempts /\ \A b \in D!Attempts \ {a} : call'[b] = call[b]
        /\ call'[a].pc = "running" /\ call'[a].at = call[a].at /\ call'[a].to = call[a].to
        /\ call'[a].id = call[a].id /\ call'[a].result = call[a].result
        /\ DOMAIN call'[a] = {"pc", "at", "to", "id", "known", "result"}
    BY <1>2, Knows DEF CallTyped
  <2>2. CallTyped(a)'
    BY <1>1, <2>1, Knows DEF CallTyped
  <2>3. \A f \in net' : f.a = a => f.kind # "task"
    BY <1>1 DEF TaskInv, Places, Formed
  <2>4. ~NeverRuns(a)
    BY <1>1 DEF NeverRuns
  <2>5. net' \subseteq net /\ UNCHANGED <<child, events, replies, rows>>
    BY <1>1, <1>2
  <2> QED
    BY <1>1, <1>2, <2>1, <2>2, <2>3, <2>4, <2>5, StartKeeps
<1>3. CASE D!Return(a, D!Failed("nobody", a)) /\ run' = run
  <2>1. PICK r : r = D!Failed("nobody", a)
    OBVIOUS
  <2>2. D!Return(a, r) /\ r.of = a /\ ~r.ok
    BY <1>3, <2>1 DEF D!Failed
  <2>3. UNCHANGED <<run, child, events, net>> /\ call[r.of].id = call[a].id
    BY <1>1, <1>3, <2>2
  <2> QED
    BY <1>1, <2>2, <2>3, SlotsAsTheyWere, ReturnKeeps
<1> QED
  BY <1>2, <1>3 DEF D!DispatchLocally

LEMMA GivesUpKeeps ==
    ASSUME TaskInv, NEW a \in D!Attempts, call[a].pc \in {"send", "wait"},
           NEW why \in {"unreachable", "silence"}, D!Return(a, D!Failed(why, a)),
           UNCHANGED <<run, child, events, net, replies>>
    PROVE  TaskInv'
<1>1. PICK r : r = D!Failed(why, a)
  OBVIOUS
<1>2. D!Return(a, r) /\ r.of = a /\ ~r.ok /\ r.why \notin Refusals
  BY <1>1 DEF D!Failed, Refusals
<1>3. UNCHANGED <<run, child, events, net>> /\ call[r.of].id = call[a].id
  BY <1>2
<1> QED
  BY <1>2, <1>3, SlotsAsTheyWere, ReturnKeeps

LEMMA TimeOutKeeps ==
    ASSUME TaskInv, NEW a \in D!Attempts, D!TimeOut(a)
    PROVE  TaskInv'
BY GivesUpKeeps DEF D!TimeOut

LEMMA SendTaskKeeps ==
    ASSUME TaskInv, NEW a \in D!Attempts, D!SendTask(a)
    PROVE  TaskInv'
<1>1. call[a].pc = "send" /\ UNCHANGED <<run, child, events, replies>> /\ run[a].pc = "off"
  BY Knows DEF D!SendTask, Standing
<1>2. CASE D!Return(a, D!Failed("unreachable", a)) /\ net' = net
  BY <1>1, <1>2, GivesUpKeeps
<1>3. CASE /\ net' = net \cup {[kind |-> "task", a |-> a, reply |-> D!NoReply]}
           /\ call' = [call EXCEPT ![a].pc = "wait"] /\ rows' = rows
  <2>1. /\ DOMAIN call' = D!Attempts /\ \A b \in D!Attempts \ {a} : call'[b] = call[b]
        /\ call'[a].pc = "wait" /\ call'[a].at = call[a].at /\ call'[a].to = call[a].to
        /\ call'[a].id = call[a].id
        /\ DOMAIN call'[a] = {"pc", "at", "to", "id", "known", "result"}
    BY <1>3, Knows DEF CallTyped
  <2>2. \A f \in net' : f \in net \/ f = [kind |-> "task", a |-> a, reply |-> D!NoReply]
    BY <1>3
  <2>3. Steady
    <3>1. \A o \in D!Attempts : NeverRuns(o) => o # a
      BY <1>1 DEF NeverRuns
    <3>2. \A o \in D!Attempts : NeverRuns(o) => NeverRuns(o)'
      BY <1>1, <2>1, <2>2, <3>1 DEF NeverRuns
    <3> QED
      BY <1>1, <2>1, <3>2 DEF Steady
  <2>4. TaskTyped'
    <3>1. ASSUME NEW b \in D!Attempts, b # a PROVE CallTyped(b)'
      <4>1. call'[b] = call[b] /\ CallTyped(b)
        BY <2>1, <3>1, Knows
      <4> QED
        BY <4>1 DEF CallTyped
    <3>2. CallTyped(a)'
      BY <1>1, <2>1, Knows DEF CallTyped
    <3>3. \A b \in D!Attempts : CallTyped(b)'
      BY <3>1, <3>2
    <3>4. \A b \in D!Attempts : RunTyped(b)'
      BY <1>1, Knows DEF RunTyped
    <3> QED
      BY <1>1, <1>3, <2>1, <3>3, <3>4 DEF TaskInv, TaskTyped
  <2>5. \A b \in D!Attempts : Standing(b)'
    BY <1>1, <2>1, Knows DEF Standing
  <2>6. \A b \in D!Attempts : KeepsToItself(b)'
    BY <1>1, <2>3, AloneStays
  <2>7. \A f \in net' : Formed(f)'
    <3> SUFFICES ASSUME NEW f \in net' PROVE Formed(f)'
      OBVIOUS
    <3>1. CASE f \in net
      BY <1>1, <2>1, <3>1 DEF TaskInv, Places, Formed
    <3>2. CASE f = [kind |-> "task", a |-> a, reply |-> D!NoReply]
      <4>1. f.a = a /\ f.kind = "task"
        BY <3>2
      <4> QED
        BY <1>1, <2>1, <3>2, <4>1 DEF Formed, D!NoReply, D!NoAttempt
    <3> QED
      BY <2>2, <3>1, <3>2
  <2>8. ResultsSound'
    <3>1. \A b \in D!Attempts : call'[b].pc = "done" =>
            call[b].pc = "done" /\ call'[b].result = call[b].result
      BY <2>1
    <3> QED
      BY <2>3, <3>1, ResultsStay
  <2>9. FramesSound' /\ SlotsSound'
    <3>1. \A f \in net' : f.kind = "reply" => f \in net
      BY <2>2
    <3> QED
      BY <1>1, <1>3, <2>3, <3>1, FramesStay, SlotsStay
  <2> QED
    BY <2>4, <2>5, <2>6, <2>7, <2>8, <2>9, PartsKeep
<1> QED
  BY <1>2, <1>3 DEF D!SendTask

LEMMA TakeReplyKeeps ==
    ASSUME TaskInv, NEW a \in D!Attempts, D!TakeReply(a)
    PROVE  TaskInv'
<1>1. PICK r : r = D!Slot(a)
  OBVIOUS
<1>2. /\ call[a].pc = "wait" /\ r # D!NoReply /\ D!Return(a, r)
      /\ replies' = [replies EXCEPT ![call[a].at][call[a].id] = D!NoReply]
      /\ UNCHANGED <<run, child, events, net>>
  BY <1>1 DEF D!TakeReply
<1>3. call[a].at \in Nodes /\ call[a].id \in Ids
  BY <1>2, Knows DEF CallTyped
<1>4. Sound(r) /\ call[r.of].id = call[a].id
  BY <1>1, <1>2, <1>3 DEF D!Slot, TaskInv, SlotsSound
<1>5. /\ DOMAIN replies' = Nodes /\ \A n \in Nodes : DOMAIN replies'[n] = Ids
      /\ \A n \in Nodes, i \in Ids : replies'[n][i] \in {replies[n][i], D!NoReply}
  BY <1>2 DEF TaskInv, TaskTyped
<1> QED
  BY <1>2, <1>4, <1>5, ReturnKeeps

(* A step of the wire: no call, run or child moves.                         *)
LEMMA WireKeeps ==
    ASSUME TaskInv, UNCHANGED <<call, run, child, events>>, \A f \in net' : Formed(f)',
           \A f \in net' : f.kind = "task" => f \in net,
           DOMAIN replies' = Nodes, \A n \in Nodes : DOMAIN replies'[n] = Ids,
           DOMAIN rows' = Nodes, FramesSound', SlotsSound'
    PROVE  TaskInv'
<1>1. Steady
  BY DEF Steady, NeverRuns
<1>2. TaskTyped'
  BY DEF TaskInv, TaskTyped, CallTyped, RunTyped
<1>3. \A b \in D!Attempts : Standing(b)'
  BY Knows DEF Standing
<1>4. \A b \in D!Attempts : KeepsToItself(b)'
  BY <1>1, AloneStays
<1>5. ResultsSound'
  BY <1>1, ResultsStay
<1> QED
  BY <1>2, <1>3, <1>4, <1>5, PartsKeep

LEMMA OldFramesFormed ==
    ASSUME TaskInv, UNCHANGED <<call, run>>, NEW f \in net
    PROVE  Formed(f)'
BY DEF TaskInv, Places, Formed

LEMMA LoseKeeps ==
    ASSUME TaskInv, NEW f \in net, D!Lose(f)
    PROVE  TaskInv'
<1>1. net' \subseteq net /\ UNCHANGED <<call, run, child, events, replies, rows>>
  BY DEF D!Lose
<1>2. Steady
  BY <1>1 DEF Steady, NeverRuns
<1>3. \A g \in net' : Formed(g)'
  BY <1>1, OldFramesFormed
<1>4. FramesSound' /\ SlotsSound'
  BY <1>1, <1>2, FramesStay, SlotsStay
<1>5. DOMAIN replies' = Nodes /\ (\A n \in Nodes : DOMAIN replies'[n] = Ids) /\ DOMAIN rows' = Nodes
  BY <1>1 DEF TaskInv, TaskTyped
<1> QED
  BY <1>1, <1>3, <1>4, <1>5, WireKeeps

(* A reply is filed under its id, over whatever was there.                  *)
LEMMA ReceiveReplyKeeps ==
    ASSUME TaskInv, NEW n \in Nodes, NEW f \in net, D!ReceiveReply(n, f)
    PROVE  TaskInv'
<1>1. /\ f.kind = "reply" /\ net' \subseteq net
      /\ replies' = [replies EXCEPT ![n][call[f.a].id] = f.reply]
      /\ UNCHANGED <<call, run, child, events, rows>>
  BY DEF D!ReceiveReply
<1>2. /\ Sound(f.reply) /\ f.reply.of = f.a
  BY <1>1 DEF TaskInv, FramesSound
<1>3. Steady
  BY <1>1 DEF Steady, NeverRuns
<1>4. \A g \in net' : Formed(g)'
  BY <1>1, OldFramesFormed
<1>5. FramesSound'
  BY <1>1, <1>3, FramesStay
<1>6. DOMAIN replies' = Nodes /\ (\A m \in Nodes : DOMAIN replies'[m] = Ids) /\ DOMAIN rows' = Nodes
  BY <1>1 DEF TaskInv, TaskTyped
<1>7. PICK r : r = f.reply
  OBVIOUS
<1>8. \A m \in Nodes, i \in Ids :
        \/ replies'[m][i] = replies[m][i]
        \/ replies'[m][i] = r /\ Sound(r) /\ call[r.of].id = i
  BY <1>1, <1>2, <1>7 DEF TaskInv, TaskTyped
<1>9. SlotsSound'
  BY <1>3, <1>8, SlotsKeep
<1> QED
  BY <1>1, <1>4, <1>5, <1>6, <1>9, WireKeeps

(* receive_task: run it, or refuse it with a row and a reply.               *)
LEMMA ReceiveTaskKeeps ==
    ASSUME TaskInv, NEW n \in Nodes, NEW f \in net, D!ReceiveTask(n, f)
    PROVE  TaskInv'
<1>1. PICK a \in D!Attempts : a = f.a
  BY DEF TaskInv, Places, Formed
<1>2. /\ f = [kind |-> "task", a |-> a, reply |-> D!NoReply]
      /\ call[a].pc \in {"wait", "done"} /\ run[a].pc = "off" /\ call[a].to = n
      /\ UNCHANGED <<call, child, events, replies>>
  BY <1>1 DEF D!ReceiveTask, TaskInv, Places, Formed
<1>3. \A g \in net \ {f} : g.a = a => g.kind # "task"
  BY <1>2 DEF TaskInv, Places, Formed
<1>4. CASE net' = net \ {f} /\ D!StartRun(a) /\ rows' = rows
  <2>1. ~NeverRuns(a)
    BY <1>2 DEF NeverRuns
  <2>2. net' \subseteq net /\ \A g \in net' : g.a = a => g.kind # "task"
    BY <1>3, <1>4
  <2>3. /\ UNCHANGED <<child, events, replies, rows>> /\ DOMAIN call' = D!Attempts
        /\ \A b \in D!Attempts \ {a} : call'[b] = call[b]
    BY <1>2, <1>4, Knows
  <2>4. CallTyped(a)'
    BY <1>2, Knows DEF CallTyped
  <2>5. /\ call'[a].pc = call[a].pc /\ call'[a].at = call[a].at /\ call'[a].to = call[a].to
        /\ call'[a].id = call[a].id /\ call'[a].result = call[a].result
        /\ call[a].pc \notin {"off", "send"} /\ call'[a].pc \notin {"off", "lock", "send"}
    BY <1>2
  <2> QED
    BY <1>2, <1>4, <2>1, <2>2, <2>3, <2>4, <2>5, StartKeeps
<1>5. ASSUME NEW why \in Refusals, run' = run, rows' = [rows EXCEPT ![n] = @ \cup {a}],
             net' = (net \ {f}) \cup {[kind |-> "reply", a |-> a, reply |-> D!Failed(why, a)]}
      PROVE  TaskInv'
  <2>1. PICK r : r = D!Failed(why, a)
    OBVIOUS
  <2>2. r.of = a /\ ~r.ok
    BY <2>1 DEF D!Failed
  <2>3. \A g \in net' : g \in net \ {f} \/ g = [kind |-> "reply", a |-> a, reply |-> r]
    BY <1>5, <2>1
  <2>4. \A g \in net' : g.kind = "task" => g \in net \ {f}
    BY <2>3
  <2>5. Steady
    BY <1>2, <1>5, <2>4 DEF Steady, NeverRuns
  <2>6. DOMAIN rows' = Nodes /\ (\A m \in Nodes : rows[m] \subseteq rows'[m]) /\ a \in rows'[n]
    BY <1>5, Knows
  <2>7. NeverRuns(a)'
    BY <1>2, <1>3, <1>5, <2>4, Knows DEF NeverRuns, Standing
  <2>8. Sound(r)'
    BY <1>2, <2>2, <2>7 DEF Sound
  <2>9. \A g \in net' : Formed(g)'
    <3> SUFFICES ASSUME NEW g \in net' PROVE Formed(g)'
      OBVIOUS
    <3>1. CASE g \in net \ {f}
      BY <1>2, <1>5, <3>1, OldFramesFormed
    <3>2. CASE g = [kind |-> "reply", a |-> a, reply |-> r]
      BY <1>2, <3>2 DEF Formed
    <3> QED
      BY <2>3, <3>1, <3>2
  <2>10. FramesSound'
    <3>1. \A g \in net' : g.kind = "reply" =>
            \/ g \in net
            \/ g.reply = r /\ Sound(r)' /\ r.of = g.a /\ g.a \in rows'[call'[g.a].to]
      BY <1>2, <2>2, <2>3, <2>6, <2>8
    <3> QED
      BY <2>5, <2>6, <3>1, FramesKeep
  <2>11. SlotsSound'
    BY <1>2, <2>5, SlotsStay
  <2>12. DOMAIN replies' = Nodes /\ \A m \in Nodes : DOMAIN replies'[m] = Ids
    BY <1>2 DEF TaskInv, TaskTyped
  <2>13. \A g \in net' : g.kind = "task" => g \in net
    BY <2>4
  <2> QED
    BY <1>2, <1>5, <2>6, <2>9, <2>10, <2>11, <2>12, <2>13, WireKeeps
<1>6. "nobody" \in Refusals /\ "unauthorised" \in Refusals
  BY DEF Refusals
<1> QED
  BY <1>1, <1>4, <1>5, <1>6 DEF D!ReceiveTask

-----------------------------------------------------------------------------
LEMMA TaskInvInit == D!DispatchAssumption /\ D!Init => TaskInv
<1> SUFFICES ASSUME D!DispatchAssumption, D!Init PROVE TaskInv
  OBVIOUS
<1>1. /\ call = [a \in D!Attempts |-> D!Idle] /\ net = {}
      /\ run = [a \in D!Attempts |-> [pc |-> "off", seen |-> 0, read |-> "nothing", shared |-> FALSE]]
      /\ child = [a \in D!Attempts |-> "none"] /\ events = [n \in Nodes |-> <<>>]
      /\ replies = [n \in Nodes |-> [i \in Ids |-> D!NoReply]] /\ rows = [n \in Nodes |-> {}]
  BY DEF D!Init
<1>2. ASSUME NEW a \in D!Attempts
      PROVE  /\ DOMAIN call[a] = {"pc", "at", "to", "id", "known", "result"} /\ call[a].pc = "off"
             /\ DOMAIN run[a] = {"pc", "seen", "read", "shared"} /\ run[a].pc = "off"
             /\ run[a].seen = 0 /\ run[a].read = "nothing" /\ run[a].shared = FALSE
             /\ child[a] = "none"
  BY <1>1 DEF D!Idle
<1>3. TaskTyped
  <2>1. ASSUME NEW a \in D!Attempts PROVE CallTyped(a) /\ RunTyped(a)
    <3>1. run[a].shared \in BOOLEAN
      BY <1>2, Zenon
    <3>2. RunTyped(a)
      <4>1. run[a].pc \in Active \cup {"off", "done"}
        BY <1>2
      <4>2. run[a].seen \in Nat
        <5>1. 0 \in Nat
          OBVIOUS
        <5> QED
          BY <1>2, <5>1, Zenon
      <4>3. run[a].read \notin Refusals
        BY <1>2 DEF Refusals
      <4> QED
        BY <1>2, <3>1, <4>1, <4>2, <4>3, Zenon DEF RunTyped
    <3>3. CallTyped(a)
      BY <1>1, <1>2 DEF CallTyped, D!Idle
    <3> QED
      BY <3>2, <3>3
  <2>2. events \in [Nodes -> Seq(D!Attempts)]
    BY <1>1
  <2> QED
    BY <1>1, <2>1, <2>2 DEF TaskTyped
<1>4. Places
  BY <1>1, <1>2 DEF Places, Standing, KeepsToItself, Active
<1>5. ResultsSound /\ FramesSound /\ SlotsSound
  BY <1>1, <1>2 DEF ResultsSound, FramesSound, SlotsSound
<1> QED
  BY <1>3, <1>4, <1>5 DEF TaskInv

LEMMA TaskInvNext == TaskInv /\ [D!Next]_(D!vars) => TaskInv'
<1> SUFFICES ASSUME TaskInv, [D!Next]_(D!vars) PROVE TaskInv'
  OBVIOUS
<1>1. ASSUME NEW a \in D!Attempts, NEW way \in Routes, NEW id \in Ids, NEW known \in BOOLEAN,
             D!DispatchTask(a, way[1], way[2], id, known)
      PROVE  TaskInv'
  BY <1>1, DispatchTaskKeeps
<1>2. ASSUME NEW a \in D!Attempts,
             D!DispatchLocally(a) \/ D!SendTask(a) \/ D!TakeReply(a) \/ D!TimeOut(a)
      PROVE  TaskInv'
  BY <1>2, DispatchLocallyKeeps, SendTaskKeeps, TakeReplyKeeps, TimeOutKeeps
<1>3. ASSUME NEW a \in D!Attempts, D!Handle(a) PROVE TaskInv'
  BY <1>3, SpawnKeeps, HandleGoesOn, ReapKeeps DEF D!Handle
<1>4. ASSUME NEW a \in D!Attempts, D!ChildAnnounces(a) \/ D!ChildAnswers(a) \/ D!ChildExits(a)
      PROVE  TaskInv'
  BY <1>4, AnnounceKeeps, ChildKeeps
<1>5. ASSUME NEW n \in Nodes, NEW f \in net, D!ReceiveTask(n, f) \/ D!ReceiveReply(n, f)
      PROVE  TaskInv'
  BY <1>5, ReceiveTaskKeeps, ReceiveReplyKeeps
<1>6. ASSUME NEW f \in net, D!Lose(f) PROVE TaskInv'
  BY <1>6, LoseKeeps
<1>7. ASSUME UNCHANGED <<call, run, child, events, net, replies, rows>> PROVE TaskInv'
  <2>1. Steady
    BY <1>7 DEF Steady, NeverRuns
  <2>2. \A f \in net' : Formed(f)'
    BY <1>7, OldFramesFormed
  <2>3. FramesSound' /\ SlotsSound'
    BY <1>7, <2>1, FramesStay, SlotsStay
  <2>4. DOMAIN replies' = Nodes /\ (\A n \in Nodes : DOMAIN replies'[n] = Ids) /\ DOMAIN rows' = Nodes
    BY <1>7 DEF TaskInv, TaskTyped
  <2> QED
    BY <1>7, <2>2, <2>3, <2>4, WireKeeps
<1>8. ASSUME NEW n \in Nodes, D!Authorise(n) PROVE TaskInv'
  BY <1>7, <1>8 DEF D!Authorise
<1>9. CASE UNCHANGED D!vars
  BY <1>7, <1>9 DEF D!vars
<1> QED
  BY <1>1, <1>2, <1>3, <1>4, <1>5, <1>6, <1>8, <1>9 DEF D!Next

LEMMA TaskInvImplies == TaskInv => D!DispatchInv
<1> SUFFICES ASSUME TaskInv PROVE D!DispatchInv
  OBVIOUS
<1>1. ASSUME NEW a \in D!Attempts, call[a].pc = "done"
      PROVE  Sound(call[a].result) /\ call[call[a].result.of].id = call[a].id
  BY <1>1 DEF TaskInv, ResultsSound
<1>2. D!AnswerIsForTheTask
  BY <1>1 DEF D!AnswerIsForTheTask, D!Done, D!OwnId, Sound
<1>3. D!AloneOutcomeNamesItsExecutor
  BY <1>1 DEF D!AloneOutcomeNamesItsExecutor, D!Done, Sound
<1>4. D!RefusedMeansNeverRun
  BY <1>1 DEF D!RefusedMeansNeverRun, D!Done, Sound, NeverRuns, Refusals
<1>5. D!NoOrphanWorker
  BY Knows DEF D!NoOrphanWorker, Standing, RunTyped, Active, Ended
<1>6. D!AnswerIsRecordedFirst
  BY DEF D!AnswerIsRecordedFirst, TaskInv, FramesSound
<1> QED
  BY <1>2, <1>3, <1>4, <1>5, <1>6 DEF D!DispatchInv

(***************************************************************************)
(* However many dispatches go on at once, with ids of their own or used    *)
(* again, whatever the wire loses and however late an answer comes: it is  *)
(* handed to its task, names who did the work, was recorded where it was   *)
(* done, and a caller told "refused" knows that no process ever started    *)
(* (RemoteAgentHandle::run, StdioExecutorHandle::run, receive_task).       *)
(***************************************************************************)
THEOREM AnswersHold == ASSUME D!DispatchAssumption PROVE D!Spec => []D!DispatchInv
<1>1. D!Init => TaskInv
  BY TaskInvInit
<1>2. TaskInv /\ [D!Next]_(D!vars) => TaskInv'
  BY TaskInvNext
<1>3. TaskInv => D!DispatchInv
  BY TaskInvImplies
<1> QED
  BY <1>1, <1>2, <1>3, PTL DEF D!Spec

-----------------------------------------------------------------------------
(* The run index (RunIndex): what the derivation says of a run, and what    *)
(* the table does, for any processes, runs and bounds.                      *)
CONSTANTS Procs, Runs, MaxUp, MaxBoots, MaxCalls, MaxFails
VARIABLES chain, index, proc, job, alone, boots, fails, asked

X == INSTANCE RunIndex

(* A set of numbers has a least element.                                    *)
LEMMA LeastNumber ==
    ASSUME NEW S, S \subseteq Nat, S # {}
    PROVE  \E x \in S : \A y \in S : x <= y
<1>1. PICK x \in S : \A y \in S : ~(<<y, x>> \in OpToRel(<, Nat))
  BY NatLessThanWellFounded, WFMin
<1>2. \A y \in S : ~(y < x)
  BY <1>1 DEF OpToRel
<1> QED
  BY <1>2

NoRows == [r \in Runs |-> X!NoRow]

(* What one marker makes of the rows.                                       *)
Marked(recs, i, e) ==
    IF e.act = "start" THEN X!Opened(recs, i, e)
    ELSE IF e.act = "end" THEN X!Ended(recs, i, e) ELSE X!MarkAbandoned(recs, i, e)

(* The rows of each of the first n markers of a chain.                      *)
RowsOf(f, c, n) == f = [i \in 0 .. n |-> IF i = 0 THEN NoRows ELSE Marked(f[i - 1], i, c[i])]

LEMMA RowsExist == ASSUME NEW c, NEW n \in Nat PROVE \E f : RowsOf(f, c, n)
<1> DEFINE S == {m \in Nat : ~ \E f : RowsOf(f, c, m)}
<1> SUFFICES ASSUME n \in S PROVE FALSE
  OBVIOUS
<1>1. PICK m \in S : \A k \in S : m <= k
  BY LeastNumber
<1>2. m # 0
  <2>1. RowsOf([i \in 0 .. 0 |-> NoRows], c, 0)
    BY DEF RowsOf
  <2> QED
    BY <2>1
<1>3. m \in Nat /\ m - 1 \in Nat /\ m - 1 \notin S
  BY <1>1, <1>2
<1>4. PICK f : RowsOf(f, c, m - 1)
  BY <1>3
<1> DEFINE g == [i \in 0 .. m |-> IF i = m THEN Marked(f[m - 1], m, c[m]) ELSE f[i]]
<1>5. \A i \in 0 .. m : g[i] = IF i = 0 THEN NoRows ELSE Marked(g[i - 1], i, c[i])
  <2> SUFFICES ASSUME NEW i \in 0 .. m
               PROVE  g[i] = IF i = 0 THEN NoRows ELSE Marked(g[i - 1], i, c[i])
    OBVIOUS
  <2>1. CASE i = m
    <3>1. g[m] = Marked(f[m - 1], m, c[m]) /\ g[m - 1] = f[m - 1]
      BY <1>3
    <3> QED
      BY <1>2, <2>1, <3>1
  <2>2. CASE i # m
    <3>1. i \in 0 .. m - 1 /\ g[i] = f[i]
      BY <1>3, <2>2
    <3>2. f[i] = IF i = 0 THEN NoRows ELSE Marked(f[i - 1], i, c[i])
      BY <1>4, <3>1 DEF RowsOf
    <3>3. i # 0 => g[i - 1] = f[i - 1]
      BY <1>3, <3>1
    <3> QED
      BY <3>1, <3>2, <3>3
  <2> QED
    BY <2>1, <2>2
<1>6. g = [i \in 0 .. m |-> g[i]]
  OBVIOUS
<1> HIDE DEF g
<1>7. RowsOf(g, c, m)
  BY <1>5, <1>6 DEF RowsOf
<1> QED
  BY <1>1, <1>7

(* A longer chain says the same of the markers they share.                  *)
LEMMA RowsAgree ==
    ASSUME NEW c, NEW d, NEW m \in Nat, NEW n \in Nat, m <= n, \A i \in 1 .. m : c[i] = d[i],
           NEW f, NEW g, RowsOf(f, c, m), RowsOf(g, d, n)
    PROVE  \A i \in 0 .. m : f[i] = g[i]
<1> DEFINE S == {i \in 0 .. m : f[i] # g[i]}
<1> SUFFICES ASSUME S # {} PROVE FALSE
  OBVIOUS
<1>0. S \subseteq Nat
  OBVIOUS
<1>1. PICK i \in S : \A k \in S : i <= k
  BY <1>0, LeastNumber
<1>2. /\ f[i] = IF i = 0 THEN NoRows ELSE Marked(f[i - 1], i, c[i])
      /\ g[i] = IF i = 0 THEN NoRows ELSE Marked(g[i - 1], i, d[i])
  BY <1>1 DEF RowsOf
<1>3. i # 0
  BY <1>1, <1>2
<1>4. i \in 1 .. m /\ i - 1 \in 0 .. m /\ i - 1 \notin S
  BY <1>1, <1>3
<1>5. f[i - 1] = g[i - 1] /\ c[i] = d[i]
  BY <1>4
<1> QED
  BY <1>1, <1>2, <1>3, <1>5

LEMMA DeriveIsRows ==
    ASSUME NEW c, Len(c) \in Nat
    PROVE  \E f : RowsOf(f, c, Len(c)) /\ X!Derive(c) = f[Len(c)]
<1>1. \E f : RowsOf(f, c, Len(c))
  BY RowsExist
<1>2. RowsOf(CHOOSE f : RowsOf(f, c, Len(c)), c, Len(c))
  BY <1>1
<1>3. X!Derive(c) = (CHOOSE f : RowsOf(f, c, Len(c)))[Len(c)]
  BY DEF X!Derive, RowsOf, Marked, NoRows
<1> QED
  BY <1>2, <1>3

LEMMA DeriveEmpty == X!Derive(<<>>) = NoRows
<1>1. PICK f : RowsOf(f, <<>>, Len(<<>>)) /\ X!Derive(<<>>) = f[Len(<<>>)]
  BY DeriveIsRows
<1> QED
  BY <1>1 DEF RowsOf

(* The derivation of a longer chain is one step more.                       *)
LEMMA DeriveAppend ==
    ASSUME NEW M, NEW c \in Seq(M), NEW e \in M
    PROVE  X!Derive(Append(c, e)) = Marked(X!Derive(c), Len(c) + 1, e)
<1> DEFINE d == Append(c, e)  n == Len(c)
<1>1. /\ n \in Nat /\ Len(d) = n + 1 /\ d[n + 1] = e
      /\ \A i \in 1 .. n : d[i] = c[i]
  OBVIOUS
<1> HIDE DEF d, n
<1>2. PICK f : RowsOf(f, c, n) /\ X!Derive(c) = f[n]
  BY <1>1, DeriveIsRows DEF n
<1>3. PICK g : RowsOf(g, d, n + 1) /\ X!Derive(d) = g[n + 1]
  BY <1>1, DeriveIsRows
<1>4. f[n] = g[n]
  BY <1>1, <1>2, <1>3, RowsAgree
<1>5. g[n + 1] = Marked(g[n], n + 1, d[n + 1])
  BY <1>1, <1>3 DEF RowsOf
<1> QED
  BY <1>1, <1>2, <1>3, <1>4, <1>5 DEF d, n

(* What the derivation says of a run whose starts, ends and marks of        *)
(* abandonment lie at these places of the chain.                            *)
Rows == X!Derive(chain)
RunRow == [start : Nat, end : Nat, status : {"none", "open", "ok", "abandoned"}]
RowHolds(rec, S, E, A) ==
    /\ rec \in RunRow
    /\ rec.start = 0 => rec = X!NoRow /\ S = {} /\ E = {} /\ A = {}
    /\ rec.start # 0 => S = {rec.start} /\ rec.status # "none"
    /\ rec.end # 0 <=> E # {}
    /\ rec.end # 0 => rec.end \in E /\ rec.start < rec.end
    /\ rec.status = "ok" <=> rec.end # 0
    /\ rec.status = "abandoned" <=> A # {} /\ rec.end = 0
RowsHold ==
    /\ Rows = [r \in Runs |-> Rows[r]]
    /\ \A r \in Runs : RowHolds(Rows[r], X!On("start", r), X!On("end", r), X!On("abandoned", r))

Markers == [act : {"start", "end", "abandoned"}, run : Runs, by : Procs]
JobAts == {"none", "unknown", "started", "running", "ended", "unended", "closed"}
ProcAts == {"down", "abandon", "mark", "rebuild", "serving"}

(* A row of the table has its markers on the chain.                         *)
Backed(rec, S, E, A) ==
    rec # X!NoRow => /\ rec.start \in S /\ (rec.end # 0 => rec.end \in E)
                     /\ rec.status = "abandoned" => A # {}
BackedRows(recs) ==
    \A r \in Runs : /\ recs[r] \in RunRow
                    /\ Backed(recs[r], X!On("start", r), X!On("end", r), X!On("abandoned", r))

(* Where a run's process stands tells what is on the chain.                 *)
JobHolds(j, rec) ==
    /\ j.at \in JobAts /\ j.by \in Procs \cup {X!Gone}
    /\ j.at \in {"none", "unknown"} <=> rec.start = 0
    /\ j.at \in {"ended", "closed"} <=> rec.end # 0
JobsHold ==
    /\ job = [r \in Runs |-> [at |-> job[r].at, by |-> job[r].by]]
    /\ \A r \in Runs : JobHolds(job[r], Rows[r])
    /\ \A r \in Runs : job[r].by # X!Gone => proc[job[r].by].at # "down"

ProcHolds(x) ==
    /\ DOMAIN x = {"at", "seq", "todo", "marked", "read"}
    /\ x.at \in ProcAts /\ x.seq \in 0 .. Len(chain)
    /\ x.todo \subseteq Runs /\ \A r \in x.todo : Rows[r].start # 0
    /\ x.at = "rebuild" => x.read = [r \in Runs |-> x.read[r]] /\ BackedRows(x.read)
ProcsHold == DOMAIN proc = Procs /\ \A p \in Procs : ProcHolds(proc[p])

(* While one process at a time has worked on the file: what it has found at *)
(* its start is of processes that are gone, a run is marked once, and the   *)
(* table lags behind only where two writes were torn.                       *)
AloneFinds(x) ==
    /\ \A r \in Runs : Rows[r].start \in 1 .. x.seq => job[r].by = X!Gone
    /\ \A r \in x.todo : job[r].by = X!Gone /\ X!On("abandoned", r) = {}
    /\ x.at = "rebuild" => x.read = Rows
AloneRun(r) ==
    /\ X!On("abandoned", r) # {} => job[r].by = X!Gone
    /\ \A i, j \in X!On("abandoned", r) : i = j
    /\ \/ index[r] = Rows[r] \/ job[r].at \in {"started", "ended"}
       \/ Rows[r].status = "abandoned" /\ index[r].status = "open"
    /\ job[r].at \in {"running", "ended"} => index[r] # X!NoRow
AloneHolds ==
    alone => /\ \A p, q \in Procs : proc[p].at # "down" /\ proc[q].at # "down" => p = q
             /\ \A p \in Procs : proc[p].at # "down" => AloneFinds(proc[p])
             /\ \A r \in Runs : AloneRun(r)

RunsIInv ==
    /\ X!RunsAssumption /\ chain \in Seq(Markers) /\ RowsHold
    /\ index = [r \in Runs |-> index[r]] /\ BackedRows(index)
    /\ JobsHold /\ ProcsHold /\ AloneHolds

(* What an append does to the places of the markers.                        *)
LEMMA OnAppend ==
    ASSUME chain \in Seq(Markers), NEW e \in Markers, chain' = Append(chain, e),
           NEW a, NEW r
    PROVE  X!On(a, r)' = X!On(a, r) \cup (IF e.act = a /\ e.run = r THEN {Len(chain) + 1} ELSE {})
<1>1. /\ Len(chain) \in Nat /\ Len(chain') = Len(chain) + 1 /\ chain'[Len(chain) + 1] = e
      /\ \A i \in 1 .. Len(chain) : chain'[i] = chain[i]
  OBVIOUS
<1>2. X!On(a, r)' = {i \in 1 .. Len(chain') : chain'[i].act = a /\ chain'[i].run = r}
  BY DEF X!On
<1>3. X!On(a, r) = {i \in 1 .. Len(chain) : chain[i].act = a /\ chain[i].run = r}
  BY DEF X!On
<1>4. 1 .. Len(chain') = 1 .. Len(chain) \cup {Len(chain) + 1}
  BY <1>1
<1> QED
  BY <1>1, <1>2, <1>3, <1>4

LEMMA OnOthers ==
    ASSUME chain \in Seq(Markers), NEW e \in Markers, chain' = Append(chain, e),
           NEW a, NEW r, e.act # a \/ e.run # r
    PROVE  X!On(a, r)' = X!On(a, r)
<1>1. X!On(a, r)' = X!On(a, r) \cup (IF e.act = a /\ e.run = r THEN {Len(chain) + 1} ELSE {})
  BY OnAppend
<1> QED
  BY <1>1

LEMMA OnBounded ==
    ASSUME chain \in Seq(Markers), NEW a, NEW r
    PROVE  /\ X!On(a, r) \subseteq 1 .. Len(chain) /\ Len(chain) \in Nat
           /\ Len(chain) + 1 \notin X!On(a, r)
BY DEF X!On

(* A marker makes its own run's row another and leaves the others alone.    *)
LEMMA RowsAppend ==
    ASSUME chain \in Seq(Markers), RowsHold, NEW e \in Markers, chain' = Append(chain, e),
           NEW new,
           Marked(Rows, Len(chain) + 1, e) = [Rows EXCEPT ![e.run] = new],
           RowHolds(new, X!On("start", e.run)', X!On("end", e.run)', X!On("abandoned", e.run)')
    PROVE  /\ RowsHold' /\ Rows' = [Rows EXCEPT ![e.run] = new]
           /\ Rows'[e.run] = new /\ \A r \in Runs \ {e.run} : Rows'[r] = Rows[r]
<1>1. Rows' = [Rows EXCEPT ![e.run] = new]
  <2>1. Rows' = X!Derive(chain')
    BY DEF Rows
  <2>2. X!Derive(chain') = Marked(X!Derive(chain), Len(chain) + 1, e)
    BY DeriveAppend
  <2> QED
    BY <2>1, <2>2 DEF Rows
<1>2. e.run \in Runs /\ Rows = [r \in Runs |-> Rows[r]]
  BY DEF RowsHold, Markers
<1>3. /\ Rows' = [r \in Runs |-> Rows'[r]] /\ Rows'[e.run] = new
      /\ \A r \in Runs \ {e.run} : Rows'[r] = Rows[r]
  BY <1>1, <1>2
<1>4. ASSUME NEW r \in Runs
      PROVE  RowHolds(Rows'[r], X!On("start", r)', X!On("end", r)', X!On("abandoned", r)')
  <2>1. CASE r = e.run
    BY <1>3, <2>1
  <2>2. CASE r # e.run
    <3>1. /\ X!On("start", r)' = X!On("start", r) /\ X!On("end", r)' = X!On("end", r)
          /\ X!On("abandoned", r)' = X!On("abandoned", r)
      BY <2>2, OnOthers
    <3>2. RowHolds(Rows[r], X!On("start", r), X!On("end", r), X!On("abandoned", r))
      BY DEF RowsHold
    <3> QED
      BY <1>3, <2>2, <3>1, <3>2
  <2> QED
    BY <2>1, <2>2
<1> QED
  BY <1>1, <1>3, <1>4 DEF RowsHold

LEMMA MarkerHolds ==
    ASSUME NEW a \in {"start", "end", "abandoned"}, NEW r \in Runs, NEW p \in Procs
    PROVE  /\ X!Marker(a, r, p) \in Markers /\ X!Marker(a, r, p).act = a
           /\ X!Marker(a, r, p).run = r
BY DEF X!Marker, Markers

(* The row of a run that begins, that ends, and that is abandoned: the last *)
(* only if it has not ended.                                                *)
Begun(n) == [start |-> n, end |-> 0, status |-> "open"]
EndedAt(rec, n) == [rec EXCEPT !.end = n, !.status = "ok"]
AbandonedRow(rec) == [rec EXCEPT !.status = "abandoned"]

LEMMA StartAppends ==
    ASSUME chain \in Seq(Markers), RowsHold, NEW r \in Runs, NEW p \in Procs, Rows[r].start = 0,
           chain' = Append(chain, X!Marker("start", r, p))
    PROVE  /\ RowsHold' /\ Rows'[r] = Begun(Len(chain) + 1)
           /\ \A q \in Runs \ {r} : Rows'[q] = Rows[q]
<1> DEFINE e == X!Marker("start", r, p)  n == Len(chain) + 1
<1>1. e \in Markers /\ e.act = "start" /\ e.run = r
  BY MarkerHolds
<1> HIDE DEF e
<1>2. n \in Nat /\ n # 0
  OBVIOUS
<1>3. Marked(Rows, n, e) = [Rows EXCEPT ![e.run] = Begun(n)]
  BY <1>1 DEF Marked, X!Opened, Begun
<1>4. /\ X!On("start", r)' = {n} /\ X!On("end", r)' = {} /\ X!On("abandoned", r)' = {}
  <2>1. X!On("start", r) = {} /\ X!On("end", r) = {} /\ X!On("abandoned", r) = {}
    BY DEF RowsHold, RowHolds
  <2> QED
    BY <1>1, <2>1, OnAppend DEF e
<1> HIDE DEF n
<1>5. Begun(n) \in RunRow /\ Begun(n).start = n /\ Begun(n).end = 0 /\ Begun(n).status = "open"
  BY <1>2 DEF Begun, RunRow
<1>6. RowHolds(Begun(n), {n}, {}, {})
  BY <1>2, <1>5 DEF RowHolds
<1>7. RowHolds(Begun(n), X!On("start", e.run)', X!On("end", e.run)', X!On("abandoned", e.run)')
  BY <1>1, <1>4, <1>6
<1>8. chain' = Append(chain, e)
  BY DEF e
<1> QED
  BY <1>1, <1>3, <1>7, <1>8, RowsAppend DEF n

LEMMA EndAppends ==
    ASSUME chain \in Seq(Markers), RowsHold, NEW r \in Runs, NEW p \in Procs, Rows[r].start # 0,
           Rows[r].end = 0, chain' = Append(chain, X!Marker("end", r, p))
    PROVE  /\ RowsHold' /\ Rows'[r] = EndedAt(Rows[r], Len(chain) + 1)
           /\ \A q \in Runs \ {r} : Rows'[q] = Rows[q]
<1> DEFINE e == X!Marker("end", r, p)  n == Len(chain) + 1
<1>1. e \in Markers /\ e.act = "end" /\ e.run = r
  BY MarkerHolds
<1> HIDE DEF e
<1>2. n \in Nat /\ n # 0
  OBVIOUS
<1>3. RowHolds(Rows[r], X!On("start", r), X!On("end", r), X!On("abandoned", r)) /\ Rows[r] \in RunRow
  BY DEF RowsHold, RowHolds
<1>4. Marked(Rows, n, e) = [Rows EXCEPT ![e.run] = EndedAt(Rows[r], n)]
  <2>1. r \in DOMAIN Rows
    BY DEF RowsHold
  <2> QED
    BY <1>1, <2>1 DEF Marked, X!Ended, EndedAt
<1>5. /\ X!On("start", r)' = X!On("start", r) /\ X!On("abandoned", r)' = X!On("abandoned", r)
      /\ X!On("end", r)' = {n}
  <2>1. X!On("end", r) = {}
    BY <1>3 DEF RowHolds
  <2>2. chain' = Append(chain, e)
    BY DEF e
  <2>3. X!On("end", r)' = X!On("end", r) \cup {n}
    BY <1>1, <2>2, OnAppend
  <2> QED
    BY <1>1, <2>1, <2>2, <2>3, OnOthers
<1>6. Rows[r].start < n
  <2>1. Rows[r].start \in X!On("start", r)
    BY <1>3 DEF RowHolds
  <2> QED
    BY <2>1, OnBounded
<1> HIDE DEF n
<1> DEFINE new == EndedAt(Rows[r], n)
<1>7. new \in RunRow /\ new.start = Rows[r].start /\ new.end = n /\ new.status = "ok"
  BY <1>2, <1>3 DEF EndedAt, RunRow
<1> HIDE DEF new
<1>8. RowHolds(new, X!On("start", r), {n}, X!On("abandoned", r))
  BY <1>2, <1>3, <1>6, <1>7 DEF RowHolds
<1>9. RowHolds(new, X!On("start", e.run)', X!On("end", e.run)', X!On("abandoned", e.run)')
  BY <1>1, <1>5, <1>8
<1>10. chain' = Append(chain, e)
  BY DEF e
<1> QED
  BY <1>1, <1>4, <1>9, <1>10, RowsAppend DEF n, new

LEMMA AbandonedAppends ==
    ASSUME chain \in Seq(Markers), RowsHold, NEW r \in Runs, NEW p \in Procs, Rows[r].start # 0,
           chain' = Append(chain, X!Marker("abandoned", r, p))
    PROVE  /\ RowsHold'
           /\ Rows'[r] = IF Rows[r].end = 0 THEN AbandonedRow(Rows[r]) ELSE Rows[r]
           /\ \A q \in Runs \ {r} : Rows'[q] = Rows[q]
<1> DEFINE e == X!Marker("abandoned", r, p)  n == Len(chain) + 1
           new == IF Rows[r].end = 0 THEN AbandonedRow(Rows[r]) ELSE Rows[r]
<1>1. e \in Markers /\ e.act = "abandoned" /\ e.run = r
  BY MarkerHolds
<1> HIDE DEF e
<1>2. RowHolds(Rows[r], X!On("start", r), X!On("end", r), X!On("abandoned", r)) /\ Rows[r] \in RunRow
  BY DEF RowsHold, RowHolds
<1>3. Marked(Rows, n, e) = [Rows EXCEPT ![e.run] = new]
  <2>1. Rows = [q \in Runs |-> Rows[q]]
    BY DEF RowsHold
  <2> QED
    BY <1>1, <2>1 DEF Marked, X!MarkAbandoned, AbandonedRow
<1>4. /\ X!On("start", r)' = X!On("start", r) /\ X!On("end", r)' = X!On("end", r)
      /\ X!On("abandoned", r)' # {}
  <2>1. chain' = Append(chain, e)
    BY DEF e
  <2>2. X!On("abandoned", r)' = X!On("abandoned", r) \cup {n}
    BY <1>1, <2>1, OnAppend
  <2> QED
    BY <1>1, <2>1, <2>2, OnOthers
<1>5. /\ new \in RunRow /\ new.start = Rows[r].start /\ new.end = Rows[r].end
      /\ new.status = IF Rows[r].end = 0 THEN "abandoned" ELSE Rows[r].status
  BY <1>2 DEF AbandonedRow, RunRow
<1> HIDE DEF new
<1>6. RowHolds(new, X!On("start", r), X!On("end", r), X!On("abandoned", r)')
  BY <1>2, <1>4, <1>5 DEF RowHolds
<1>7. RowHolds(new, X!On("start", e.run)', X!On("end", e.run)', X!On("abandoned", e.run)')
  BY <1>1, <1>4, <1>6
<1>8. chain' = Append(chain, e)
  BY DEF e
<1> QED
  BY <1>1, <1>3, <1>7, <1>8, RowsAppend DEF n, new

-----------------------------------------------------------------------------
(* Steps.  The chain only grows, and what has begun stays where it is.      *)
Grows ==
    /\ chain' \in Seq(Markers) /\ RowsHold' /\ Len(chain) <= Len(chain')
    /\ \A r \in Runs : Rows[r].start # 0 => Rows'[r].start = Rows[r].start
    /\ \A r \in Runs : /\ X!On("start", r) \subseteq X!On("start", r)'
                       /\ X!On("end", r) \subseteq X!On("end", r)'
                       /\ X!On("abandoned", r) \subseteq X!On("abandoned", r)'

LEMMA RunsParts ==
    ASSUME RunsIInv
    PROVE  /\ X!RunsAssumption /\ chain \in Seq(Markers) /\ RowsHold
           /\ index = [r \in Runs |-> index[r]] /\ BackedRows(index)
           /\ JobsHold /\ ProcsHold /\ AloneHolds
BY DEF RunsIInv

LEMMA SameRows ==
    ASSUME RunsIInv, chain' = chain
    PROVE  Rows' = Rows /\ (\A a, r : X!On(a, r)' = X!On(a, r)) /\ Grows
<1>1. Rows' = Rows
  BY DEF Rows
<1>2. \A a, r : X!On(a, r)' = X!On(a, r)
  BY DEF X!On
<1>3. chain \in Seq(Markers) /\ RowsHold /\ Len(chain) \in Nat
  BY DEF RunsIInv
<1>4. RowsHold'
  BY <1>1, <1>2, <1>3 DEF RowsHold
<1> QED
  BY <1>1, <1>2, <1>3, <1>4 DEF Grows

LEMMA ChainGrows ==
    ASSUME chain \in Seq(Markers), NEW e \in Markers, chain' = Append(chain, e),
           RowsHold', \A r \in Runs : Rows[r].start # 0 => Rows'[r].start = Rows[r].start
    PROVE  Grows
<1>1. chain' \in Seq(Markers) /\ Len(chain) <= Len(chain')
  OBVIOUS
<1>2. \A a, r : X!On(a, r) \subseteq X!On(a, r)'
  BY OnAppend
<1> QED
  BY <1>1, <1>2 DEF Grows

LEMMA BackedStays ==
    ASSUME Grows, NEW recs, BackedRows(recs)
    PROVE  \A r \in Runs : /\ recs[r] \in RunRow
                           /\ Backed(recs[r], X!On("start", r)', X!On("end", r)', X!On("abandoned", r)')
<1> SUFFICES ASSUME NEW r \in Runs
             PROVE  /\ recs[r] \in RunRow
                    /\ Backed(recs[r], X!On("start", r)', X!On("end", r)', X!On("abandoned", r)')
  OBVIOUS
<1>1. /\ recs[r] \in RunRow
      /\ Backed(recs[r], X!On("start", r), X!On("end", r), X!On("abandoned", r))
  BY DEF BackedRows
<1>2. /\ X!On("start", r) \subseteq X!On("start", r)'
      /\ X!On("end", r) \subseteq X!On("end", r)'
      /\ X!On("abandoned", r) \subseteq X!On("abandoned", r)'
  BY DEF Grows
<1> QED
  BY <1>1, <1>2 DEF Backed

LEMMA IndexStays ==
    ASSUME RunsIInv, Grows, index' = index
    PROVE  index' = [r \in Runs |-> index'[r]] /\ BackedRows(index)'
<1>1. index = [r \in Runs |-> index[r]] /\ BackedRows(index)
  BY RunsParts
<1>2. \A r \in Runs :
        /\ index[r] \in RunRow
        /\ Backed(index[r], X!On("start", r)', X!On("end", r)', X!On("abandoned", r)')
  BY <1>1, BackedStays
<1> QED
  BY <1>1, <1>2 DEF BackedRows

LEMMA ProcStays ==
    ASSUME RunsIInv, Grows, NEW p \in Procs, proc'[p] = proc[p]
    PROVE  ProcHolds(proc[p])'
<1>1. ProcHolds(proc[p]) /\ chain \in Seq(Markers)
  BY DEF RunsIInv, ProcsHold
<1>2. /\ Len(chain) \in Nat /\ Len(chain') \in Nat /\ Len(chain) <= Len(chain')
      /\ \A r \in Runs : Rows[r].start # 0 => Rows'[r].start = Rows[r].start
  BY <1>1 DEF Grows
<1>3. /\ DOMAIN proc'[p] = {"at", "seq", "todo", "marked", "read"}
      /\ proc'[p].at \in ProcAts /\ proc'[p].seq \in 0 .. Len(chain')
  BY <1>1, <1>2 DEF ProcHolds
<1>4. proc'[p].todo \subseteq Runs /\ \A r \in proc'[p].todo : Rows'[r].start # 0
  BY <1>1, <1>2 DEF ProcHolds
<1>5. ASSUME proc'[p].at = "rebuild"
      PROVE  proc'[p].read = [r \in Runs |-> proc'[p].read[r]] /\ BackedRows(proc[p].read)'
  <2>1. proc[p].read = [r \in Runs |-> proc[p].read[r]] /\ BackedRows(proc[p].read)
    BY <1>1, <1>5 DEF ProcHolds
  <2>2. \A r \in Runs :
          /\ proc[p].read[r] \in RunRow
          /\ Backed(proc[p].read[r], X!On("start", r)', X!On("end", r)', X!On("abandoned", r)')
    BY <2>1, BackedStays
  <2> QED
    BY <2>1, <2>2 DEF BackedRows
<1> QED
  BY <1>3, <1>4, <1>5 DEF ProcHolds

LEMMA ProcsStay ==
    ASSUME RunsIInv, Grows, proc' = proc
    PROVE  ProcsHold'
<1>1. \A p \in Procs : ProcHolds(proc[p])'
  BY ProcStays
<1> QED
  BY <1>1 DEF RunsIInv, ProcsHold

(* A step of one process.                                                   *)
LEMMA ProcsStep ==
    ASSUME RunsIInv, Grows, NEW p \in Procs, NEW x, proc' = [proc EXCEPT ![p] = x],
           DOMAIN x = {"at", "seq", "todo", "marked", "read"},
           x.at \in ProcAts, x.seq \in 0 .. Len(chain'),
           x.todo \subseteq Runs, \A r \in x.todo : Rows'[r].start # 0,
           x.at = "rebuild" => /\ x.read = [r \in Runs |-> x.read[r]] /\ BackedRows(x.read)'
    PROVE  ProcsHold'
<1>1. /\ DOMAIN proc' = Procs /\ proc'[p] = x /\ \A q \in Procs \ {p} : proc'[q] = proc[q]
  BY DEF RunsIInv, ProcsHold
<1>2. \A q \in Procs \ {p} : ProcHolds(proc[q])'
  BY <1>1, ProcStays
<1>3. ProcHolds(proc[p])'
  BY <1>1 DEF ProcHolds
<1> QED
  BY <1>1, <1>2, <1>3 DEF ProcsHold

(* A step of one run.                                                       *)
LEMMA JobsStep ==
    ASSUME RunsIInv, NEW r \in Runs, NEW j, j = [at |-> j.at, by |-> j.by],
           job' = [job EXCEPT ![r] = j], proc' = proc,
           \A q \in Runs \ {r} : Rows'[q] = Rows[q], JobHolds(j, Rows'[r]),
           j.by # X!Gone => proc[j.by].at # "down"
    PROVE  /\ JobsHold' /\ job'[r] = j /\ \A q \in Runs \ {r} : job'[q] = job[q]
<1>1. /\ job = [q \in Runs |-> [at |-> job[q].at, by |-> job[q].by]]
      /\ \A q \in Runs : JobHolds(job[q], Rows[q])
      /\ \A q \in Runs : job[q].by # X!Gone => proc[job[q].by].at # "down"
  BY DEF RunsIInv, JobsHold
<1>2. job'[r] = j /\ \A q \in Runs \ {r} : job'[q] = job[q]
  BY <1>1
<1>3. job' = [q \in Runs |-> [at |-> job'[q].at, by |-> job'[q].by]]
  <2>1. \A q \in Runs : job'[q] = [at |-> job'[q].at, by |-> job'[q].by]
    BY <1>1, <1>2
  <2>2. job' = [q \in Runs |-> job'[q]]
    BY <1>1
  <2> QED
    BY <2>1, <2>2
<1>4. \A q \in Runs : JobHolds(job'[q], Rows'[q])
  BY <1>1, <1>2
<1>5. \A q \in Runs : job'[q].by # X!Gone => proc'[job'[q].by].at # "down"
  BY <1>1, <1>2
<1> QED
  BY <1>2, <1>3, <1>4, <1>5 DEF JobsHold

(* What a step does not touch is as it was.                                 *)
LEMMA AloneRunStays ==
    ASSUME NEW r \in Runs, AloneRun(r), index'[r] = index[r], job'[r] = job[r],
           Rows'[r] = Rows[r], X!On("abandoned", r)' = X!On("abandoned", r)
    PROVE  AloneRun(r)'
BY DEF AloneRun

(* How the steps of one run leave the others' and the processes' findings.  *)
LEMMA AloneStep ==
    ASSUME RunsIInv, NEW r \in Runs, proc' = proc, alone' = alone,
           \A q \in Runs \ {r} : /\ Rows'[q] = Rows[q] /\ job'[q] = job[q] /\ index'[q] = index[q]
                                 /\ X!On("abandoned", q)' = X!On("abandoned", q),
           alone => AloneRun(r)',
           \A p \in Procs : alone /\ proc[p].at # "down" =>
             /\ Rows'[r].start \in 1 .. proc[p].seq => job'[r].by = X!Gone
             /\ r \in proc[p].todo => job'[r].by = X!Gone /\ X!On("abandoned", r)' = {}
             /\ proc[p].at = "rebuild" => Rows' = Rows
    PROVE  AloneHolds'
<1> SUFFICES ASSUME alone PROVE AloneHolds'
  BY DEF AloneHolds
<1>1. /\ \A p, q \in Procs : proc[p].at # "down" /\ proc[q].at # "down" => p = q
      /\ \A p \in Procs : proc[p].at # "down" => AloneFinds(proc[p])
      /\ \A q \in Runs : AloneRun(q)
  BY DEF RunsIInv, AloneHolds
<1>2. \A p \in Procs : proc[p].todo \subseteq Runs
  BY DEF RunsIInv, ProcsHold, ProcHolds
<1>3. ASSUME NEW p \in Procs, proc'[p].at # "down" PROVE AloneFinds(proc[p])'
  <2>1. AloneFinds(proc[p]) /\ proc[p].at # "down" /\ proc' = proc
    BY <1>1, <1>3
  <2>2. \A q \in Runs : Rows'[q].start \in 1 .. proc[p].seq => job'[q].by = X!Gone
    BY <2>1 DEF AloneFinds
  <2>3. \A q \in proc[p].todo : job'[q].by = X!Gone /\ X!On("abandoned", q)' = {}
    BY <1>2, <2>1 DEF AloneFinds
  <2>4. proc[p].at = "rebuild" => proc[p].read = Rows'
    BY <2>1 DEF AloneFinds
  <2> QED
    BY <2>1, <2>2, <2>3, <2>4 DEF AloneFinds
<1>4. ASSUME NEW q \in Runs PROVE AloneRun(q)'
  BY <1>1, AloneRunStays
<1> QED
  BY <1>1, <1>3, <1>4 DEF AloneHolds

LEMMA JobParts ==
    ASSUME RunsIInv, NEW r \in Runs
    PROVE  /\ job[r] = [at |-> job[r].at, by |-> job[r].by] /\ JobHolds(job[r], Rows[r])
           /\ job[r].by # X!Gone => proc[job[r].by].at # "down"
           /\ RowHolds(Rows[r], X!On("start", r), X!On("end", r), X!On("abandoned", r))
           /\ index = [q \in Runs |-> index[q]] /\ index[r] \in RunRow
           /\ Backed(index[r], X!On("start", r), X!On("end", r), X!On("abandoned", r))
           /\ alone => AloneRun(r)
<1>1. /\ JobsHold /\ RowsHold /\ index = [q \in Runs |-> index[q]] /\ BackedRows(index) /\ AloneHolds
  BY DEF RunsIInv
<1>2. job[r] = [at |-> job[r].at, by |-> job[r].by]
  BY <1>1 DEF JobsHold
<1>3. JobHolds(job[r], Rows[r]) /\ (job[r].by # X!Gone => proc[job[r].by].at # "down")
  BY <1>1 DEF JobsHold
<1>4. RowHolds(Rows[r], X!On("start", r), X!On("end", r), X!On("abandoned", r))
  BY <1>1 DEF RowsHold
<1>5. /\ index[r] \in RunRow
      /\ Backed(index[r], X!On("start", r), X!On("end", r), X!On("abandoned", r))
  BY <1>1 DEF BackedRows
<1>6. alone => AloneRun(r)
  BY <1>1 DEF AloneHolds
<1> QED
  BY <1>1, <1>2, <1>3, <1>4, <1>5, <1>6

(* What a process that is up has found of a run.                            *)
LEMMA Found ==
    ASSUME RunsIInv, alone, NEW p \in Procs, proc[p].at # "down", NEW r \in Runs
    PROVE  /\ Rows[r].start \in 1 .. proc[p].seq => job[r].by = X!Gone
           /\ r \in proc[p].todo => /\ job[r].by = X!Gone /\ X!On("abandoned", r) = {}
                                    /\ Rows[r].start # 0
           /\ proc[p].at = "rebuild" => proc[p].read = Rows
           /\ \A q \in Procs : proc[q].at # "down" => q = p
           /\ proc[p].seq \in 0 .. Len(chain)
<1>1. AloneFinds(proc[p]) /\ \A q \in Procs : proc[q].at # "down" => q = p
  BY DEF RunsIInv, AloneHolds
<1>2. proc[p].seq \in 0 .. Len(chain) /\ \A q \in proc[p].todo : Rows[q].start # 0
  BY DEF RunsIInv, ProcsHold, ProcHolds
<1> QED
  BY <1>1, <1>2 DEF AloneFinds

LEMMA BeginRunKeeps ==
    ASSUME RunsIInv, NEW r \in Runs, NEW p \in Procs, X!BeginRun(r, p) PROVE RunsIInv'
<1>1. /\ proc[p].at = "serving" /\ job[r].at = "none" /\ p # X!Gone
      /\ UNCHANGED <<alone, index, proc>>
      /\ X!RunsAssumption /\ chain \in Seq(Markers) /\ RowsHold
  BY DEF X!BeginRun, RunsIInv, X!RunsAssumption
<1>2. /\ Rows[r].start = 0 /\ Rows[r].end = 0 /\ Rows[r] = X!NoRow
      /\ X!On("abandoned", r) = {} /\ Rows[r].status = "none"
  <2>1. Rows[r].start = 0 /\ Rows[r] = X!NoRow /\ X!On("abandoned", r) = {}
    BY <1>1, JobParts DEF JobHolds, RowHolds
  <2> QED
    BY <2>1 DEF X!NoRow
<1>3. alone => index[r] = Rows[r]
  BY <1>1, <1>2, JobParts DEF AloneRun
<1>4. CASE /\ chain' = Append(chain, X!Marker("start", r, p))
           /\ job' = [job EXCEPT ![r] = [at |-> "started", by |-> p]]
  <2>1. X!Marker("start", r, p) \in Markers
        /\ X!Marker("start", r, p).act = "start" /\ X!Marker("start", r, p).run = r
    BY MarkerHolds
  <2>2. /\ RowsHold' /\ Rows'[r] = Begun(Len(chain) + 1)
        /\ \A q \in Runs \ {r} : Rows'[q] = Rows[q]
    BY <1>1, <1>2, <1>4, StartAppends
  <2>3. Rows'[r].start = Len(chain) + 1 /\ Rows'[r].end = 0 /\ Len(chain) \in Nat
    BY <1>1, <2>2 DEF Begun
  <2>4. Grows
    BY <1>1, <1>2, <1>4, <2>1, <2>2, ChainGrows
  <2>5. \A q \in Runs : X!On("abandoned", q)' = X!On("abandoned", q)
    BY <1>1, <1>4, <2>1, OnOthers
  <2>6. /\ JobsHold' /\ job'[r] = [at |-> "started", by |-> p]
        /\ \A q \in Runs \ {r} : job'[q] = job[q]
    <3>1. PICK j : j = [at |-> "started", by |-> p]
      OBVIOUS
    <3>2. JobHolds(j, Rows'[r])
      BY <2>3, <3>1 DEF JobHolds, JobAts
    <3> QED
      BY <1>1, <1>4, <2>2, <3>1, <3>2, JobsStep
  <2>7. index' = [q \in Runs |-> index'[q]] /\ BackedRows(index)'
    BY <1>1, <2>4, IndexStays
  <2>8. ProcsHold'
    BY <1>1, <2>4, ProcsStay
  <2>9. AloneHolds'
    <3>1. AloneRun(r)'
      BY <1>2, <2>5, <2>6 DEF AloneRun
    <3>2. ASSUME NEW q \in Procs, alone, proc[q].at # "down"
          PROVE  /\ ~(Rows'[r].start \in 1 .. proc[q].seq) /\ r \notin proc[q].todo
                 /\ proc[q].at # "rebuild"
      BY <1>1, <1>2, <2>3, <3>2, Found
    <3> QED
      BY <1>1, <2>2, <2>5, <2>6, <3>1, <3>2, AloneStep
  <2> QED
    BY <1>1, <2>2, <2>4, <2>6, <2>7, <2>8, <2>9 DEF RunsIInv, Grows, X!RunsAssumption
<1>5. CASE chain' = chain /\ job' = [job EXCEPT ![r] = [at |-> "unknown", by |-> p]]
  <2>1. Rows' = Rows /\ (\A a, q : X!On(a, q)' = X!On(a, q)) /\ Grows
    BY <1>5, SameRows
  <2>2. /\ JobsHold' /\ job'[r] = [at |-> "unknown", by |-> p]
        /\ \A q \in Runs \ {r} : job'[q] = job[q]
    <3>1. PICK j : j = [at |-> "unknown", by |-> p]
      OBVIOUS
    <3>2. JobHolds(j, Rows'[r])
      BY <1>2, <2>1, <3>1 DEF JobHolds, JobAts
    <3> QED
      BY <1>1, <1>5, <2>1, <3>1, <3>2, JobsStep
  <2>3. index' = [q \in Runs |-> index'[q]] /\ BackedRows(index)'
    BY <1>1, <2>1, IndexStays
  <2>4. ProcsHold'
    BY <1>1, <2>1, ProcsStay
  <2>5. AloneHolds'
    <3>1. alone => AloneRun(r)'
      BY <1>1, <1>2, <1>3, <2>1, <2>2 DEF AloneRun
    <3>2. ASSUME NEW q \in Procs, alone, proc[q].at # "down"
          PROVE  /\ ~(Rows'[r].start \in 1 .. proc[q].seq) /\ r \notin proc[q].todo
      BY <1>1, <1>2, <2>1, <3>2, Found
    <3> QED
      BY <1>1, <2>1, <2>2, <3>1, <3>2, AloneStep
  <2> QED
    BY <1>1, <2>1, <2>2, <2>3, <2>4, <2>5 DEF RunsIInv, Grows, X!RunsAssumption
<1> QED
  BY <1>4, <1>5 DEF X!BeginRun

(* A run whose process goes on to its next write.                           *)
LEMMA JobMoves ==
    ASSUME RunsIInv, NEW r \in Runs, NEW a \in JobAts, job' = [job EXCEPT ![r].at = a],
           proc' = proc, \A q \in Runs \ {r} : Rows'[q] = Rows[q],
           a \notin {"none", "unknown"}, Rows'[r].start # 0,
           a \in {"ended", "closed"} <=> Rows'[r].end # 0
    PROVE  /\ JobsHold' /\ job'[r].at = a /\ job'[r].by = job[r].by
           /\ \A q \in Runs \ {r} : job'[q] = job[q]
<1>1. /\ job[r] = [at |-> job[r].at, by |-> job[r].by]
      /\ job[r].by \in Procs \cup {X!Gone} /\ (job[r].by # X!Gone => proc[job[r].by].at # "down")
  BY JobParts DEF JobHolds
<1>2. PICK j : j = [at |-> a, by |-> job[r].by]
  OBVIOUS
<1>3. j = [at |-> j.at, by |-> j.by] /\ j.at = a /\ j.by = job[r].by
  BY <1>2
<1>4. job' = [job EXCEPT ![r] = j]
  <2>1. [job[r] EXCEPT !.at = a] = j
    BY <1>1, <1>2
  <2>2. job' = [job EXCEPT ![r] = [job[r] EXCEPT !.at = a]]
    OBVIOUS
  <2> QED
    BY <2>1, <2>2
<1>5. JobHolds(j, Rows'[r])
  BY <1>1, <1>3 DEF JobHolds
<1>6. j.by # X!Gone => proc[j.by].at # "down"
  BY <1>1, <1>3
<1>7. /\ JobsHold' /\ job'[r] = j /\ \A q \in Runs \ {r} : job'[q] = job[q]
  BY <1>3, <1>4, <1>5, <1>6, JobsStep
<1> QED
  BY <1>3, <1>7

(* The process of a run that writes is up, not in a rebuild, and if it is   *)
(* alone nobody else is.                                                    *)
LEMMA Writer ==
    ASSUME RunsIInv, NEW r \in Runs, X!Writes(r)
    PROVE  /\ job[r].by # X!Gone /\ job[r].by \in Procs /\ proc[job[r].by].at \notin {"down", "rebuild"}
           /\ \A q \in Procs : alone /\ proc[q].at # "down" =>
                /\ q = job[r].by /\ r \notin proc[q].todo
                /\ ~(Rows[r].start \in 1 .. proc[q].seq)
<1>1. /\ job[r].by # X!Gone /\ job[r].by \in Procs
      /\ proc[job[r].by].at \notin {"down", "rebuild"}
  BY JobParts DEF X!Writes, JobHolds
<1>2. ASSUME NEW q \in Procs, alone, proc[q].at # "down"
      PROVE  /\ q = job[r].by /\ r \notin proc[q].todo
             /\ ~(Rows[r].start \in 1 .. proc[q].seq)
  BY <1>1, <1>2, Found
<1> QED
  BY <1>1, <1>2

(* A step of a run that changes its row of the table.                       *)
LEMMA IndexStep ==
    ASSUME RunsIInv, NEW r \in Runs, NEW rec \in RunRow, chain' = chain,
           index' = [index EXCEPT ![r] = rec],
           Backed(rec, X!On("start", r), X!On("end", r), X!On("abandoned", r))
    PROVE  /\ index' = [q \in Runs |-> index'[q]] /\ BackedRows(index)'
           /\ index'[r] = rec /\ \A q \in Runs \ {r} : index'[q] = index[q]
<1>1. index = [q \in Runs |-> index[q]] /\ BackedRows(index)
  BY RunsParts
<1>2. /\ index' = [q \in Runs |-> index'[q]] /\ index'[r] = rec
      /\ \A q \in Runs \ {r} : index'[q] = index[q]
  BY <1>1
<1>3. \A a, q : X!On(a, q)' = X!On(a, q)
  BY SameRows
<1>4. \A q \in Runs : /\ index'[q] \in RunRow
                      /\ Backed(index'[q], X!On("start", q), X!On("end", q), X!On("abandoned", q))
  BY <1>1, <1>2 DEF BackedRows
<1> QED
  BY <1>2, <1>3, <1>4 DEF BackedRows

LEMMA IndexStartKeeps ==
    ASSUME RunsIInv, NEW r \in Runs, X!IndexStart(r) PROVE RunsIInv'
<1>1. /\ job[r].at = "started" /\ X!Writes(r) /\ X!RunsAssumption
      /\ UNCHANGED <<alone, chain, proc>>
      /\ index' = [index EXCEPT ![r] = [start |-> Rows[r].start, end |-> 0, status |-> "open"]]
      /\ job' = [job EXCEPT ![r].at = "running"]
  BY DEF X!IndexStart, RunsIInv, Rows
<1>2. /\ Rows[r].start # 0 /\ Rows[r].end = 0
      /\ RowHolds(Rows[r], X!On("start", r), X!On("end", r), X!On("abandoned", r))
  BY <1>1, JobParts DEF JobHolds
<1>3. PICK rec : rec = [start |-> Rows[r].start, end |-> 0, status |-> "open"]
  OBVIOUS
<1>4. /\ rec \in RunRow /\ rec.start = Rows[r].start /\ rec.end = 0 /\ rec.status = "open"
      /\ rec # X!NoRow
  <2>1. Rows[r].start \in Nat
    BY <1>2 DEF RowHolds, RunRow
  <2>2. rec \in RunRow /\ rec.start = Rows[r].start /\ rec.end = 0 /\ rec.status = "open"
    BY <1>3, <2>1 DEF RunRow
  <2> QED
    BY <1>2, <2>2 DEF X!NoRow
<1>5. Rows' = Rows /\ (\A a, q : X!On(a, q)' = X!On(a, q)) /\ Grows
  BY <1>1, SameRows
<1>6. Backed(rec, X!On("start", r), X!On("end", r), X!On("abandoned", r))
  BY <1>2, <1>4 DEF Backed, RowHolds
<1>7. /\ index' = [q \in Runs |-> index'[q]] /\ BackedRows(index)'
      /\ index'[r] = rec /\ \A q \in Runs \ {r} : index'[q] = index[q]
  BY <1>1, <1>3, <1>4, <1>6, IndexStep
<1>8. /\ JobsHold' /\ job'[r].at = "running" /\ job'[r].by = job[r].by
      /\ \A q \in Runs \ {r} : job'[q] = job[q]
  BY <1>1, <1>2, <1>5, JobMoves DEF JobAts
<1>9. ProcsHold'
  BY <1>1, <1>5, ProcsStay
<1>10. AloneHolds'
  <2>1. ASSUME alone PROVE AloneRun(r)'
    <3>1. rec = Rows[r] \/ Rows[r].status = "abandoned"
      <4>1. Rows[r].status \in {"open", "abandoned"} /\ Rows[r] \in RunRow
        BY <1>2 DEF RowHolds, RunRow
      <4> QED
        BY <1>2, <1>3, <4>1 DEF RunRow
    <3>2. AloneRun(r)
      BY <2>1, JobParts
    <3> QED
      BY <1>4, <1>5, <1>7, <1>8, <3>1, <3>2 DEF AloneRun
  <2>2. ASSUME NEW q \in Procs, alone, proc[q].at # "down"
        PROVE  /\ ~(Rows'[r].start \in 1 .. proc[q].seq) /\ r \notin proc[q].todo
    BY <1>1, <1>5, <2>2, Writer
  <2> QED
    BY <1>1, <1>5, <1>7, <1>8, <2>1, <2>2, AloneStep
<1> QED
  BY <1>1, <1>5, <1>7, <1>8, <1>9, <1>10 DEF RunsIInv, Grows, X!RunsAssumption

LEMMA IndexEndKeeps ==
    ASSUME RunsIInv, NEW r \in Runs, X!IndexEnd(r) PROVE RunsIInv'
<1> DEFINE new == IF index[r] = X!NoRow THEN index[r]
                  ELSE [index[r] EXCEPT !.end = Rows[r].end, !.status = "ok"]
<1>1. /\ job[r].at = "ended" /\ X!Writes(r) /\ X!RunsAssumption
      /\ UNCHANGED <<alone, chain, proc>>
      /\ job' = [job EXCEPT ![r].at = "closed"]
  BY DEF X!IndexEnd, RunsIInv
<1>2. index' = [index EXCEPT ![r] = new]
  BY DEF X!IndexEnd, Rows
<1>3. /\ Rows[r].start # 0 /\ Rows[r].end # 0
      /\ RowHolds(Rows[r], X!On("start", r), X!On("end", r), X!On("abandoned", r))
      /\ index[r] \in RunRow
      /\ Backed(index[r], X!On("start", r), X!On("end", r), X!On("abandoned", r))
  BY <1>1, JobParts DEF JobHolds
<1>4. PICK rec : rec = new
  OBVIOUS
<1>5. /\ rec \in RunRow
      /\ index[r] = X!NoRow => rec = X!NoRow
      /\ index[r] # X!NoRow => /\ rec.start = index[r].start /\ rec.end = Rows[r].end
                               /\ rec.status = "ok"
  <2>1. Rows[r].end \in Nat
    BY <1>3 DEF RowHolds, RunRow
  <2> QED
    BY <1>3, <1>4, <2>1 DEF RunRow
<1> HIDE DEF new
<1>6. Rows' = Rows /\ (\A a, q : X!On(a, q)' = X!On(a, q)) /\ Grows
  BY <1>1, SameRows
<1>7. Backed(rec, X!On("start", r), X!On("end", r), X!On("abandoned", r))
  BY <1>3, <1>5 DEF Backed, RowHolds
<1>8. /\ index' = [q \in Runs |-> index'[q]] /\ BackedRows(index)'
      /\ index'[r] = rec /\ \A q \in Runs \ {r} : index'[q] = index[q]
  BY <1>1, <1>2, <1>4, <1>5, <1>7, IndexStep
<1>9. /\ JobsHold' /\ job'[r].at = "closed" /\ job'[r].by = job[r].by
      /\ \A q \in Runs \ {r} : job'[q] = job[q]
  BY <1>1, <1>3, <1>6, JobMoves DEF JobAts
<1>10. ProcsHold'
  BY <1>1, <1>6, ProcsStay
<1>11. AloneHolds'
  <2>1. ASSUME alone PROVE AloneRun(r)'
    <3>1. AloneRun(r)
      BY <2>1, JobParts
    <3>2. index[r] # X!NoRow
      BY <1>1, <3>1 DEF AloneRun
    <3>3. index[r].start = Rows[r].start
      BY <1>3, <3>2 DEF Backed, RowHolds
    <3>4. rec = Rows[r]
      <4>1. Rows[r] \in RunRow /\ Rows[r].status = "ok"
        BY <1>3 DEF RowHolds
      <4> QED
        BY <1>5, <3>2, <3>3, <4>1 DEF RunRow
    <3> QED
      BY <1>6, <1>8, <1>9, <3>1, <3>4 DEF AloneRun
  <2>2. ASSUME NEW q \in Procs, alone, proc[q].at # "down"
        PROVE  /\ ~(Rows'[r].start \in 1 .. proc[q].seq) /\ r \notin proc[q].todo
    BY <1>1, <1>6, <2>2, Writer
  <2> QED
    BY <1>1, <1>6, <1>8, <1>9, <2>1, <2>2, AloneStep
<1> QED
  BY <1>1, <1>6, <1>8, <1>9, <1>10, <1>11 DEF RunsIInv, Grows, X!RunsAssumption

LEMMA FinishRunKeeps ==
    ASSUME RunsIInv, NEW r \in Runs, X!FinishRun(r) PROVE RunsIInv'
<1>1. /\ job[r].at = "running" /\ X!Writes(r) /\ X!RunsAssumption
      /\ UNCHANGED <<alone, index, proc>> /\ chain \in Seq(Markers) /\ RowsHold
  BY DEF X!FinishRun, RunsIInv
<1>2. /\ Rows[r].start # 0 /\ Rows[r].end = 0
      /\ RowHolds(Rows[r], X!On("start", r), X!On("end", r), X!On("abandoned", r))
  BY <1>1, JobParts DEF JobHolds
<1>3. /\ job[r] = [at |-> job[r].at, by |-> job[r].by]
      /\ job[r].by # X!Gone /\ job[r].by \in Procs /\ proc[job[r].by].at \notin {"down", "rebuild"}
  BY <1>1, JobParts, Writer
<1>4. CASE /\ chain' = Append(chain, X!Marker("end", r, job[r].by))
           /\ job' = [job EXCEPT ![r].at = "ended"]
  <2>1. PICK e \in Markers : /\ e = X!Marker("end", r, job[r].by)
                             /\ e.act = "end" /\ e.run = r
    BY <1>3, MarkerHolds
  <2>2. /\ RowsHold' /\ Rows'[r] = EndedAt(Rows[r], Len(chain) + 1)
        /\ \A q \in Runs \ {r} : Rows'[q] = Rows[q]
    BY <1>1, <1>2, <1>3, <1>4, EndAppends
  <2>3. /\ Rows'[r].start = Rows[r].start /\ Rows'[r].end # 0
    <3>1. Rows[r] \in RunRow /\ Len(chain) \in Nat
      BY <1>1, <1>2 DEF RowHolds
    <3> QED
      BY <2>2, <3>1 DEF EndedAt, RunRow
  <2>4. Grows
    BY <1>1, <1>4, <2>1, <2>2, <2>3, ChainGrows
  <2>5. \A q \in Runs : X!On("abandoned", q)' = X!On("abandoned", q)
    BY <1>1, <1>4, <2>1, OnOthers
  <2>6. /\ JobsHold' /\ job'[r].at = "ended" /\ job'[r].by = job[r].by
        /\ \A q \in Runs \ {r} : job'[q] = job[q]
    BY <1>1, <1>2, <1>4, <2>2, <2>3, JobMoves DEF JobAts
  <2>7. index' = [q \in Runs |-> index'[q]] /\ BackedRows(index)'
    BY <1>1, <2>4, IndexStays
  <2>8. ProcsHold'
    BY <1>1, <2>4, ProcsStay
  <2>9. AloneHolds'
    <3>1. ASSUME alone PROVE AloneRun(r)'
      <4>1. AloneRun(r)
        BY <3>1, JobParts
      <4> QED
        BY <1>1, <2>5, <2>6, <4>1 DEF AloneRun
    <3>2. ASSUME NEW q \in Procs, alone, proc[q].at # "down"
          PROVE  /\ ~(Rows'[r].start \in 1 .. proc[q].seq) /\ r \notin proc[q].todo
                 /\ proc[q].at # "rebuild"
      BY <1>1, <1>3, <2>3, <3>2, Writer
    <3> QED
      BY <1>1, <2>2, <2>5, <2>6, <3>1, <3>2, AloneStep
  <2> QED
    BY <1>1, <2>2, <2>4, <2>6, <2>7, <2>8, <2>9 DEF RunsIInv, Grows, X!RunsAssumption
<1>5. CASE chain' = chain /\ job' = [job EXCEPT ![r].at = "unended"]
  <2>1. Rows' = Rows /\ (\A a, q : X!On(a, q)' = X!On(a, q)) /\ Grows
    BY <1>5, SameRows
  <2>2. /\ JobsHold' /\ job'[r].at = "unended" /\ job'[r].by = job[r].by
        /\ \A q \in Runs \ {r} : job'[q] = job[q]
    BY <1>1, <1>2, <1>5, <2>1, JobMoves DEF JobAts
  <2>3. index' = [q \in Runs |-> index'[q]] /\ BackedRows(index)'
    BY <1>1, <2>1, IndexStays
  <2>4. ProcsHold'
    BY <1>1, <2>1, ProcsStay
  <2>5. AloneHolds'
    <3>1. ASSUME alone PROVE AloneRun(r)'
      <4>1. AloneRun(r)
        BY <3>1, JobParts
      <4> QED
        BY <1>1, <2>1, <2>2, <4>1 DEF AloneRun
    <3>2. ASSUME NEW q \in Procs, alone, proc[q].at # "down"
          PROVE  /\ ~(Rows'[r].start \in 1 .. proc[q].seq) /\ r \notin proc[q].todo
      BY <1>1, <2>1, <3>2, Writer
    <3> QED
      BY <1>1, <2>1, <2>2, <3>1, <3>2, AloneStep
  <2> QED
    BY <1>1, <2>1, <2>2, <2>3, <2>4, <2>5 DEF RunsIInv, Grows, X!RunsAssumption
<1> QED
  BY <1>4, <1>5 DEF X!FinishRun

(* A step that leaves the jobs as they are, and every process that is up.   *)
LEMMA JobsStay ==
    ASSUME RunsIInv, job' = job,
           \A p \in Procs : proc[p].at # "down" => proc'[p].at # "down",
           \A q \in Runs : Rows'[q].start = Rows[q].start /\ Rows'[q].end = Rows[q].end
    PROVE  JobsHold'
<1>1. /\ job = [q \in Runs |-> [at |-> job[q].at, by |-> job[q].by]]
      /\ \A q \in Runs : JobHolds(job[q], Rows[q])
      /\ \A q \in Runs : job[q].by # X!Gone => proc[job[q].by].at # "down"
  BY DEF RunsIInv, JobsHold
<1>2. \A q \in Runs : JobHolds(job'[q], Rows'[q])
  BY <1>1 DEF JobHolds
<1>3. \A q \in Runs : job'[q].by # X!Gone => proc'[job'[q].by].at # "down"
  <2> SUFFICES ASSUME NEW q \in Runs, job[q].by # X!Gone PROVE proc'[job[q].by].at # "down"
    OBVIOUS
  <2>1. job[q].by \in Procs
    BY <1>1 DEF JobHolds
  <2> QED
    BY <1>1, <2>1
<1> QED
  BY <1>1, <1>2, <1>3 DEF JobsHold

LEMMA ProcParts ==
    ASSUME RunsIInv, NEW p \in Procs
    PROVE  /\ proc[p].at \in ProcAts /\ proc[p].seq \in 0 .. Len(chain)
           /\ DOMAIN proc[p] = {"at", "seq", "todo", "marked", "read"} /\ DOMAIN proc = Procs
           /\ proc[p].todo \subseteq Runs /\ (\A r \in proc[p].todo : Rows[r].start # 0)
           /\ proc[p].at = "rebuild" => /\ proc[p].read = [r \in Runs |-> proc[p].read[r]]
                                        /\ BackedRows(proc[p].read)
BY DEF RunsIInv, ProcsHold, ProcHolds

(* A process that is up goes on to its next step and writes nothing.        *)
LEMMA ProcMoves ==
    ASSUME RunsIInv, NEW p \in Procs, proc[p].at # "down", NEW x, proc' = [proc EXCEPT ![p] = x],
           UNCHANGED <<chain, index, job, alone>>,
           DOMAIN x = {"at", "seq", "todo", "marked", "read"},
           x.at \in ProcAts, x.at # "down", x.seq \in 0 .. Len(chain),
           x.todo \subseteq Runs, \A r \in x.todo : Rows[r].start # 0,
           x.at = "rebuild" => x.read = [r \in Runs |-> x.read[r]] /\ BackedRows(x.read),
           alone => AloneFinds(x)
    PROVE  RunsIInv'
<1>1. Rows' = Rows /\ (\A a, r : X!On(a, r)' = X!On(a, r)) /\ Grows
  BY SameRows
<1>2. /\ X!RunsAssumption /\ proc'[p] = x /\ \A q \in Procs \ {p} : proc'[q] = proc[q]
  BY ProcParts DEF RunsIInv
<1>3. index' = [q \in Runs |-> index'[q]] /\ BackedRows(index)'
  BY <1>1, IndexStays
<1>4. JobsHold'
  BY <1>1, <1>2, JobsStay
<1>5. ProcsHold'
  <2>1. x.at = "rebuild" => BackedRows(x.read)'
    BY <1>1 DEF BackedRows
  <2> QED
    BY <1>1, <2>1, ProcsStep
<1>6. AloneHolds'
  <2> SUFFICES ASSUME alone PROVE AloneHolds'
    BY DEF AloneHolds
  <2>1. /\ \A q, s \in Procs : proc[q].at # "down" /\ proc[s].at # "down" => q = s
        /\ \A q \in Runs : AloneRun(q)
    BY DEF RunsIInv, AloneHolds
  <2>2. AloneFinds(proc[p])'
    BY <1>1, <1>2 DEF AloneFinds
  <2>3. \A q \in Procs : proc'[q].at # "down" => q = p
    BY <1>2, <2>1
  <2>4. \A q \in Runs : AloneRun(q)'
    BY <1>1, <2>1, AloneRunStays
  <2> QED
    BY <2>2, <2>3, <2>4 DEF AloneHolds
<1> QED
  BY <1>1, <1>2, <1>3, <1>4, <1>5, <1>6 DEF RunsIInv, Grows, X!RunsAssumption

(* A process's record with two of its fields another.                       *)
LEMMA AskAbandonKeeps ==
    ASSUME RunsIInv, NEW p \in Procs, X!AskAbandon(p) PROVE RunsIInv'
<1>1. /\ proc[p].at = "serving" /\ UNCHANGED <<chain, index, job, alone>>
      /\ proc' = [proc EXCEPT ![p].at = "abandon", ![p].marked = FALSE]
  BY DEF X!AskAbandon
<1>2. PICK x : x = [proc[p] EXCEPT !.at = "abandon", !.marked = FALSE]
  OBVIOUS
<1>3. /\ DOMAIN x = DOMAIN proc[p] /\ x.at = "abandon" /\ x.seq = proc[p].seq
      /\ x.todo = proc[p].todo
  BY <1>2, ProcParts
<1>4. proc' = [proc EXCEPT ![p] = x]
  BY <1>1, <1>2
<1>5. alone => AloneFinds(x)
  BY <1>1, <1>3, Found, ProcParts DEF AloneFinds
<1> QED
  BY <1>1, <1>3, <1>4, <1>5, ProcMoves, ProcParts DEF ProcAts

(* What is open and began before this process is of one that is gone.       *)
LEMMA AbandonDeriveKeeps ==
    ASSUME RunsIInv, NEW p \in Procs, X!AbandonDerive(p) PROVE RunsIInv'
<1>1. /\ proc[p].at = "abandon" /\ UNCHANGED <<chain, index, job, alone>>
      /\ proc' = [proc EXCEPT ![p].at = "mark", ![p].todo = X!Stale(p)]
  BY DEF X!AbandonDerive
<1>2. PICK x : x = [proc[p] EXCEPT !.at = "mark", !.todo = X!Stale(p)]
  OBVIOUS
<1>3. /\ DOMAIN x = DOMAIN proc[p] /\ x.at = "mark" /\ x.seq = proc[p].seq
      /\ x.todo = X!Stale(p)
  BY <1>2, ProcParts
<1>4. proc' = [proc EXCEPT ![p] = x]
  BY <1>1, <1>2
<1>5. /\ X!Stale(p) \subseteq Runs
      /\ \A r \in X!Stale(p) : Rows[r].status = "open" /\ Rows[r].start <= proc[p].seq
  BY DEF X!Stale, Rows
<1>6. \A r \in X!Stale(p) : /\ Rows[r].start # 0 /\ X!On("abandoned", r) = {}
                            /\ Rows[r].start \in 1 .. proc[p].seq
  <2> SUFFICES ASSUME NEW r \in Runs, Rows[r].status = "open", Rows[r].start <= proc[p].seq
               PROVE  /\ Rows[r].start # 0 /\ X!On("abandoned", r) = {}
                      /\ Rows[r].start \in 1 .. proc[p].seq
    BY <1>5
  <2>1. RowHolds(Rows[r], X!On("start", r), X!On("end", r), X!On("abandoned", r))
    BY JobParts
  <2>2. Rows[r].start # 0 /\ Rows[r].start \in Nat
    BY <2>1 DEF RowHolds, RunRow, X!NoRow
  <2>3. X!On("abandoned", r) = {}
    BY <2>1 DEF RowHolds
  <2>4. proc[p].seq \in Int
    <3>1. chain \in Seq(Markers) /\ proc[p].seq \in 0 .. Len(chain)
      BY ProcParts, RunsParts
    <3> QED
      BY <3>1
  <2> QED
    BY <2>2, <2>3, <2>4
<1>7. alone => AloneFinds(x)
  BY <1>1, <1>3, <1>5, <1>6, Found, ProcParts DEF AloneFinds
<1>8. /\ DOMAIN x = {"at", "seq", "todo", "marked", "read"} /\ x.seq \in 0 .. Len(chain)
      /\ x.at \in ProcAts /\ x.at # "down" /\ x.at # "rebuild" /\ proc[p].at # "down"
  BY <1>1, <1>3, ProcParts DEF ProcAts
<1>9. x.todo \subseteq Runs /\ \A r \in x.todo : Rows[r].start # 0
  BY <1>3, <1>5, <1>6
<1> QED
  BY <1>1, <1>4, <1>7, <1>8, <1>9, ProcMoves

LEMMA AbandonEndsKeeps ==
    ASSUME RunsIInv, NEW p \in Procs, X!AbandonEnds(p) PROVE RunsIInv'
<1>1. /\ proc[p].at = "mark" /\ UNCHANGED <<chain, index, job, alone>> /\ proc[p].todo = {}
      /\ proc' = IF proc[p].marked
                 THEN [proc EXCEPT ![p].at = "rebuild", ![p].read = Rows]
                 ELSE [proc EXCEPT ![p].at = "serving"]
  BY DEF X!AbandonEnds, Rows
<1>2. CASE proc[p].marked
  <2>1. PICK x : x = [proc[p] EXCEPT !.at = "rebuild", !.read = Rows]
    OBVIOUS
  <2>2. /\ DOMAIN x = DOMAIN proc[p] /\ x.at = "rebuild" /\ x.seq = proc[p].seq
        /\ x.todo = {} /\ x.read = Rows
    BY <1>1, <2>1, ProcParts
  <2>3. proc' = [proc EXCEPT ![p] = x]
    BY <1>1, <1>2, <2>1
  <2>4. Rows = [r \in Runs |-> Rows[r]] /\ BackedRows(Rows)
    <3>1. /\ Rows = [r \in Runs |-> Rows[r]]
          /\ \A r \in Runs : RowHolds(Rows[r], X!On("start", r), X!On("end", r), X!On("abandoned", r))
      BY DEF RunsIInv, RowsHold
    <3>2. ASSUME NEW r \in Runs
          PROVE  /\ Rows[r] \in RunRow
                 /\ Backed(Rows[r], X!On("start", r), X!On("end", r), X!On("abandoned", r))
      BY <3>1 DEF RowHolds, Backed
    <3> QED
      BY <3>1, <3>2 DEF BackedRows
  <2>5. alone => AloneFinds(x)
    BY <1>1, <2>2, Found DEF AloneFinds
  <2> QED
    BY <1>1, <2>2, <2>3, <2>4, <2>5, ProcMoves, ProcParts DEF ProcAts
<1>3. CASE ~ proc[p].marked
  <2>1. PICK x : x = [proc[p] EXCEPT !.at = "serving"]
    OBVIOUS
  <2>2. /\ DOMAIN x = DOMAIN proc[p] /\ x.at = "serving" /\ x.seq = proc[p].seq
        /\ x.todo = {}
    BY <1>1, <2>1, ProcParts
  <2>3. proc' = [proc EXCEPT ![p] = x]
    BY <1>1, <1>3, <2>1
  <2>4. alone => AloneFinds(x)
    BY <1>1, <2>2, Found DEF AloneFinds
  <2> QED
    BY <1>1, <2>2, <2>3, <2>4, ProcMoves, ProcParts DEF ProcAts
<1> QED
  BY <1>2, <1>3

(* A start: the first of the processes, if it is alone, finds that every    *)
(* run's process is gone.                                                   *)
LEMMA BootKeeps ==
    ASSUME RunsIInv, NEW p \in Procs, X!Boot(p) PROVE RunsIInv'
<1>1. /\ proc[p].at = "down" /\ UNCHANGED <<chain, index, job>> /\ alone' = (alone /\ X!Up = {})
      /\ proc' = [proc EXCEPT ![p] = [X!Down EXCEPT !.at = "abandon", !.seq = Len(chain)]]
      /\ chain \in Seq(Markers) /\ X!RunsAssumption
  BY DEF X!Boot, RunsIInv
<1>2. PICK x : x = [X!Down EXCEPT !.at = "abandon", !.seq = Len(chain)]
  OBVIOUS
<1>3. /\ DOMAIN x = {"at", "seq", "todo", "marked", "read"}
      /\ x.at = "abandon" /\ x.seq = Len(chain) /\ x.todo = {}
  BY <1>2 DEF X!Down
<1>4. /\ proc' = [proc EXCEPT ![p] = x] /\ proc'[p] = x
      /\ \A q \in Procs \ {p} : proc'[q] = proc[q]
  BY <1>1, <1>2, ProcParts
<1>5. Rows' = Rows /\ (\A a, r : X!On(a, r)' = X!On(a, r)) /\ Grows
  BY <1>1, SameRows
<1>6. index' = [q \in Runs |-> index'[q]] /\ BackedRows(index)'
  BY <1>1, <1>5, IndexStays
<1>7. JobsHold'
  <2>1. \A q \in Procs : proc[q].at # "down" => proc'[q].at # "down"
    BY <1>1, <1>4
  <2> QED
    BY <1>1, <1>5, <2>1, JobsStay
<1>8. ProcsHold'
  <2>1. x.at \in ProcAts /\ x.at # "rebuild" /\ x.seq \in 0 .. Len(chain')
    BY <1>1, <1>3 DEF ProcAts
  <2> QED
    BY <1>3, <1>4, <1>5, <2>1, ProcsStep
<1>9. AloneHolds'
  <2> SUFFICES ASSUME alone, X!Up = {} PROVE AloneHolds'
    BY <1>1 DEF AloneHolds
  <2>1. \A q \in Procs : proc[q].at = "down"
    BY DEF X!Up
  <2>2. \A r \in Runs : job[r].by = X!Gone
    BY <2>1, JobParts DEF JobHolds
  <2>3. \A q \in Procs : proc'[q].at # "down" => q = p
    BY <1>4, <2>1
  <2>4. AloneFinds(proc[p])'
    BY <1>1, <1>3, <1>4, <2>2 DEF AloneFinds
  <2>5. \A r \in Runs : AloneRun(r)'
    BY <1>1, <1>5, AloneRunStays, JobParts
  <2> QED
    BY <2>3, <2>4, <2>5 DEF AloneHolds
<1> QED
  BY <1>1, <1>5, <1>6, <1>7, <1>8, <1>9 DEF RunsIInv, Grows, X!RunsAssumption

(* A rebuild: the table becomes what was read, which while nobody else is   *)
(* there is what the chain says now.                                        *)
LEMMA RebuildKeeps ==
    ASSUME RunsIInv, NEW p \in Procs, X!Rebuild(p) PROVE RunsIInv'
<1>1. /\ proc[p].at = "rebuild" /\ UNCHANGED <<chain, job, alone>> /\ index' = proc[p].read
      /\ proc' = [proc EXCEPT ![p].at = "serving", ![p].read = <<>>]
      /\ X!RunsAssumption
  BY DEF X!Rebuild, RunsIInv
<1>2. PICK x : x = [proc[p] EXCEPT !.at = "serving", !.read = <<>>]
  OBVIOUS
<1>3. /\ DOMAIN x = {"at", "seq", "todo", "marked", "read"} /\ x.at = "serving"
      /\ x.seq = proc[p].seq /\ x.todo = proc[p].todo
  BY <1>2, ProcParts
<1>4. /\ proc' = [proc EXCEPT ![p] = x] /\ proc'[p] = x
      /\ \A q \in Procs \ {p} : proc'[q] = proc[q]
  BY <1>1, <1>2, ProcParts
<1>5. Rows' = Rows /\ (\A a, r : X!On(a, r)' = X!On(a, r)) /\ Grows
  BY <1>1, SameRows
<1>6. index' = [q \in Runs |-> index'[q]] /\ BackedRows(index)'
  <2>1. proc[p].read = [r \in Runs |-> proc[p].read[r]] /\ BackedRows(proc[p].read)
    BY <1>1, ProcParts
  <2> QED
    BY <1>1, <1>5, <2>1 DEF BackedRows
<1>7. JobsHold'
  <2>1. \A q \in Procs : proc[q].at # "down" => proc'[q].at # "down"
    BY <1>1, <1>3, <1>4
  <2> QED
    BY <1>1, <1>5, <2>1, JobsStay
<1>8. ProcsHold'
  <2>1. x.at \in ProcAts /\ x.at # "rebuild" /\ x.seq \in 0 .. Len(chain')
    BY <1>1, <1>3, ProcParts DEF ProcAts
  <2>2. x.todo \subseteq Runs /\ \A r \in x.todo : Rows'[r].start # 0
    BY <1>3, <1>5, ProcParts
  <2> QED
    BY <1>3, <1>4, <1>5, <2>1, <2>2, ProcsStep
<1>9. AloneHolds'
  <2> SUFFICES ASSUME alone PROVE AloneHolds'
    BY <1>1 DEF AloneHolds
  <2>1. /\ index' = Rows /\ \A q \in Procs : proc[q].at # "down" => q = p
        /\ AloneFinds(proc[p])
    <3>1. proc[p].at # "down"
      BY <1>1
    <3>2. AloneFinds(proc[p])
      BY <3>1 DEF RunsIInv, AloneHolds
    <3>3. proc[p].read = Rows
      BY <1>1, <3>2 DEF AloneFinds
    <3>4. \A q \in Procs : proc[q].at # "down" => q = p
      BY <3>1 DEF RunsIInv, AloneHolds
    <3> QED
      BY <1>1, <3>2, <3>3, <3>4
  <2>2. \A q \in Procs : proc'[q].at # "down" => q = p
    BY <1>4, <2>1
  <2>3. AloneFinds(proc[p])'
    BY <1>1, <1>3, <1>4, <1>5, <2>1 DEF AloneFinds
  <2>4. ASSUME NEW r \in Runs PROVE AloneRun(r)'
    <3>1. AloneRun(r) /\ JobHolds(job[r], Rows[r])
      BY JobParts
    <3>2. job[r].at \in {"running", "ended"} => Rows[r].start # 0
      BY <3>1 DEF JobHolds
    <3>3. job[r].at \in {"running", "ended"} => Rows[r] # X!NoRow
      BY <3>2 DEF X!NoRow
    <3> QED
      BY <1>1, <1>5, <2>1, <3>1, <3>3 DEF AloneRun
  <2> QED
    BY <2>2, <2>3, <2>4 DEF AloneHolds
<1> QED
  BY <1>1, <1>5, <1>6, <1>7, <1>8, <1>9 DEF RunsIInv, Grows, X!RunsAssumption

(* A process dies: its runs are of a process that is gone.                  *)
LEMMA CrashKeeps ==
    ASSUME RunsIInv, NEW p \in Procs, X!Crash(p) PROVE RunsIInv'
<1>1. /\ UNCHANGED <<chain, index, alone>> /\ proc' = [proc EXCEPT ![p] = X!Down]
      /\ job' = [r \in Runs |-> IF job[r].by = p THEN [job[r] EXCEPT !.by = X!Gone] ELSE job[r]]
      /\ chain \in Seq(Markers) /\ X!RunsAssumption
  BY DEF X!Crash, RunsIInv
<1>2. PICK x : x = X!Down
  OBVIOUS
<1>3. /\ DOMAIN x = {"at", "seq", "todo", "marked", "read"} /\ x.at = "down"
      /\ x.seq = 0 /\ x.todo = {}
  BY <1>2 DEF X!Down
<1>4. /\ proc' = [proc EXCEPT ![p] = x] /\ proc'[p] = x
      /\ \A q \in Procs \ {p} : proc'[q] = proc[q]
  BY <1>1, <1>2, ProcParts
<1>5. Rows' = Rows /\ (\A a, r : X!On(a, r)' = X!On(a, r)) /\ Grows
  BY <1>1, SameRows
<1>6. index' = [q \in Runs |-> index'[q]] /\ BackedRows(index)'
  BY <1>1, <1>5, IndexStays
<1>7. ASSUME NEW r \in Runs
      PROVE  /\ job'[r] = [at |-> job[r].at, by |-> IF job[r].by = p THEN X!Gone ELSE job[r].by]
             /\ job'[r].at = job[r].at
             /\ job'[r].by = IF job[r].by = p THEN X!Gone ELSE job[r].by
  <2>1. job[r] = [at |-> job[r].at, by |-> job[r].by]
    BY JobParts
  <2>2. job'[r] = IF job[r].by = p THEN [job[r] EXCEPT !.by = X!Gone] ELSE job[r]
    BY <1>1
  <2>3. [job[r] EXCEPT !.by = X!Gone] = [at |-> job[r].at, by |-> X!Gone]
    BY <2>1
  <2>4. job'[r] = [at |-> job[r].at, by |-> IF job[r].by = p THEN X!Gone ELSE job[r].by]
    BY <2>1, <2>2, <2>3
  <2> QED
    BY <2>4
<1>8. JobsHold'
  <2>1. job' = [r \in Runs |-> [at |-> job'[r].at, by |-> job'[r].by]]
    <3>1. job' = [r \in Runs |-> job'[r]]
      BY <1>1
    <3>2. \A r \in Runs : job'[r] = [at |-> job'[r].at, by |-> job'[r].by]
      BY <1>7
    <3> QED
      BY <3>1, <3>2
  <2>2. \A r \in Runs : JobHolds(job'[r], Rows'[r])
    BY <1>5, <1>7, JobParts DEF JobHolds
  <2>3. ASSUME NEW r \in Runs, job'[r].by # X!Gone PROVE proc'[job'[r].by].at # "down"
    <3>1. job'[r].by = job[r].by /\ job[r].by # p
      BY <1>7, <2>3
    <3>2. job[r].by \in Procs /\ proc[job[r].by].at # "down"
      BY <2>3, <3>1, JobParts DEF JobHolds
    <3> QED
      BY <1>4, <3>1, <3>2
  <2> QED
    BY <2>1, <2>2, <2>3 DEF JobsHold
<1>9. ProcsHold'
  <2>1. x.at \in ProcAts /\ x.at # "rebuild" /\ x.seq \in 0 .. Len(chain')
    BY <1>1, <1>3 DEF ProcAts
  <2> QED
    BY <1>3, <1>4, <1>5, <2>1, ProcsStep
<1>10. AloneHolds'
  <2> SUFFICES ASSUME alone PROVE AloneHolds'
    BY <1>1 DEF AloneHolds
  <2>1. /\ \A q, s \in Procs : proc[q].at # "down" /\ proc[s].at # "down" => q = s
        /\ \A q \in Procs : proc[q].at # "down" => AloneFinds(proc[q])
    BY DEF RunsIInv, AloneHolds
  <2>2. \A q \in Procs : proc'[q].at # "down" => q # p /\ proc'[q] = proc[q] /\ proc[q].at # "down"
    BY <1>3, <1>4
  <2>3. \A r \in Runs : job[r].by = X!Gone => job'[r].by = X!Gone
    BY <1>1, <1>7 DEF X!RunsAssumption
  <2>4. ASSUME NEW q \in Procs, proc'[q].at # "down" PROVE AloneFinds(proc[q])'
    <3>1. proc'[q] = proc[q] /\ AloneFinds(proc[q]) /\ proc[q].todo \subseteq Runs
      BY <2>1, <2>2, <2>4, ProcParts
    <3> QED
      BY <1>5, <2>3, <3>1 DEF AloneFinds
  <2>5. ASSUME NEW r \in Runs PROVE AloneRun(r)'
    <3>1. AloneRun(r)
      BY JobParts
    <3> QED
      BY <1>1, <1>5, <1>7, <2>3, <3>1 DEF AloneRun
  <2> QED
    BY <2>1, <2>2, <2>4, <2>5 DEF AloneHolds
<1> QED
  BY <1>1, <1>5, <1>6, <1>8, <1>9, <1>10 DEF RunsIInv, Grows, X!RunsAssumption

(* A mark, or one that is refused.  While this process is alone the run it  *)
(* marks is open and its process gone, and no mark of it is there.          *)
LEMMA AbandonMarkKeeps ==
    ASSUME RunsIInv, NEW p \in Procs, X!AbandonMark(p) PROVE RunsIInv'
<1>1. /\ proc[p].at = "mark" /\ UNCHANGED <<index, job, alone>>
      /\ chain \in Seq(Markers) /\ RowsHold /\ X!RunsAssumption
  BY DEF X!AbandonMark, RunsIInv
<1>2. PICK r \in proc[p].todo :
        \/ /\ chain' = Append(chain, X!Marker("abandoned", r, p))
           /\ proc' = [proc EXCEPT ![p].todo = @ \ {r}, ![p].marked = TRUE]
        \/ chain' = chain /\ proc' = [proc EXCEPT ![p].todo = @ \ {r}]
  BY DEF X!AbandonMark
<1>3. /\ r \in Runs /\ Rows[r].start # 0 /\ proc[p].todo \subseteq Runs
      /\ \A q \in proc[p].todo : Rows[q].start # 0
  BY ProcParts
<1>4. CASE chain' = chain /\ proc' = [proc EXCEPT ![p].todo = @ \ {r}]
  <2>1. PICK x : x = [proc[p] EXCEPT !.todo = @ \ {r}]
    OBVIOUS
  <2>2. /\ DOMAIN x = {"at", "seq", "todo", "marked", "read"} /\ x.at = "mark"
        /\ x.seq = proc[p].seq /\ x.todo = proc[p].todo \ {r}
    BY <1>1, <2>1, ProcParts
  <2>3. proc' = [proc EXCEPT ![p] = x]
    BY <1>4, <2>1
  <2>4. alone => AloneFinds(x)
    BY <1>1, <1>3, <2>2, Found DEF AloneFinds
  <2>5. x.at \in ProcAts /\ x.at # "down" /\ x.at # "rebuild" /\ x.seq \in 0 .. Len(chain)
    BY <2>2, ProcParts DEF ProcAts
  <2> QED
    BY <1>1, <1>3, <1>4, <2>2, <2>3, <2>4, <2>5, ProcMoves
<1>5. CASE /\ chain' = Append(chain, X!Marker("abandoned", r, p))
           /\ proc' = [proc EXCEPT ![p].todo = @ \ {r}, ![p].marked = TRUE]
  <2>1. PICK e \in Markers : /\ e = X!Marker("abandoned", r, p)
                             /\ e.act = "abandoned" /\ e.run = r
    BY <1>3, MarkerHolds
  <2>2. /\ RowsHold' /\ \A q \in Runs \ {r} : Rows'[q] = Rows[q]
        /\ Rows'[r] = IF Rows[r].end = 0 THEN AbandonedRow(Rows[r]) ELSE Rows[r]
    BY <1>1, <1>3, <1>5, AbandonedAppends
  <2>3. /\ Rows'[r].start = Rows[r].start /\ Rows'[r].end = Rows[r].end
        /\ Rows[r].end = 0 => Rows'[r].status = "abandoned"
    <3>1. Rows[r] \in RunRow
      BY <1>3, JobParts DEF RowHolds
    <3> QED
      BY <2>2, <3>1 DEF AbandonedRow, RunRow
  <2>4. \A q \in Runs : Rows'[q].start = Rows[q].start /\ Rows'[q].end = Rows[q].end
    BY <2>2, <2>3
  <2>5. Grows
    BY <1>1, <1>5, <2>1, <2>2, <2>4, ChainGrows
  <2>6. /\ \A q \in Runs \ {r} : X!On("abandoned", q)' = X!On("abandoned", q)
        /\ X!On("abandoned", r)' = X!On("abandoned", r) \cup {Len(chain) + 1}
    <3>1. chain' = Append(chain, e)
      BY <1>5, <2>1
    <3> QED
      BY <1>1, <2>1, <3>1, OnAppend, OnOthers
  <2>7. PICK x : x = [proc[p] EXCEPT !.todo = @ \ {r}, !.marked = TRUE]
    OBVIOUS
  <2>8. /\ DOMAIN x = {"at", "seq", "todo", "marked", "read"} /\ x.at = "mark"
        /\ x.seq = proc[p].seq /\ x.todo = proc[p].todo \ {r}
    BY <1>1, <2>7, ProcParts
  <2>9. /\ proc' = [proc EXCEPT ![p] = x] /\ proc'[p] = x
        /\ \A q \in Procs \ {p} : proc'[q] = proc[q]
    BY <1>5, <2>7, ProcParts
  <2>10. index' = [q \in Runs |-> index'[q]] /\ BackedRows(index)'
    BY <1>1, <2>5, IndexStays
  <2>11. JobsHold'
    <3>1. \A q \in Procs : proc[q].at # "down" => proc'[q].at # "down"
      BY <2>8, <2>9
    <3> QED
      BY <1>1, <2>4, <3>1, JobsStay
  <2>12. ProcsHold'
    <3>1. x.at \in ProcAts /\ x.at # "rebuild" /\ x.seq \in 0 .. Len(chain')
      <4>1. Len(chain) <= Len(chain') /\ chain' \in Seq(Markers) /\ proc[p].seq \in 0 .. Len(chain)
        BY <2>5, ProcParts DEF Grows
      <4>2. Len(chain) \in Nat /\ Len(chain') \in Nat
        BY <1>1, <4>1
      <4> QED
        BY <2>8, <4>1, <4>2 DEF ProcAts
    <3>2. x.todo \subseteq Runs /\ \A q \in x.todo : Rows'[q].start # 0
      BY <1>3, <2>4, <2>8
    <3> QED
      BY <2>5, <2>8, <2>9, <3>1, <3>2, ProcsStep
  <2>13. AloneHolds'
    <3> SUFFICES ASSUME alone PROVE AloneHolds'
      BY <1>1 DEF AloneHolds
    <3>1. /\ \A q \in Procs : proc[q].at # "down" => q = p
          /\ job[r].by = X!Gone /\ X!On("abandoned", r) = {}
          /\ AloneFinds(proc[p])
      <4>1. proc[p].at # "down"
        BY <1>1
      <4>2. AloneFinds(proc[p])
        BY <4>1 DEF RunsIInv, AloneHolds
      <4> QED
        BY <1>3, <4>1, <4>2, Found
    <3>2. \A q \in Procs : proc'[q].at # "down" => q = p
      BY <2>9, <3>1
    <3>3. AloneFinds(proc[p])'
      <4>1. \A q \in Runs : Rows'[q].start \in 1 .. x.seq => job'[q].by = X!Gone
        BY <1>1, <2>4, <2>8, <3>1 DEF AloneFinds
      <4>2. \A q \in x.todo : job'[q].by = X!Gone /\ X!On("abandoned", q)' = {}
        BY <1>1, <1>3, <2>6, <2>8, <3>1 DEF AloneFinds
      <4>3. x.at # "rebuild"
        BY <2>8
      <4> QED
        BY <2>9, <4>1, <4>2, <4>3 DEF AloneFinds
    <3>4. AloneRun(r)'
      <4>1. AloneRun(r) /\ RowHolds(Rows[r], X!On("start", r), X!On("end", r), X!On("abandoned", r))
        BY <1>3, JobParts
      <4>2. Rows[r].status # "abandoned" /\ (Rows[r].end = 0 => Rows[r].status = "open")
        BY <1>3, <3>1, <4>1 DEF RowHolds, RunRow
      <4>3. \/ index'[r] = Rows'[r] \/ job'[r].at \in {"started", "ended"}
            \/ Rows'[r].status = "abandoned" /\ index'[r].status = "open"
        BY <1>1, <2>2, <2>3, <4>1, <4>2 DEF AloneRun
      <4>4. \A i, j \in X!On("abandoned", r)' : i = j
        BY <2>6, <3>1
      <4>5. job'[r].at \in {"running", "ended"} => index'[r] # X!NoRow
        BY <1>1, <4>1 DEF AloneRun
      <4> QED
        BY <1>1, <3>1, <4>3, <4>4, <4>5 DEF AloneRun
    <3>5. ASSUME NEW q \in Runs, q # r PROVE AloneRun(q)'
      <4>1. AloneRun(q) /\ Rows'[q] = Rows[q] /\ X!On("abandoned", q)' = X!On("abandoned", q)
        BY <2>2, <2>6, <3>5, JobParts
      <4> QED
        BY <1>1, <4>1, AloneRunStays
    <3> QED
      BY <3>2, <3>3, <3>4, <3>5 DEF AloneHolds
  <2> QED
    BY <1>1, <2>2, <2>5, <2>10, <2>11, <2>12, <2>13 DEF RunsIInv, Grows, X!RunsAssumption
<1> QED
  BY <1>2, <1>4, <1>5

(* The chain begins empty, and nobody is there.                             *)
LEMMA RunsInit == ASSUME X!RunsAssumption, X!Init PROVE RunsIInv
<1>1. /\ chain = <<>> /\ index = NoRows /\ alone = TRUE
      /\ proc = [p \in Procs |-> X!Down] /\ job = [r \in Runs |-> X!NoJob]
  BY DEF X!Init, NoRows
<1>2. Rows = NoRows /\ \A r \in Runs : Rows[r] = X!NoRow
  BY <1>1, DeriveEmpty DEF Rows, NoRows
<1>3. \A a, r : X!On(a, r) = {}
  BY <1>1 DEF X!On
<1>4. /\ X!NoRow \in RunRow /\ X!NoRow.start = 0 /\ X!NoRow.end = 0 /\ X!NoRow.status = "none"
  BY DEF X!NoRow, RunRow
<1>5. chain \in Seq(Markers) /\ Len(chain) = 0
  BY <1>1
<1>6. RowsHold
  <2>1. RowHolds(X!NoRow, {}, {}, {})
    BY <1>4 DEF RowHolds
  <2>2. \A r \in Runs : RowHolds(Rows[r], X!On("start", r), X!On("end", r), X!On("abandoned", r))
    BY <1>2, <1>3, <2>1
  <2>3. Rows = [r \in Runs |-> Rows[r]]
    BY <1>2 DEF NoRows
  <2> QED
    BY <2>2, <2>3 DEF RowsHold
<1>7. index = [r \in Runs |-> index[r]] /\ BackedRows(index)
  BY <1>1, <1>4 DEF NoRows, BackedRows, Backed
<1>8. JobsHold
  <2>1. \A r \in Runs : job[r] = [at |-> "none", by |-> X!Gone]
    BY <1>1 DEF X!NoJob
  <2>2. \A r \in Runs : job[r] = [at |-> job[r].at, by |-> job[r].by] /\ job[r].at = "none"
                        /\ job[r].by = X!Gone
    BY <2>1
  <2>3. job = [r \in Runs |-> job[r]]
    BY <1>1
  <2>4. job = [r \in Runs |-> [at |-> job[r].at, by |-> job[r].by]]
    BY <2>2, <2>3
  <2>5. \A r \in Runs : JobHolds(job[r], Rows[r])
    BY <1>2, <1>4, <2>2 DEF JobHolds, JobAts
  <2> QED
    BY <2>2, <2>4, <2>5 DEF JobsHold
<1>9. ProcsHold
  <2>1. /\ DOMAIN X!Down = {"at", "seq", "todo", "marked", "read"} /\ X!Down.at = "down"
        /\ X!Down.seq = 0 /\ X!Down.todo = {}
    BY DEF X!Down
  <2>2. ProcHolds(X!Down)
    BY <1>5, <2>1 DEF ProcHolds, ProcAts
  <2> QED
    BY <1>1, <2>2 DEF ProcsHold
<1>10. AloneHolds
  <2>1. \A p \in Procs : proc[p].at = "down"
    BY <1>1 DEF X!Down
  <2>2. \A r \in Runs : AloneRun(r)
    BY <1>1, <1>2, <1>3 DEF AloneRun, X!NoJob, NoRows
  <2> QED
    BY <2>1, <2>2 DEF AloneHolds
<1> QED
  BY <1>5, <1>6, <1>7, <1>8, <1>9, <1>10 DEF RunsIInv

LEMMA RunsNext == ASSUME RunsIInv, [X!Next]_X!vars PROVE RunsIInv'
<1>1. CASE UNCHANGED X!vars
  <2>1. UNCHANGED <<chain, index, proc, job, alone>>
    BY <1>1 DEF X!vars
  <2>2. Rows' = Rows /\ (\A a, r : X!On(a, r)' = X!On(a, r)) /\ Grows
    BY <2>1, SameRows
  <2>3. /\ index' = [q \in Runs |-> index'[q]] /\ BackedRows(index)' /\ JobsHold' /\ ProcsHold'
    BY <2>1, <2>2, IndexStays, JobsStay, ProcsStay
  <2>4. AloneHolds'
    <3>1. \A q \in Runs : AloneRun(q) => AloneRun(q)'
      BY <2>1, <2>2, AloneRunStays
    <3>2. \A q \in Procs : AloneFinds(proc[q]) => AloneFinds(proc[q])'
      BY <2>1, <2>2, ProcParts DEF AloneFinds
    <3> QED
      BY <2>1, <3>1, <3>2 DEF RunsIInv, AloneHolds
  <2> QED
    BY <2>1, <2>2, <2>3, <2>4 DEF RunsIInv, Grows, X!RunsAssumption
<1>2. CASE X!Next
  BY <1>2, BootKeeps, AskAbandonKeeps, AbandonDeriveKeeps, AbandonMarkKeeps, AbandonEndsKeeps,
     RebuildKeeps, CrashKeeps, BeginRunKeeps, IndexStartKeeps, FinishRunKeeps, IndexEndKeeps
     DEF X!Next
<1> QED
  BY <1>1, <1>2

(* A run has one mark at most: its places are one and the same.             *)
LEMMA AtMostOne ==
    ASSUME NEW S, \A i, j \in S : i = j
    PROVE  Cardinality(S) <= 1
<1>1. CASE S = {}
  BY <1>1, FS_EmptySet
<1>2. CASE S # {}
  <2>1. PICK i \in S : TRUE
    BY <1>2
  <2>2. S = {i}
    BY <2>1
  <2>3. Cardinality({i}) = 1
    BY FS_Singleton
  <2> QED
    BY <2>2, <2>3
<1> QED
  BY <1>1, <1>2

(* A record ends at its run's own closing event.                            *)
LEMMA RecordsEndWhole == ASSUME RunsIInv PROVE X!RecordEndsAtItsOwn
<1>0. SUFFICES ASSUME NEW r \in Runs, NEW i, i = X!RunEnd(r, Rows[r], chain), i # 0
      PROVE  /\ chain[i].run = r /\ i > Rows[r].start
             /\ chain[i].act = (IF Rows[r].status = "ok" THEN "end" ELSE "abandoned")
  BY DEF X!RecordEndsAtItsOwn, Rows
<1>1. RowHolds(Rows[r], X!On("start", r), X!On("end", r), X!On("abandoned", r)) /\ Rows[r] \in RunRow
  BY JobParts DEF RowHolds
<1>2. CASE Rows[r].end # 0
  <2>1. /\ i = Rows[r].end /\ i \in X!On("end", r) /\ Rows[r].start < i
        /\ Rows[r].status = "ok"
    BY <1>0, <1>1, <1>2 DEF X!RunEnd, RowHolds
  <2>2. i \in Nat /\ Rows[r].start \in Nat
    BY <1>1, <2>1 DEF RunRow
  <2>3. chain[i].run = r /\ chain[i].act = "end"
    BY <2>1 DEF X!On
  <2> QED
    BY <2>1, <2>2, <2>3
<1>3. CASE Rows[r].end = 0
  <2> DEFINE S == X!AbandonedEnd(r, Rows[r], chain)
  <2>1. S \subseteq Nat
    BY DEF X!AbandonedEnd
  <2>2. /\ Rows[r].status = "abandoned" /\ S # {}
        /\ i = CHOOSE k \in S : \A j \in S : k <= j
    BY <1>0, <1>3 DEF X!RunEnd
  <2>3. i \in S
    <3>1. \E k \in S : \A j \in S : k <= j
      BY <2>1, <2>2, LeastNumber
    <3> QED
      BY <2>2, <3>1
  <2>4. i > Rows[r].start /\ chain[i].act = "abandoned" /\ chain[i].run = r
    BY <2>3 DEF X!AbandonedEnd
  <2> QED
    BY <2>2, <2>4
<1> QED
  BY <1>2, <1>3

LEMMA CountedAlike == \A S : X!Cardinality(S) = Cardinality(S)
BY DEF X!Cardinality, Cardinality

LEMMA RunsSafe == ASSUME RunsIInv PROVE X!IndexInv
<1>1. X!DeriveIsTrue
  <2>1. ASSUME NEW r \in Runs
        PROVE  /\ Rows[r].status = "ok" <=> X!On("end", r) # {}
               /\ Rows[r].status = "abandoned" <=> X!On("abandoned", r) # {} /\ X!On("end", r) = {}
               /\ Rows[r].start # 0 => Rows[r].start \in X!On("start", r)
    BY JobParts DEF RowHolds
  <2> QED
    BY <2>1 DEF X!DeriveIsTrue, Rows
<1>2. X!IndexIsBacked
  BY JobParts DEF X!IndexIsBacked, Backed
<1>3. X!IndexInStep /\ X!AloneAbandonedIsGone /\ X!AloneAbandonedOnce
  <2>1. ASSUME alone, NEW r \in Runs
        PROVE  /\ X!On("abandoned", r) # {} => job[r].by = X!Gone
               /\ Cardinality(X!On("abandoned", r)) <= 1
               /\ \/ index[r] = Rows[r] \/ job[r].at \in {"started", "ended"}
                  \/ Rows[r].status = "abandoned" /\ index[r].status = "open"
    <3>1. AloneRun(r)
      BY <2>1, JobParts
    <3>2. \A i, j \in X!On("abandoned", r) : i = j
      BY <3>1 DEF AloneRun
    <3>3. Cardinality(X!On("abandoned", r)) <= 1
      BY <3>2, AtMostOne
    <3> QED
      BY <3>1, <3>3 DEF AloneRun
  <2>2. X!AloneAbandonedIsGone
    BY <2>1 DEF X!AloneAbandonedIsGone
  <2>4. X!AloneAbandonedOnce
    BY <2>1, CountedAlike DEF X!AloneAbandonedOnce
  <2>3. X!IndexInStep
    BY <2>1 DEF X!IndexInStep, Rows
  <2> QED
    BY <2>2, <2>3, <2>4
<1> QED
  BY <1>1, <1>2, <1>3, RecordsEndWhole DEF X!IndexInv

(***************************************************************************)
(* For any processes, runs and bounds: what the derivation says of a run   *)
(* is what its markers say, in whatever order they reached the chain; the  *)
(* table holds nothing the chain does not; as long as one process at a     *)
(* time works on the file it lags behind only where two writes were torn,  *)
(* and only runs whose process is gone are abandoned, once; and a record   *)
(* ends at its own run's closing event (derive_runs, abandon_stale_runs,   *)
(* index_run_start, index_run_end, run_end).                               *)
(***************************************************************************)
THEOREM IndexTellsTheChain == ASSUME X!RunsAssumption PROVE X!Spec => []X!IndexInv
<1>1. X!Init => RunsIInv
  BY RunsInit
<1>2. RunsIInv /\ [X!Next]_X!vars => RunsIInv'
  BY RunsNext
<1>3. RunsIInv => X!IndexInv
  BY RunsSafe
<1> QED
  BY <1>1, <1>2, <1>3, PTL DEF X!Spec
=============================================================================
