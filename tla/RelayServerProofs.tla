------------------------- MODULE RelayServerProofs -------------------------
(* Proofs about RelayServer, for any set of nodes, any finite set of        *)
(* connections, whatever is sent on them and however many frames are read;  *)
(* then about Registry: what its readers and writers are given; about       *)
(* SandboxRequests: what becomes of an ask; and, at the end, about what a   *)
(* node makes of a registry it merges.                                      *)
EXTENDS RelayServer, Integers, FiniteSetTheorems, SequenceTheorems, WellFoundedInduction, TLAPS

Fields == {"at", "bound", "frame", "what"}

Whats == {"-", "offline", "recovered"}

ThreadTyped(t) == /\ DOMAIN t = Fields
                  /\ t.at \in Locs /\ t.bound \in BOOLEAN
                  /\ t.frame \in Frame \cup {NoFrame}
                  /\ t.what \in Whats

Rows == [Node -> [state : {"none", "online", "offline"}, judged : BOOLEAN]]

Types == /\ DOMAIN thread = Conn
         /\ \A c \in Conn : ThreadTyped(thread[c])
         /\ guard \in Conn \cup {NoConn}
         /\ sessions \in [Node -> Conn \cup {NoConn}]
         /\ rows \in Rows
         /\ reports \in [Node -> [Node -> {"none", "unreachable", "reachable", "stale"}]]
         /\ frames \in 0 .. MaxFrames
         /\ sink \in Seq([what : Whats, peer : Node])
         /\ last \in [Node -> Conn \cup {NoConn}]

(* The replay guard is held by the thread that pushes, and by no other. *)
GuardExclusive == \A c \in Conn : guard = c <=> thread[c].at = "pushing"

(* What a thread holds at each point of serve_connection and answer_local. *)
ShapeOf(at, bound, frame, what) ==
    /\ at \in {"gone", "binding"} => ~bound
    /\ what # "-" <=> at \in {"hearing", "firing"}
    /\ at \in {"judging", "marking"} => frame.kind = "unreachable"
    /\ at = "clearing" => frame.kind \in {"beat", "reachable"}
    /\ at = "hearing" => frame.kind = "reachable"
    /\ at = "firing" => frame.kind \in {"unreachable", "beat", "reachable"}

ThreadShape(t) == ShapeOf(t.at, t.bound, t.frame, t.what)

ThreadShapes == \A c \in Conn : ThreadShape(thread[c])

(* A node binds on its own connections. *)
LastIsOwn == \A n \in Node : last[n] # NoConn => Owner[last[n]] = n

(* The witness a judgement rests on, and that the mark it leads to will rest on. *)
Witnessed(p) == \E w \in Node \ {p} : reports[p][w] # "none" /\ rows[w].state # "none"

MarkingWitnessed == \A c \in Conn : thread[c].at = "marking" => Witnessed(About(c))

Shape == Types /\ GuardExclusive /\ ThreadShapes

SessionIInv == Shape /\ LastIsOwn /\ SessionIsNewest

JudgementIInv == Shape /\ TransitionsMatchRows /\ JudgedByOthers /\ MarkingWitnessed

-----------------------------------------------------------------------------
(* The thread of c goes to a place with what it then holds; the others stay. *)
Becomes(c, at, frame, what) ==
    /\ DOMAIN thread' = Conn /\ DOMAIN thread'[c] = Fields
    /\ \A d \in Conn \ {c} : thread'[d] = thread[d]
    /\ thread'[c].at = at /\ thread'[c].bound \in BOOLEAN
    /\ thread'[c].frame = frame /\ thread'[c].what = what

LEMMA GotoBecomes ==
    ASSUME Types, NEW c \in Conn, NEW loc \in Locs, Goto(c, loc)
    PROVE  Becomes(c, loc, thread[c].frame, thread[c].what) /\ thread'[c].bound = thread[c].bound
BY DEF Goto, Types, ThreadTyped, Becomes, Fields

LEMMA BackBecomes ==
    ASSUME Types, NEW c \in Conn, Back(c)
    PROVE  Becomes(c, "reading", NoFrame, "-") /\ thread'[c].bound = thread[c].bound
BY DEF Back, Types, ThreadTyped, Becomes, Fields

(* Where a frame that was routed goes on. *)
LEMMA AfterBindBecomes ==
    ASSUME Types, NEW c \in Conn, thread' = [thread EXCEPT ![c] = AfterBind(c)]
    PROVE  \/ Becomes(c, "reading", NoFrame, "-") /\ thread'[c].bound
           \/ Becomes(c, "answering", thread[c].frame, thread[c].what) /\ thread'[c].bound
BY DEF AfterBind, Types, ThreadTyped, Becomes, Fields

LEMMA RoutedBecomes ==
    ASSUME Types, NEW c \in Conn, thread' = [thread EXCEPT ![c] = Routed(c)]
    PROVE  \/ thread[c].bound /\ Becomes(c, "reading", NoFrame, "-") /\ thread'[c].bound
           \/ thread[c].bound /\ Becomes(c, "answering", thread[c].frame, thread[c].what) /\ thread'[c].bound
           \/ ~thread[c].bound /\ Becomes(c, "binding", thread[c].frame, thread[c].what) /\ ~thread'[c].bound
<1>1. CASE thread[c].bound
  BY <1>1, AfterBindBecomes DEF Routed
<1>2. CASE ~thread[c].bound
  BY <1>2 DEF Routed, Types, ThreadTyped, Becomes, Fields
<1> QED
  BY <1>1, <1>2

LEMMA BindFailsBecomes ==
    ASSUME Types, NEW c \in Conn,
           thread' = [thread EXCEPT ![c] = [AfterBind(c) EXCEPT !.bound = FALSE]]
    PROVE  \/ Becomes(c, "reading", NoFrame, "-") /\ ~thread'[c].bound
           \/ Becomes(c, "answering", thread[c].frame, thread[c].what) /\ ~thread'[c].bound
BY DEF AfterBind, Types, ThreadTyped, Becomes, Fields

(* A frame that reports, and a beat, are about a node. *)
LEMMA AboutNode ==
    ASSUME Types, NEW c \in Conn,
           thread[c].frame.kind \in {"unreachable", "reachable", "beat"}
    PROVE  About(c) \in Node
<1>1. thread[c].frame \in Frame
  <2>1. NoFrame.kind = "none"
    BY DEF NoFrame
  <2> QED
    BY <2>1 DEF Types, ThreadTyped
<1>2. thread[c].frame.kind # "beat" => thread[c].frame.about \in Node
  BY <1>1 DEF Frame
<1> QED
  BY <1>2, RelayAssumption DEF About

-----------------------------------------------------------------------------
(* Shape is inductive.  A thread that goes to a place with what belongs     *)
(* there leaves every thread in shape.                                      *)
ThreadsInShape == /\ DOMAIN thread = Conn
                  /\ \A c \in Conn : ThreadTyped(thread[c]) /\ ThreadShape(thread[c])

LEMMA ThreadStep ==
    ASSUME Types, ThreadShapes, NEW c \in Conn,
           NEW at \in Locs, NEW frame \in Frame \cup {NoFrame},
           NEW what \in Whats, Becomes(c, at, frame, what), ShapeOf(at, thread'[c].bound, frame, what)
    PROVE  ThreadsInShape'
<1>1. ThreadTyped(thread'[c]) /\ ThreadShape(thread'[c])
  BY DEF Becomes, ThreadTyped, ThreadShape
<1>2. \A d \in Conn \ {c} : ThreadTyped(thread'[d]) /\ ThreadShape(thread'[d])
  BY DEF Becomes, Types, ThreadShapes
<1> QED
  BY <1>1, <1>2 DEF Becomes, ThreadsInShape

(* The guard is not involved in a step to or from any other place. *)
LEMMA GuardStep ==
    ASSUME GuardExclusive, NEW c \in Conn, NEW at, NEW frame, NEW what,
           Becomes(c, at, frame, what), at # "pushing", thread[c].at # "pushing",
           guard' = guard
    PROVE  GuardExclusive'
BY DEF GuardExclusive, Becomes

(* The tables of a step that touches none of them. *)
TablesTyped == /\ guard \in Conn \cup {NoConn}
               /\ sessions \in [Node -> Conn \cup {NoConn}]
               /\ rows \in Rows
               /\ reports \in [Node -> [Node -> {"none", "unreachable", "reachable", "stale"}]]
               /\ frames \in 0 .. MaxFrames
               /\ sink \in Seq([what : Whats, peer : Node])
               /\ last \in [Node -> Conn \cup {NoConn}]

LEMMA ShapeParts == /\ Shape <=> ThreadsInShape /\ TablesTyped /\ GuardExclusive
                    /\ Shape' <=> ThreadsInShape' /\ TablesTyped' /\ GuardExclusive'
BY DEF Shape, ThreadsInShape, TablesTyped, Types, ThreadShapes

LEMMA StepKeepsShape ==
    ASSUME Shape, TablesTyped', guard' = guard, NEW c \in Conn, thread[c].at # "pushing",
           NEW at \in Locs \ {"pushing"}, NEW frame \in Frame \cup {NoFrame},
           NEW what \in Whats, Becomes(c, at, frame, what), ShapeOf(at, thread'[c].bound, frame, what)
    PROVE  Shape'
<1>1. ThreadsInShape'
  BY ThreadStep DEF Shape
<1>2. GuardExclusive'
  BY GuardStep DEF Shape
<1> QED
  BY <1>1, <1>2, ShapeParts

LEMMA ThreadIn ==
    ASSUME Shape, NEW c \in Conn
    PROVE  ThreadTyped(thread[c]) /\ ThreadShape(thread[c]) /\ NoFrame.kind = "none"
BY DEF Shape, Types, ThreadShapes, NoFrame

(* The frame is given up and the thread reads again. *)
LEMMA BackKeepsShape ==
    ASSUME Shape, TablesTyped', guard' = guard, NEW c \in Conn, Back(c), thread[c].at # "pushing",
           thread[c].at \notin {"gone", "binding"} \/ ~thread[c].bound
    PROVE  Shape'
<1>1. Becomes(c, "reading", NoFrame, "-") /\ thread'[c].bound = thread[c].bound
  BY BackBecomes DEF Shape
<1>2. ShapeOf("reading", thread[c].bound, NoFrame, "-") /\ thread[c].bound \in BOOLEAN
  BY ThreadIn DEF ShapeOf, ThreadTyped
<1> QED
  BY <1>1, <1>2, StepKeepsShape DEF Locs, Whats

(* A thread goes elsewhere with the frame it holds. *)
LEMMA GotoKeepsShape ==
    ASSUME Shape, TablesTyped', guard' = guard, NEW c \in Conn, thread[c].at # "pushing",
           NEW loc \in Locs \ {"pushing"}, Goto(c, loc),
           ShapeOf(loc, thread[c].bound, thread[c].frame, thread[c].what)
    PROVE  Shape'
<1>1. Becomes(c, loc, thread[c].frame, thread[c].what) /\ thread'[c].bound = thread[c].bound
  BY GotoBecomes DEF Shape
<1>2. /\ thread[c].bound \in BOOLEAN /\ thread[c].frame \in Frame \cup {NoFrame}
      /\ thread[c].what \in Whats
  BY ThreadIn DEF ThreadTyped
<1> QED
  BY <1>1, <1>2, StepKeepsShape

(* The steps that only move a thread. *)
LEMMA MovesKeepShape ==
    ASSUME Shape, NEW c \in Conn,
           \/ AcceptConnection(c) \/ Hangup(c) \/ RouteLocal(c) \/ RouteRefused(c)
           \/ BindFails(c) \/ AnswerHello(c) \/ Judge(c)
    PROVE  Shape'
<1>1. ThreadTyped(thread[c]) /\ ThreadShape(thread[c]) /\ NoFrame.kind = "none"
  BY ThreadIn
<1>2. TablesTyped'
  BY DEF Shape, Types, TablesTyped, AcceptConnection, Hangup, RouteLocal, RouteRefused, BindFails,
         AnswerHello, Judge, tables
<1> USE <1>1 DEF ThreadTyped, ThreadShape, ShapeOf, Locs, Whats, At
<1>3. CASE AcceptConnection(c)
  BY <1>2, <1>3, GotoKeepsShape DEF AcceptConnection
<1>4. CASE Hangup(c)
  BY <1>2, <1>4, GotoKeepsShape DEF Hangup
<1>5. CASE RouteLocal(c)
  <2>1. thread' = [thread EXCEPT ![c] = Routed(c)] /\ guard' = guard /\ thread[c].at = "routing"
    BY <1>5 DEF RouteLocal
  <2>2. CASE thread[c].bound /\ Becomes(c, "reading", NoFrame, "-") /\ thread'[c].bound
    BY <1>2, <2>1, <2>2, StepKeepsShape
  <2>3. CASE thread[c].bound /\ Becomes(c, "answering", thread[c].frame, thread[c].what) /\ thread'[c].bound
    BY <1>2, <2>1, <2>3, StepKeepsShape
  <2>4. CASE ~thread[c].bound /\ Becomes(c, "binding", thread[c].frame, thread[c].what) /\ ~thread'[c].bound
    BY <1>2, <2>1, <2>4, StepKeepsShape
  <2> QED
    BY <2>1, <2>2, <2>3, <2>4, RoutedBecomes DEF Shape
<1>6. CASE RouteRefused(c)
  BY <1>2, <1>6, BackKeepsShape DEF RouteRefused
<1>7. CASE BindFails(c)
  <2>1. \/ Becomes(c, "reading", NoFrame, "-") /\ ~thread'[c].bound
        \/ Becomes(c, "answering", thread[c].frame, thread[c].what) /\ ~thread'[c].bound
    BY <1>7, BindFailsBecomes DEF BindFails, Shape
  <2>2. thread[c].at = "binding" /\ guard' = guard
    BY <1>7 DEF BindFails
  <2> QED
    BY <1>2, <2>1, <2>2, StepKeepsShape
<1>8. CASE AnswerHello(c)
  BY <1>2, <1>8, BackKeepsShape DEF AnswerHello
<1>9. CASE Judge(c)
  <2>1. CASE Goto(c, "marking")
    BY <1>2, <1>9, <2>1, GotoKeepsShape DEF Judge
  <2>2. CASE Back(c)
    BY <1>2, <1>9, <2>2, BackKeepsShape DEF Judge
  <2> QED
    BY <1>9, <2>1, <2>2 DEF Judge
<1> QED
  BY <1>3, <1>4, <1>5, <1>6, <1>7, <1>8, <1>9

LEMMA ReadBecomes ==
    ASSUME Types, NEW c \in Conn, NEW f, ReadFrame(c, f)
    PROVE  Becomes(c, "routing", f, thread[c].what) /\ thread'[c].bound = thread[c].bound
BY DEF ReadFrame, Becomes, Types, ThreadTyped, Fields

LEMMA ReadKeepsShape ==
    ASSUME Shape, NEW c \in Conn, NEW f \in Talk[c], ReadFrame(c, f)
    PROVE  Shape'
<1>1. ThreadTyped(thread[c]) /\ ThreadShape(thread[c]) /\ thread[c].at = "reading" /\ guard' = guard
  BY ThreadIn DEF ReadFrame, At
<1>2. TablesTyped'
  BY RelayAssumption DEF Shape, Types, TablesTyped, ReadFrame, tables
<1>3. f \in Frame
  BY RelayAssumption
<1>4. Becomes(c, "routing", f, thread[c].what) /\ thread'[c].bound = thread[c].bound
  BY ReadBecomes DEF Shape
<1>5. ShapeOf("routing", thread[c].bound, f, thread[c].what)
  BY <1>1 DEF ThreadShape, ShapeOf
<1> QED
  BY <1>1, <1>2, <1>3, <1>4, <1>5, StepKeepsShape DEF Locs, ThreadTyped

(* The guard is taken for a push, and given back when it ends. *)
LEMMA PushesKeepShape ==
    ASSUME Shape, NEW c \in Conn, RouteCarry(c) \/ Push(c) \/ PushFails(c)
    PROVE  Shape'
<1>1. ThreadTyped(thread[c]) /\ ThreadShape(thread[c]) /\ NoFrame.kind = "none"
  BY ThreadIn
<1>2. TablesTyped'
  BY DEF Shape, Types, TablesTyped, RouteCarry, Push, PushFails, tables
<1>3. Types /\ ThreadShapes /\ GuardExclusive
  BY DEF Shape
<1> USE <1>1 DEF ThreadTyped, ThreadShape, ShapeOf, Locs, Whats, At
<1>4. CASE RouteCarry(c)
  <2>1. Becomes(c, "pushing", thread[c].frame, thread[c].what) /\ thread'[c].bound = thread[c].bound
    BY <1>3, <1>4, GotoBecomes DEF RouteCarry
  <2>2. ThreadsInShape'
    BY <1>3, <1>4, <2>1, ThreadStep DEF RouteCarry
  <2>3. GuardExclusive'
    BY <1>3, <1>4, <2>1, RelayAssumption DEF RouteCarry, GuardExclusive, Becomes
  <2> QED
    BY <1>2, <2>2, <2>3, ShapeParts
<1>5. ASSUME guard' = NoConn, thread[c].at = "pushing",
             NEW at \in {"reading", "answering", "binding"}, NEW frame, NEW what,
             Becomes(c, at, frame, what)
      PROVE  GuardExclusive'
  BY <1>3, <1>5, RelayAssumption DEF GuardExclusive, Becomes
<1>6. CASE Push(c)
  <2>1. thread' = [thread EXCEPT ![c] = Routed(c)] /\ guard' = NoConn /\ thread[c].at = "pushing"
    BY <1>6 DEF Push
  <2>2. CASE thread[c].bound /\ Becomes(c, "reading", NoFrame, "-") /\ thread'[c].bound
    BY <1>2, <1>3, <1>5, <2>1, <2>2, ThreadStep, ShapeParts
  <2>3. CASE thread[c].bound /\ Becomes(c, "answering", thread[c].frame, thread[c].what) /\ thread'[c].bound
    BY <1>2, <1>3, <1>5, <2>1, <2>3, ThreadStep, ShapeParts
  <2>4. CASE ~thread[c].bound /\ Becomes(c, "binding", thread[c].frame, thread[c].what) /\ ~thread'[c].bound
    BY <1>2, <1>3, <1>5, <2>1, <2>4, ThreadStep, ShapeParts
  <2> QED
    BY <1>3, <2>1, <2>2, <2>3, <2>4, RoutedBecomes
<1>7. CASE PushFails(c)
  <2>1. Becomes(c, "reading", NoFrame, "-") /\ thread'[c].bound = thread[c].bound
    BY <1>3, <1>7, BackBecomes DEF PushFails
  <2> QED
    BY <1>2, <1>3, <1>5, <1>7, <2>1, ThreadStep, ShapeParts DEF PushFails
<1> QED
  BY <1>4, <1>6, <1>7

(* The steps on the session table. *)
LEMMA SessionStepsKeepShape ==
    ASSUME Shape, NEW c \in Conn, Bind(c) \/ Unbind(c)
    PROVE  Shape'
<1>1. ThreadTyped(thread[c]) /\ ThreadShape(thread[c]) /\ NoFrame.kind = "none"
  BY ThreadIn
<1>2. TablesTyped'
  <2>1. Types /\ Owner[c] \in Node
    BY RelayAssumption DEF Shape
  <2>2. CASE Bind(c)
    BY <2>1, <2>2 DEF Types, TablesTyped, Bind
  <2>3. CASE Unbind(c)
    <3>1. sessions' \in [Node -> Conn \cup {NoConn}]
      BY <2>1, <2>3 DEF Types, Unbind
    <3> QED
      BY <2>1, <2>3, <3>1 DEF Types, TablesTyped, Unbind
  <2> QED
    BY <2>2, <2>3
<1> USE <1>1 DEF ThreadTyped, ThreadShape, ShapeOf, Locs, Whats, At
<1>3. CASE Bind(c)
  <2>1. \/ Becomes(c, "reading", NoFrame, "-") /\ thread'[c].bound
        \/ Becomes(c, "answering", thread[c].frame, thread[c].what) /\ thread'[c].bound
    BY <1>3, AfterBindBecomes DEF Bind, Shape
  <2>2. thread[c].at = "binding" /\ guard' = guard
    BY <1>3 DEF Bind
  <2> QED
    BY <1>2, <2>1, <2>2, StepKeepsShape
<1>4. CASE Unbind(c)
  <2>1. Becomes(c, "gone", NoFrame, "-") /\ ~thread'[c].bound
    BY <1>4 DEF Unbind, Gone, Becomes, Fields, Shape, Types
  <2>2. thread[c].at = "ended" /\ guard' = guard
    BY <1>4 DEF Unbind
  <2> QED
    BY <1>2, <2>1, <2>2, StepKeepsShape
<1> QED
  BY <1>3, <1>4

LEMMA RowPut ==
    ASSUME NEW rs \in Rows, NEW p \in Node, NEW st \in {"none", "online", "offline"}
    PROVE  /\ [rs EXCEPT ![p].judged = TRUE] \in Rows
           /\ [rs EXCEPT ![p].judged = FALSE] \in Rows
           /\ [rs EXCEPT ![p].state = st] \in Rows
BY DEF Rows

(* answer_local: a registration, a beat and a report. *)
LEMMA AnswersKeepShape ==
    ASSUME Shape, NEW c \in Conn, AnswerRegister(c) \/ AnswerBeat(c) \/ AnswerReport(c)
    PROVE  Shape'
<1>1. ThreadTyped(thread[c]) /\ ThreadShape(thread[c]) /\ NoFrame.kind = "none"
  BY ThreadIn
<1>2. Types /\ Owner[c] \in Node
  BY RelayAssumption DEF Shape
<1> USE <1>1 DEF ThreadTyped, ThreadShape, ShapeOf, Locs, Whats, At
<1>3. CASE AnswerRegister(c)
  <2>1. TablesTyped'
    BY <1>2, <1>3, RowPut DEF AnswerRegister, Types, TablesTyped
  <2> QED
    BY <1>3, <2>1, BackKeepsShape DEF AnswerRegister
<1>4. CASE AnswerBeat(c)
  <2>1. TablesTyped'
    BY <1>2, <1>4, RowPut DEF AnswerBeat, Types, TablesTyped
  <2>2. CASE Back(c)
    BY <1>4, <2>1, <2>2, BackKeepsShape DEF AnswerBeat
  <2>3. CASE Goto(c, "clearing")
    BY <1>4, <2>1, <2>3, GotoKeepsShape DEF AnswerBeat
  <2> QED
    BY <1>4, <2>2, <2>3 DEF AnswerBeat
<1>5. CASE AnswerReport(c)
  <2>1. About(c) \in Node /\ thread[c].frame.kind \in {"unreachable", "reachable"}
    BY <1>2, <1>5, AboutNode DEF AnswerReport
  <2>2. TablesTyped'
    <3>1. thread[c].frame.kind \in {"none", "unreachable", "reachable", "stale"}
      BY <2>1
    <3>2. reports' \in [Node -> [Node -> {"none", "unreachable", "reachable", "stale"}]]
      BY <1>2, <1>5, <2>1, <3>1 DEF AnswerReport, Types
    <3> QED
      BY <1>2, <1>5, <3>2 DEF AnswerReport, Types, TablesTyped
  <2>3. CASE thread[c].frame.kind = "reachable"
    BY <1>5, <2>2, <2>3, GotoKeepsShape DEF AnswerReport
  <2>4. CASE thread[c].frame.kind = "unreachable"
    BY <1>5, <2>2, <2>4, GotoKeepsShape DEF AnswerReport
  <2> QED
    BY <2>1, <2>3, <2>4
<1> QED
  BY <1>3, <1>4, <1>5

LEMMA ToFireBecomes ==
    ASSUME Types, NEW c \in Conn, NEW loc \in {"hearing", "firing"},
           NEW what \in {"offline", "recovered"}, ToFire(c, loc, what)
    PROVE  Becomes(c, loc, thread[c].frame, what) /\ thread'[c].bound = thread[c].bound
BY DEF ToFire, Types, ThreadTyped, Becomes, Fields

(* The mark is set, taken back, and handed to the sink. *)
LEMMA JudgementsKeepShape ==
    ASSUME Shape, NEW c \in Conn, MarkJudged(c) \/ ClearJudged(c) \/ HeardFrom(c) \/ Fire(c)
    PROVE  Shape'
<1>1. ThreadTyped(thread[c]) /\ ThreadShape(thread[c]) /\ NoFrame.kind = "none"
  BY ThreadIn
<1> USE <1>1 DEF ThreadTyped, ThreadShape, ShapeOf, Locs, Whats, At
<1>2. Types /\ About(c) \in Node
  BY AboutNode DEF Shape, MarkJudged, ClearJudged, HeardFrom, Fire
<1>3. CASE MarkJudged(c)
  <2>1. TablesTyped'
    BY <1>2, <1>3, RowPut DEF MarkJudged, Types, TablesTyped
  <2>2. CASE Back(c)
    BY <1>3, <2>1, <2>2, BackKeepsShape DEF MarkJudged
  <2>3. CASE ToFire(c, "firing", "offline")
    BY <1>2, <1>3, <2>1, <2>3, ToFireBecomes, StepKeepsShape DEF MarkJudged
  <2> QED
    BY <1>3, <2>2, <2>3 DEF MarkJudged
<1>4. CASE ClearJudged(c)
  <2>1. TablesTyped'
    BY <1>2, <1>4, RowPut DEF ClearJudged, Types, TablesTyped
  <2>2. CASE Back(c)
    BY <1>4, <2>1, <2>2, BackKeepsShape DEF ClearJudged
  <2>3. CASE thread[c].frame.kind = "reachable" /\ ToFire(c, "hearing", "recovered")
    BY <1>2, <1>4, <2>1, <2>3, ToFireBecomes, StepKeepsShape DEF ClearJudged
  <2>4. CASE thread[c].frame.kind # "reachable" /\ ToFire(c, "firing", "recovered")
    BY <1>2, <1>4, <2>1, <2>4, ToFireBecomes, StepKeepsShape DEF ClearJudged
  <2> QED
    BY <1>4, <2>2, <2>3, <2>4 DEF ClearJudged
<1>5. CASE HeardFrom(c)
  <2>1. TablesTyped'
    BY <1>2, <1>5, RowPut DEF HeardFrom, Types, TablesTyped
  <2> QED
    BY <1>5, <2>1, GotoKeepsShape DEF HeardFrom
<1>6. CASE Fire(c)
  <2>1. [what |-> thread[c].what, peer |-> About(c)] \in [what : Whats, peer : Node]
    BY <1>2
  <2>2. TablesTyped'
    BY <1>2, <1>6, <2>1 DEF Fire, Types, TablesTyped
  <2> QED
    BY <1>6, <2>2, BackKeepsShape DEF Fire
<1> QED
  BY <1>3, <1>4, <1>5, <1>6

(* Time passes. *)
LEMMA AgesKeepShape ==
    ASSUME Shape, \/ \E n \in Node : RowAges(n)
                  \/ \E p, w \in Node : ReportAges(p, w)
    PROVE  Shape'
<1>1. ASSUME NEW n \in Node, RowAges(n)
      PROVE  Shape'
  <2>1. rows' \in Rows
    BY <1>1, RowPut DEF RowAges, Shape, Types
  <2> QED
    BY <1>1, <2>1 DEF RowAges, Shape, Types, ThreadShapes, GuardExclusive
<1>2. ASSUME NEW p \in Node, NEW w \in Node, ReportAges(p, w)
      PROVE  Shape'
  <2>1. reports' \in [Node -> [Node -> {"none", "unreachable", "reachable", "stale"}]]
    BY <1>2 DEF ReportAges, Shape, Types
  <2> QED
    BY <1>2, <2>1 DEF ReportAges, Shape, Types, ThreadShapes, GuardExclusive
<1> QED
  BY <1>1, <1>2

LEMMA InitShape == Init => Shape
<1> SUFFICES ASSUME Init PROVE Shape
  OBVIOUS
<1>1. Types
  <2>1. ThreadTyped(Gone)
    BY DEF ThreadTyped, Fields, Gone, Locs, Whats
  <2> QED
    BY <2>1, RelayAssumption DEF Init, Types, Rows
<1>2. GuardExclusive /\ ThreadShapes
  BY RelayAssumption DEF Init, GuardExclusive, ThreadShapes, ThreadShape, ShapeOf, Gone
<1> QED
  BY <1>1, <1>2 DEF Shape

LEMMA NextShape == Shape /\ [Next]_vars => Shape'
<1> SUFFICES ASSUME Shape, [Next]_vars PROVE Shape'
  OBVIOUS
<1>1. CASE UNCHANGED vars
  BY <1>1 DEF vars, Shape, Types, ThreadShapes, GuardExclusive
<1> QED
  BY <1>1, MovesKeepShape, ReadKeepsShape, PushesKeepShape, SessionStepsKeepShape, AnswersKeepShape,
     JudgementsKeepShape, AgesKeepShape DEF Next, Works

(* What a thread holds, and that the guard is only ever held for a push.   *)
THEOREM RelayShape == Spec => []Shape
<1> QED
  BY InitShape, NextShape, PTL DEF Spec

-----------------------------------------------------------------------------
(* The session table.  All but a bind and an unbind leave it alone, and     *)
(* leave a bound socket bound and an unbound one unbound.                   *)
SessionsRest == /\ sessions' = sessions /\ last' = last
                /\ \A c \in Conn : thread'[c].bound = thread[c].bound

LEMMA RestKeepsSessions ==
    ASSUME SessionIInv, SessionsRest
    PROVE  LastIsOwn' /\ SessionIsNewest'
BY DEF SessionIInv, Shape, Types, SessionsRest, LastIsOwn, SessionIsNewest

LEMMA BoundRests ==
    ASSUME NEW c \in Conn, NEW at, NEW frame, NEW what, Becomes(c, at, frame, what),
           thread'[c].bound = thread[c].bound, sessions' = sessions, last' = last
    PROVE  SessionsRest
BY DEF Becomes, SessionsRest

LEMMA BackRests ==
    ASSUME Types, NEW c \in Conn, Back(c), sessions' = sessions, last' = last
    PROVE  SessionsRest
BY BackBecomes, BoundRests

LEMMA GotoRests ==
    ASSUME Types, NEW c \in Conn, NEW loc \in Locs, Goto(c, loc), sessions' = sessions, last' = last
    PROVE  SessionsRest
BY GotoBecomes, BoundRests

LEMMA RoutedRests ==
    ASSUME Types, NEW c \in Conn, thread' = [thread EXCEPT ![c] = Routed(c)],
           sessions' = sessions, last' = last
    PROVE  SessionsRest
<1>1. thread'[c].bound = thread[c].bound
  BY RoutedBecomes DEF Becomes, Types, ThreadTyped
<1> QED
  BY <1>1, RoutedBecomes, BoundRests

LEMMA OthersRest ==
    ASSUME Shape, NEW c \in Conn,
           \/ AcceptConnection(c) \/ Hangup(c) \/ \E f \in Talk[c] : ReadFrame(c, f)
           \/ Works(c) /\ ~Bind(c) /\ ~Unbind(c)
    PROVE  SessionsRest
<1>1. Types
  BY DEF Shape
<1> USE <1>1 DEF Locs, tables
<1>2. CASE AcceptConnection(c) \/ Hangup(c)
  BY <1>2, GotoRests DEF AcceptConnection, Hangup
<1>3. CASE \E f \in Talk[c] : ReadFrame(c, f)
  <2>1. PICK f \in Talk[c] : ReadFrame(c, f)
    BY <1>3
  <2> QED
    BY <2>1, ReadBecomes, BoundRests DEF ReadFrame
<1>4. CASE RouteLocal(c) \/ Push(c)
  BY <1>4, RoutedRests DEF RouteLocal, Push
<1>5. CASE RouteRefused(c) \/ PushFails(c) \/ AnswerHello(c) \/ AnswerRegister(c) \/ Fire(c)
  BY <1>5, BackRests DEF RouteRefused, PushFails, AnswerHello, AnswerRegister, Fire
<1>6. CASE RouteCarry(c) \/ HeardFrom(c)
  BY <1>6, GotoRests DEF RouteCarry, HeardFrom
<1>7. CASE AnswerBeat(c) \/ Judge(c)
  BY <1>7, BackRests, GotoRests DEF AnswerBeat, Judge
<1>8. CASE AnswerReport(c)
  BY <1>8, GotoRests DEF AnswerReport
<1>9. CASE MarkJudged(c)
  BY <1>9, BackRests, ToFireBecomes, BoundRests DEF MarkJudged
<1>10. CASE ClearJudged(c)
  BY <1>10, BackRests, ToFireBecomes, BoundRests DEF ClearJudged
<1>11. CASE BindFails(c)
  <2>1. ~thread[c].bound
    BY <1>11 DEF BindFails, At, Shape, ThreadShapes, ThreadShape, ShapeOf
  <2>2. thread'[c].bound = thread[c].bound
    BY <1>11, <2>1, BindFailsBecomes DEF BindFails, Becomes, Types, ThreadTyped
  <2> QED
    BY <1>11, <2>2, BindFailsBecomes, BoundRests DEF BindFails
<1> QED
  BY <1>2, <1>3, <1>4, <1>5, <1>6, <1>7, <1>8, <1>9, <1>10, <1>11 DEF Works

(* SessionTable::bind: the older session of the node is replaced, and with  *)
(* it what the node bound last.                                             *)
LEMMA BindKeepsSessions ==
    ASSUME SessionIInv, NEW c \in Conn, Bind(c)
    PROVE  LastIsOwn' /\ SessionIsNewest'
<1>1. /\ Types /\ Owner[c] \in Node /\ c # NoConn
      /\ sessions' = [sessions EXCEPT ![Owner[c]] = c]
      /\ last' = [last EXCEPT ![Owner[c]] = c]
  BY RelayAssumption DEF SessionIInv, Shape, Bind
<1>2. thread'[c].bound /\ \A d \in Conn \ {c} : thread'[d] = thread[d]
  BY <1>1, AfterBindBecomes DEF Bind, Becomes
<1>3. LastIsOwn'
  BY <1>1 DEF SessionIInv, LastIsOwn, Types
<1>4. SessionIsNewest'
  BY <1>1, <1>2 DEF SessionIInv, LastIsOwn, SessionIsNewest, Types
<1> QED
  BY <1>3, <1>4

(* SessionTable::unbind: a successor's session stays. *)
LEMMA UnbindKeepsSessions ==
    ASSUME SessionIInv, NEW c \in Conn, Unbind(c)
    PROVE  LastIsOwn' /\ SessionIsNewest'
<1>1. /\ Types /\ Owner[c] \in Node /\ c # NoConn /\ NoConn \notin Conn
      /\ sessions' = IF thread[c].bound /\ sessions[Owner[c]] = c
                     THEN [sessions EXCEPT ![Owner[c]] = NoConn] ELSE sessions
      /\ last' = last
  BY RelayAssumption DEF SessionIInv, Shape, Unbind
<1>2. ~thread'[c].bound /\ \A d \in Conn \ {c} : thread'[d] = thread[d]
  BY <1>1 DEF Unbind, Gone, Types
<1>3. LastIsOwn'
  BY <1>1 DEF SessionIInv, LastIsOwn
<1>4. ASSUME NEW n \in Node
      PROVE  sessions'[n] = IF last[n] # NoConn /\ thread'[last[n]].bound
                            THEN last[n] ELSE NoConn
  <2>1. /\ last[n] # NoConn => Owner[last[n]] = n
        /\ sessions[n] = IF last[n] # NoConn /\ thread[last[n]].bound
                         THEN last[n] ELSE NoConn
        /\ last[n] \in Conn \cup {NoConn} /\ DOMAIN sessions = Node
    BY DEF SessionIInv, Shape, Types, LastIsOwn, SessionIsNewest
  <2>2. CASE last[n] = c
    BY <1>1, <1>2, <2>1, <2>2
  <2>3. CASE last[n] # c
    BY <1>1, <1>2, <2>1, <2>3
  <2> QED
    BY <2>2, <2>3
<1>5. SessionIsNewest'
  BY <1>1, <1>4 DEF SessionIsNewest
<1> QED
  BY <1>3, <1>5

(* A node's session is the one it bound last and no entry outlives its      *)
(* socket, however its connections overlap (SessionTable).                  *)
THEOREM SessionIsTheNewest == Spec => []SessionIsNewest
<1>1. Init => SessionIInv
  BY InitShape, RelayAssumption DEF Init, SessionIInv, LastIsOwn, SessionIsNewest
<1>2. SessionIInv /\ [Next]_vars => SessionIInv'
  <2> SUFFICES ASSUME SessionIInv, [Next]_vars PROVE SessionIInv'
    OBVIOUS
  <2>1. Shape /\ Shape'
    BY NextShape DEF SessionIInv
  <2>2. CASE UNCHANGED vars
    <3>1. SessionsRest
      BY <2>2 DEF vars, SessionsRest
    <3> QED
      BY <2>1, <3>1, RestKeepsSessions DEF SessionIInv
  <2>3. CASE \/ \E n \in Node : RowAges(n)
             \/ \E p, w \in Node : ReportAges(p, w)
    BY <2>1, <2>3, RestKeepsSessions DEF RowAges, ReportAges, SessionsRest, SessionIInv
  <2>4. ASSUME NEW c \in Conn,
               \/ AcceptConnection(c) \/ Hangup(c) \/ Works(c) \/ \E f \in Talk[c] : ReadFrame(c, f)
        PROVE  SessionIInv'
    BY <2>1, <2>4, OthersRest, RestKeepsSessions, BindKeepsSessions, UnbindKeepsSessions
       DEF SessionIInv
  <2> QED
    BY <2>2, <2>3, <2>4 DEF Next
<1>3. SessionIInv => SessionIsNewest
  BY DEF SessionIInv
<1> QED
  BY <1>1, <1>2, <1>3, PTL DEF Spec

-----------------------------------------------------------------------------
(* The judgements.  What was handed out about a node, and what is under way. *)
InSink(p, what) == {i \in DOMAIN sink : sink[i] = [what |-> what, peer |-> p]}
UnderWay(p, what) == {c \in Conn : thread[c].what = what /\ About(c) = p}

LEMMA HandedIs ==
    ASSUME NEW p, NEW what
    PROVE  /\ Handed(p, what) = Cardinality(InSink(p, what)) + Cardinality(UnderWay(p, what))
           /\ Handed(p, what)' = Cardinality(InSink(p, what)') + Cardinality(UnderWay(p, what)')
BY DEF Handed, InSink, UnderWay

LEMMA CountsFinite ==
    ASSUME Types, NEW p, NEW what
    PROVE  /\ IsFiniteSet(InSink(p, what)) /\ Cardinality(InSink(p, what)) \in Nat
           /\ IsFiniteSet(UnderWay(p, what)) /\ Cardinality(UnderWay(p, what)) \in Nat
<1>1. UnderWay(p, what) \subseteq Conn
  BY DEF UnderWay
<1>2. IsFiniteSet(UnderWay(p, what))
  BY <1>1, RelayAssumption, FS_Subset
<1>3. InSink(p, what) \subseteq 1 .. Len(sink) /\ Len(sink) \in Nat
  BY DEF InSink, Types
<1>4. IsFiniteSet(1 .. Len(sink))
  BY <1>3, FS_Interval
<1>5. IsFiniteSet(InSink(p, what))
  BY <1>3, <1>4, FS_Subset
<1> QED
  BY <1>2, <1>5, FS_CardinalityType

(* A step that hands nothing out and has nothing handed out. *)
Quiet == /\ sink' = sink
         /\ \A c \in Conn : /\ thread'[c].what = thread[c].what
                            /\ thread[c].what # "-" => thread'[c].frame = thread[c].frame

LEMMA QuietKeepsCounts ==
    ASSUME Quiet, NEW p, NEW what \in {"offline", "recovered"}
    PROVE  Handed(p, what)' = Handed(p, what)
<1>1. InSink(p, what)' = InSink(p, what)
  BY DEF Quiet, InSink
<1>2. \A c \in Conn : (thread'[c].what = what /\ About(c)' = p) <=> (thread[c].what = what /\ About(c) = p)
  BY DEF Quiet, About
<1>3. UnderWay(p, what)' = UnderWay(p, what)
  BY <1>2 DEF UnderWay
<1> QED
  BY <1>1, <1>3, HandedIs

(* A thread takes a transition to hand out: one more about its node. *)
LEMMA TakingCounts ==
    ASSUME Types, NEW c \in Conn, NEW at, NEW w \in {"offline", "recovered"},
           Becomes(c, at, thread[c].frame, w), thread[c].what = "-", sink' = sink,
           NEW p, NEW what \in {"offline", "recovered"}
    PROVE  Handed(p, what)' = IF p = About(c) /\ what = w THEN Handed(p, what) + 1 ELSE Handed(p, what)
<1>1. InSink(p, what)' = InSink(p, what)
  BY DEF InSink
<1>2. \A d \in Conn : About(d)' = About(d)
  BY DEF Becomes, About
<1>3. CASE p = About(c) /\ what = w
  <2>1. UnderWay(p, what)' = UnderWay(p, what) \cup {c} /\ c \notin UnderWay(p, what)
    BY <1>2, <1>3 DEF UnderWay, Becomes
  <2>2. Cardinality(UnderWay(p, what)') = Cardinality(UnderWay(p, what)) + 1
    BY <2>1, CountsFinite, FS_AddElement
  <2> QED
    BY <1>1, <1>3, <2>2, HandedIs, CountsFinite
<1>4. CASE ~(p = About(c) /\ what = w)
  <2>1. UnderWay(p, what)' = UnderWay(p, what)
    BY <1>2, <1>4 DEF UnderWay, Becomes
  <2> QED
    BY <1>1, <1>4, <2>1, HandedIs
<1> QED
  BY <1>3, <1>4

(* The sink takes it: what was under way is handed out, the sum stays. *)
LEMMA FiringCounts ==
    ASSUME Shape, NEW c \in Conn, Fire(c), NEW p, NEW what \in {"offline", "recovered"}
    PROVE  Handed(p, what)' = Handed(p, what)
<1> DEFINE row == [what |-> thread[c].what, peer |-> About(c)]
<1>1. Types /\ Becomes(c, "reading", NoFrame, "-") /\ sink' = Append(sink, row)
  BY BackBecomes DEF Shape, Fire
<1>2. /\ Len(sink) \in Nat /\ DOMAIN sink = 1 .. Len(sink)
      /\ DOMAIN sink' = 1 .. Len(sink) + 1
      /\ \A i \in 1 .. Len(sink) : sink'[i] = sink[i]
      /\ sink'[Len(sink) + 1] = row
  BY <1>1 DEF Types
<1>3. \A d \in Conn \ {c} : About(d)' = About(d) /\ thread'[d].what = thread[d].what
  BY <1>1 DEF Becomes, About
<1>4. thread'[c].what = "-"
  BY <1>1 DEF Becomes
<1>5. CASE p = About(c) /\ what = thread[c].what
  <2>1. InSink(p, what)' = InSink(p, what) \cup {Len(sink) + 1} /\ Len(sink) + 1 \notin InSink(p, what)
    BY <1>2, <1>5 DEF InSink
  <2>2. Cardinality(InSink(p, what)') = Cardinality(InSink(p, what)) + 1
    BY <1>1, <2>1, CountsFinite, FS_AddElement
  <2>3. UnderWay(p, what)' = UnderWay(p, what) \ {c} /\ c \in UnderWay(p, what)
    BY <1>3, <1>4, <1>5 DEF UnderWay
  <2>4. Cardinality(UnderWay(p, what)') = Cardinality(UnderWay(p, what)) - 1
    BY <1>1, <2>3, CountsFinite, FS_RemoveElement
  <2> QED
    BY <1>1, <2>2, <2>4, HandedIs, CountsFinite
<1>6. CASE ~(p = About(c) /\ what = thread[c].what)
  <2>1. row # [what |-> what, peer |-> p]
    BY <1>6
  <2>2. InSink(p, what)' = InSink(p, what)
    BY <1>2, <2>1 DEF InSink
  <2>3. UnderWay(p, what)' = UnderWay(p, what)
    BY <1>3, <1>4, <1>6 DEF UnderWay
  <2> QED
    BY <2>2, <2>3, HandedIs
<1> QED
  BY <1>5, <1>6

(* No row and no report is ever forgotten altogether: what a judgement      *)
(* rested on stays.                                                         *)
WitnessesKept ==
    /\ \A p, w \in Node : reports[p][w] # "none" => reports'[p][w] # "none"
    /\ \A w \in Node : rows[w].state # "none" => rows'[w].state # "none"

LEMMA WitnessedStays ==
    ASSUME WitnessesKept, NEW p \in Node, Witnessed(p)
    PROVE  Witnessed(p)'
BY DEF WitnessesKept, Witnessed

MarksRest == \A p \in Node : rows'[p].judged = rows[p].judged

(* A step of a thread that neither begins to mark nor sets, clears or hands *)
(* out a mark.                                                              *)
LEMMA CalmStep ==
    ASSUME JudgementIInv, Shape', NEW c \in Conn, NEW at, at # "marking", NEW frame, NEW what,
           Becomes(c, at, frame, what), thread[c].what = what,
           what = "-" \/ frame = thread[c].frame,
           sink' = sink, MarksRest, WitnessesKept
    PROVE  JudgementIInv'
<1>1. Quiet
  BY DEF Becomes, Quiet
<1>2. TransitionsMatchRows'
  BY <1>1, QuietKeepsCounts DEF JudgementIInv, TransitionsMatchRows, MarksRest
<1>3. JudgedByOthers'
  BY DEF JudgementIInv, JudgedByOthers, MarksRest, WitnessesKept
<1>4. MarkingWitnessed'
  <2> SUFFICES ASSUME NEW d \in Conn, thread'[d].at = "marking"
               PROVE  Witnessed(About(d))'
    BY DEF MarkingWitnessed
  <2>1. d # c /\ thread'[d] = thread[d]
    BY DEF Becomes
  <2>2. About(d)' = About(d) /\ About(d) \in Node /\ Witnessed(About(d))
    BY <2>1, ThreadIn, AboutNode
       DEF About, JudgementIInv, Shape, MarkingWitnessed, ThreadShape, ShapeOf
  <2> QED
    BY <2>2 DEF Witnessed, WitnessesKept
<1> QED
  BY <1>2, <1>3, <1>4 DEF JudgementIInv

LEMMA CalmBack ==
    ASSUME JudgementIInv, Shape', NEW c \in Conn, Back(c), thread[c].what = "-",
           sink' = sink, MarksRest, WitnessesKept
    PROVE  JudgementIInv'
BY BackBecomes, CalmStep DEF JudgementIInv, Shape

LEMMA CalmGoto ==
    ASSUME JudgementIInv, Shape', NEW c \in Conn, NEW loc \in Locs \ {"marking"}, Goto(c, loc),
           sink' = sink, MarksRest, WitnessesKept
    PROVE  JudgementIInv'
BY GotoBecomes, CalmStep DEF JudgementIInv, Shape

LEMMA RowsAlone == rows' = rows /\ reports' = reports => MarksRest /\ WitnessesKept
BY DEF MarksRest, WitnessesKept

LEMMA QuietHere ==
    ASSUME Shape, NEW c \in Conn, thread[c].at \notin {"hearing", "firing"}
    PROVE  thread[c].what = "-"
BY ThreadIn DEF ThreadShape, ShapeOf

(* The steps that touch neither the rows nor the reports. *)
LEMMA MovesJudgeNothing ==
    ASSUME JudgementIInv, Shape', NEW c \in Conn,
           \/ AcceptConnection(c) \/ Hangup(c) \/ \E f \in Talk[c] : ReadFrame(c, f)
           \/ RouteLocal(c) \/ RouteRefused(c) \/ RouteCarry(c) \/ Push(c) \/ PushFails(c)
           \/ Bind(c) \/ BindFails(c) \/ AnswerHello(c) \/ Unbind(c)
    PROVE  JudgementIInv'
<1>1. Types /\ Shape
  BY DEF JudgementIInv, Shape
<1>2. thread[c].what = "-"
  BY <1>1, QuietHere DEF AcceptConnection, Hangup, ReadFrame, RouteLocal, RouteRefused, RouteCarry,
     Push, PushFails, Bind, BindFails, AnswerHello, Unbind, At
<1>3. sink' = sink /\ MarksRest /\ WitnessesKept
  BY RowsAlone DEF AcceptConnection, Hangup, ReadFrame, RouteLocal, RouteRefused, RouteCarry,
     Push, PushFails, Bind, BindFails, AnswerHello, Unbind, tables
<1>4. CASE AcceptConnection(c) \/ Hangup(c) \/ RouteCarry(c)
  BY <1>3, <1>4, CalmGoto DEF AcceptConnection, Hangup, RouteCarry, Locs
<1>5. CASE RouteRefused(c) \/ PushFails(c) \/ AnswerHello(c)
  BY <1>2, <1>3, <1>5, CalmBack DEF RouteRefused, PushFails, AnswerHello
<1>6. CASE RouteLocal(c) \/ Push(c)
  BY <1>1, <1>2, <1>3, <1>6, RoutedBecomes, CalmStep DEF RouteLocal, Push
<1>7. CASE Bind(c)
  BY <1>1, <1>2, <1>3, <1>7, AfterBindBecomes, CalmStep DEF Bind
<1>8. CASE BindFails(c)
  BY <1>1, <1>2, <1>3, <1>8, BindFailsBecomes, CalmStep DEF BindFails
<1>9. CASE Unbind(c)
  <2>1. Becomes(c, "gone", NoFrame, "-")
    BY <1>1, <1>9 DEF Unbind, Gone, Becomes, Fields, Types
  <2> QED
    BY <1>2, <1>3, <2>1, CalmStep
<1>10. CASE \E f \in Talk[c] : ReadFrame(c, f)
  <2>1. PICK f \in Talk[c] : ReadFrame(c, f)
    BY <1>10
  <2> QED
    BY <1>1, <1>2, <1>3, <2>1, ReadBecomes, CalmStep
<1> QED
  BY <1>4, <1>5, <1>6, <1>7, <1>8, <1>9, <1>10

(* A row is only ever brought to "online", a report only replaced. *)
LEMMA OnlineKeeps ==
    ASSUME Types, NEW p \in Node, rows' = [rows EXCEPT ![p].state = "online"], reports' = reports
    PROVE  MarksRest /\ WitnessesKept
BY DEF Types, Rows, MarksRest, WitnessesKept

LEMMA AnswersJudgeNothing ==
    ASSUME JudgementIInv, Shape', NEW c \in Conn,
           AnswerRegister(c) \/ AnswerBeat(c) \/ AnswerReport(c) \/ HeardFrom(c)
    PROVE  JudgementIInv'
<1>1. Types /\ Shape /\ Owner[c] \in Node
  BY RelayAssumption DEF JudgementIInv, Shape
<1> USE DEF Locs
<1>2. CASE AnswerRegister(c)
  <2>1. thread[c].what = "-"
    BY <1>1, <1>2, QuietHere DEF AnswerRegister, At
  <2> QED
    BY <1>1, <1>2, <2>1, OnlineKeeps, CalmBack DEF AnswerRegister
<1>3. CASE AnswerBeat(c)
  <2>1. thread[c].what = "-"
    BY <1>1, <1>3, QuietHere DEF AnswerBeat, At
  <2>2. MarksRest /\ WitnessesKept /\ sink' = sink
    BY <1>1, <1>3, OnlineKeeps, RowsAlone DEF AnswerBeat
  <2> QED
    BY <1>3, <2>1, <2>2, CalmBack, CalmGoto DEF AnswerBeat
<1>4. CASE AnswerReport(c)
  <2>1. About(c) \in Node /\ thread[c].frame.kind \in {"unreachable", "reachable"}
    BY <1>1, <1>4, AboutNode DEF AnswerReport
  <2>2. MarksRest /\ WitnessesKept /\ sink' = sink
    BY <1>1, <1>4, <2>1 DEF AnswerReport, Types, MarksRest, WitnessesKept
  <2> QED
    BY <1>4, <2>1, <2>2, CalmGoto DEF AnswerReport
<1>5. CASE HeardFrom(c)
  <2>1. About(c) \in Node
    BY <1>1, <1>5, ThreadIn, AboutNode DEF HeardFrom, At, ThreadShape, ShapeOf
  <2> QED
    BY <1>1, <1>5, <2>1, OnlineKeeps, CalmGoto DEF HeardFrom
<1> QED
  BY <1>2, <1>3, <1>4, <1>5

(* WitnessTable::judge: only an online witness other than the node itself,  *)
(* with a report, lets the mark be set.                                     *)
LEMMA JudgeIsWitnessed ==
    ASSUME JudgementIInv, Shape', NEW c \in Conn, Judge(c)
    PROVE  JudgementIInv'
<1>1. Types /\ Shape
  BY DEF JudgementIInv, Shape
<1>2. /\ thread[c].what = "-" /\ About(c) \in Node
      /\ sink' = sink /\ rows' = rows /\ reports' = reports
  BY <1>1, QuietHere, ThreadIn, AboutNode DEF Judge, At, ThreadShape, ShapeOf, tables
<1>3. CASE Back(c)
  BY <1>2, <1>3, CalmBack, RowsAlone
<1>4. CASE JudgedGone(About(c)) /\ Goto(c, "marking")
  <2>1. Becomes(c, "marking", thread[c].frame, thread[c].what)
    BY <1>1, <1>4, GotoBecomes DEF Locs
  <2>2. Witnessed(About(c))
    BY <1>4 DEF JudgedGone, Witnesses, Witnessed
  <2>3. \A d \in Conn : About(d)' = About(d)
    BY <2>1 DEF Becomes, About
  <2>4. MarkingWitnessed'
    BY <1>2, <2>1, <2>2, <2>3 DEF MarkingWitnessed, Witnessed, Becomes, JudgementIInv
  <2>5. TransitionsMatchRows'
    <3>1. Quiet
      BY <1>2, <2>1 DEF Quiet, Becomes
    <3> QED
      BY <1>2, <3>1, QuietKeepsCounts DEF JudgementIInv, TransitionsMatchRows
  <2>6. JudgedByOthers'
    BY <1>2 DEF JudgementIInv, JudgedByOthers
  <2> QED
    BY <2>4, <2>5, <2>6 DEF JudgementIInv
<1> QED
  BY <1>3, <1>4 DEF Judge

(* What a mark that is set or taken back does to the counts.  The thread    *)
(* that does it has the transition to hand out.                             *)
LEMMA MarkMoves ==
    ASSUME JudgementIInv, Shape', NEW c \in Conn, NEW loc \in {"hearing", "firing"},
           NEW w \in {"offline", "recovered"}, ToFire(c, loc, w),
           thread[c].what = "-", About(c) \in Node, sink' = sink, reports' = reports,
           \/ w = "offline" /\ ~rows[About(c)].judged /\ Witnessed(About(c))
              /\ rows' = [rows EXCEPT ![About(c)].judged = TRUE]
           \/ w = "recovered" /\ rows[About(c)].judged
              /\ rows' = [rows EXCEPT ![About(c)].judged = FALSE]
    PROVE  JudgementIInv'
<1>1. Types /\ Shape
  BY DEF JudgementIInv, Shape
<1>2. Becomes(c, loc, thread[c].frame, w)
  BY <1>1, ToFireBecomes
<1>3. \A p \in Node, what \in {"offline", "recovered"} :
        Handed(p, what)' = IF p = About(c) /\ what = w THEN Handed(p, what) + 1 ELSE Handed(p, what)
  BY <1>1, <1>2, TakingCounts
<1>4. /\ \A p \in Node : p # About(c) => rows'[p] = rows[p]
      /\ \A p \in Node : rows'[p].state = rows[p].state
      /\ w = "offline" => ~rows[About(c)].judged /\ rows'[About(c)].judged
      /\ w = "recovered" => rows[About(c)].judged /\ ~rows'[About(c)].judged
  <2>1. rows \in Rows
    BY <1>1 DEF Types
  <2>2. CASE rows' = [rows EXCEPT ![About(c)].judged = TRUE] /\ w = "offline" /\ ~rows[About(c)].judged
    BY <2>1, <2>2 DEF Rows
  <2>3. CASE rows' = [rows EXCEPT ![About(c)].judged = FALSE] /\ w = "recovered" /\ rows[About(c)].judged
    BY <2>1, <2>3 DEF Rows
  <2> QED
    BY <2>2, <2>3
<1>5. \A p \in Node, what \in {"offline", "recovered"} : Handed(p, what) \in Nat
  BY <1>1, HandedIs, CountsFinite
<1>6. TransitionsMatchRows'
  <2> SUFFICES ASSUME NEW p \in Node
               PROVE  Handed(p, "offline")' = Handed(p, "recovered")' + (IF rows'[p].judged THEN 1 ELSE 0)
    BY DEF TransitionsMatchRows
  <2>1. Handed(p, "offline") = Handed(p, "recovered") + (IF rows[p].judged THEN 1 ELSE 0)
    BY DEF JudgementIInv, TransitionsMatchRows
  <2> QED
    BY <1>3, <1>4, <1>5, <2>1
<1>7. \A p \in Node : Witnessed(p)' <=> Witnessed(p)
  BY <1>4 DEF Witnessed
<1>8. JudgedByOthers'
  BY <1>4, <1>7 DEF JudgementIInv, JudgedByOthers, Witnessed
<1>9. MarkingWitnessed'
  <2> SUFFICES ASSUME NEW d \in Conn, thread'[d].at = "marking"
               PROVE  Witnessed(About(d))'
    BY DEF MarkingWitnessed
  <2>1. d # c /\ thread'[d] = thread[d] /\ About(d)' = About(d) /\ About(d) \in Node
    BY <1>1, <1>2, ThreadIn, AboutNode DEF Becomes, About, ThreadShape, ShapeOf
  <2>2. Witnessed(About(d))
    BY <2>1 DEF JudgementIInv, MarkingWitnessed
  <2> QED
    BY <1>4, <2>1, <2>2 DEF Witnessed
<1> QED
  BY <1>6, <1>8, <1>9 DEF JudgementIInv

LEMMA MarksKeepCounts ==
    ASSUME JudgementIInv, Shape', NEW c \in Conn, MarkJudged(c) \/ ClearJudged(c)
    PROVE  JudgementIInv'
<1>1. /\ Types /\ Shape /\ thread[c].what = "-" /\ About(c) \in Node
      /\ sink' = sink /\ reports' = reports
  <2>1. Types /\ Shape
    BY DEF JudgementIInv, Shape
  <2> QED
    BY <2>1, QuietHere, ThreadIn, AboutNode DEF MarkJudged, ClearJudged, At, ThreadShape, ShapeOf
<1>2. CASE Back(c) /\ rows' = rows
  BY <1>1, <1>2, CalmBack, RowsAlone
<1>3. CASE MarkJudged(c)
  <2>1. Witnessed(About(c))
    BY <1>3 DEF MarkJudged, At, JudgementIInv, MarkingWitnessed
  <2> QED
    BY <1>1, <1>2, <1>3, <2>1, MarkMoves DEF MarkJudged
<1>4. CASE ClearJudged(c)
  <2>1. CASE ~rows[About(c)].judged
    BY <1>2, <1>4, <2>1 DEF ClearJudged
  <2>2. CASE rows[About(c)].judged /\ ToFire(c, "hearing", "recovered")
    BY <1>1, <1>4, <2>2, MarkMoves DEF ClearJudged
  <2>3. CASE rows[About(c)].judged /\ ToFire(c, "firing", "recovered")
    BY <1>1, <1>4, <2>3, MarkMoves DEF ClearJudged
  <2> QED
    BY <1>4, <2>1, <2>2, <2>3 DEF ClearJudged
<1> QED
  BY <1>3, <1>4

LEMMA FireKeepsCounts ==
    ASSUME JudgementIInv, Shape', NEW c \in Conn, Fire(c)
    PROVE  JudgementIInv'
<1>1. /\ Types /\ Shape /\ Becomes(c, "reading", NoFrame, "-")
      /\ rows' = rows /\ reports' = reports
  BY BackBecomes DEF JudgementIInv, Shape, Fire
<1>2. TransitionsMatchRows'
  BY <1>1, FiringCounts DEF JudgementIInv, TransitionsMatchRows
<1>3. JudgedByOthers'
  BY <1>1 DEF JudgementIInv, JudgedByOthers
<1>4. MarkingWitnessed'
  <2>1. \A d \in Conn : thread'[d].at = "marking" => thread[d].at = "marking" /\ About(d)' = About(d)
    BY <1>1 DEF Becomes, About
  <2> QED
    BY <1>1, <2>1 DEF JudgementIInv, MarkingWitnessed, Witnessed
<1> QED
  BY <1>2, <1>3, <1>4 DEF JudgementIInv

(* A row or a report that ages is still a row or a report; nothing moves. *)
LEMMA StillKeepsJudgements ==
    ASSUME JudgementIInv, Shape',
           \/ UNCHANGED vars
           \/ \E n \in Node : RowAges(n)
           \/ \E p, w \in Node : ReportAges(p, w)
    PROVE  JudgementIInv'
<1>1. Types
  BY DEF JudgementIInv, Shape
<1>2. thread' = thread /\ sink' = sink
  BY DEF vars, RowAges, ReportAges
<1>3. MarksRest /\ WitnessesKept
  <2>1. ASSUME NEW n \in Node, RowAges(n)
        PROVE  MarksRest /\ WitnessesKept
    BY <1>1, <2>1 DEF RowAges, Types, Rows, MarksRest, WitnessesKept
  <2>2. ASSUME NEW p \in Node, NEW w \in Node, ReportAges(p, w)
        PROVE  MarksRest /\ WitnessesKept
    BY <1>1, <2>2 DEF ReportAges, Types, MarksRest, WitnessesKept
  <2>3. CASE UNCHANGED vars
    BY <2>3, RowsAlone DEF vars
  <2> QED
    BY <2>1, <2>2, <2>3
<1>4. Quiet
  BY <1>2 DEF Quiet
<1>5. TransitionsMatchRows'
  BY <1>3, <1>4, QuietKeepsCounts DEF JudgementIInv, TransitionsMatchRows, MarksRest
<1>6. JudgedByOthers'
  BY <1>3 DEF JudgementIInv, JudgedByOthers, MarksRest, WitnessesKept
<1>7. MarkingWitnessed'
  <2> SUFFICES ASSUME NEW d \in Conn, thread'[d].at = "marking"
               PROVE  Witnessed(About(d))'
    BY DEF MarkingWitnessed
  <2>1. About(d)' = About(d) /\ About(d) \in Node /\ Witnessed(About(d))
    BY <1>1, <1>2, ThreadIn, AboutNode
       DEF About, JudgementIInv, MarkingWitnessed, ThreadShape, ShapeOf
  <2> QED
    BY <1>3, <2>1 DEF Witnessed, WitnessesKept
<1> QED
  BY <1>5, <1>6, <1>7 DEF JudgementIInv

LEMMA InitJudgements == Init => JudgementIInv
<1> SUFFICES ASSUME Init PROVE JudgementIInv
  OBVIOUS
<1>1. \A p \in Node : InSink(p, "offline") = {} /\ InSink(p, "recovered") = {}
                      /\ UnderWay(p, "offline") = {} /\ UnderWay(p, "recovered") = {}
  BY DEF Init, InSink, UnderWay, Gone
<1>2. \A p \in Node : Handed(p, "offline") = 0 /\ Handed(p, "recovered") = 0
  <2>1. Cardinality({}) = 0
    BY FS_EmptySet
  <2> QED
    BY <1>1, <2>1, HandedIs
<1>3. TransitionsMatchRows
  BY <1>2 DEF Init, TransitionsMatchRows
<1>4. JudgedByOthers /\ MarkingWitnessed
  BY DEF Init, Gone, JudgedByOthers, MarkingWitnessed
<1> QED
  BY <1>3, <1>4, InitShape DEF JudgementIInv

(* Every judgement and every recovery is handed out once, and nobody is     *)
(* judged on his own word (judge, mark_judged, clear_judged, fire).         *)
THEOREM JudgementsAreWitnessed == Spec => []JudgementsInv
<1>1. JudgementIInv /\ [Next]_vars => JudgementIInv'
  <2> SUFFICES ASSUME JudgementIInv, [Next]_vars PROVE JudgementIInv'
    OBVIOUS
  <2>1. Shape'
    BY NextShape DEF JudgementIInv
  <2> QED
    BY <2>1, MovesJudgeNothing, AnswersJudgeNothing, JudgeIsWitnessed, MarksKeepCounts,
       FireKeepsCounts, StillKeepsJudgements DEF Next, Works
<1>2. JudgementIInv => JudgementsInv
  <2> SUFFICES ASSUME JudgementIInv PROVE TypeOK
    BY DEF JudgementIInv, JudgementsInv
  <2> QED
    BY DEF JudgementIInv, Shape, Types, ThreadTyped, GuardExclusive, Rows, Whats, TypeOK
<1> QED
  BY <1>1, <1>2, InitJudgements, PTL DEF Spec


-----------------------------------------------------------------------------
(* Registry: what the server hands out, for any threads that replace and    *)
(* read its tables, and any tables.                                         *)
CONSTANTS Editor, Reader, PeerFile, RoomFile, MaxEdits
VARIABLES peers, keys, rooms, generation, editor, reader, published, local, merged, edits

G == INSTANCE Registry

Busy == {e \in Editor : editor[e].at # "idle"}

(* A deployer's thread, and the file it was given.                          *)
EditorTyped(d) ==
    /\ DOMAIN d = {"at", "what", "file"}
    /\ d.at \in {"idle", "table", "keys", "number"}
    /\ d.at = "keys" => d.what = "peers"
    /\ d.at \in {"table", "keys"} =>
         IF d.what = "peers" THEN d.file \in PeerFile /\ G!Readable(d.file)
         ELSE d.file \in RoomFile /\ G!RoomsAllowed(d.file)

(* A session's thread holds the peers' lock while it reads, so what it has  *)
(* read of them is what they are.                                           *)
ReaderTyped(s) ==
    /\ DOMAIN s = {"at", "peers", "generation"}
    /\ s.at \in {"idle", "keys", "routing", "numbered"}
    /\ s.at # "idle" => s.peers = peers
    /\ s.generation \in Nat /\ s.generation <= generation

RegistryTyped ==
    /\ peers \in PeerFile /\ G!Readable(peers) /\ rooms \in RoomFile /\ G!RoomsAllowed(rooms)
    /\ generation \in Nat /\ generation >= 1 /\ edits \in Nat /\ edits <= MaxEdits
    /\ DOMAIN editor = Editor /\ \A e \in Editor : EditorTyped(editor[e])
    /\ DOMAIN reader = Reader /\ \A r \in Reader : ReaderTyped(reader[r])
    /\ \A p \in published : p.generation \in Nat /\ p.generation <= generation

(* The generation counts the replacements that are done.                    *)
Counted == IsFiniteSet(Busy) /\ generation + Cardinality(Busy) <= edits + 1

(* Between a table's replacement and the generation's advance a registry of *)
(* this number may be the old one or the new; before and after it is not.   *)
Settled == \A e \in Editor : editor[e].at \in {"idle", "table"}
CurrentWhenSettled ==
    Settled => \A p \in published : p.generation = generation => p.peers = peers /\ p.rooms = rooms

(* One deployer: the keys are those of the table, or about to be.           *)
KeysAlone ==
    \A e \in Editor : Editor = {e} =>
        IF editor[e].at = "keys" THEN editor[e].file = peers ELSE keys = G!PeerKeys(peers)

RegistryIInv ==
    /\ G!RegistryAssumption /\ RegistryTyped /\ Counted /\ CurrentWhenSettled /\ KeysAlone

LEMMA RegistryInit == ASSUME G!RegistryAssumption, G!Init PROVE RegistryIInv
<1>1. /\ peers \in PeerFile /\ G!Readable(peers) /\ rooms \in RoomFile /\ G!RoomsAllowed(rooms)
      /\ keys = G!PeerKeys(peers) /\ generation = 1 /\ published = {} /\ edits = 0
      /\ editor = [e \in Editor |-> G!Idle] /\ reader = [r \in Reader |-> G!Resting]
  BY DEF G!Init
<1>2. EditorTyped(G!Idle) /\ G!Idle.at = "idle"
  BY DEF EditorTyped, G!Idle
<1>3. ReaderTyped(G!Resting)
  BY <1>1 DEF ReaderTyped, G!Resting
<1>4. RegistryTyped
  BY <1>1, <1>2, <1>3 DEF RegistryTyped, G!RegistryAssumption
<1>5. Busy = {}
  BY <1>1, <1>2 DEF Busy
<1>6. Counted
  BY <1>1, <1>5, FS_EmptySet DEF Counted
<1> QED
  BY <1>1, <1>2, <1>4, <1>6 DEF RegistryIInv, CurrentWhenSettled, KeysAlone

(* set_peers and set_rooms: a file that is let in makes its thread busy.    *)
LEMMA StepEdit ==
    ASSUME RegistryIInv, NEW e \in Editor, NEW f,
           \/ f \in PeerFile /\ G!SetPeers(e, f)
           \/ f \in RoomFile /\ G!SetRooms(e, f)
    PROVE  RegistryIInv'
<1>1. /\ editor[e].at = "idle" /\ edits < MaxEdits /\ edits' = edits + 1
      /\ UNCHANGED <<peers, keys, rooms, generation, reader, published, local, merged>>
  BY DEF G!SetPeers, G!SetRooms, G!server, G!node
<1>2. PICK d : /\ DOMAIN editor' = Editor /\ editor'[e] = d
               /\ \A x \in Editor : x # e => editor'[x] = editor[x]
               /\ EditorTyped(d)
               /\ d = editor[e] \/ d.at = "table"
  <2> DEFINE a == [at |-> "table", what |-> "peers", file |-> f]
             b == [at |-> "table", what |-> "rooms", file |-> f]
  <2>1. DOMAIN editor = Editor /\ EditorTyped(editor[e])
    BY DEF RegistryIInv, RegistryTyped
  <2>3. CASE editor' = editor
    BY <2>1, <2>3
  <2>4. CASE f \in PeerFile /\ G!SetPeers(e, f) /\ G!Readable(f)
    <3>1. editor' = [editor EXCEPT ![e] = a]
      BY <2>4 DEF G!SetPeers
    <3>2. EditorTyped(a) /\ a.at = "table"
      BY <2>4 DEF EditorTyped
    <3> QED
      BY <2>1, <3>1, <3>2
  <2>5. CASE f \in RoomFile /\ G!SetRooms(e, f) /\ G!RoomsAllowed(f)
    <3>1. editor' = [editor EXCEPT ![e] = b]
      BY <2>5 DEF G!SetRooms
    <3>2. EditorTyped(b) /\ b.at = "table"
      BY <2>5 DEF EditorTyped
    <3> QED
      BY <2>1, <3>1, <3>2
  <2> QED
    BY <2>3, <2>4, <2>5 DEF G!SetPeers, G!SetRooms
<1>3. /\ DOMAIN editor' = Editor /\ editor'[e] = d
      /\ \A x \in Editor : x # e => editor'[x] = editor[x]
  BY <1>2
<1>4. RegistryTyped'
  <2>1. \A x \in Editor : EditorTyped(editor[x])'
    BY <1>2, <1>3 DEF RegistryIInv, RegistryTyped, EditorTyped
  <2>2. \A r \in Reader : ReaderTyped(reader[r])'
    BY <1>1 DEF RegistryIInv, RegistryTyped, ReaderTyped
  <2>3. edits' \in Nat /\ edits' <= MaxEdits
    BY <1>1 DEF RegistryIInv, RegistryTyped, G!RegistryAssumption
  <2> QED
    BY <1>1, <1>3, <2>1, <2>2, <2>3 DEF RegistryIInv, RegistryTyped
<1>5. Counted'
  <2>1. Busy' \subseteq Busy \cup {e} /\ e \notin Busy
    BY <1>1, <1>3 DEF Busy
  <2>2. IsFiniteSet(Busy) /\ Cardinality(Busy) \in Nat /\ generation + Cardinality(Busy) <= edits + 1
    BY FS_CardinalityType DEF RegistryIInv, Counted
  <2>3. IsFiniteSet(Busy \cup {e}) /\ Cardinality(Busy \cup {e}) = Cardinality(Busy) + 1
    BY <2>1, <2>2, FS_AddElement
  <2>4. /\ IsFiniteSet(Busy') /\ Cardinality(Busy') \in Nat
        /\ Cardinality(Busy') <= Cardinality(Busy) + 1
    BY <2>1, <2>3, FS_Subset, FS_CardinalityType
  <2>5. generation \in Nat /\ edits \in Nat
    BY DEF RegistryIInv, RegistryTyped
  <2> QED
    BY <1>1, <2>2, <2>4, <2>5 DEF Counted
<1>6. CurrentWhenSettled'
  <2>1. Settled' => Settled
    BY <1>1, <1>3 DEF Settled
  <2> QED
    BY <1>1, <2>1 DEF RegistryIInv, CurrentWhenSettled
<1>7. KeysAlone'
  <2>1. editor'[e].at # "keys" /\ editor[e].at # "keys"
    BY <1>1, <1>2, <1>3
  <2> QED
    BY <1>1, <1>3, <2>1 DEF RegistryIInv, KeysAlone
<1> QED
  BY <1>4, <1>5, <1>6, <1>7 DEF RegistryIInv

(* A thread that goes on with its file.                                     *)
LEMMA Goes ==
    ASSUME RegistryTyped, NEW e \in Editor, NEW loc \in {"keys", "number"}, G!Goes(e, loc)
    PROVE  /\ DOMAIN editor' = Editor /\ DOMAIN editor'[e] = {"at", "what", "file"}
           /\ editor'[e].at = loc /\ editor'[e].what = editor[e].what
           /\ editor'[e].file = editor[e].file
           /\ \A x \in Editor : x # e => editor'[x] = editor[x]
<1>1. DOMAIN editor = Editor /\ DOMAIN editor[e] = {"at", "what", "file"}
  BY DEF RegistryTyped, EditorTyped
<1>2. editor' = [editor EXCEPT ![e] = [editor[e] EXCEPT !.at = loc]]
  BY DEF G!Goes
<1> QED
  BY <1>1, <1>2

LEMMA BusyKeeps ==
    ASSUME RegistryIInv, UNCHANGED <<generation, edits>>, \A x \in Editor :
             editor'[x].at = "idle" <=> editor[x].at = "idle"
    PROVE  Counted'
<1>1. Busy' = Busy
  BY DEF Busy
<1> QED
  BY <1>1 DEF RegistryIInv, Counted

LEMMA StepWriteTable ==
    ASSUME RegistryIInv, NEW e \in Editor, G!WriteTable(e)
    PROVE  RegistryIInv'
<1>1. /\ editor[e].at = "table"
      /\ UNCHANGED <<keys, generation, reader, published, local, merged, edits>>
      /\ \/ /\ editor[e].what = "peers" /\ G!PeersFree /\ peers' = editor[e].file
            /\ G!Goes(e, "keys") /\ rooms' = rooms
         \/ /\ editor[e].what # "peers" /\ rooms' = editor[e].file
            /\ G!Goes(e, "number") /\ peers' = peers
  BY DEF G!WriteTable, G!node
<1>2. RegistryTyped /\ EditorTyped(editor[e])
  BY DEF RegistryIInv, RegistryTyped
<1>3. /\ DOMAIN editor' = Editor /\ DOMAIN editor'[e] = {"at", "what", "file"}
      /\ editor'[e].what = editor[e].what /\ editor'[e].file = editor[e].file
      /\ editor'[e].at = (IF editor[e].what = "peers" THEN "keys" ELSE "number")
      /\ \A x \in Editor : x # e => editor'[x] = editor[x]
  BY <1>1, <1>2, Goes
<1>4. RegistryTyped'
  <2>1. /\ peers' \in PeerFile /\ G!Readable(peers') /\ rooms' \in RoomFile
        /\ G!RoomsAllowed(rooms')
    BY <1>1, <1>2 DEF RegistryTyped, EditorTyped
  <2>2. EditorTyped(editor'[e])
    BY <1>1, <1>2, <1>3 DEF EditorTyped
  <2>3. \A x \in Editor : EditorTyped(editor'[x])
    BY <1>2, <1>3, <2>2 DEF RegistryTyped
  <2>4. \A r \in Reader : ReaderTyped(reader[r])'
    BY <1>1, <1>2 DEF RegistryTyped, ReaderTyped, G!PeersFree
  <2> QED
    BY <1>1, <1>2, <1>3, <2>1, <2>3, <2>4
    DEF RegistryTyped, EditorTyped, G!Readable, G!RoomsAllowed
<1>5. Counted'
  <2>1. \A x \in Editor : editor'[x].at = "idle" <=> editor[x].at = "idle"
    BY <1>1, <1>3
  <2> QED
    BY <1>1, <2>1, BusyKeeps
<1>6. CurrentWhenSettled'
  BY <1>3 DEF CurrentWhenSettled, Settled
<1>7. KeysAlone'
  <2> SUFFICES ASSUME Editor = {e}
               PROVE  IF editor'[e].at = "keys" THEN editor'[e].file = peers'
                      ELSE keys = G!PeerKeys(peers')
    <3>1. \A x \in Editor : Editor = {x} => x = e
      OBVIOUS
    <3> QED
      BY <1>1, <3>1 DEF KeysAlone, G!PeerKeys, G!Ids, G!Named, G!Most
  <2>1. keys = G!PeerKeys(peers)
    BY <1>1 DEF RegistryIInv, KeysAlone
  <2> QED
    BY <1>1, <1>3, <2>1
<1> QED
  BY <1>4, <1>5, <1>6, <1>7 DEF RegistryIInv

LEMMA StepWriteKeys ==
    ASSUME RegistryIInv, NEW e \in Editor, G!WriteKeys(e)
    PROVE  RegistryIInv'
<1>1. /\ editor[e].at = "keys" /\ keys' = G!PeerKeys(editor[e].file) /\ G!Goes(e, "number")
      /\ UNCHANGED <<peers, rooms, generation, reader, published, local, merged, edits>>
  BY DEF G!WriteKeys, G!node
<1>2. RegistryTyped /\ EditorTyped(editor[e])
  BY DEF RegistryIInv, RegistryTyped
<1>3. /\ DOMAIN editor' = Editor /\ DOMAIN editor'[e] = {"at", "what", "file"}
      /\ editor'[e].at = "number"
      /\ \A x \in Editor : x # e => editor'[x] = editor[x]
  BY <1>1, <1>2, Goes
<1>4. RegistryTyped'
  <2>1. \A x \in Editor : EditorTyped(editor'[x])
    <3>1. EditorTyped(editor'[e])
      BY <1>3 DEF EditorTyped
    <3> QED
      BY <1>2, <1>3, <3>1 DEF RegistryTyped
  <2>2. \A r \in Reader : ReaderTyped(reader[r])'
    BY <1>1, <1>2 DEF RegistryTyped, ReaderTyped
  <2> QED
    BY <1>1, <1>2, <1>3, <2>1, <2>2
    DEF RegistryTyped, EditorTyped, G!Readable, G!RoomsAllowed
<1>5. Counted'
  <2>1. \A x \in Editor : editor'[x].at = "idle" <=> editor[x].at = "idle"
    BY <1>1, <1>3
  <2> QED
    BY <1>1, <2>1, BusyKeeps
<1>6. CurrentWhenSettled'
  BY <1>3 DEF CurrentWhenSettled, Settled
<1>7. KeysAlone'
  <2> SUFFICES ASSUME Editor = {e} PROVE keys' = G!PeerKeys(peers')
    <3>1. \A x \in Editor : Editor = {x} => x = e
      OBVIOUS
    <3> QED
      BY <1>3, <3>1 DEF KeysAlone, G!PeerKeys, G!Ids, G!Named, G!Most
  <2>1. editor[e].file = peers
    BY <1>1 DEF RegistryIInv, KeysAlone
  <2> QED
    BY <1>1, <2>1
<1> QED
  BY <1>4, <1>5, <1>6, <1>7 DEF RegistryIInv

(* The advance leaves every registry handed out with an older number.       *)
LEMMA StepAdvance ==
    ASSUME RegistryIInv, NEW e \in Editor, G!Advance(e)
    PROVE  RegistryIInv'
<1>1. /\ editor[e].at = "number" /\ generation' = generation + 1
      /\ editor' = [editor EXCEPT ![e] = G!Idle]
      /\ UNCHANGED <<peers, keys, rooms, reader, published, local, merged, edits>>
  BY DEF G!Advance, G!node
<1>2. RegistryTyped /\ G!Idle.at = "idle" /\ EditorTyped(G!Idle)
  BY DEF RegistryIInv, G!Idle, EditorTyped
<1>3. /\ DOMAIN editor' = Editor /\ editor'[e] = G!Idle
      /\ \A x \in Editor : x # e => editor'[x] = editor[x]
  BY <1>1, <1>2 DEF RegistryTyped
<1>4. RegistryTyped'
  <2>1. \A x \in Editor : EditorTyped(editor'[x])
    BY <1>2, <1>3 DEF RegistryTyped
  <2>2. \A r \in Reader : ReaderTyped(reader[r])'
    BY <1>1, <1>2 DEF RegistryTyped, ReaderTyped
  <2> QED
    BY <1>1, <1>2, <1>3, <2>1, <2>2
    DEF RegistryTyped, EditorTyped, G!Readable, G!RoomsAllowed
<1>5. Counted'
  <2>1. e \in Busy /\ Busy' = Busy \ {e}
    BY <1>1, <1>2, <1>3 DEF Busy
  <2>2. IsFiniteSet(Busy) /\ Cardinality(Busy) \in Nat /\ generation + Cardinality(Busy) <= edits + 1
    BY FS_CardinalityType DEF RegistryIInv, Counted
  <2>3. IsFiniteSet(Busy') /\ Cardinality(Busy') = Cardinality(Busy) - 1
    BY <2>1, <2>2, FS_RemoveElement
  <2>4. generation \in Nat /\ edits \in Nat
    BY <1>2 DEF RegistryTyped
  <2> QED
    BY <1>1, <2>2, <2>3, <2>4 DEF Counted
<1>6. CurrentWhenSettled'
  <2>1. \A p \in published : p.generation # generation'
    BY <1>1, <1>2 DEF RegistryTyped
  <2> QED
    BY <1>1, <2>1 DEF CurrentWhenSettled
<1>7. KeysAlone'
  <2> SUFFICES ASSUME Editor = {e} PROVE keys' = G!PeerKeys(peers')
    <3>1. \A x \in Editor : Editor = {x} => x = e
      OBVIOUS
    <3> QED
      BY <1>2, <1>3, <3>1 DEF KeysAlone, G!PeerKeys, G!Ids, G!Named, G!Most
  <2>1. keys = G!PeerKeys(peers)
    BY <1>1 DEF RegistryIInv, KeysAlone
  <2> QED
    BY <1>1, <2>1
<1> QED
  BY <1>4, <1>5, <1>6, <1>7 DEF RegistryIInv

(* What a step that leaves the tables and the deployers alone keeps.        *)
LEMMA TablesKeep ==
    ASSUME RegistryIInv, UNCHANGED <<peers, keys, rooms, generation, editor, edits>>
    PROVE  /\ Counted' /\ KeysAlone' /\ Settled' = Settled
           /\ ((\A r \in Reader : ReaderTyped(reader'[r])) /\ DOMAIN reader' = Reader
               /\ (\A p \in published' : p.generation \in Nat /\ p.generation <= generation))
              => RegistryTyped'
<1>1. Counted'
  BY BusyKeeps
<1>2. KeysAlone'
  <2>1. G!PeerKeys(peers)' = G!PeerKeys(peers)
    BY DEF G!PeerKeys, G!Ids, G!Named, G!Most
  <2>2. editor' = editor /\ keys' = keys /\ peers' = peers
    OBVIOUS
  <2> QED
    BY <2>1, <2>2 DEF RegistryIInv, KeysAlone
<1>3. Settled' = Settled
  BY DEF Settled
<1>4. ASSUME \A r \in Reader : ReaderTyped(reader'[r]), DOMAIN reader' = Reader,
             \A p \in published' : p.generation \in Nat /\ p.generation <= generation
      PROVE  RegistryTyped'
  <2>1. \A r \in Reader : ReaderTyped(reader[r])'
    BY <1>4 DEF ReaderTyped
  <2>2. \A e \in Editor : EditorTyped(editor[e])'
    BY DEF RegistryIInv, RegistryTyped, EditorTyped
  <2> QED
    BY <1>4, <2>1, <2>2 DEF RegistryIInv, RegistryTyped, G!Readable, G!RoomsAllowed
<1> QED
  BY <1>1, <1>2, <1>3, <1>4

(* A session's thread: it begins to read, goes on, is done, or publishes.   *)
LEMMA StepRead ==
    ASSUME RegistryIInv, NEW r \in Reader,
           G!RouteFrame(r) \/ G!RouteWithKeys(r) \/ G!RouteEnds(r) \/ G!AskRegistry(r)
    PROVE  RegistryIInv'
<1>1. UNCHANGED <<peers, keys, rooms, generation, editor, published, local, merged, edits>>
  BY DEF G!RouteFrame, G!RouteWithKeys, G!RouteEnds, G!AskRegistry, G!server, G!node
<1>2. RegistryTyped /\ ReaderTyped(reader[r]) /\ generation \in Nat
  BY DEF RegistryIInv, RegistryTyped
<1>3. PICK s : reader' = [reader EXCEPT ![r] = s] /\ ReaderTyped(s)
  <2>1. CASE G!RouteFrame(r)
    <3> DEFINE s == [at |-> "keys", peers |-> peers, generation |-> 0]
    <3>1. reader' = [reader EXCEPT ![r] = s]
      BY <2>1 DEF G!RouteFrame
    <3>2. ReaderTyped(s)
      BY <1>2 DEF ReaderTyped
    <3> QED
      BY <3>1, <3>2
  <2>2. CASE G!RouteWithKeys(r)
    <3> DEFINE s == [reader[r] EXCEPT !.at = "routing"]
    <3>1. reader' = [reader EXCEPT ![r] = s] /\ reader[r].at = "keys"
      BY <2>2 DEF G!RouteWithKeys
    <3>2. ReaderTyped(s)
      BY <1>2, <3>1 DEF ReaderTyped
    <3> QED
      BY <3>1, <3>2
  <2>3. CASE G!RouteEnds(r)
    <3>1. reader' = [reader EXCEPT ![r] = G!Resting]
      BY <2>3 DEF G!RouteEnds
    <3>2. ReaderTyped(G!Resting)
      BY <1>2 DEF ReaderTyped, G!Resting
    <3> QED
      BY <3>1, <3>2
  <2>4. CASE G!AskRegistry(r)
    <3> DEFINE s == [at |-> "numbered", peers |-> peers, generation |-> generation]
    <3>1. reader' = [reader EXCEPT ![r] = s]
      BY <2>4 DEF G!AskRegistry
    <3>2. ReaderTyped(s)
      BY <1>2 DEF ReaderTyped
    <3> QED
      BY <3>1, <3>2
  <2> QED
    BY <2>1, <2>2, <2>3, <2>4
<1>4. DOMAIN reader' = Reader /\ \A x \in Reader : ReaderTyped(reader'[x])
  BY <1>2, <1>3 DEF RegistryTyped
<1>5. RegistryTyped' /\ Counted' /\ KeysAlone' /\ Settled' = Settled
  <2>1. \A p \in published' : p.generation \in Nat /\ p.generation <= generation
    BY <1>1, <1>2 DEF RegistryTyped
  <2> QED
    BY <1>1, <1>4, <2>1, TablesKeep
<1> QED
  BY <1>1, <1>5 DEF RegistryIInv, CurrentWhenSettled

LEMMA StepPublish ==
    ASSUME RegistryIInv, NEW r \in Reader, G!Publish(r)
    PROVE  RegistryIInv'
<1> DEFINE p == [generation |-> reader[r].generation, peers |-> reader[r].peers, rooms |-> rooms]
<1>1. /\ reader[r].at = "numbered" /\ published' = published \cup {p}
      /\ reader' = [reader EXCEPT ![r] = G!Resting]
      /\ UNCHANGED <<peers, keys, rooms, generation, editor, local, merged, edits>>
  BY DEF G!Publish, G!server
<1>2. RegistryTyped /\ ReaderTyped(reader[r]) /\ ReaderTyped(G!Resting)
  BY DEF RegistryIInv, RegistryTyped, ReaderTyped, G!Resting
<1>3. DOMAIN reader' = Reader /\ \A x \in Reader : ReaderTyped(reader'[x])
  BY <1>1, <1>2 DEF RegistryTyped
<1>4. p.generation \in Nat /\ p.generation <= generation /\ p.peers = peers /\ p.rooms = rooms
  BY <1>1, <1>2 DEF ReaderTyped
<1> HIDE DEF p
<1>5. RegistryTyped' /\ Counted' /\ KeysAlone' /\ Settled' = Settled
  <2>1. \A q \in published' : q.generation \in Nat /\ q.generation <= generation
    BY <1>1, <1>2, <1>4 DEF RegistryTyped
  <2> QED
    BY <1>1, <1>3, <2>1, TablesKeep
<1>6. CurrentWhenSettled'
  BY <1>1, <1>4, <1>5 DEF RegistryIInv, CurrentWhenSettled
<1> QED
  BY <1>5, <1>6 DEF RegistryIInv

LEMMA RegistryRests ==
    ASSUME RegistryIInv,
           UNCHANGED <<peers, keys, rooms, generation, editor, reader, published, edits>>
    PROVE  RegistryIInv'
<1>1. RegistryTyped
  BY DEF RegistryIInv
<1>2. RegistryTyped' /\ Counted' /\ KeysAlone' /\ Settled' = Settled
  BY <1>1, TablesKeep DEF RegistryTyped
<1> QED
  BY <1>2 DEF RegistryIInv, CurrentWhenSettled

LEMMA RegistryNext == ASSUME RegistryIInv, [G!Next]_(G!vars) PROVE RegistryIInv'
<1>1. CASE \E e \in Editor : \/ \E f \in PeerFile : G!SetPeers(e, f)
                             \/ \E f \in RoomFile : G!SetRooms(e, f)
                             \/ G!WriteTable(e) \/ G!WriteKeys(e) \/ G!Advance(e)
  BY <1>1, StepEdit, StepWriteTable, StepWriteKeys, StepAdvance
<1>2. CASE \E r \in Reader : \/ G!RouteFrame(r) \/ G!RouteWithKeys(r) \/ G!RouteEnds(r)
                             \/ G!AskRegistry(r) \/ G!Publish(r)
  BY <1>2, StepRead, StepPublish
<1>3. CASE \E p \in published : G!Merge(p)
  BY <1>3, RegistryRests DEF G!Merge, G!server
<1>4. CASE UNCHANGED G!vars
  BY <1>4, RegistryRests DEF G!vars, G!server
<1> QED
  BY <1>1, <1>2, <1>3, <1>4 DEF G!Next

RegistryServes == G!TypeOK /\ G!AloneKeysFollow /\ G!LatestIsCurrent

LEMMA RegistrySafe == ASSUME RegistryIInv PROVE RegistryServes
<1>1. RegistryTyped /\ Counted /\ G!RegistryAssumption
  BY DEF RegistryIInv
<1>2. G!TypeOK
  <2>1. generation \in 1 .. MaxEdits + 1
    <3>1. Cardinality(Busy) \in Nat /\ generation + Cardinality(Busy) <= edits + 1
      BY <1>1, FS_CardinalityType DEF Counted
    <3> QED
      BY <1>1, <3>1 DEF RegistryTyped, G!RegistryAssumption
  <2> QED
    BY <1>1, <2>1 DEF G!TypeOK, RegistryTyped, EditorTyped, ReaderTyped
<1>3. G!AloneKeysFollow
  <2> SUFFICES ASSUME G!Cardinality(Editor) = 1, \A e \in Editor : editor[e].at # "keys"
               PROVE  keys = G!PeerKeys(peers)
    BY DEF G!AloneKeysFollow
  <2>1. Cardinality(Editor) = 1 /\ IsFiniteSet(Editor)
    BY <1>1 DEF G!Cardinality, Cardinality, G!RegistryAssumption, G!IsFiniteSet, IsFiniteSet
  <2>2. PICK e : Editor = {e}
    BY <2>1, FS_Singleton
  <2> QED
    BY <2>2 DEF RegistryIInv, KeysAlone
<1>4. G!LatestIsCurrent
  BY DEF RegistryIInv, CurrentWhenSettled, Settled, G!LatestIsCurrent
<1> QED
  BY <1>2, <1>3, <1>4 DEF RegistryServes

(***************************************************************************)
(* For any threads and any tables: the keys a frame is judged by are those *)
(* of the table it is placed by, when one thread at a time replaces it and *)
(* is not in between; and a registry that was handed out with the number   *)
(* in force, when no replacement is under way, is the one in force, for    *)
(* all that its parts were read one after the other (set_peers, set_rooms, *)
(* registry).                                                              *)
(***************************************************************************)
THEOREM NewestIsInForce == ASSUME G!RegistryAssumption PROVE G!Spec => []RegistryServes
<1>1. G!Init => RegistryIInv
  BY RegistryInit
<1>2. RegistryIInv /\ [G!Next]_(G!vars) => RegistryIInv'
  BY RegistryNext
<1>3. RegistryIInv => RegistryServes
  BY RegistrySafe
<1> QED
  BY <1>1, <1>2, <1>3, PTL DEF G!Spec

-----------------------------------------------------------------------------
(***************************************************************************)
(* The asks for a sandbox change, for any process ids and any number of    *)
(* asks, decisions, crashes and restarts.                                  *)
(***************************************************************************)
CONSTANTS Centre, StandIn, Pids, MaxAsks, MaxDecisions, MaxBoots
VARIABLES up, proc, queue, chain, ops, wire, taken, asks, decisions, boots, past, told

Q == INSTANCE SandboxRequests WITH merged <- taken

(* A set of numbers has a least element.                                    *)
LEMMA LeastNumber ==
    ASSUME NEW S, S \subseteq Nat, S # {}
    PROVE  \E x \in S : \A y \in S : x <= y
<1>1. PICK x \in S : \A y \in S : ~(<<y, x>> \in OpToRel(<, Nat))
  BY NatLessThanWellFounded, WFMin
<1>2. \A y \in S : ~(y < x)
  BY <1>1 DEF OpToRel
<1> QED
  BY <1>2

LEMMA FirstOf ==
    ASSUME NEW S, S \subseteq Nat, S # {}
    PROVE  /\ Q!Min(S) \in S /\ \A y \in S : Q!Min(S) <= y
           /\ \A x \in S : (\A y \in S : x <= y) => Q!Min(S) = x
<1>1. \E x \in S : \A y \in S : x <= y
  BY LeastNumber
<1>2. Q!Min(S) = CHOOSE x \in S : \A y \in S : x <= y
  BY DEF Q!Min
<1>3. Q!Min(S) \in S /\ \A y \in S : Q!Min(S) <= y
  BY <1>1, <1>2
<1>4. ASSUME NEW x \in S, \A y \in S : x <= y PROVE Q!Min(S) = x
  <2>1. x <= Q!Min(S) /\ Q!Min(S) <= x /\ x \in Nat /\ Q!Min(S) \in Nat
    BY <1>3, <1>4
  <2> QED
    BY <2>1
<1> QED
  BY <1>3, <1>4

LEMMA OnlyOne == ASSUME NEW n \in Nat PROVE Q!Min({n}) = n
<1> DEFINE S == {n}
<1>1. S \subseteq Nat /\ S # {}
  OBVIOUS
<1> HIDE DEF S
<1>2. Q!Min(S) \in S
  BY <1>1, FirstOf
<1> QED
  BY <1>2 DEF S

(* A queue without one of its entries.                                      *)
LEMMA WithoutOne ==
    ASSUME NEW E, NEW q \in Seq(E), NEW k \in 1 .. Len(q)
    PROVE  /\ Q!RemoveAt(q, k) \in Seq(E) /\ Len(Q!RemoveAt(q, k)) = Len(q) - 1
           /\ \A i \in 1 .. Len(q) - 1 : Q!RemoveAt(q, k)[i] = q[IF i < k THEN i ELSE i + 1]
<1> DEFINE a == SubSeq(q, 1, k - 1)  b == SubSeq(q, k + 1, Len(q))
<1>1. Q!RemoveAt(q, k) = a \o b
  BY DEF Q!RemoveAt
<1>2. /\ a \in Seq(E) /\ Len(a) = k - 1 /\ \A i \in 1 .. k - 1 : a[i] = q[i]
  OBVIOUS
<1>3. /\ b \in Seq(E) /\ Len(b) = Len(q) - k /\ \A i \in 1 .. Len(q) - k : b[i] = q[i + k]
  OBVIOUS
<1> HIDE DEF a, b
<1>4. /\ a \o b \in Seq(E) /\ Len(a \o b) = Len(q) - 1
      /\ \A i \in 1 .. Len(q) - 1 : (a \o b)[i] = IF i <= k - 1 THEN a[i] ELSE b[i - (k - 1)]
  <2>1. /\ a \o b \in Seq(E) /\ Len(a \o b) = Len(a) + Len(b)
        /\ \A i \in 1 .. Len(a) + Len(b) : (a \o b)[i] = IF i <= Len(a) THEN a[i] ELSE b[i - Len(a)]
    BY <1>2, <1>3, ConcatProperties
  <2>2. Len(a) + Len(b) = Len(q) - 1 /\ Len(a) = k - 1
    BY <1>2, <1>3
  <2> QED
    BY <2>1, <2>2
<1>5. ASSUME NEW i \in 1 .. Len(q) - 1 PROVE (a \o b)[i] = q[IF i < k THEN i ELSE i + 1]
  <2>1. CASE i < k
    BY <1>2, <1>4, <2>1
  <2>2. CASE ~(i < k)
    <3>1. i - (k - 1) \in 1 .. Len(q) - k /\ i - (k - 1) + k = i + 1
      BY <2>2
    <3> QED
      BY <1>3, <1>4, <2>2, <3>1
  <2> QED
    BY <2>1, <2>2
<1> QED
  BY <1>1, <1>4, <1>5

-----------------------------------------------------------------------------
(* What a chain says of an id, and what more rows make of it.               *)
ReqIds == Q!Nodes \X Pids \X Nat
Entry == [id : ReqIds, status : {"pending"} \cup Q!Verdicts, by : Q!Nodes \cup {"nobody"}]
ReqRow == [kind : {"ask"} \cup Q!Verdicts, id : ReqIds, by : Q!Nodes]

Asked(c, id) == Q!AskRows(c, id) # {}
Open(c, id) == Q!DecisionRows(c, id, Q!Min(Q!AskRows(c, id))) = {}
Begins(c, d) == Len(c) <= Len(d) /\ \A i \in 1 .. Len(c) : d[i] = c[i]

LEMMA RowsOfIds ==
    ASSUME NEW c \in Seq(ReqRow), NEW id
    PROVE  /\ Q!AskRows(c, id) \subseteq 1 .. Len(c) /\ Len(c) \in Nat
           /\ Q!AskRows(c, id) \subseteq Nat
           /\ \A m : Q!DecisionRows(c, id, m) \subseteq 1 .. Len(c) /\ Q!DecisionRows(c, id, m) \subseteq Nat
           /\ Asked(c, id) => /\ Q!Min(Q!AskRows(c, id)) \in Q!AskRows(c, id)
                              /\ Q!Min(Q!AskRows(c, id)) \in 1 .. Len(c)
<1>1. /\ Q!AskRows(c, id) \subseteq 1 .. Len(c) /\ Len(c) \in Nat
      /\ \A m : Q!DecisionRows(c, id, m) \subseteq 1 .. Len(c)
  BY DEF Q!AskRows, Q!DecisionRows
<1>2. Q!AskRows(c, id) \subseteq Nat /\ \A m : Q!DecisionRows(c, id, m) \subseteq Nat
  BY <1>1
<1>3. Asked(c, id) => Q!Min(Q!AskRows(c, id)) \in Q!AskRows(c, id)
  BY <1>2, FirstOf DEF Asked
<1> QED
  BY <1>1, <1>2, <1>3

LEMMA SaidIs ==
    ASSUME NEW c \in Seq(ReqRow), NEW id \in ReqIds
    PROVE  /\ Open(c, id) => Q!Said(c, id) = Q!Pending(id)
           /\ Open(c, id) <=> Q!Said(c, id).status = "pending"
           /\ Q!Said(c, id).id = id /\ Q!Said(c, id) \in Entry
<1> DEFINE F == Q!DecisionRows(c, id, Q!Min(Q!AskRows(c, id)))
<1>1. Q!Said(c, id) = IF F = {} THEN Q!Pending(id)
                      ELSE [id |-> id, status |-> c[Q!Min(F)].kind, by |-> c[Q!Min(F)].by]
  BY DEF Q!Said
<1>2. Open(c, id) <=> F = {}
  BY DEF Open
<1>3. F # {} => Q!Min(F) \in F
  BY RowsOfIds, FirstOf
<1>4. F # {} => /\ c[Q!Min(F)].kind \in Q!Verdicts
                /\ c[Q!Min(F)] \in ReqRow
  <2>1. \A k \in F : k \in 1 .. Len(c) /\ c[k].kind \in Q!Verdicts
    BY DEF Q!DecisionRows
  <2> QED
    BY <1>3, <2>1
<1> HIDE DEF F
<1>5. Q!Pending(id) \in Entry /\ Q!Pending(id).status = "pending" /\ Q!Pending(id).id = id
  BY DEF Q!Pending, Entry
<1>6. CASE F = {}
  BY <1>1, <1>2, <1>5, <1>6
<1>7. CASE F # {}
  <2>1. Q!Said(c, id) = [id |-> id, status |-> c[Q!Min(F)].kind, by |-> c[Q!Min(F)].by]
    BY <1>1, <1>7
  <2>2. c[Q!Min(F)].by \in Q!Nodes /\ c[Q!Min(F)].kind \in Q!Verdicts
    BY <1>4, <1>7 DEF ReqRow
  <2>3. Q!Said(c, id).id = id /\ Q!Said(c, id).status \in Q!Verdicts /\ Q!Said(c, id) \in Entry
    BY <2>1, <2>2 DEF Entry
  <2>4. "pending" \notin Q!Verdicts
    BY DEF Q!Verdicts
  <2> QED
    BY <1>2, <1>7, <2>3, <2>4
<1> QED
  BY <1>6, <1>7

LEMMA Longer ==
    ASSUME NEW c \in Seq(ReqRow), NEW d \in Seq(ReqRow), Begins(c, d), NEW id, Asked(c, id)
    PROVE  /\ Asked(d, id) /\ Q!Min(Q!AskRows(d, id)) = Q!Min(Q!AskRows(c, id))
           /\ Open(d, id) => Open(c, id)
           /\ ~Open(c, id) => Q!Said(d, id) = Q!Said(c, id)
<1> DEFINE A == Q!AskRows(c, id)  B == Q!AskRows(d, id)  m == Q!Min(A)
           F == Q!DecisionRows(c, id, m)  H == Q!DecisionRows(d, id, m)
<1>0. Len(c) \in Nat /\ Len(d) \in Nat /\ Len(c) <= Len(d)
      /\ \A i \in 1 .. Len(c) : d[i] = c[i] /\ i \in 1 .. Len(d)
  BY DEF Begins
<1>1. A \subseteq B /\ \A i \in B : i \in A \/ i > Len(c)
  BY <1>0 DEF Q!AskRows
<1>2. m \in A /\ m \in 1 .. Len(c) /\ (\A y \in A : m <= y) /\ A \subseteq Nat /\ B \subseteq Nat
  BY RowsOfIds, FirstOf DEF Asked
<1>3. F \subseteq H /\ \A i \in H : i \in F \/ i > Len(c)
  BY <1>0 DEF Q!DecisionRows
<1>4. F \subseteq 1 .. Len(c) /\ F \subseteq Nat /\ H \subseteq Nat
  BY RowsOfIds
<1>5. /\ Open(c, id) <=> F = {}
      /\ Q!Said(c, id) = IF F = {} THEN Q!Pending(id)
                         ELSE [id |-> id, status |-> c[Q!Min(F)].kind, by |-> c[Q!Min(F)].by]
  BY DEF Open, Q!Said
<1> HIDE DEF F, H, A, B
<1>6. ASSUME NEW y \in B PROVE m <= y
  <2>1. y \in A \/ y > Len(c)
    BY <1>1
  <2>2. m \in Nat /\ y \in Nat /\ m <= Len(c) /\ Len(c) \in Nat
    BY <1>0, <1>2
  <2> QED
    BY <1>2, <2>1, <2>2
<1>7. Q!Min(B) = m /\ B # {}
  BY <1>1, <1>2, <1>6, FirstOf
<1>8. /\ Open(d, id) <=> H = {}
      /\ Q!Said(d, id) = IF H = {} THEN Q!Pending(id)
                         ELSE [id |-> id, status |-> d[Q!Min(H)].kind, by |-> d[Q!Min(H)].by]
  BY <1>7 DEF Open, Q!Said, H, B
<1>9. F # {} => Q!Min(H) = Q!Min(F) /\ d[Q!Min(F)] = c[Q!Min(F)] /\ H # {}
  <2> SUFFICES ASSUME F # {}
               PROVE  Q!Min(H) = Q!Min(F) /\ d[Q!Min(F)] = c[Q!Min(F)] /\ H # {}
    OBVIOUS
  <2>1. Q!Min(F) \in F /\ \A y \in F : Q!Min(F) <= y
    BY <1>4, FirstOf
  <2>2. Q!Min(F) \in H /\ Q!Min(F) \in 1 .. Len(c)
    BY <1>3, <1>4, <2>1
  <2>3. \A y \in H : Q!Min(F) <= y
    BY <1>0, <1>3, <1>4, <2>1, <2>2
  <2> QED
    BY <1>0, <1>4, <2>2, <2>3, FirstOf
<1> QED
  BY <1>3, <1>5, <1>7, <1>8, <1>9 DEF Asked, A, B

(* Rows of other ids say nothing new of this one.                           *)
LEMMA Untouched ==
    ASSUME NEW c \in Seq(ReqRow), NEW d \in Seq(ReqRow), Begins(c, d), NEW id,
           \A i \in Len(c) + 1 .. Len(d) : d[i].id # id
    PROVE  /\ Q!AskRows(d, id) = Q!AskRows(c, id) /\ (Asked(d, id) <=> Asked(c, id))
           /\ Open(d, id) <=> Open(c, id)
           /\ Asked(c, id) => Q!Said(d, id) = Q!Said(c, id)
<1>0. Len(c) \in Nat /\ Len(d) \in Nat /\ Len(c) <= Len(d)
      /\ (\A i \in 1 .. Len(c) : d[i] = c[i] /\ i \in 1 .. Len(d))
      /\ \A i \in 1 .. Len(d) : i \in 1 .. Len(c) \/ d[i].id # id
  BY DEF Begins
<1>1. Q!AskRows(d, id) = Q!AskRows(c, id)
  BY <1>0 DEF Q!AskRows
<1>2. \A m : Q!DecisionRows(d, id, m) = Q!DecisionRows(c, id, m)
  BY <1>0 DEF Q!DecisionRows
<1>3. (Asked(d, id) <=> Asked(c, id)) /\ (Open(d, id) <=> Open(c, id))
  BY <1>1, <1>2 DEF Asked, Open
<1>4. ASSUME Asked(c, id) PROVE Q!Said(d, id) = Q!Said(c, id)
  <2>1. CASE Open(c, id)
    BY <1>3, <2>1 DEF Q!Said, Open
  <2>2. CASE ~Open(c, id)
    BY <1>4, <2>2, Longer
  <2> QED
    BY <2>1, <2>2
<1> QED
  BY <1>1, <1>3, <1>4

LEMMA OneMore ==
    ASSUME NEW c \in Seq(ReqRow), NEW e \in ReqRow
    PROVE  /\ Append(c, e) \in Seq(ReqRow) /\ Begins(c, Append(c, e)) /\ Len(c) \in Nat
           /\ Len(Append(c, e)) = Len(c) + 1 /\ Append(c, e)[Len(c) + 1] = e
           /\ \A id : id # e.id =>
                /\ (Asked(Append(c, e), id) <=> Asked(c, id))
                /\ Q!AskRows(Append(c, e), id) = Q!AskRows(c, id)
                /\ Open(Append(c, e), id) <=> Open(c, id)
                /\ Asked(c, id) => Q!Said(Append(c, e), id) = Q!Said(c, id)
<1> DEFINE d == Append(c, e)
<1>1. /\ d \in Seq(ReqRow) /\ Len(c) \in Nat /\ Len(d) = Len(c) + 1 /\ d[Len(c) + 1] = e
      /\ \A i \in 1 .. Len(c) : d[i] = c[i]
  OBVIOUS
<1>2. Begins(c, d)
  BY <1>1 DEF Begins
<1> HIDE DEF d
<1>3. ASSUME NEW id, id # e.id
      PROVE  /\ (Asked(d, id) <=> Asked(c, id)) /\ Q!AskRows(d, id) = Q!AskRows(c, id)
             /\ Open(d, id) <=> Open(c, id)
             /\ Asked(c, id) => Q!Said(d, id) = Q!Said(c, id)
  <2>1. \A i \in Len(c) + 1 .. Len(d) : d[i].id # id
    BY <1>1, <1>3
  <2> QED
    BY <1>1, <1>2, <2>1, Untouched
<1> QED
  BY <1>1, <1>2, <1>3 DEF d

(* An ask of an id that has none, one of an id that has, and a decision.    *)
LEMMA AskedNow ==
    ASSUME NEW c \in Seq(ReqRow), NEW e \in ReqRow, e.kind = "ask", ~Asked(c, e.id)
    PROVE  Asked(Append(c, e), e.id) /\ Open(Append(c, e), e.id)
<1> DEFINE d == Append(c, e)  n == Len(c)
<1>1. /\ d \in Seq(ReqRow) /\ n \in Nat /\ Len(d) = n + 1 /\ d[n + 1] = e
      /\ \A i \in 1 .. n : d[i] = c[i]
  OBVIOUS
<1> HIDE DEF d, n
<1>2. Q!AskRows(d, e.id) = {n + 1}
  <2>1. \A i \in 1 .. n : ~(c[i].kind = "ask" /\ c[i].id = e.id)
    BY DEF Asked, Q!AskRows, n
  <2>2. DOMAIN d = 1 .. n + 1
    BY <1>1
  <2> QED
    BY <1>1, <2>1, <2>2 DEF Q!AskRows
<1>3. Q!Min({n + 1}) = n + 1
  BY <1>1, OnlyOne
<1>4. Q!DecisionRows(d, e.id, n + 1) = {}
  BY <1>1 DEF Q!DecisionRows
<1> QED
  BY <1>2, <1>3, <1>4 DEF Asked, Open, d

LEMMA AskedAgain ==
    ASSUME NEW c \in Seq(ReqRow), NEW e \in ReqRow, e.kind = "ask", Asked(c, e.id)
    PROVE  /\ Asked(Append(c, e), e.id) /\ (Open(Append(c, e), e.id) <=> Open(c, e.id))
           /\ Q!Said(Append(c, e), e.id) = Q!Said(c, e.id)
<1> DEFINE d == Append(c, e)  n == Len(c)
<1>1. /\ d \in Seq(ReqRow) /\ n \in Nat /\ Len(d) = n + 1 /\ d[n + 1] = e
      /\ (\A i \in 1 .. n : d[i] = c[i]) /\ Begins(c, d)
  BY OneMore
<1>2. Asked(d, e.id) /\ Q!Min(Q!AskRows(d, e.id)) = Q!Min(Q!AskRows(c, e.id))
      /\ (Open(d, e.id) => Open(c, e.id))
      /\ (~Open(c, e.id) => Q!Said(d, e.id) = Q!Said(c, e.id))
  BY <1>1, Longer
<1> HIDE DEF d
<1>3. \A m : Q!DecisionRows(d, e.id, m) = Q!DecisionRows(c, e.id, m)
  <2>1. DOMAIN d = 1 .. n + 1 /\ DOMAIN c = 1 .. n /\ e.kind \notin Q!Verdicts
    BY <1>1 DEF Q!Verdicts
  <2> QED
    BY <1>1, <2>1 DEF Q!DecisionRows
<1>4. Open(d, e.id) <=> Open(c, e.id)
  BY <1>2, <1>3 DEF Open
<1>5. Open(c, e.id) => Q!Said(d, e.id) = Q!Said(c, e.id)
  BY <1>4 DEF Q!Said, Open
<1> QED
  BY <1>2, <1>4, <1>5 DEF d

LEMMA DecidedNow ==
    ASSUME NEW c \in Seq(ReqRow), NEW e \in ReqRow, e.kind \in Q!Verdicts, Asked(c, e.id)
    PROVE  /\ Asked(Append(c, e), e.id) /\ ~Open(Append(c, e), e.id)
           /\ Open(c, e.id) =>
                Q!Said(Append(c, e), e.id) = [id |-> e.id, status |-> e.kind, by |-> e.by]
<1> DEFINE d == Append(c, e)  n == Len(c)  m == Q!Min(Q!AskRows(c, e.id))
<1>1. /\ d \in Seq(ReqRow) /\ n \in Nat /\ Len(d) = n + 1 /\ d[n + 1] = e
      /\ (\A i \in 1 .. n : d[i] = c[i]) /\ Begins(c, d)
  BY OneMore
<1>2. Asked(d, e.id) /\ Q!Min(Q!AskRows(d, e.id)) = m /\ m \in 1 .. n
  BY <1>1, Longer, RowsOfIds
<1> HIDE DEF d, m
<1>3. n + 1 \in Q!DecisionRows(d, e.id, m)
  BY <1>1, <1>2 DEF Q!DecisionRows
<1>4. ~Open(d, e.id)
  BY <1>2, <1>3 DEF Open
<1>5. ASSUME Open(c, e.id)
      PROVE  Q!Said(d, e.id) = [id |-> e.id, status |-> e.kind, by |-> e.by]
  <2>1. Q!DecisionRows(d, e.id, m) = {n + 1}
    <3>1. Q!DecisionRows(c, e.id, m) = {}
      BY <1>5 DEF Open, m
    <3>2. DOMAIN d = 1 .. n + 1 /\ DOMAIN c = 1 .. n
      BY <1>1
    <3>3. \A i \in Q!DecisionRows(d, e.id, m) : i = n + 1
      BY <1>1, <3>1, <3>2 DEF Q!DecisionRows
    <3> QED
      BY <1>3, <3>3
  <2>2. Q!Min({n + 1}) = n + 1
    BY <1>1, OnlyOne
  <2>3. {n + 1} # {}
    OBVIOUS
  <2> QED
    BY <1>1, <1>2, <2>1, <2>2, <2>3 DEF Q!Said
<1> QED
  BY <1>2, <1>4, <1>5 DEF d

-----------------------------------------------------------------------------
(* Reading the records back from a chain, and the pending ones into a queue *)
(* (derive_requests_from, restore): one row, or one record, at a time; and  *)
(* likewise the entries of a published file that is merged (merge_table).   *)
Step(how, s, e) ==
    IF how[1] = "derive" THEN Q!Recorded(s, e)
    ELSE IF how[1] = "restore" THEN Q!Restored(s, e) ELSE G!Pushed(how[2], s, e)
StepsOf(how, f, s, c, n) ==
    f = [k \in 0 .. n |-> IF k = 0 THEN s ELSE Step(how, f[k - 1], c[k])]

LEMMA StepsExist == ASSUME NEW how, NEW s, NEW c, NEW n \in Nat PROVE \E f : StepsOf(how, f, s, c, n)
<1> DEFINE S == {m \in Nat : ~ \E f : StepsOf(how, f, s, c, m)}
<1> SUFFICES ASSUME n \in S PROVE FALSE
  OBVIOUS
<1>1. PICK m \in S : \A k \in S : m <= k
  BY LeastNumber
<1>2. m # 0
  <2>1. StepsOf(how, [k \in 0 .. 0 |-> s], s, c, 0)
    BY DEF StepsOf
  <2> QED
    BY <2>1
<1>3. m \in Nat /\ m - 1 \in Nat /\ m - 1 \notin S
  BY <1>1, <1>2
<1>4. PICK f : StepsOf(how, f, s, c, m - 1)
  BY <1>3
<1> DEFINE g == [k \in 0 .. m |-> IF k = m THEN Step(how, f[m - 1], c[m]) ELSE f[k]]
<1>5. \A k \in 0 .. m : g[k] = IF k = 0 THEN s ELSE Step(how, g[k - 1], c[k])
  <2> SUFFICES ASSUME NEW k \in 0 .. m
               PROVE  g[k] = IF k = 0 THEN s ELSE Step(how, g[k - 1], c[k])
    OBVIOUS
  <2>1. CASE k = m
    <3>1. g[m] = Step(how, f[m - 1], c[m]) /\ g[m - 1] = f[m - 1]
      BY <1>3
    <3> QED
      BY <1>2, <2>1, <3>1
  <2>2. CASE k # m
    <3>1. k \in 0 .. m - 1 /\ g[k] = f[k]
      BY <1>3, <2>2
    <3>2. f[k] = IF k = 0 THEN s ELSE Step(how, f[k - 1], c[k])
      BY <1>4, <3>1 DEF StepsOf
    <3>3. k # 0 => g[k - 1] = f[k - 1]
      BY <1>3, <3>1
    <3> QED
      BY <3>1, <3>2, <3>3
  <2> QED
    BY <2>1, <2>2
<1>6. g = [k \in 0 .. m |-> g[k]]
  OBVIOUS
<1> HIDE DEF g
<1>7. StepsOf(how, g, s, c, m)
  BY <1>5, <1>6 DEF StepsOf
<1> QED
  BY <1>1, <1>7

(* What all the steps come to; one more element is one step more.           *)
Steps(how, s, c) == (CHOOSE f : StepsOf(how, f, s, c, Len(c)))[Len(c)]

LEMMA StepsAreSteps ==
    ASSUME NEW how, NEW s, NEW c, Len(c) \in Nat
    PROVE  \E f : StepsOf(how, f, s, c, Len(c)) /\ Steps(how, s, c) = f[Len(c)]
<1>1. StepsOf(how, CHOOSE f : StepsOf(how, f, s, c, Len(c)), s, c, Len(c))
  BY StepsExist
<1> QED
  BY <1>1 DEF Steps

LEMMA NoStep == ASSUME NEW how, NEW s, NEW c, Len(c) = 0 PROVE Steps(how, s, c) = s
<1>1. PICK f : StepsOf(how, f, s, c, Len(c)) /\ Steps(how, s, c) = f[Len(c)]
  BY StepsAreSteps
<1> QED
  BY <1>1 DEF StepsOf

LEMMA StepMore ==
    ASSUME NEW how, NEW s, NEW M, NEW c \in Seq(M), NEW e \in M
    PROVE  Steps(how, s, Append(c, e)) = Step(how, Steps(how, s, c), e)
<1> DEFINE d == Append(c, e)  n == Len(c)
<1>1. /\ n \in Nat /\ Len(d) = n + 1 /\ d[n + 1] = e
      /\ \A i \in 1 .. n : d[i] = c[i]
  OBVIOUS
<1> HIDE DEF d, n
<1>2. PICK f : StepsOf(how, f, s, c, n) /\ Steps(how, s, c) = f[n]
  BY <1>1, StepsAreSteps DEF n
<1>3. PICK g : StepsOf(how, g, s, d, n + 1) /\ Steps(how, s, d) = g[n + 1]
  <2>1. Len(d) \in Nat
    BY <1>1
  <2>2. \E g : StepsOf(how, g, s, d, Len(d)) /\ Steps(how, s, d) = g[Len(d)]
    BY <2>1, StepsAreSteps, Zenon
  <2> QED
    BY <1>1, <2>2
<1>4. f[n] = g[n]
  <2> DEFINE S == {i \in 0 .. n : f[i] # g[i]}
  <2> SUFFICES ASSUME S # {} PROVE FALSE
    BY <1>1
  <2>0. S \subseteq Nat
    OBVIOUS
  <2>1. PICK i \in S : \A k \in S : i <= k
    BY <2>0, LeastNumber
  <2>2. i \in 0 .. n /\ i \in 0 .. n + 1
    BY <1>1, <2>1
  <2>3. /\ f[i] = IF i = 0 THEN s ELSE Step(how, f[i - 1], c[i])
        /\ g[i] = IF i = 0 THEN s ELSE Step(how, g[i - 1], d[i])
    BY <1>2, <1>3, <2>2 DEF StepsOf
  <2>4. i # 0
    BY <2>1, <2>3
  <2>5. i \in 1 .. n /\ i - 1 \in 0 .. n /\ i - 1 \notin S
    BY <1>1, <2>1, <2>2, <2>4
  <2>6. f[i - 1] = g[i - 1] /\ c[i] = d[i]
    BY <1>1, <2>5
  <2> QED
    BY <2>1, <2>3, <2>4, <2>6
<1>5. g[n + 1] = Step(how, g[n], d[n + 1])
  BY <1>1, <1>3 DEF StepsOf
<1> QED
  BY <1>1, <1>2, <1>3, <1>4, <1>5 DEF d, n

LEMMA BothAreSteps ==
    /\ \A c : Q!DeriveRequests(c) = Steps(<<"derive">>, <<>>, c)
    /\ \A s, c : Q!Restore(s, c) = Steps(<<"restore">>, s, c)
BY DEF Q!DeriveRequests, Q!Restore, Steps, StepsOf, Step

(* A sequence is its last element behind the others.                        *)
LEMMA LastBehind ==
    ASSUME NEW M, NEW c \in Seq(M), Len(c) # 0
    PROVE  \E d \in Seq(M), e \in M : c = Append(d, e) /\ Len(d) = Len(c) - 1
<1> DEFINE d == SubSeq(c, 1, Len(c) - 1)
<1>2. Len(c) \in Nat \ {0} /\ c = [i \in 1 .. Len(c) |-> c[i]]
  OBVIOUS
<1>1. /\ d \in Seq(M) /\ Len(d) = Len(c) - 1 /\ c[Len(c)] \in M
      /\ \A i \in 1 .. Len(c) - 1 : d[i] = c[i]
  <2>1. c[Len(c)] \in M /\ \A i \in 1 .. Len(c) - 1 : c[i] \in M
    BY <1>2
  <2>2. Len(c) - 1 \in Nat /\ Len(c) - 1 <= Len(c)
    BY <1>2
  <2> QED
    BY <1>2, <2>1, <2>2, SubSeqProperties
<1> HIDE DEF d
<1>3. Append(d, c[Len(c)]) = [i \in 1 .. Len(c) |-> IF i = Len(c) THEN c[Len(c)] ELSE d[i]]
  BY <1>1, <1>2
<1>4. c = Append(d, c[Len(c)])
  BY <1>1, <1>2, <1>3
<1> QED
  BY <1>1, <1>4

(* What a queue does: ids, and what a decision and one entry more make of   *)
(* it.                                                                      *)
Has(q, id) == Q!Queued(q, id) # {}
Once(q, id) == \A i, j \in DOMAIN q : q[i].id = id /\ q[j].id = id => i = j
Distinct(q) == \A i, j \in DOMAIN q : q[i].id = q[j].id => i = j

LEMMA QueuedIs ==
    ASSUME NEW q \in Seq(Entry), NEW id
    PROVE  /\ Has(q, id) <=> \E i \in 1 .. Len(q) : q[i].id = id
           /\ Has(q, id) => /\ Q!Min(Q!Queued(q, id)) \in 1 .. Len(q)
                            /\ q[Q!Min(Q!Queued(q, id))].id = id
           /\ DOMAIN q = 1 .. Len(q) /\ Len(q) \in Nat
<1>1. Q!Queued(q, id) \subseteq 1 .. Len(q) /\ Q!Queued(q, id) \subseteq Nat
      /\ DOMAIN q = 1 .. Len(q) /\ Len(q) \in Nat
  BY DEF Q!Queued
<1>2. Has(q, id) => Q!Min(Q!Queued(q, id)) \in Q!Queued(q, id)
  BY <1>1, FirstOf DEF Has
<1>3. Has(q, id) <=> \E i \in 1 .. Len(q) : q[i].id = id
  BY <1>1 DEF Has, Q!Queued
<1> QED
  BY <1>1, <1>2, <1>3 DEF Q!Queued

LEMMA QueueMore ==
    ASSUME NEW q \in Seq(Entry), NEW r \in Entry
    PROVE  /\ Append(q, r) \in Seq(Entry) /\ Len(q) \in Nat /\ Len(Append(q, r)) = Len(q) + 1
           /\ Append(q, r)[Len(q) + 1] = r
           /\ \A i \in 1 .. Len(q) : Append(q, r)[i] = q[i]
           /\ \A id : Has(Append(q, r), id) <=> Has(q, id) \/ id = r.id
           /\ Distinct(q) /\ ~Has(q, r.id) => Distinct(Append(q, r))
           /\ \A id : Once(q, id) /\ (id = r.id => ~Has(q, id)) => Once(Append(q, r), id)
<1> DEFINE s == Append(q, r)
<1>1. /\ s \in Seq(Entry) /\ Len(q) \in Nat /\ Len(s) = Len(q) + 1 /\ s[Len(q) + 1] = r
      /\ \A i \in 1 .. Len(q) : s[i] = q[i]
  OBVIOUS
<1> HIDE DEF s
<1>2. \A id : Has(s, id) <=> \E i \in 1 .. Len(q) + 1 : s[i].id = id
  BY <1>1, QueuedIs
<1>3. \A id : Has(q, id) <=> \E i \in 1 .. Len(q) : q[i].id = id
  BY QueuedIs
<1>4. \A id : Has(s, id) <=> Has(q, id) \/ id = r.id
  BY <1>1, <1>2, <1>3
<1>6. ASSUME NEW id, Once(q, id), id = r.id => ~Has(q, id) PROVE Once(s, id)
  <2>1. id = r.id => \A i \in 1 .. Len(q) : q[i].id # id
    BY <1>3, <1>6
  <2>2. DOMAIN s = 1 .. Len(q) + 1 /\ DOMAIN q = 1 .. Len(q)
    BY <1>1
  <2>3. \A i \in DOMAIN s : (i \in DOMAIN q /\ s[i] = q[i]) \/ (i = Len(q) + 1 /\ s[i] = r)
    BY <1>1, <2>2
  <2>4. \A i \in DOMAIN q : i \in 1 .. Len(q)
    BY <2>2
  <2> QED
    BY <1>6, <2>1, <2>3, <2>4 DEF Once
<1>5. ASSUME Distinct(q), ~Has(q, r.id) PROVE Distinct(s)
  <2>1. \A i \in 1 .. Len(q) : q[i].id # r.id
    BY <1>3, <1>5
  <2>2. DOMAIN s = 1 .. Len(q) + 1 /\ DOMAIN q = 1 .. Len(q)
    BY <1>1
  <2> QED
    BY <1>1, <1>5, <2>1, <2>2 DEF Distinct
<1> QED
  BY <1>1, <1>4, <1>5, <1>6 DEF s

LEMMA QueueDecided ==
    ASSUME NEW q \in Seq(Entry), NEW id \in ReqIds, NEW v \in Q!Verdicts, NEW by \in Q!Nodes
    PROVE  /\ Q!Decided(q, id, v, by) \in Seq(Entry) /\ Len(Q!Decided(q, id, v, by)) = Len(q)
           /\ DOMAIN Q!Decided(q, id, v, by) = DOMAIN q
           /\ \A i \in 1 .. Len(q) :
                \/ Q!Decided(q, id, v, by)[i] = q[i]
                \/ /\ q[i].id = id /\ q[i].status = "pending"
                   /\ Q!Decided(q, id, v, by)[i] = [id |-> id, status |-> v, by |-> by]
           /\ Once(q, id) => \A i \in 1 .. Len(q) :
                q[i].id = id /\ q[i].status = "pending"
                  => Q!Decided(q, id, v, by)[i] = [id |-> id, status |-> v, by |-> by]
<1> DEFINE new == [id |-> id, status |-> v, by |-> by]  k == Q!Min(Q!Queued(q, id))
           s == Q!Decided(q, id, v, by)
<1>1. s = IF ~Has(q, id) \/ q[k].status # "pending" THEN q ELSE [q EXCEPT ![k] = new]
  BY DEF Q!Decided, Has
<1>2. Has(q, id) => k \in 1 .. Len(q) /\ q[k].id = id
  BY QueuedIs
<1>3. DOMAIN q = 1 .. Len(q) /\ Len(q) \in Nat
  OBVIOUS
<1>4. new \in Entry
  BY DEF Entry
<1> HIDE DEF s, k, new
<1>5. CASE ~Has(q, id) \/ q[k].status # "pending"
  <2>1. s = q
    BY <1>1, <1>5
  <2>2. Once(q, id) => \A i \in 1 .. Len(q) : ~(q[i].id = id /\ q[i].status = "pending")
    BY <1>2, <1>3, <1>5, QueuedIs DEF Once
  <2> QED
    BY <1>3, <2>1, <2>2 DEF s
<1>6. CASE Has(q, id) /\ q[k].status = "pending"
  <2>1. s = [q EXCEPT ![k] = new] /\ k \in 1 .. Len(q) /\ q[k].id = id
    BY <1>1, <1>2, <1>6
  <2>2. s \in Seq(Entry) /\ Len(s) = Len(q) /\ DOMAIN s = DOMAIN q
    BY <1>3, <1>4, <2>1
  <2>3. s[k] = new /\ \A i \in 1 .. Len(q) : i # k => s[i] = q[i]
    BY <1>3, <2>1
  <2>4. Once(q, id) => \A i \in 1 .. Len(q) : q[i].id = id => i = k
    BY <1>3, <2>1 DEF Once
  <2> QED
    BY <1>6, <2>1, <2>2, <2>3, <2>4 DEF s, new
<1> QED
  BY <1>5, <1>6

LEMMA DecidedIsPending ==
    ASSUME NEW q \in Seq(Entry), NEW id, NEW v, NEW by, Q!Decided(q, id, v, by) # q
    PROVE  \E i \in 1 .. Len(q) : q[i].id = id /\ q[i].status = "pending"
<1>1. Has(q, id) /\ q[Q!Min(Q!Queued(q, id))].status = "pending"
  BY DEF Q!Decided, Has
<1> QED
  BY <1>1, QueuedIs

LEMMA DecidedKeepsIds ==
    ASSUME NEW q \in Seq(Entry), NEW id \in ReqIds, NEW v \in Q!Verdicts, NEW by \in Q!Nodes
    PROVE  /\ \A i \in 1 .. Len(q) : Q!Decided(q, id, v, by)[i].id = q[i].id
           /\ Distinct(q) => Distinct(Q!Decided(q, id, v, by))
           /\ \A o : Once(q, o) => Once(Q!Decided(q, id, v, by), o)
           /\ \A o : Has(Q!Decided(q, id, v, by), o) <=> Has(q, o)
<1> DEFINE s == Q!Decided(q, id, v, by)
<1>1. /\ s \in Seq(Entry) /\ Len(s) = Len(q) /\ DOMAIN s = DOMAIN q
      /\ \A i \in 1 .. Len(q) :
           \/ s[i] = q[i]
           \/ q[i].id = id /\ s[i] = [id |-> id, status |-> v, by |-> by]
  BY QueueDecided
<1> HIDE DEF s
<1>2. \A i \in 1 .. Len(q) : s[i].id = q[i].id
  BY <1>1
<1>3. Distinct(q) => Distinct(s)
  BY <1>1, <1>2 DEF Distinct
<1>5. \A o : Once(q, o) => Once(s, o)
  BY <1>1, <1>2 DEF Once
<1>4. \A o : Has(s, o) <=> Has(q, o)
  BY <1>1, <1>2, QueuedIs
<1> QED
  BY <1>2, <1>3, <1>4, <1>5 DEF s

(* The records read back are what the chain says, one for each id asked.    *)
Derived(c, f) ==
    /\ f \in Seq(Entry) /\ Distinct(f)
    /\ \A i \in 1 .. Len(f) : Asked(c, f[i].id) /\ f[i] = Q!Said(c, f[i].id)
    /\ \A id \in ReqIds : Asked(c, id) => Has(f, id)

LEMMA DerivedAsk ==
    ASSUME NEW c \in Seq(ReqRow), NEW e \in ReqRow, NEW f, Derived(c, f), e.kind = "ask"
    PROVE  Derived(Append(c, e), Q!Recorded(f, e))
<1> DEFINE d == Append(c, e)  g == Q!Recorded(f, e)
<1>1. /\ f \in Seq(Entry) /\ Distinct(f) /\ e.id \in ReqIds
      /\ \A i \in 1 .. Len(f) : Asked(c, f[i].id) /\ f[i] = Q!Said(c, f[i].id) /\ f[i].id \in ReqIds
      /\ \A id \in ReqIds : Asked(c, id) => Has(f, id)
  <2>1. f \in Seq(Entry) /\ \A i \in 1 .. Len(f) : f[i] \in Entry
    BY DEF Derived
  <2>2. \A i \in 1 .. Len(f) : f[i].id \in ReqIds
    BY <2>1 DEF Entry
  <2> QED
    BY <2>2 DEF Derived, ReqRow
<1>2. /\ d \in Seq(ReqRow)
      /\ \A id : id # e.id => /\ Asked(d, id) <=> Asked(c, id)
                              /\ Asked(c, id) => Q!Said(d, id) = Q!Said(c, id)
  BY OneMore
<1>3. g = IF ~Has(f, e.id) THEN Append(f, Q!Pending(e.id)) ELSE f
  BY DEF Q!Recorded, Has
<1>4. Asked(c, e.id) => Q!Said(d, e.id) = Q!Said(c, e.id)
  BY AskedAgain
<1>5. Asked(d, e.id)
  BY AskedNow, AskedAgain
<1> HIDE DEF d, g
<1>6. \A i \in 1 .. Len(f) : Asked(d, f[i].id) /\ f[i] = Q!Said(d, f[i].id)
  BY <1>1, <1>2, <1>4, <1>5
<1>7. CASE Has(f, e.id)
  <2>1. g = f /\ \A id \in ReqIds : Asked(d, id) => Has(f, id)
    BY <1>1, <1>2, <1>3, <1>7
  <2> QED
    BY <1>1, <1>6, <2>1 DEF Derived, d, g
<1>8. CASE ~Has(f, e.id)
  <2>1. ~Asked(c, e.id)
    BY <1>1, <1>8
  <2>2. Q!Said(d, e.id) = Q!Pending(e.id) /\ Q!Pending(e.id).id = e.id
        /\ Q!Pending(e.id) \in Entry
    <3>1. Open(d, e.id)
      BY <2>1, AskedNow DEF d
    <3>2. Q!Said(d, e.id) = Q!Pending(e.id) /\ Q!Said(d, e.id).id = e.id /\ Q!Said(d, e.id) \in Entry
      BY <1>1, <1>2, <3>1, SaidIs
    <3> QED
      BY <3>2
  <2>3. g = Append(f, Q!Pending(e.id))
    BY <1>3, <1>8
  <2>4. /\ g \in Seq(Entry) /\ Len(f) \in Nat /\ Len(g) = Len(f) + 1 /\ g[Len(f) + 1] = Q!Pending(e.id)
        /\ \A i \in 1 .. Len(f) : g[i] = f[i]
        /\ \A id : Has(g, id) <=> Has(f, id) \/ id = e.id
        /\ Distinct(g)
    BY <1>1, <1>8, <2>2, <2>3, QueueMore
  <2>5. \A i \in 1 .. Len(g) : Asked(d, g[i].id) /\ g[i] = Q!Said(d, g[i].id)
    <3> SUFFICES ASSUME NEW i \in 1 .. Len(g)
                 PROVE  Asked(d, g[i].id) /\ g[i] = Q!Said(d, g[i].id)
      OBVIOUS
    <3>1. i \in 1 .. Len(f) \/ i = Len(f) + 1
      BY <2>4
    <3> QED
      BY <1>5, <1>6, <2>2, <2>4, <3>1
  <2>6. \A id \in ReqIds : Asked(d, id) => Has(g, id)
    BY <1>1, <1>2, <2>4
  <2> QED
    BY <2>4, <2>5, <2>6 DEF Derived, d, g
<1> QED
  BY <1>7, <1>8

LEMMA DerivedVerdict ==
    ASSUME NEW c \in Seq(ReqRow), NEW e \in ReqRow, NEW f, Derived(c, f), e.kind # "ask"
    PROVE  Derived(Append(c, e), Q!Recorded(f, e))
<1> DEFINE d == Append(c, e)  g == Q!Recorded(f, e)
<1>1. /\ f \in Seq(Entry) /\ Distinct(f) /\ e.id \in ReqIds /\ e.kind \in Q!Verdicts /\ e.by \in Q!Nodes
      /\ \A i \in 1 .. Len(f) : Asked(c, f[i].id) /\ f[i] = Q!Said(c, f[i].id) /\ f[i].id \in ReqIds
      /\ \A id \in ReqIds : Asked(c, id) => Has(f, id)
  <2>1. f \in Seq(Entry) /\ \A i \in 1 .. Len(f) : f[i] \in Entry
    BY DEF Derived
  <2>2. \A i \in 1 .. Len(f) : f[i].id \in ReqIds
    BY <2>1 DEF Entry
  <2>3. e.id \in ReqIds /\ e.kind \in Q!Verdicts /\ e.by \in Q!Nodes
    BY DEF ReqRow
  <2> QED
    BY <2>2, <2>3 DEF Derived
<1>2. /\ d \in Seq(ReqRow) /\ Begins(c, d)
      /\ \A id : id # e.id => /\ Asked(d, id) <=> Asked(c, id)
                              /\ Asked(c, id) => Q!Said(d, id) = Q!Said(c, id)
  BY OneMore
<1>3. g = Q!Decided(f, e.id, e.kind, e.by)
  BY DEF Q!Recorded
<1>4. /\ g \in Seq(Entry) /\ Len(g) = Len(f)
      /\ \A i \in 1 .. Len(f) :
           \/ g[i] = f[i]
           \/ /\ f[i].id = e.id /\ f[i].status = "pending"
              /\ g[i] = [id |-> e.id, status |-> e.kind, by |-> e.by]
      /\ \A i \in 1 .. Len(f) :
           f[i].id = e.id /\ f[i].status = "pending"
             => g[i] = [id |-> e.id, status |-> e.kind, by |-> e.by]
  <2>1. Once(f, e.id)
    BY <1>1 DEF Distinct, Once
  <2>2. /\ Q!Decided(f, e.id, e.kind, e.by) \in Seq(Entry) /\ Len(Q!Decided(f, e.id, e.kind, e.by)) = Len(f)
        /\ \A i \in 1 .. Len(f) :
             \/ Q!Decided(f, e.id, e.kind, e.by)[i] = f[i]
             \/ /\ f[i].id = e.id /\ f[i].status = "pending"
                /\ Q!Decided(f, e.id, e.kind, e.by)[i] = [id |-> e.id, status |-> e.kind, by |-> e.by]
        /\ Once(f, e.id) => \A i \in 1 .. Len(f) :
             f[i].id = e.id /\ f[i].status = "pending"
               => Q!Decided(f, e.id, e.kind, e.by)[i] = [id |-> e.id, status |-> e.kind, by |-> e.by]
    BY <1>1, QueueDecided
  <2> QED
    BY <1>3, <2>1, <2>2
<1>5. Distinct(g) /\ (\A i \in 1 .. Len(f) : g[i].id = f[i].id) /\ \A id : Has(g, id) <=> Has(f, id)
  BY <1>1, <1>3, DecidedKeepsIds
<1>6. Asked(c, e.id) => /\ Asked(d, e.id)
                        /\ Open(c, e.id) => Q!Said(d, e.id) = [id |-> e.id, status |-> e.kind, by |-> e.by]
                        /\ ~Open(c, e.id) => Q!Said(d, e.id) = Q!Said(c, e.id)
  BY <1>1, <1>2, DecidedNow, Longer
<1>7. Asked(d, e.id) => Asked(c, e.id)
  <2>1. \A i \in Q!AskRows(d, e.id) : i \in Q!AskRows(c, e.id)
    <3>1. /\ DOMAIN d = 1 .. Len(c) + 1 /\ DOMAIN c = 1 .. Len(c) /\ d[Len(c) + 1] = e
          /\ \A i \in 1 .. Len(c) : d[i] = c[i]
      OBVIOUS
    <3>2. Len(c) \in Nat
      OBVIOUS
    <3> HIDE DEF d
    <3> QED
      BY <3>1, <3>2 DEF Q!AskRows
  <2> QED
    BY <2>1 DEF Asked
<1>8. \A id \in ReqIds : Open(c, id) <=> Q!Said(c, id).status = "pending"
  BY SaidIs
<1> HIDE DEF d, g
<1>9. ASSUME NEW i \in 1 .. Len(g) PROVE Asked(d, g[i].id) /\ g[i] = Q!Said(d, g[i].id)
  <2>0. i \in 1 .. Len(f) /\ g[i].id = f[i].id /\ Asked(c, f[i].id) /\ f[i] = Q!Said(c, f[i].id)
        /\ f[i].id \in ReqIds
    BY <1>1, <1>4, <1>5
  <2>1. CASE f[i].id # e.id
    <3>1. g[i] = f[i]
      BY <1>4, <2>0, <2>1
    <3>2. Asked(d, f[i].id) /\ Q!Said(d, f[i].id) = Q!Said(c, f[i].id)
      BY <1>2, <2>0, <2>1
    <3> QED
      BY <2>0, <3>1, <3>2
  <2>2. CASE f[i].id = e.id /\ f[i].status = "pending"
    <3>1. Open(c, e.id)
      BY <1>1, <1>8, <2>0, <2>2
    <3>2. Asked(d, e.id) /\ Q!Said(d, e.id) = [id |-> e.id, status |-> e.kind, by |-> e.by]
      BY <1>6, <2>0, <2>2, <3>1
    <3> QED
      BY <1>4, <2>0, <2>2, <3>2
  <2>3. CASE f[i].id = e.id /\ f[i].status # "pending"
    <3>1. ~Open(c, e.id)
      BY <1>1, <1>8, <2>0, <2>3
    <3>2. g[i] = f[i]
      BY <1>4, <2>0, <2>3
    <3>3. Asked(d, e.id) /\ Q!Said(d, e.id) = Q!Said(c, e.id)
      BY <1>6, <2>0, <2>3, <3>1
    <3> QED
      BY <2>0, <2>3, <3>2, <3>3
  <2> QED
    BY <2>1, <2>2, <2>3
<1>10. \A id \in ReqIds : Asked(d, id) => Has(g, id)
  BY <1>1, <1>2, <1>5, <1>7
<1> QED
  BY <1>4, <1>5, <1>9, <1>10 DEF Derived, d, g

LEMMA RecordsHold == \A c \in Seq(ReqRow) : Derived(c, Q!DeriveRequests(c))
<1> DEFINE S == {n \in Nat : \E c \in Seq(ReqRow) : Len(c) = n /\ ~Derived(c, Q!DeriveRequests(c))}
<1> SUFFICES ASSUME S # {} PROVE FALSE
  <2>1. \A c \in Seq(ReqRow) : Len(c) \in Nat
    OBVIOUS
  <2> QED
    BY <2>1
<1>0. S \subseteq Nat
  OBVIOUS
<1>1. PICK n \in S : \A k \in S : n <= k
  BY <1>0, LeastNumber
<1>2. PICK c \in Seq(ReqRow) : Len(c) = n /\ ~Derived(c, Q!DeriveRequests(c))
  BY <1>1
<1>3. CASE n = 0
  <2>1. Q!DeriveRequests(c) = <<>>
    BY <1>2, <1>3, NoStep, BothAreSteps
  <2>2. \A id : ~Asked(c, id)
    BY <1>2, <1>3 DEF Asked, Q!AskRows
  <2>3. Derived(c, <<>>)
    BY <2>2 DEF Derived, Distinct
  <2> QED
    BY <1>2, <2>1, <2>3
<1>4. CASE n # 0
  <2>1. PICK d \in Seq(ReqRow), e \in ReqRow : c = Append(d, e) /\ Len(d) = Len(c) - 1
    BY <1>2, <1>4, LastBehind
  <2>2. n \in Nat /\ n - 1 \in Nat /\ Len(d) = n - 1 /\ n - 1 \notin S
    BY <1>1, <1>2, <1>4, <2>1
  <2>3. Derived(d, Q!DeriveRequests(d))
    BY <2>2
  <2>4. Q!DeriveRequests(c) = Q!Recorded(Q!DeriveRequests(d), e)
    <3>1. Steps(<<"derive">>, <<>>, Append(d, e)) = Step(<<"derive">>, Steps(<<"derive">>, <<>>, d), e)
      BY StepMore
    <3> QED
      BY <2>1, <3>1, BothAreSteps DEF Step
  <2>5. Derived(c, Q!DeriveRequests(c))
    BY <2>1, <2>3, <2>4, DerivedAsk, DerivedVerdict
  <2> QED
    BY <1>2, <2>5
<1> QED
  BY <1>3, <1>4

(* A queue restored holds the pending ones, each once.                      *)
Seeded(d, q) ==
    /\ q \in Seq(Entry) /\ Distinct(q) /\ \A i \in 1 .. Len(q) : q[i].status = "pending"
    /\ \A id : Has(q, id) <=> \E i \in 1 .. Len(d) : d[i].id = id /\ d[i].status = "pending"

LEMMA QueueRestored == \A d \in Seq(Entry) : Seeded(d, Q!Restore(<<>>, d))
<1> DEFINE S == {n \in Nat : \E d \in Seq(Entry) : Len(d) = n /\ ~Seeded(d, Q!Restore(<<>>, d))}
<1> SUFFICES ASSUME S # {} PROVE FALSE
  <2>1. \A d \in Seq(Entry) : Len(d) \in Nat
    OBVIOUS
  <2> QED
    BY <2>1
<1>0. S \subseteq Nat
  OBVIOUS
<1>1. PICK n \in S : \A k \in S : n <= k
  BY <1>0, LeastNumber
<1>2. PICK c \in Seq(Entry) : Len(c) = n /\ ~Seeded(c, Q!Restore(<<>>, c))
  BY <1>1
<1>3. CASE n = 0
  <2>1. Q!Restore(<<>>, c) = <<>>
    BY <1>2, <1>3, NoStep, BothAreSteps
  <2>2. <<>> \in Seq(Entry) /\ Len(<<>>) = 0 /\ DOMAIN <<>> = {}
    OBVIOUS
  <2>3. \A id : ~Has(<<>>, id)
    BY <2>2 DEF Has, Q!Queued
  <2>4. Seeded(c, <<>>)
    BY <1>2, <1>3, <2>2, <2>3 DEF Seeded, Distinct
  <2> QED
    BY <1>2, <2>1, <2>4
<1>4. CASE n # 0
  <2>1. PICK d \in Seq(Entry), e \in Entry : c = Append(d, e) /\ Len(d) = Len(c) - 1
    BY <1>2, <1>4, LastBehind
  <2>2. n \in Nat /\ n - 1 \in Nat /\ Len(d) = n - 1 /\ n - 1 \notin S
    BY <1>1, <1>2, <1>4, <2>1
  <2>3. Seeded(d, Q!Restore(<<>>, d))
    BY <2>2
  <2> DEFINE q == Q!Restore(<<>>, d)  r == Q!Restore(<<>>, c)
  <2>4. r = IF e.status = "pending" /\ ~Has(q, e.id) THEN Append(q, e) ELSE q
    <3>1. Steps(<<"restore">>, <<>>, Append(d, e)) = Step(<<"restore">>, Steps(<<"restore">>, <<>>, d), e)
      BY StepMore
    <3> QED
      BY <2>1, <3>1, BothAreSteps DEF Step, Q!Restored, Has
  <2>5. /\ q \in Seq(Entry) /\ Distinct(q) /\ (\A i \in 1 .. Len(q) : q[i].status = "pending")
        /\ \A id : Has(q, id) <=> \E i \in 1 .. Len(d) : d[i].id = id /\ d[i].status = "pending"
    BY <2>3 DEF Seeded
  <2>6. ~Seeded(c, r)
    BY <1>2
  <2>7. \A id : (\E i \in 1 .. Len(c) : c[i].id = id /\ c[i].status = "pending")
          <=> (\E i \in 1 .. Len(d) : d[i].id = id /\ d[i].status = "pending")
              \/ (e.id = id /\ e.status = "pending")
    <3>1. /\ Len(d) \in Nat /\ Len(c) = Len(d) + 1 /\ c[Len(d) + 1] = e
          /\ \A i \in 1 .. Len(d) : c[i] = d[i]
      BY <2>1
    <3>2. \A i \in 1 .. Len(c) : i \in 1 .. Len(d) \/ i = Len(d) + 1
      BY <3>1
    <3>3. \A i \in 1 .. Len(d) : i \in 1 .. Len(c)
      BY <3>1
    <3>4. Len(d) + 1 \in 1 .. Len(c)
      BY <3>1
    <3> QED
      BY <3>1, <3>2, <3>3, <3>4
  <2> HIDE DEF q, r
  <2>8. CASE e.status = "pending" /\ ~Has(q, e.id)
    <3>1. /\ r \in Seq(Entry) /\ Len(q) \in Nat /\ Len(r) = Len(q) + 1 /\ r[Len(q) + 1] = e
          /\ \A i \in 1 .. Len(q) : r[i] = q[i]
          /\ \A id : Has(r, id) <=> Has(q, id) \/ id = e.id
          /\ Distinct(r)
      BY <2>4, <2>5, <2>8, QueueMore
    <3>2. \A i \in 1 .. Len(r) : r[i].status = "pending"
      <4>1. \A i \in 1 .. Len(r) : i \in 1 .. Len(q) \/ i = Len(q) + 1
        BY <3>1
      <4> QED
        BY <2>5, <2>8, <3>1, <4>1
    <3>3. ASSUME NEW id
          PROVE  Has(r, id) <=> \E i \in 1 .. Len(c) : c[i].id = id /\ c[i].status = "pending"
      <4>1. Has(q, id) <=> \E i \in 1 .. Len(d) : d[i].id = id /\ d[i].status = "pending"
        BY <2>5
      <4>2. (\E i \in 1 .. Len(c) : c[i].id = id /\ c[i].status = "pending")
            <=> (\E i \in 1 .. Len(d) : d[i].id = id /\ d[i].status = "pending")
                \/ (e.id = id /\ e.status = "pending")
        BY <2>7
      <4>3. Has(r, id) <=> Has(q, id) \/ id = e.id
        BY <3>1
      <4> QED
        BY <2>8, <4>1, <4>2, <4>3
    <3> QED
      BY <2>6, <3>1, <3>2, <3>3 DEF Seeded
  <2>9. CASE ~(e.status = "pending" /\ ~Has(q, e.id))
    <3>1. r = q
      BY <2>4, <2>9
    <3>2. e.status = "pending" => \E i \in 1 .. Len(d) : d[i].id = e.id /\ d[i].status = "pending"
      BY <2>5, <2>9
    <3>3. ASSUME NEW id
          PROVE  Has(r, id) <=> \E i \in 1 .. Len(c) : c[i].id = id /\ c[i].status = "pending"
      <4>1. (\E i \in 1 .. Len(c) : c[i].id = id /\ c[i].status = "pending")
            <=> \E i \in 1 .. Len(d) : d[i].id = id /\ d[i].status = "pending"
        <5>1. CASE e.id = id /\ e.status = "pending"
          BY <2>7, <3>2, <5>1
        <5>2. CASE ~(e.id = id /\ e.status = "pending")
          BY <2>7, <5>2
        <5> QED
          BY <5>1, <5>2
      <4> QED
        BY <2>5, <3>1, <4>1
    <3> QED
      BY <2>5, <2>6, <3>1, <3>3 DEF Seeded
  <2> QED
    BY <2>8, <2>9
<1> QED
  BY <1>3, <1>4


-----------------------------------------------------------------------------
(* What holds of the queues, the chains, the rows to be written and the     *)
(* decisions taken.                                                         *)
RqOps == [node : Q!Nodes, kind : {"ask"} \cup Q!Verdicts, id : ReqIds, by : Q!Nodes]
RqTold == [node : Q!Nodes, id : ReqIds, verdict : Q!Verdicts]
RqWords == [id : ReqIds, verdict : Q!Verdicts, by : Q!Nodes]
RqPast == [pids : SUBSET (Q!Nodes \X Pids), reused : SUBSET Q!Nodes, tool : SUBSET ReqIds,
           removed : SUBSET (Q!Nodes \X ReqIds), early : SUBSET ReqIds, refused : SUBSET ReqIds]

RqTypes ==
    /\ up \in [Q!Nodes -> BOOLEAN] /\ proc \in [Q!Nodes -> [pid : Pids, seq : Nat]]
    /\ queue \in [Q!Nodes -> Seq(Entry)] /\ chain \in [Q!Nodes -> Seq(ReqRow)]
    /\ ops \subseteq RqOps /\ told \subseteq RqTold /\ wire \subseteq RqWords
    /\ taken \in Nat /\ past \in RqPast

(* A row waits only where a process runs, and the stand-in knows only its   *)
(* own asks.                                                                *)
OfItsNode ==
    /\ \A o \in ops : up[o.node] /\ (o.node = StandIn => o.id[1] = StandIn)
    /\ \A i \in 1 .. Len(queue[StandIn]) : queue[StandIn][i].id[1] = StandIn
    /\ \A i \in 1 .. Len(chain[StandIn]) : chain[StandIn][i].id[1] = StandIn

(* No id is ahead of the counter of its process.                            *)
SeenIds ==
    {id \in ReqIds :
       /\ <<id[1], id[2]>> \in past.pids
       /\ Q!Fresh(id[1]) /\ id[2] = proc[id[1]].pid => id[3] <= proc[id[1]].seq}
IdsSeen ==
    /\ \A n \in Q!Nodes : <<n, proc[n].pid>> \in past.pids
    /\ \A n \in Q!Nodes : \A i \in 1 .. Len(queue[n]) : queue[n][i].id \in SeenIds
    /\ \A n \in Q!Nodes : \A i \in 1 .. Len(chain[n]) : chain[n][i].id \in SeenIds
    /\ \A o \in ops : o.id \in SeenIds
    /\ \A t \in told : t.id \in SeenIds
    /\ \A id \in past.tool : id \in SeenIds

(* Wherever a decision stands, its decider took it.                         *)
Word(by, id, v) == [node |-> by, id |-> id, verdict |-> v]
DecidersTold ==
    /\ \A n \in Q!Nodes : \A i \in 1 .. Len(queue[n]) :
         queue[n][i].status # "pending" => Word(queue[n][i].by, queue[n][i].id, queue[n][i].status) \in told
    /\ \A n \in Q!Nodes : \A i \in 1 .. Len(chain[n]) :
         chain[n][i].kind # "ask" => Word(chain[n][i].by, chain[n][i].id, chain[n][i].kind) \in told
    /\ \A o \in ops : o.kind # "ask" => Word(o.by, o.id, o.kind) \in told
    /\ \A m \in wire : Word(m.by, m.id, m.verdict) \in told

(* An ask of the tool has no row; every other entry's ask is on the chain,  *)
(* on its way there, or refused.                                            *)
ToolUnasked ==
    \A id \in past.tool : Q!Fresh(id[1]) =>
      /\ \A n \in Q!Nodes : ~Asked(chain[n], id)
      /\ \A o \in ops : o.id = id => o.kind # "ask"
KnownAsk(o, c, p, n, id) ==
    id \in p.tool \/ id \in p.refused \/ Q!Row(n, "ask", id, n) \in o \/ Asked(c, id)
QueueKnown ==
    /\ \A n \in Q!Nodes : \A i \in 1 .. Len(queue[n]) : KnownAsk(ops, chain[n], past, n, queue[n][i].id)
    /\ \A n \in Q!Nodes, id \in ReqIds : Q!Fresh(id[1]) => Once(queue[n], id)

(* A node decides once, and what it decided is written or will be.          *)
Excused(p, id) == id \in p.early \/ id \in p.refused
WordSettled(o, c, q, p, t) ==
    /\ \A i \in 1 .. Len(q) : q[i].id = t.id => q[i].status # "pending"
    /\ \/ t.id \in p.tool
       \/ Asked(c, t.id) /\ (Open(c, t.id) => Q!Row(t.node, t.verdict, t.id, t.node) \in o)
ToldOnce ==
    \A t \in told : Q!Fresh(t.id[1]) /\ ~Excused(past, t.id) =>
      /\ WordSettled(ops, chain[t.node], queue[t.node], past, t)
      /\ \A u \in told : u.node = t.node /\ u.id = t.id => u = t

(* An open ask of this node is queued unless it was removed.                *)
AsksQueued ==
    /\ \A n \in Q!Nodes, id \in ReqIds :
         /\ up[n] /\ id[1] = n /\ Asked(chain[n], id) /\ Open(chain[n], id)
         /\ <<n, id>> \notin past.removed
         => Has(queue[n], id)
    /\ \A o \in ops : o.kind = "ask" => Has(queue[o.node], o.id) \/ <<o.node, o.id>> \in past.removed

(* An entry of this node's own ask against the chain and what is still to   *)
(* be written there.                                                        *)
NoVerdictDue(p, n, id) == \A o \in p : ~(o.node = n /\ o.id = id /\ o.kind # "ask")
VerdictDue(p, n, r) ==
    /\ Q!Row(n, r.status, r.id, r.by) \in p
    /\ \A o \in p : o.node = n /\ o.id = r.id /\ o.kind # "ask" => o = Q!Row(n, r.status, r.id, r.by)
EntryHolds(p, c, n, r) ==
    IF r.status = "pending"
    THEN NoVerdictDue(p, n, r.id) /\ (Asked(c, r.id) => Open(c, r.id))
    ELSE /\ Asked(c, r.id)
         /\ \/ NoVerdictDue(p, n, r.id) /\ Q!Said(c, r.id) = r
            \/ VerdictDue(p, n, r) /\ Open(c, r.id)
OwnHolds ==
    \A n \in Q!Nodes : Q!Fresh(n) => \A i \in 1 .. Len(queue[n]) :
      /\ queue[n][i].id[1] = n /\ ~Excused(past, queue[n][i].id) /\ queue[n][i].id \notin past.tool
      => EntryHolds(ops, chain[n], n, queue[n][i])

RqInv ==
    /\ RqTypes /\ OfItsNode /\ IdsSeen /\ DecidersTold /\ ToolUnasked
    /\ QueueKnown /\ ToldOnce /\ AsksQueued /\ OwnHolds

LEMMA RqTypesSay ==
    ASSUME RqTypes
    PROVE  /\ \A n \in Q!Nodes :
                /\ queue[n] \in Seq(Entry) /\ chain[n] \in Seq(ReqRow) /\ up[n] \in BOOLEAN
                /\ proc[n].pid \in Pids /\ proc[n].seq \in Nat
                /\ Len(queue[n]) \in Nat /\ Len(chain[n]) \in Nat
                /\ \A i \in 1 .. Len(queue[n]) : queue[n][i] \in Entry /\ queue[n][i].id \in ReqIds
                /\ \A i \in 1 .. Len(chain[n]) : chain[n][i] \in ReqRow /\ chain[n][i].id \in ReqIds
           /\ Centre \in Q!Nodes /\ StandIn \in Q!Nodes
           /\ \A o \in ops : /\ o.node \in Q!Nodes /\ o.id \in ReqIds /\ o.by \in Q!Nodes
                             /\ o.kind \in {"ask"} \cup Q!Verdicts
                             /\ o = Q!Row(o.node, o.kind, o.id, o.by)
           /\ \A t \in told : t.node \in Q!Nodes /\ t.id \in ReqIds /\ t.verdict \in Q!Verdicts
                              /\ t = [node |-> t.node, id |-> t.id, verdict |-> t.verdict]
           /\ \A m \in wire : m.id \in ReqIds /\ m.verdict \in Q!Verdicts /\ m.by \in Q!Nodes
           /\ past.tool \subseteq ReqIds
           /\ \A id \in ReqIds : id[1] \in Q!Nodes /\ id[2] \in Pids /\ id[3] \in Nat
<1>1. ASSUME NEW n \in Q!Nodes
      PROVE  /\ queue[n] \in Seq(Entry) /\ chain[n] \in Seq(ReqRow) /\ up[n] \in BOOLEAN
             /\ proc[n].pid \in Pids /\ proc[n].seq \in Nat
             /\ Len(queue[n]) \in Nat /\ Len(chain[n]) \in Nat
             /\ \A i \in 1 .. Len(queue[n]) : queue[n][i] \in Entry
             /\ \A i \in 1 .. Len(chain[n]) : chain[n][i] \in ReqRow
  BY DEF RqTypes
<1>2. (\A e \in Entry : e.id \in ReqIds) /\ \A e \in ReqRow : e.id \in ReqIds
  BY DEF Entry, ReqRow
<1>3. \A o \in ops : /\ o.node \in Q!Nodes /\ o.id \in ReqIds /\ o.by \in Q!Nodes
                     /\ o.kind \in {"ask"} \cup Q!Verdicts
                     /\ o = Q!Row(o.node, o.kind, o.id, o.by)
  <2>1. \A o \in RqOps : /\ o.node \in Q!Nodes /\ o.id \in ReqIds /\ o.by \in Q!Nodes
                     /\ o.kind \in {"ask"} \cup Q!Verdicts
                     /\ o = Q!Row(o.node, o.kind, o.id, o.by)
    BY DEF RqOps, Q!Row
  <2> QED
    BY <2>1 DEF RqTypes
<1>4. \A t \in told : t.node \in Q!Nodes /\ t.id \in ReqIds /\ t.verdict \in Q!Verdicts
                      /\ t = [node |-> t.node, id |-> t.id, verdict |-> t.verdict]
  BY DEF RqTypes, RqTold
<1>5. \A m \in wire : m.id \in ReqIds /\ m.verdict \in Q!Verdicts /\ m.by \in Q!Nodes
  BY DEF RqTypes, RqWords
<1>6. past.tool \subseteq ReqIds /\ Centre \in Q!Nodes /\ StandIn \in Q!Nodes
  BY DEF RqTypes, RqPast, Q!Nodes
<1>7. \A id \in ReqIds : id[1] \in Q!Nodes /\ id[2] \in Pids /\ id[3] \in Nat
  BY DEF ReqIds
<1> QED
  BY <1>1, <1>2, <1>3, <1>4, <1>5, <1>6, <1>7

(* The id of a new ask is nobody's yet.                                     *)
LEMMA NewIdIsNew ==
    ASSUME RqTypes, IdsSeen, NEW n \in Q!Nodes
    PROVE  /\ Q!NewId(n) \in ReqIds /\ Q!NewId(n)[1] = n /\ Q!NewId(n)[2] = proc[n].pid
           /\ Q!NewId(n)[3] = proc[n].seq + 1
           /\ Q!Pending(Q!NewId(n)) \in Entry
           /\ Q!Fresh(n) => Q!NewId(n) \notin SeenIds
<1>1. proc[n].pid \in Pids /\ proc[n].seq \in Nat
  BY RqTypesSay
<1>2. Q!NewId(n) \in ReqIds /\ Q!NewId(n)[1] = n /\ Q!NewId(n)[2] = proc[n].pid
      /\ Q!NewId(n)[3] = proc[n].seq + 1
  BY <1>1 DEF Q!NewId, ReqIds
<1>3. Q!Pending(Q!NewId(n)) \in Entry
  BY <1>2 DEF Q!Pending, Entry
<1>4. Q!Fresh(n) => Q!NewId(n) \notin SeenIds
  <2> DEFINE id == Q!NewId(n)
  <2> HIDE DEF id
  <2>1. id[1] = n /\ id[2] = proc[n].pid /\ id[3] = proc[n].seq + 1
    BY <1>2 DEF id
  <2>2. Q!Fresh(n) => id \notin SeenIds
    BY <1>1, <2>1 DEF SeenIds
  <2> QED
    BY <2>2 DEF id
<1> QED
  BY <1>2, <1>3, <1>4

(* What an ask does, with its row or through the tool: one id nobody has is *)
(* pending at the end of the queue.                                         *)
AsksOne(n, id, written) ==
    /\ id \in ReqIds /\ id[1] = n /\ up[n] /\ (Q!Fresh(n) => id \notin SeenIds)
    /\ Q!Pending(id) \in Entry
    /\ id \in SeenIds' /\ SeenIds \subseteq SeenIds'
    /\ proc' \in [Q!Nodes -> [pid : Pids, seq : Nat]] /\ \A m \in Q!Nodes : proc'[m].pid = proc[m].pid
    /\ queue' = [queue EXCEPT ![n] = Append(queue[n], Q!Pending(id))]
    /\ up' = up /\ chain' = chain /\ told' = told /\ wire' = wire /\ taken' = taken
    /\ past' \in RqPast /\ past'.pids = past.pids /\ past'.reused = past.reused
    /\ past'.removed = past.removed /\ past'.early = past.early /\ past'.refused = past.refused
    /\ IF written THEN ops' = ops \cup {Q!Row(n, "ask", id, n)} /\ past'.tool = past.tool
       ELSE ops' = ops /\ past'.tool = past.tool \cup {id}

LEMMA AsksAreThat ==
    ASSUME RqTypes, IdsSeen, NEW n \in Q!Nodes, NEW written \in BOOLEAN,
           IF written THEN Q!Ask(n) ELSE Q!ToolAsk(n)
    PROVE  \E id \in ReqIds : AsksOne(n, id, written)
<1>0. PICK id : id = Q!NewId(n)
  OBVIOUS
<1>1. /\ id \in ReqIds /\ id[1] = n /\ id[2] = proc[n].pid /\ id[3] = proc[n].seq + 1
      /\ Q!Pending(id) \in Entry
      /\ Q!Fresh(n) => id \notin SeenIds
  BY <1>0, NewIdIsNew
<1>2. /\ up[n] /\ up' = up /\ chain' = chain /\ told' = told /\ wire' = wire /\ taken' = taken
      /\ proc' = [proc EXCEPT ![n].seq = proc[n].seq + 1]
      /\ queue' = [queue EXCEPT ![n] = Append(queue[n], Q!Pending(id))]
  BY <1>0 DEF Q!Ask, Q!ToolAsk, Q!Enqueue
<1>3. IF written THEN ops' = ops \cup {Q!Row(n, "ask", id, n)} /\ past' = past
      ELSE ops' = ops /\ past' = [past EXCEPT !.tool = past.tool \cup {id}]
  BY <1>0 DEF Q!Ask, Q!ToolAsk
<1>4. /\ past' \in RqPast /\ past'.pids = past.pids /\ past'.reused = past.reused
      /\ past'.removed = past.removed /\ past'.early = past.early /\ past'.refused = past.refused
      /\ past'.tool = IF written THEN past.tool ELSE past.tool \cup {id}
  <2>1. past \in RqPast
    BY DEF RqTypes
  <2>2. CASE written
    BY <1>3, <2>1, <2>2
  <2>3. CASE ~written
    <3>1. past' = [past EXCEPT !.tool = past.tool \cup {id}]
      BY <1>3, <2>3
    <3> QED
      BY <1>1, <2>1, <2>3, <3>1 DEF RqPast
  <2> QED
    BY <2>2, <2>3
<1>5. /\ proc' \in [Q!Nodes -> [pid : Pids, seq : Nat]]
      /\ \A m \in Q!Nodes : proc'[m].pid = proc[m].pid /\ proc'[m].seq >= proc[m].seq
      /\ proc'[n].seq = proc[n].seq + 1
  <2>1. proc \in [Q!Nodes -> [pid : Pids, seq : Nat]]
    BY DEF RqTypes
  <2> QED
    BY <1>2, <2>1
<1>6. SeenIds \subseteq SeenIds'
  <2> SUFFICES ASSUME NEW x \in SeenIds PROVE x \in SeenIds'
    OBVIOUS
  <2>1. x \in ReqIds /\ x[1] \in Q!Nodes /\ x[3] \in Nat
    BY RqTypesSay DEF SeenIds
  <2>2. proc[x[1]].seq \in Nat /\ proc'[x[1]].seq \in Nat /\ proc'[x[1]].seq >= proc[x[1]].seq
    BY <1>5, <2>1, RqTypesSay
  <2>3. proc'[x[1]].pid = proc[x[1]].pid
    BY <1>5, <2>1
  <2>4. <<x[1], x[2]>> \in past'.pids
    BY <1>4 DEF SeenIds
  <2>5. Q!Fresh(x[1])' /\ x[2] = proc'[x[1]].pid => x[3] <= proc'[x[1]].seq
    BY <1>4, <2>1, <2>2, <2>3 DEF SeenIds, Q!Fresh
  <2> QED
    BY <2>1, <2>4, <2>5 DEF SeenIds
<1>7. id \in SeenIds'
  <2>1. <<n, proc[n].pid>> \in past.pids /\ proc[n].seq \in Nat
    BY RqTypesSay DEF IdsSeen
  <2>2. <<id[1], id[2]>> \in past'.pids
    BY <1>1, <1>4, <2>1
  <2>3. id[3] <= proc'[id[1]].seq
    BY <1>1, <1>5, <2>1
  <2> QED
    BY <1>1, <2>2, <2>3 DEF SeenIds
<1> QED
  BY <1>1, <1>2, <1>3, <1>4, <1>5, <1>6, <1>7 DEF AsksOne

LEMMA AskKeeps ==
    ASSUME RqInv, NEW n \in Q!Nodes, NEW id \in ReqIds, NEW written \in BOOLEAN,
           AsksOne(n, id, written)
    PROVE  RqInv'
<1>1. /\ id \in ReqIds /\ id[1] = n /\ up[n] /\ (Q!Fresh(n) => id \notin SeenIds)
      /\ up' = up /\ chain' = chain /\ told' = told /\ wire' = wire /\ taken' = taken
      /\ past'.pids = past.pids /\ past'.reused = past.reused
      /\ past'.removed = past.removed /\ past'.early = past.early /\ past'.refused = past.refused
      /\ id \in SeenIds' /\ SeenIds \subseteq SeenIds'
      /\ \A m \in Q!Nodes : proc'[m].pid = proc[m].pid
  BY DEF AsksOne
<1>2. /\ \A o \in ops' : o \in ops \/ (written /\ o = Q!Row(n, "ask", id, n))
      /\ ops \subseteq ops' /\ past.tool \subseteq past'.tool
      /\ \A x \in past'.tool : x \in past.tool \/ (~written /\ x = id)
      /\ written => Q!Row(n, "ask", id, n) \in ops'
      /\ ~written => id \in past'.tool
  BY DEF AsksOne
<1>3. Q!Row(n, "ask", id, n).node = n /\ Q!Row(n, "ask", id, n).kind = "ask"
      /\ Q!Row(n, "ask", id, n).id = id /\ Q!Row(n, "ask", id, n).by = n
  BY DEF Q!Row
<1>4. Q!Pending(id).id = id /\ Q!Pending(id).status = "pending" /\ Q!Pending(id) \in Entry
  BY DEF Q!Pending, AsksOne
<1>5. /\ \A m \in Q!Nodes \ {n} : queue'[m] = queue[m]
      /\ queue'[n] = Append(queue[n], Q!Pending(id))
      /\ \A m \in Q!Nodes : queue'[m] \in Seq(Entry)
      /\ queue' \in [Q!Nodes -> Seq(Entry)]
  <2>1. queue \in [Q!Nodes -> Seq(Entry)] /\ queue' = [queue EXCEPT ![n] = Append(queue[n], Q!Pending(id))]
    BY DEF AsksOne, RqInv, RqTypes
  <2>2. Append(queue[n], Q!Pending(id)) \in Seq(Entry)
    BY <1>4, <2>1
  <2> QED
    BY <2>1, <2>2
<1>6. \A m \in Q!Nodes : \A i \in 1 .. Len(queue'[m]) :
        \/ i \in 1 .. Len(queue[m]) /\ queue'[m][i] = queue[m][i]
        \/ m = n /\ queue'[m][i] = Q!Pending(id)
  <2>1. queue[n] \in Seq(Entry)
    BY RqTypesSay DEF RqInv
  <2>2. /\ Len(queue'[n]) = Len(queue[n]) + 1 /\ Len(queue[n]) \in Nat
        /\ queue'[n][Len(queue[n]) + 1] = Q!Pending(id)
        /\ \A i \in 1 .. Len(queue[n]) : queue'[n][i] = queue[n][i]
    BY <1>4, <1>5, <2>1, QueueMore
  <2>3. \A i \in 1 .. Len(queue'[n]) : i \in 1 .. Len(queue[n]) \/ i = Len(queue[n]) + 1
    BY <2>2
  <2> QED
    BY <1>5, <2>2, <2>3
<1>7. /\ \A m \in Q!Nodes, x \in ReqIds : Has(queue[m], x) => Has(queue'[m], x)
      /\ Has(queue'[n], id)
      /\ \A m \in Q!Nodes, x \in ReqIds : Once(queue[m], x) /\ (x = id => ~Has(queue[m], x)) => Once(queue'[m], x)
  <2>1. queue[n] \in Seq(Entry)
    BY RqTypesSay DEF RqInv
  <2>2. /\ \A x : Has(queue'[n], x) <=> Has(queue[n], x) \/ x = id
        /\ \A x : Once(queue[n], x) /\ (x = id => ~Has(queue[n], x)) => Once(queue'[n], x)
    BY <1>4, <1>5, <2>1, QueueMore
  <2> QED
    BY <1>5, <2>2
<1>8. Q!Fresh(n) => /\ \A m \in Q!Nodes : ~Has(queue[m], id) /\ ~Asked(chain[m], id)
                    /\ \A o \in ops : o.id # id
                    /\ \A t \in told : t.id # id
                    /\ id \notin past.tool
  <2> SUFFICES ASSUME Q!Fresh(n)
               PROVE  /\ \A m \in Q!Nodes : ~Has(queue[m], id) /\ ~Asked(chain[m], id)
                      /\ \A o \in ops : o.id # id
                      /\ \A t \in told : t.id # id
                      /\ id \notin past.tool
    OBVIOUS
  <2>1. id \notin SeenIds
    BY <1>1
  <2>2. IdsSeen
    BY DEF RqInv
  <2>3. \A m \in Q!Nodes : ~Has(queue[m], id)
    <3>1. \A m \in Q!Nodes : queue[m] \in Seq(Entry)
      BY RqTypesSay DEF RqInv
    <3> QED
      BY <2>1, <2>2, <3>1, QueuedIs DEF IdsSeen
  <2>4. \A m \in Q!Nodes : ~Asked(chain[m], id)
    <3>1. \A m \in Q!Nodes : DOMAIN chain[m] = 1 .. Len(chain[m])
      BY RqTypesSay DEF RqInv
    <3> QED
      BY <2>1, <2>2, <3>1 DEF IdsSeen, Asked, Q!AskRows
  <2>5. (\A o \in ops : o.id # id) /\ (\A t \in told : t.id # id) /\ id \notin past.tool
    BY <2>1, <2>2 DEF IdsSeen
  <2> QED
    BY <2>3, <2>4, <2>5
<1>9. \A m : Q!Fresh(m)' <=> Q!Fresh(m)
  BY <1>1 DEF Q!Fresh
<1>10. \A x : Excused(past', x) <=> Excused(past, x)
  BY <1>1 DEF Excused
<1>t. /\ \A m \in Q!Nodes : /\ queue[m] \in Seq(Entry) /\ Len(queue[m]) \in Nat
                            /\ \A i \in 1 .. Len(queue[m]) : queue[m][i] \in Entry /\ queue[m][i].id \in ReqIds
                            /\ \A i \in 1 .. Len(chain[m]) : chain[m][i].id \in ReqIds
      /\ Centre \in Q!Nodes /\ StandIn \in Q!Nodes
      /\ \A o \in ops : o.node \in Q!Nodes /\ o.id \in ReqIds
      /\ \A t \in told : t.node \in Q!Nodes /\ t.id \in ReqIds
      /\ past.tool \subseteq ReqIds
  BY RqTypesSay DEF RqInv
<1>11. RqTypes'
  <2>1. RqTypes /\ Q!Row(n, "ask", id, n) \in RqOps
    BY DEF RqInv, RqOps, Q!Row
  <2>2. ops' \subseteq RqOps
    BY <1>2, <2>1 DEF RqTypes
  <2>3. proc' \in [Q!Nodes -> [pid : Pids, seq : Nat]] /\ past' \in RqPast
    BY DEF AsksOne
  <2> QED
    BY <1>1, <1>5, <2>1, <2>2, <2>3 DEF RqTypes
<1>12. OfItsNode'
  <2>1. OfItsNode
    BY DEF RqInv
  <2>2. \A o \in ops' : up[o.node] /\ (o.node = StandIn => o.id[1] = StandIn)
    BY <1>1, <1>2, <1>3, <2>1 DEF OfItsNode
  <2>3. \A i \in 1 .. Len(queue'[StandIn]) : queue'[StandIn][i].id[1] = StandIn
    <3> SUFFICES ASSUME NEW i \in 1 .. Len(queue'[StandIn])
                 PROVE  queue'[StandIn][i].id[1] = StandIn
      OBVIOUS
    <3>1. \/ i \in 1 .. Len(queue[StandIn]) /\ queue'[StandIn][i] = queue[StandIn][i]
          \/ StandIn = n /\ queue'[StandIn][i] = Q!Pending(id)
      BY <1>6, <1>t
    <3>2. \A j \in 1 .. Len(queue[StandIn]) : queue[StandIn][j].id[1] = StandIn
      BY <2>1 DEF OfItsNode
    <3> QED
      BY <1>1, <1>4, <3>1, <3>2
  <2> QED
    BY <1>1, <2>1, <2>2, <2>3 DEF OfItsNode
<1>13. IdsSeen'
  <2>1. IdsSeen
    BY DEF RqInv
  <2>2. \A m \in Q!Nodes : <<m, proc'[m].pid>> \in past'.pids
    BY <1>1, <2>1 DEF IdsSeen
  <2>3. \A m \in Q!Nodes : \A i \in 1 .. Len(queue'[m]) : queue'[m][i].id \in SeenIds'
    BY <1>1, <1>4, <1>6, <2>1 DEF IdsSeen
  <2>4. \A m \in Q!Nodes : \A i \in 1 .. Len(chain'[m]) : chain'[m][i].id \in SeenIds'
    BY <1>1, <2>1 DEF IdsSeen
  <2>5. /\ \A o \in ops' : o.id \in SeenIds'
        /\ \A t \in told' : t.id \in SeenIds'
        /\ \A x \in past'.tool : x \in SeenIds'
    BY <1>1, <1>2, <1>3, <2>1 DEF IdsSeen
  <2> QED
    BY <2>2, <2>3, <2>4, <2>5 DEF IdsSeen
<1>14. DecidersTold'
  <2>1. DecidersTold
    BY DEF RqInv
  <2>2. \A m \in Q!Nodes : \A i \in 1 .. Len(queue'[m]) :
          queue'[m][i].status # "pending" => Word(queue'[m][i].by, queue'[m][i].id, queue'[m][i].status) \in told'
    BY <1>1, <1>4, <1>6, <2>1 DEF DecidersTold
  <2>3. \A o \in ops' : o.kind # "ask" => Word(o.by, o.id, o.kind) \in told'
    BY <1>1, <1>2, <1>3, <2>1 DEF DecidersTold
  <2> QED
    BY <1>1, <2>1, <2>2, <2>3 DEF DecidersTold
<1>15. ToolUnasked'
  <2> SUFFICES ASSUME NEW x \in past'.tool, Q!Fresh(x[1])
               PROVE  /\ \A m \in Q!Nodes : ~Asked(chain[m], x)
                      /\ \A o \in ops' : o.id = x => o.kind # "ask"
    BY <1>1, <1>9 DEF ToolUnasked
  <2>1. CASE x = id
    BY <1>1, <1>2, <1>3, <1>8, <2>1
  <2>2. CASE x # id
    <3>1. x \in past.tool
      BY <1>2, <2>2
    <3>2. ToolUnasked
      BY DEF RqInv
    <3>3. /\ \A m \in Q!Nodes : ~Asked(chain[m], x)
          /\ \A o \in ops : o.id = x => o.kind # "ask"
      BY <3>1, <3>2 DEF ToolUnasked
    <3> QED
      BY <1>2, <1>3, <2>2, <3>3
  <2> QED
    BY <2>1, <2>2
<1>16. QueueKnown'
  <2>1. QueueKnown
    BY DEF RqInv
  <2>2. \A m \in Q!Nodes : \A i \in 1 .. Len(queue'[m]) :
          KnownAsk(ops', chain'[m], past', m, queue'[m][i].id)
    <3> SUFFICES ASSUME NEW m \in Q!Nodes, NEW i \in 1 .. Len(queue'[m])
                 PROVE  KnownAsk(ops', chain'[m], past', m, queue'[m][i].id)
      OBVIOUS
    <3>1. CASE i \in 1 .. Len(queue[m]) /\ queue'[m][i] = queue[m][i]
      BY <1>1, <1>2, <2>1, <3>1 DEF QueueKnown, KnownAsk
    <3>2. CASE m = n /\ queue'[m][i] = Q!Pending(id)
      BY <1>2, <1>4, <3>2 DEF KnownAsk
    <3> QED
      BY <1>6, <3>1, <3>2
  <2>3. \A m \in Q!Nodes, x \in ReqIds : Q!Fresh(x[1])' => Once(queue'[m], x)
    BY <1>1, <1>7, <1>8, <1>9, <2>1 DEF QueueKnown
  <2> QED
    BY <2>2, <2>3 DEF QueueKnown
<1>17. ToldOnce'
  <2> SUFFICES ASSUME NEW t \in told, Q!Fresh(t.id[1]), ~Excused(past, t.id)
               PROVE  /\ WordSettled(ops', chain[t.node], queue'[t.node], past', t)
                      /\ \A u \in told : u.node = t.node /\ u.id = t.id => u = t
    BY <1>1, <1>9, <1>10 DEF ToldOnce
  <2>1. /\ WordSettled(ops, chain[t.node], queue[t.node], past, t)
        /\ \A u \in told : u.node = t.node /\ u.id = t.id => u = t
    BY DEF RqInv, ToldOnce
  <2>2. t.id # id /\ t.node \in Q!Nodes
    BY <1>1, <1>8, <1>t
  <2>3. \A i \in 1 .. Len(queue'[t.node]) : queue'[t.node][i].id = t.id => queue'[t.node][i].status # "pending"
    BY <1>4, <1>6, <2>1, <2>2 DEF WordSettled
  <2>4. \/ t.id \in past'.tool
        \/ /\ Asked(chain[t.node], t.id)
           /\ Open(chain[t.node], t.id) => Q!Row(t.node, t.verdict, t.id, t.node) \in ops'
    BY <1>2, <2>1 DEF WordSettled
  <2> QED
    BY <2>1, <2>3, <2>4 DEF WordSettled
<1>18. AsksQueued'
  <2>1. AsksQueued
    BY DEF RqInv
  <2>2. \A m \in Q!Nodes, x \in ReqIds :
          /\ up'[m] /\ x[1] = m /\ Asked(chain'[m], x) /\ Open(chain'[m], x)
          /\ <<m, x>> \notin past'.removed
          => Has(queue'[m], x)
    BY <1>1, <1>7, <2>1 DEF AsksQueued
  <2>3. \A o \in ops' : o.kind = "ask" => Has(queue'[o.node], o.id) \/ <<o.node, o.id>> \in past'.removed
    <3> SUFFICES ASSUME NEW o \in ops', o.kind = "ask"
                 PROVE  Has(queue'[o.node], o.id) \/ <<o.node, o.id>> \in past'.removed
      OBVIOUS
    <3>1. CASE o \in ops
      <4>1. Has(queue[o.node], o.id) \/ <<o.node, o.id>> \in past.removed
        BY <2>1, <3>1 DEF AsksQueued
      <4> QED
        BY <1>1, <1>7, <1>t, <3>1, <4>1
    <3>2. CASE o = Q!Row(n, "ask", id, n)
      BY <1>3, <1>7, <3>2
    <3> QED
      BY <1>2, <3>1, <3>2
  <2> QED
    BY <2>2, <2>3 DEF AsksQueued
<1>19. OwnHolds'
  <2> SUFFICES ASSUME NEW m \in Q!Nodes, Q!Fresh(m), NEW i \in 1 .. Len(queue'[m]),
                      queue'[m][i].id[1] = m, ~Excused(past, queue'[m][i].id),
                      queue'[m][i].id \notin past'.tool
               PROVE  EntryHolds(ops', chain[m], m, queue'[m][i])
    BY <1>1, <1>9, <1>10 DEF OwnHolds
  <2>1. \A x : NoVerdictDue(ops, m, x) => NoVerdictDue(ops', m, x)
    BY <1>2, <1>3 DEF NoVerdictDue
  <2>2. \A r : VerdictDue(ops, m, r) => VerdictDue(ops', m, r)
    BY <1>2, <1>3 DEF VerdictDue
  <2>3. CASE i \in 1 .. Len(queue[m]) /\ queue'[m][i] = queue[m][i]
    <3>1. EntryHolds(ops, chain[m], m, queue'[m][i])
      BY <1>2, <2>3 DEF RqInv, OwnHolds
    <3> QED
      BY <2>1, <2>2, <3>1 DEF EntryHolds
  <2>4. CASE m = n /\ queue'[m][i] = Q!Pending(id)
    <3>1. NoVerdictDue(ops', m, id) /\ ~Asked(chain[m], id)
      BY <1>2, <1>3, <1>8, <2>4 DEF NoVerdictDue
    <3> QED
      BY <1>4, <2>4, <3>1 DEF EntryHolds
  <2> QED
    BY <1>6, <2>3, <2>4
<1> QED
  BY <1>11, <1>12, <1>13, <1>14, <1>15, <1>16, <1>17, <1>18, <1>19 DEF RqInv

(* What a decision does, this node's own or a peer's: a pending entry is    *)
(* decided, and its row waits.                                              *)
DecidesOne(n, id, v, by) ==
    /\ up[n] /\ \E i \in 1 .. Len(queue[n]) : queue[n][i].id = id /\ queue[n][i].status = "pending"
    /\ queue' = [queue EXCEPT ![n] = Q!Decided(queue[n], id, v, by)]
    /\ ops' = ops \cup {Q!Row(n, v, id, by)}
    /\ Word(by, id, v) \in told'
    /\ told' = told \/ (by = n /\ told' = told \cup {Word(by, id, v)})
    /\ wire' \subseteq wire /\ up' = up /\ proc' = proc /\ chain' = chain /\ taken' = taken
    /\ past' \in RqPast /\ past'.pids = past.pids /\ past'.reused = past.reused
    /\ past'.tool = past.tool /\ past'.removed = past.removed /\ past'.refused = past.refused
    /\ past.early \subseteq past'.early
    /\ Q!Row(n, "ask", id, n) \in ops => id \in past'.early

LEMMA DecisionKeeps ==
    ASSUME RqInv, NEW n \in Q!Nodes, NEW id \in ReqIds, NEW v \in Q!Verdicts, NEW by \in Q!Nodes,
           DecidesOne(n, id, v, by)
    PROVE  RqInv'
<1> DEFINE new == [id |-> id, status |-> v, by |-> by]
<1>1. /\ up' = up /\ proc' = proc /\ chain' = chain /\ taken' = taken /\ wire' \subseteq wire
      /\ past'.pids = past.pids /\ past'.reused = past.reused /\ past'.tool = past.tool
      /\ past'.removed = past.removed /\ past'.refused = past.refused
      /\ past.early \subseteq past'.early
      /\ Q!Row(n, "ask", id, n) \in ops => id \in past'.early
      /\ told \subseteq told' /\ Word(by, id, v) \in told'
      /\ \A t \in told' : t \in told \/ (by = n /\ t = Word(by, id, v))
      /\ up[n]
  BY DEF DecidesOne
<1>2. /\ ops \subseteq ops' /\ Q!Row(n, v, id, by) \in ops'
      /\ \A o \in ops' : o \in ops \/ o = Q!Row(n, v, id, by)
  BY DEF DecidesOne
<1>3. /\ Q!Row(n, v, id, by).node = n /\ Q!Row(n, v, id, by).kind = v
      /\ Q!Row(n, v, id, by).id = id /\ Q!Row(n, v, id, by).by = by
      /\ v # "ask" /\ v # "pending"
  BY DEF Q!Row, Q!Verdicts
<1>4. new.id = id /\ new.status = v /\ new.by = by
  OBVIOUS
<1> HIDE DEF new
<1>w. /\ Word(by, id, v).node = by /\ Word(by, id, v).id = id /\ Word(by, id, v).verdict = v
      /\ Word(by, id, v) \in RqTold
  BY DEF Word, RqTold
<1>t. /\ \A m \in Q!Nodes : /\ queue[m] \in Seq(Entry) /\ Len(queue[m]) \in Nat
                            /\ \A i \in 1 .. Len(queue[m]) : queue[m][i] \in Entry /\ queue[m][i].id \in ReqIds
      /\ Centre \in Q!Nodes /\ StandIn \in Q!Nodes
      /\ \A o \in ops : o.node \in Q!Nodes /\ o.id \in ReqIds
      /\ \A t \in told : t.node \in Q!Nodes /\ t.id \in ReqIds
  BY RqTypesSay DEF RqInv
<1>5. /\ queue' \in [Q!Nodes -> Seq(Entry)]
      /\ \A m \in Q!Nodes \ {n} : queue'[m] = queue[m]
      /\ queue'[n] = Q!Decided(queue[n], id, v, by)
  <2>1. queue \in [Q!Nodes -> Seq(Entry)] /\ queue' = [queue EXCEPT ![n] = Q!Decided(queue[n], id, v, by)]
    BY DEF DecidesOne, RqInv, RqTypes
  <2>2. Q!Decided(queue[n], id, v, by) \in Seq(Entry)
    BY <1>t, QueueDecided
  <2> QED
    BY <2>1, <2>2
<1>6. /\ Len(queue'[n]) = Len(queue[n])
      /\ \A i \in 1 .. Len(queue[n]) :
           \/ queue'[n][i] = queue[n][i]
           \/ queue[n][i].id = id /\ queue[n][i].status = "pending" /\ queue'[n][i] = new
      /\ Once(queue[n], id) => \A i \in 1 .. Len(queue[n]) :
           queue[n][i].id = id /\ queue[n][i].status = "pending" => queue'[n][i] = new
  <2>1. /\ Len(Q!Decided(queue[n], id, v, by)) = Len(queue[n])
        /\ \A i \in 1 .. Len(queue[n]) :
             \/ Q!Decided(queue[n], id, v, by)[i] = queue[n][i]
             \/ /\ queue[n][i].id = id /\ queue[n][i].status = "pending"
                /\ Q!Decided(queue[n], id, v, by)[i] = [id |-> id, status |-> v, by |-> by]
        /\ Once(queue[n], id) => \A i \in 1 .. Len(queue[n]) :
             queue[n][i].id = id /\ queue[n][i].status = "pending"
               => Q!Decided(queue[n], id, v, by)[i] = [id |-> id, status |-> v, by |-> by]
    BY <1>t, QueueDecided
  <2> QED
    BY <1>5, <2>1 DEF new
<1>7. /\ \A i \in 1 .. Len(queue[n]) : queue'[n][i].id = queue[n][i].id
      /\ \A x : Once(queue[n], x) => Once(queue'[n], x)
      /\ \A x : Has(queue'[n], x) <=> Has(queue[n], x)
  BY <1>5, <1>t, DecidedKeepsIds
<1>8. \A m \in Q!Nodes : /\ Len(queue'[m]) = Len(queue[m])
                         /\ \A i \in 1 .. Len(queue[m]) : queue'[m][i].id = queue[m][i].id
                         /\ \A x : Once(queue[m], x) => Once(queue'[m], x)
                         /\ \A x : Has(queue'[m], x) <=> Has(queue[m], x)
  BY <1>5, <1>6, <1>7
<1>9. \A m \in Q!Nodes : \A i \in 1 .. Len(queue[m]) :
        \/ queue'[m][i] = queue[m][i]
        \/ m = n /\ queue[m][i].id = id /\ queue[m][i].status = "pending" /\ queue'[m][i] = new
  BY <1>5, <1>6
<1>10. PICK k \in 1 .. Len(queue[n]) : queue[n][k].id = id /\ queue[n][k].status = "pending"
  BY DEF DecidesOne
<1>11. \A m : Q!Fresh(m)' <=> Q!Fresh(m)
  BY <1>1 DEF Q!Fresh
<1>12. (\A x : Excused(past, x) => Excused(past', x))
       /\ (Q!Row(n, "ask", id, n) \in ops => Excused(past', id))
  BY <1>1 DEF Excused
<1>13. SeenIds' = SeenIds
  BY <1>1 DEF SeenIds, Q!Fresh
<1>14. id \in SeenIds /\ KnownAsk(ops, chain[n], past, n, id)
  BY <1>10 DEF RqInv, IdsSeen, QueueKnown
<1>21. RqTypes'
  <2>1. RqTypes /\ Q!Row(n, v, id, by) \in RqOps
    BY DEF RqInv, RqOps, Q!Row
  <2>2. ops' \subseteq RqOps /\ told' \subseteq RqTold /\ wire' \subseteq RqWords
    BY <1>1, <1>2, <1>w, <2>1 DEF RqTypes
  <2>3. past' \in RqPast
    BY DEF DecidesOne
  <2> QED
    BY <1>1, <1>5, <2>1, <2>2, <2>3 DEF RqTypes
<1>22. OfItsNode'
  <2>1. OfItsNode
    BY DEF RqInv
  <2>2. n = StandIn => id[1] = StandIn
    BY <1>10, <2>1 DEF OfItsNode
  <2>3. \A o \in ops' : up[o.node] /\ (o.node = StandIn => o.id[1] = StandIn)
    BY <1>1, <1>2, <1>3, <2>1, <2>2 DEF OfItsNode
  <2>4. \A i \in 1 .. Len(queue'[StandIn]) : queue'[StandIn][i].id[1] = StandIn
    BY <1>8, <1>t, <2>1 DEF OfItsNode
  <2> QED
    BY <1>1, <2>1, <2>3, <2>4 DEF OfItsNode
<1>23. IdsSeen'
  <2>1. IdsSeen
    BY DEF RqInv
  <2>2. \A m \in Q!Nodes : \A i \in 1 .. Len(queue'[m]) : queue'[m][i].id \in SeenIds'
    BY <1>8, <1>13, <2>1 DEF IdsSeen
  <2>3. (\A o \in ops' : o.id \in SeenIds') /\ \A t \in told' : t.id \in SeenIds'
    BY <1>1, <1>2, <1>3, <1>w, <1>13, <1>14, <2>1 DEF IdsSeen
  <2> QED
    BY <1>1, <1>13, <2>1, <2>2, <2>3 DEF IdsSeen
<1>24. DecidersTold'
  <2>1. DecidersTold
    BY DEF RqInv
  <2>2. \A m \in Q!Nodes : \A i \in 1 .. Len(queue'[m]) :
          queue'[m][i].status # "pending" => Word(queue'[m][i].by, queue'[m][i].id, queue'[m][i].status) \in told'
    BY <1>1, <1>4, <1>8, <1>9, <2>1 DEF DecidersTold
  <2>3. \A o \in ops' : o.kind # "ask" => Word(o.by, o.id, o.kind) \in told'
    BY <1>1, <1>2, <1>3, <2>1 DEF DecidersTold
  <2>4. \A m \in wire' : Word(m.by, m.id, m.verdict) \in told'
    BY <1>1, <2>1 DEF DecidersTold
  <2>5. \A m \in Q!Nodes : \A i \in 1 .. Len(chain'[m]) :
          chain'[m][i].kind # "ask" => Word(chain'[m][i].by, chain'[m][i].id, chain'[m][i].kind) \in told'
    BY <1>1, <2>1 DEF DecidersTold
  <2> QED
    BY <2>2, <2>3, <2>4, <2>5 DEF DecidersTold
<1>25. ToolUnasked'
  BY <1>1, <1>2, <1>3, <1>11 DEF RqInv, ToolUnasked
<1>26. QueueKnown'
  <2>1. QueueKnown
    BY DEF RqInv
  <2>2. \A m \in Q!Nodes : \A i \in 1 .. Len(queue'[m]) :
          KnownAsk(ops', chain'[m], past', m, queue'[m][i].id)
    BY <1>1, <1>2, <1>8, <2>1 DEF QueueKnown, KnownAsk
  <2>3. \A m \in Q!Nodes, x \in ReqIds : Q!Fresh(x[1])' => Once(queue'[m], x)
    BY <1>8, <1>11, <2>1 DEF QueueKnown
  <2> QED
    BY <2>2, <2>3 DEF QueueKnown
<1>27. ToldOnce'
  <2> SUFFICES ASSUME NEW t \in told', Q!Fresh(t.id[1]), ~Excused(past', t.id)
               PROVE  /\ WordSettled(ops', chain[t.node], queue'[t.node], past, t)
                      /\ \A u \in told' : u.node = t.node /\ u.id = t.id => u = t
    BY <1>1, <1>11 DEF ToldOnce, WordSettled
  <2>1. ToldOnce
    BY DEF RqInv
  <2>2. \A u \in told : Q!Fresh(u.id[1]) /\ ~Excused(past', u.id)
          => /\ WordSettled(ops, chain[u.node], queue[u.node], past, u)
             /\ ~(u.node = n /\ u.id = id)
             /\ \A w \in told : w.node = u.node /\ w.id = u.id => w = u
    <3> SUFFICES ASSUME NEW u \in told, Q!Fresh(u.id[1]), ~Excused(past', u.id)
                 PROVE  /\ WordSettled(ops, chain[u.node], queue[u.node], past, u)
                        /\ ~(u.node = n /\ u.id = id)
                        /\ \A w \in told : w.node = u.node /\ w.id = u.id => w = u
      OBVIOUS
    <3>1. /\ WordSettled(ops, chain[u.node], queue[u.node], past, u)
          /\ \A w \in told : w.node = u.node /\ w.id = u.id => w = u
      BY <1>12, <2>1 DEF ToldOnce
    <3>2. ~(u.node = n /\ u.id = id)
      BY <1>10, <3>1 DEF WordSettled
    <3> QED
      BY <3>1, <3>2
  <2>3. \A u \in told' : u.node = t.node /\ u.id = t.id => u = t
    BY <1>1, <1>w, <2>2
  <2>4. CASE t \in told
    <3>1. WordSettled(ops, chain[t.node], queue[t.node], past, t)
      BY <2>2, <2>4
    <3>2. t.node \in Q!Nodes
      BY <1>t, <2>4
    <3>3. \A i \in 1 .. Len(queue'[t.node]) : queue'[t.node][i].id = t.id => queue'[t.node][i].status # "pending"
      BY <1>3, <1>4, <1>8, <1>9, <3>1, <3>2 DEF WordSettled
    <3> QED
      BY <1>2, <2>3, <3>1, <3>3 DEF WordSettled
  <2>5. CASE by = n /\ t = Word(by, id, v)
    <3>1. t.node = n /\ t.id = id /\ t.verdict = v
      BY <1>w, <2>5
    <3>2. Once(queue[n], id)
      BY <3>1 DEF RqInv, QueueKnown
    <3>3. \A i \in 1 .. Len(queue'[n]) : queue'[n][i].id = id => queue'[n][i].status # "pending"
      BY <1>3, <1>4, <1>6, <1>7, <3>2
    <3>4. Q!Row(n, "ask", id, n) \notin ops /\ id \notin past.refused
      BY <1>1, <1>12, <3>1 DEF Excused
    <3>5. id \in past.tool \/ Asked(chain[n], id)
      BY <1>14, <3>4 DEF KnownAsk
    <3>6. Q!Row(n, v, id, n) \in ops'
      BY <1>2, <2>5
    <3> QED
      BY <2>3, <3>1, <3>3, <3>5, <3>6 DEF WordSettled
  <2> QED
    BY <1>1, <2>4, <2>5
<1>28. AsksQueued'
  <2>1. AsksQueued
    BY DEF RqInv
  <2>2. \A m \in Q!Nodes, x \in ReqIds :
          /\ up'[m] /\ x[1] = m /\ Asked(chain'[m], x) /\ Open(chain'[m], x)
          /\ <<m, x>> \notin past'.removed
          => Has(queue'[m], x)
    BY <1>1, <1>8, <2>1 DEF AsksQueued
  <2>3. ASSUME NEW o \in ops', o.kind = "ask"
        PROVE  Has(queue'[o.node], o.id) \/ <<o.node, o.id>> \in past'.removed
    <3>1. o \in ops
      BY <1>2, <1>3, <2>3
    <3>2. Has(queue[o.node], o.id) \/ <<o.node, o.id>> \in past.removed
      BY <2>1, <2>3, <3>1 DEF AsksQueued
    <3> QED
      BY <1>1, <1>8, <1>t, <3>1, <3>2
  <2> QED
    BY <2>2, <2>3 DEF AsksQueued
<1>29. OwnHolds'
  <2> SUFFICES ASSUME NEW m \in Q!Nodes, Q!Fresh(m), NEW i \in 1 .. Len(queue'[m]),
                      queue'[m][i].id[1] = m, ~Excused(past', queue'[m][i].id),
                      queue'[m][i].id \notin past.tool
               PROVE  EntryHolds(ops', chain[m], m, queue'[m][i])
    BY <1>1, <1>11 DEF OwnHolds
  <2>0. i \in 1 .. Len(queue[m]) /\ queue'[m][i].id = queue[m][i].id
    BY <1>8
  <2>1. EntryHolds(ops, chain[m], m, queue[m][i])
    BY <1>12, <2>0 DEF RqInv, OwnHolds
  <2>2. CASE queue'[m][i] = queue[m][i] /\ ~(m = n /\ queue[m][i].id = id)
    <3>1. NoVerdictDue(ops, m, queue[m][i].id) => NoVerdictDue(ops', m, queue[m][i].id)
      BY <1>2, <1>3, <2>2 DEF NoVerdictDue
    <3>2. VerdictDue(ops, m, queue[m][i]) => VerdictDue(ops', m, queue[m][i])
      BY <1>2, <1>3, <2>2 DEF VerdictDue
    <3> QED
      BY <2>1, <2>2, <3>1, <3>2 DEF EntryHolds
  <2>3. CASE m = n /\ queue[m][i].id = id
    <3>1. Once(queue[n], id)
      BY <2>0, <2>3 DEF RqInv, QueueKnown
    <3>2. i = k
      <4>1. DOMAIN queue[n] = 1 .. Len(queue[n])
        BY <1>t
      <4> QED
        BY <1>10, <2>0, <2>3, <3>1, <4>1 DEF Once
    <3>3. queue'[m][i] = new /\ queue[m][i].status = "pending"
      BY <1>6, <1>10, <2>3, <3>1, <3>2
    <3>4. NoVerdictDue(ops, n, id) /\ (Asked(chain[n], id) => Open(chain[n], id))
      BY <2>1, <2>3, <3>3 DEF EntryHolds
    <3>5. Q!Row(n, "ask", id, n) \notin ops /\ id \notin past.refused /\ id \notin past.tool
      BY <1>1, <1>12, <2>0, <2>3 DEF Excused
    <3>6. Asked(chain[n], id)
      BY <1>14, <3>5 DEF KnownAsk
    <3>7. VerdictDue(ops', n, new)
      BY <1>2, <1>3, <1>4, <3>4 DEF VerdictDue, NoVerdictDue
    <3> QED
      BY <1>3, <1>4, <2>3, <3>3, <3>4, <3>6, <3>7 DEF EntryHolds
  <2> QED
    BY <1>9, <2>0, <2>2, <2>3
<1> QED
  BY <1>21, <1>22, <1>23, <1>24, <1>25, <1>26, <1>27, <1>28, <1>29 DEF RqInv

(* A decision on a chain asks nothing.                                      *)
LEMMA VerdictAsksNothing ==
    ASSUME NEW c \in Seq(ReqRow), NEW e \in ReqRow, e.kind # "ask", NEW id
    PROVE  Asked(Append(c, e), id) <=> Asked(c, id)
<1> DEFINE d == Append(c, e)
<1>1. /\ DOMAIN d = 1 .. Len(c) + 1 /\ DOMAIN c = 1 .. Len(c) /\ d[Len(c) + 1] = e
      /\ (\A i \in 1 .. Len(c) : d[i] = c[i]) /\ Len(c) \in Nat
  OBVIOUS
<1> HIDE DEF d
<1>2. Q!AskRows(d, id) = Q!AskRows(c, id)
  BY <1>1 DEF Q!AskRows
<1> QED
  BY <1>2 DEF Asked, d

(* One row more against an id: asked stays asked, and what opens was open.  *)
LEMMA AppendedRow ==
    ASSUME NEW c \in Seq(ReqRow), NEW e \in ReqRow, NEW id \in ReqIds
    PROVE  /\ Asked(c, id) => Asked(Append(c, e), id) /\ (Open(Append(c, e), id) => Open(c, id))
           /\ id # e.id \/ e.kind # "ask" => (Asked(Append(c, e), id) <=> Asked(c, id))
           /\ id # e.id => /\ Open(Append(c, e), id) <=> Open(c, id)
                           /\ Asked(c, id) => Q!Said(Append(c, e), id) = Q!Said(c, id)
           /\ id = e.id /\ e.kind = "ask" =>
                /\ Asked(Append(c, e), id)
                /\ ~Asked(c, id) => Open(Append(c, e), id)
                /\ Asked(c, id) => /\ Open(Append(c, e), id) <=> Open(c, id)
                                   /\ Q!Said(Append(c, e), id) = Q!Said(c, id)
           /\ id = e.id /\ e.kind # "ask" /\ Asked(c, id) =>
                /\ ~Open(Append(c, e), id)
                /\ Open(c, id) => Q!Said(Append(c, e), id) = [id |-> e.id, status |-> e.kind, by |-> e.by]
<1>1. Append(c, e) \in Seq(ReqRow) /\ Begins(c, Append(c, e))
  BY OneMore
<1>2. Asked(c, id) => Asked(Append(c, e), id) /\ (Open(Append(c, e), id) => Open(c, id))
  BY <1>1, Longer
<1>3. id # e.id => /\ Asked(Append(c, e), id) <=> Asked(c, id)
                   /\ Open(Append(c, e), id) <=> Open(c, id)
                   /\ Asked(c, id) => Q!Said(Append(c, e), id) = Q!Said(c, id)
  BY OneMore
<1>4. e.kind # "ask" => (Asked(Append(c, e), id) <=> Asked(c, id))
  BY VerdictAsksNothing
<1>5. e.kind = "ask" /\ ~Asked(c, e.id) => Asked(Append(c, e), e.id) /\ Open(Append(c, e), e.id)
  BY AskedNow
<1>6. e.kind = "ask" /\ Asked(c, e.id) =>
        /\ Asked(Append(c, e), e.id) /\ (Open(Append(c, e), e.id) <=> Open(c, e.id))
        /\ Q!Said(Append(c, e), e.id) = Q!Said(c, e.id)
  BY AskedAgain
<1>7. e.kind # "ask" => e.kind \in Q!Verdicts
  BY DEF ReqRow
<1>8. e.kind # "ask" /\ Asked(c, e.id) =>
        /\ ~Open(Append(c, e), e.id)
        /\ Open(c, e.id) => Q!Said(Append(c, e), e.id) = [id |-> e.id, status |-> e.kind, by |-> e.by]
  BY <1>7, DecidedNow
<1>9. id = e.id /\ e.kind = "ask" =>
        /\ Asked(Append(c, e), id)
        /\ ~Asked(c, id) => Open(Append(c, e), id)
        /\ Asked(c, id) => /\ Open(Append(c, e), id) <=> Open(c, id)
                           /\ Q!Said(Append(c, e), id) = Q!Said(c, id)
  BY <1>5, <1>6
<1>10. id = e.id /\ e.kind # "ask" /\ Asked(c, id) =>
         /\ ~Open(Append(c, e), id)
         /\ Open(c, id) => Q!Said(Append(c, e), id) = [id |-> e.id, status |-> e.kind, by |-> e.by]
  BY <1>8
<1> QED
  BY <1>2, <1>3, <1>4, <1>9, <1>10

(* The entries of a queue, for the steps that leave the queues alone.       *)
QueuesStay ==
    /\ queue' = queue /\ up' = up /\ proc' = proc /\ told' = told /\ taken' = taken
    /\ wire' \subseteq wire \cup {w \in RqWords : Word(w.by, w.id, w.verdict) \in told}
    /\ past'.pids = past.pids /\ past'.reused = past.reused /\ past'.tool = past.tool
    /\ past'.removed = past.removed /\ past'.early = past.early

LEMMA RowWritten ==
    ASSUME RqInv, NEW o \in ops, QueuesStay, past' = past,
           ops' = ops \ {o},
           chain' = [chain EXCEPT ![o.node] = Append(chain[o.node], [kind |-> o.kind, id |-> o.id, by |-> o.by])]
    PROVE  RqInv'
<1> DEFINE e == [kind |-> o.kind, id |-> o.id, by |-> o.by]  n == o.node
<1>1. /\ queue' = queue /\ up' = up /\ proc' = proc /\ told' = told /\ taken' = taken
      /\ \A w \in wire' : w \in wire \/ (w \in RqWords /\ Word(w.by, w.id, w.verdict) \in told)
  BY DEF QueuesStay
<1>t. /\ \A m \in Q!Nodes : /\ queue[m] \in Seq(Entry) /\ chain[m] \in Seq(ReqRow)
                            /\ Len(chain[m]) \in Nat
                            /\ \A i \in 1 .. Len(queue[m]) : queue[m][i] \in Entry /\ queue[m][i].id \in ReqIds
      /\ Centre \in Q!Nodes /\ StandIn \in Q!Nodes
      /\ \A p \in ops : p.node \in Q!Nodes /\ p.id \in ReqIds /\ p = Q!Row(p.node, p.kind, p.id, p.by)
      /\ o.by \in Q!Nodes /\ o.kind \in {"ask"} \cup Q!Verdicts
      /\ \A t \in told : t.node \in Q!Nodes /\ t.id \in ReqIds
      /\ past.tool \subseteq ReqIds
  BY RqTypesSay DEF RqInv
<1>2. e \in ReqRow /\ e.kind = o.kind /\ e.id = o.id /\ e.by = o.by
  BY <1>t DEF ReqRow
<1>3. n \in Q!Nodes /\ o.id \in ReqIds
  BY <1>t
<1> HIDE DEF e, n
<1>4. /\ chain' \in [Q!Nodes -> Seq(ReqRow)]
      /\ chain'[n] = Append(chain[n], e) /\ \A m \in Q!Nodes \ {n} : chain'[m] = chain[m]
  <2>1. chain \in [Q!Nodes -> Seq(ReqRow)] /\ chain' = [chain EXCEPT ![n] = Append(chain[n], e)]
    BY DEF RqInv, RqTypes, e, n
  <2>2. Append(chain[n], e) \in Seq(ReqRow)
    BY <1>2, <1>3, <2>1
  <2> QED
    BY <1>3, <2>1, <2>2
<1>5. /\ Len(chain'[n]) = Len(chain[n]) + 1 /\ chain'[n][Len(chain[n]) + 1] = e
      /\ \A i \in 1 .. Len(chain[n]) : chain'[n][i] = chain[n][i]
  BY <1>2, <1>3, <1>4, <1>t
<1>6. \A m \in Q!Nodes : \A i \in 1 .. Len(chain'[m]) :
        \/ i \in 1 .. Len(chain[m]) /\ chain'[m][i] = chain[m][i]
        \/ m = n /\ chain'[m][i] = e
  <2>1. \A i \in 1 .. Len(chain'[n]) : i \in 1 .. Len(chain[n]) \/ i = Len(chain[n]) + 1
    BY <1>3, <1>5, <1>t
  <2> QED
    BY <1>4, <1>5, <2>1
<1>7. \A id \in ReqIds :
        /\ Asked(chain[n], id) => Asked(chain'[n], id) /\ (Open(chain'[n], id) => Open(chain[n], id))
        /\ id # o.id \/ o.kind # "ask" => (Asked(chain'[n], id) <=> Asked(chain[n], id))
        /\ id # o.id => /\ Open(chain'[n], id) <=> Open(chain[n], id)
                        /\ Asked(chain[n], id) => Q!Said(chain'[n], id) = Q!Said(chain[n], id)
        /\ id = o.id /\ o.kind = "ask" =>
             /\ Asked(chain'[n], id)
             /\ ~Asked(chain[n], id) => Open(chain'[n], id)
             /\ Asked(chain[n], id) => /\ Open(chain'[n], id) <=> Open(chain[n], id)
                                       /\ Q!Said(chain'[n], id) = Q!Said(chain[n], id)
        /\ id = o.id /\ o.kind # "ask" /\ Asked(chain[n], id) =>
             /\ ~Open(chain'[n], id)
             /\ Open(chain[n], id) => Q!Said(chain'[n], id) = [id |-> o.id, status |-> o.kind, by |-> o.by]
  <2> SUFFICES ASSUME NEW id \in ReqIds
               PROVE  /\ Asked(chain[n], id) => Asked(chain'[n], id) /\ (Open(chain'[n], id) => Open(chain[n], id))
                      /\ id # e.id \/ e.kind # "ask" => (Asked(chain'[n], id) <=> Asked(chain[n], id))
                      /\ id # e.id => /\ Open(chain'[n], id) <=> Open(chain[n], id)
                                      /\ Asked(chain[n], id) => Q!Said(chain'[n], id) = Q!Said(chain[n], id)
                      /\ id = e.id /\ e.kind = "ask" =>
                           /\ Asked(chain'[n], id)
                           /\ ~Asked(chain[n], id) => Open(chain'[n], id)
                           /\ Asked(chain[n], id) => /\ Open(chain'[n], id) <=> Open(chain[n], id)
                                                     /\ Q!Said(chain'[n], id) = Q!Said(chain[n], id)
                      /\ id = e.id /\ e.kind # "ask" /\ Asked(chain[n], id) =>
                           /\ ~Open(chain'[n], id)
                           /\ Open(chain[n], id) => Q!Said(chain'[n], id) = [id |-> e.id, status |-> e.kind, by |-> e.by]
    BY <1>2
  <2>1. chain[n] \in Seq(ReqRow)
    BY <1>3, <1>t
  <2> QED
    BY <1>2, <1>4, <2>1, AppendedRow
<1>8. \A m \in Q!Nodes, id \in ReqIds :
        Asked(chain[m], id) => Asked(chain'[m], id) /\ (Open(chain'[m], id) => Open(chain[m], id))
  BY <1>4, <1>7
<1>9. /\ ops' \subseteq ops /\ o \notin ops' /\ \A p \in ops : p = o \/ p \in ops'
      /\ o = Q!Row(n, o.kind, o.id, o.by) /\ SeenIds' = SeenIds
      /\ \A m : Q!Fresh(m)' <=> Q!Fresh(m)
  <2>1. o = Q!Row(n, o.kind, o.id, o.by)
    BY <1>t DEF n
  <2>2. SeenIds' = SeenIds /\ \A m : Q!Fresh(m)' <=> Q!Fresh(m)
    BY <1>1 DEF SeenIds, Q!Fresh
  <2> QED
    BY <2>1, <2>2
<1>10. \A m, k, i, b : /\ Q!Row(m, k, i, b).node = m /\ Q!Row(m, k, i, b).kind = k
                       /\ Q!Row(m, k, i, b).id = i /\ Q!Row(m, k, i, b).by = b
  BY DEF Q!Row
<1>11. RqTypes'
  <2>1. RqTypes
    BY DEF RqInv
  <2>2. wire' \subseteq RqWords /\ ops' \subseteq RqOps
    BY <1>1, <1>9, <2>1 DEF RqTypes
  <2> QED
    BY <1>1, <1>4, <2>1, <2>2 DEF RqTypes
<1>12. OfItsNode'
  <2>1. OfItsNode
    BY DEF RqInv
  <2>2. \A i \in 1 .. Len(chain'[StandIn]) : chain'[StandIn][i].id[1] = StandIn
    <3>1. n = StandIn => o.id[1] = StandIn
      BY <2>1 DEF OfItsNode, n
    <3> QED
      BY <1>2, <1>6, <1>t, <2>1, <3>1 DEF OfItsNode
  <2> QED
    BY <1>1, <1>9, <2>1, <2>2 DEF OfItsNode
<1>13. IdsSeen'
  <2>1. IdsSeen
    BY DEF RqInv
  <2>2. \A m \in Q!Nodes : \A i \in 1 .. Len(chain'[m]) : chain'[m][i].id \in SeenIds'
    BY <1>2, <1>6, <1>9, <2>1 DEF IdsSeen
  <2> QED
    BY <1>1, <1>9, <2>1, <2>2 DEF IdsSeen
<1>14. DecidersTold'
  <2>1. DecidersTold
    BY DEF RqInv
  <2>2. \A m \in Q!Nodes : \A i \in 1 .. Len(chain'[m]) :
          chain'[m][i].kind # "ask" => Word(chain'[m][i].by, chain'[m][i].id, chain'[m][i].kind) \in told
    BY <1>2, <1>6, <2>1 DEF DecidersTold
  <2>3. \A w \in wire' : Word(w.by, w.id, w.verdict) \in told
    BY <1>1, <2>1 DEF DecidersTold
  <2>4. \A m \in Q!Nodes : \A i \in 1 .. Len(queue[m]) :
          queue[m][i].status # "pending" => Word(queue[m][i].by, queue[m][i].id, queue[m][i].status) \in told
    BY <2>1 DEF DecidersTold
  <2>5. \A p \in ops' : p.kind # "ask" => Word(p.by, p.id, p.kind) \in told
    BY <1>9, <2>1 DEF DecidersTold
  <2> QED
    BY <1>1, <2>2, <2>3, <2>4, <2>5 DEF DecidersTold
<1>15. ToolUnasked'
  <2> SUFFICES ASSUME NEW x \in past.tool, Q!Fresh(x[1])
               PROVE  /\ \A m \in Q!Nodes : ~Asked(chain'[m], x)
                      /\ \A p \in ops' : p.id = x => p.kind # "ask"
    BY <1>1, <1>9 DEF ToolUnasked
  <2>1. /\ \A m \in Q!Nodes : ~Asked(chain[m], x)
        /\ \A p \in ops : p.id = x => p.kind # "ask"
    BY DEF RqInv, ToolUnasked
  <2>2. x \in ReqIds /\ (x # o.id \/ o.kind # "ask")
    BY <1>t, <2>1
  <2>3. ~Asked(chain'[n], x)
    BY <1>3, <1>7, <2>1, <2>2
  <2> QED
    BY <1>4, <1>9, <2>1, <2>3
<1>16. QueueKnown'
  <2>1. QueueKnown
    BY DEF RqInv
  <2>2. ASSUME NEW m \in Q!Nodes, NEW i \in 1 .. Len(queue[m])
        PROVE  KnownAsk(ops', chain'[m], past, m, queue[m][i].id)
    <3>1. KnownAsk(ops, chain[m], past, m, queue[m][i].id) /\ queue[m][i].id \in ReqIds
      BY <1>t, <2>1 DEF QueueKnown
    <3>2. CASE Q!Row(m, "ask", queue[m][i].id, m) = o
      <4>1. m = n /\ queue[m][i].id = o.id /\ o.kind = "ask"
        BY <1>9, <1>10, <3>2
      <4> QED
        BY <1>7, <3>1, <4>1 DEF KnownAsk
    <3>3. CASE Q!Row(m, "ask", queue[m][i].id, m) # o
      BY <1>8, <1>9, <3>1, <3>3 DEF KnownAsk
    <3> QED
      BY <3>2, <3>3
  <2> QED
    BY <1>1, <1>9, <2>1, <2>2 DEF QueueKnown
<1>17. ToldOnce'
  <2> SUFFICES ASSUME NEW t \in told, Q!Fresh(t.id[1]), ~Excused(past, t.id)
               PROVE  /\ WordSettled(ops', chain'[t.node], queue[t.node], past, t)
                      /\ \A u \in told : u.node = t.node /\ u.id = t.id => u = t
    BY <1>1, <1>9 DEF ToldOnce
  <2>1. /\ WordSettled(ops, chain[t.node], queue[t.node], past, t)
        /\ \A u \in told : u.node = t.node /\ u.id = t.id => u = t
    BY DEF RqInv, ToldOnce
  <2>2. t.node \in Q!Nodes /\ t.id \in ReqIds /\ t.verdict # "ask"
    BY RqTypesSay DEF RqInv, Q!Verdicts
  <2>3. CASE t.id \in past.tool
    BY <2>1, <2>3 DEF WordSettled
  <2>4. CASE t.id \notin past.tool
    <3>1. Asked(chain[t.node], t.id)
          /\ (Open(chain[t.node], t.id) => Q!Row(t.node, t.verdict, t.id, t.node) \in ops)
      BY <2>1, <2>4 DEF WordSettled
    <3>2. Asked(chain'[t.node], t.id) /\ (Open(chain'[t.node], t.id) => Open(chain[t.node], t.id))
      BY <1>8, <2>2, <3>1
    <3>3. Open(chain'[t.node], t.id) => Q!Row(t.node, t.verdict, t.id, t.node) # o
      <4>1. Q!Row(t.node, t.verdict, t.id, t.node) = o => t.node = n /\ t.id = o.id /\ o.kind # "ask"
        BY <1>10, <2>2 DEF n
      <4> QED
        BY <1>7, <2>2, <3>1, <4>1
    <3> QED
      BY <1>9, <2>1, <3>1, <3>2, <3>3 DEF WordSettled
  <2> QED
    BY <2>3, <2>4
<1>18. AsksQueued'
  <2>1. AsksQueued
    BY DEF RqInv
  <2>2. ASSUME NEW m \in Q!Nodes, NEW x \in ReqIds,
               up[m] /\ x[1] = m /\ Asked(chain'[m], x) /\ Open(chain'[m], x) /\ <<m, x>> \notin past.removed
        PROVE  Has(queue[m], x)
    <3>1. CASE Asked(chain[m], x)
      <4>1. Open(chain[m], x)
        BY <1>8, <2>2, <3>1
      <4> QED
        BY <2>1, <2>2, <3>1, <4>1 DEF AsksQueued
    <3>2. CASE ~Asked(chain[m], x)
      <4>1. m = n /\ x = o.id /\ o.kind = "ask"
        BY <1>4, <1>7, <2>2, <3>2
      <4>2. Has(queue[o.node], o.id) \/ <<o.node, o.id>> \in past.removed
        BY <2>1, <4>1 DEF AsksQueued
      <4> QED
        BY <2>2, <4>1, <4>2 DEF n
    <3> QED
      BY <3>1, <3>2
  <2>3. \A p \in ops' : p.kind = "ask" => Has(queue[p.node], p.id) \/ <<p.node, p.id>> \in past.removed
    BY <1>9, <2>1 DEF AsksQueued
  <2> QED
    BY <1>1, <2>2, <2>3 DEF AsksQueued
<1>19. OwnHolds'
  <2> SUFFICES ASSUME NEW m \in Q!Nodes, Q!Fresh(m), NEW i \in 1 .. Len(queue[m]),
                      queue[m][i].id[1] = m, ~Excused(past, queue[m][i].id),
                      queue[m][i].id \notin past.tool
               PROVE  EntryHolds(ops', chain'[m], m, queue[m][i])
    BY <1>1, <1>9 DEF OwnHolds
  <2>1. EntryHolds(ops, chain[m], m, queue[m][i])
    BY DEF RqInv, OwnHolds
  <2>2. PICK r \in Entry : r = queue[m][i] /\ r.id \in ReqIds
    BY <1>t
  <2>3. NoVerdictDue(ops, m, r.id) => NoVerdictDue(ops', m, r.id)
    BY <1>9 DEF NoVerdictDue
  <2>4. CASE ~(m = n /\ r.id = o.id)
    <3>1. VerdictDue(ops, m, r) => VerdictDue(ops', m, r)
      BY <1>9, <1>10, <2>4 DEF VerdictDue
    <3>2. /\ Asked(chain'[m], r.id) <=> Asked(chain[m], r.id)
          /\ Open(chain'[m], r.id) <=> Open(chain[m], r.id)
          /\ Asked(chain[m], r.id) => Q!Said(chain'[m], r.id) = Q!Said(chain[m], r.id)
      BY <1>4, <1>7, <2>2, <2>4
    <3> QED
      BY <2>1, <2>2, <2>3, <3>1, <3>2 DEF EntryHolds
  <2>5. CASE m = n /\ r.id = o.id /\ r.status = "pending"
    <3>1. NoVerdictDue(ops, n, o.id) /\ (Asked(chain[n], o.id) => Open(chain[n], o.id))
      BY <2>1, <2>2, <2>5 DEF EntryHolds
    <3>2. o.kind = "ask"
      BY <3>1 DEF NoVerdictDue, n
    <3>3. Open(chain'[n], o.id)
      BY <1>3, <1>7, <3>1, <3>2
    <3> QED
      BY <2>2, <2>3, <2>5, <3>1, <3>3 DEF EntryHolds
  <2>6. CASE m = n /\ r.id = o.id /\ r.status # "pending" /\ o.kind = "ask"
    <3>1. VerdictDue(ops, m, r) => VerdictDue(ops', m, r)
      <4>1. r.status # "ask"
        BY DEF Entry, Q!Verdicts
      <4> QED
        BY <1>9, <1>10, <2>6, <4>1 DEF VerdictDue
    <3>2. Asked(chain[n], o.id)
      BY <2>1, <2>2, <2>6 DEF EntryHolds
    <3>3. /\ Asked(chain'[n], o.id) /\ (Open(chain'[n], o.id) <=> Open(chain[n], o.id))
          /\ Q!Said(chain'[n], o.id) = Q!Said(chain[n], o.id)
      BY <1>3, <1>7, <2>6, <3>2
    <3> QED
      BY <2>1, <2>2, <2>3, <2>6, <3>1, <3>3 DEF EntryHolds
  <2>7. CASE m = n /\ r.id = o.id /\ r.status # "pending" /\ o.kind # "ask"
    <3>1. ~NoVerdictDue(ops, m, r.id)
      BY <2>7 DEF NoVerdictDue, n
    <3>2. VerdictDue(ops, m, r) /\ Open(chain[m], r.id) /\ Asked(chain[m], r.id)
      BY <2>1, <2>2, <2>7, <3>1 DEF EntryHolds
    <3>3. o = Q!Row(m, r.status, r.id, r.by)
      BY <2>7, <3>2 DEF VerdictDue, n
    <3>4. NoVerdictDue(ops', m, r.id)
      BY <1>9, <3>2, <3>3 DEF VerdictDue, NoVerdictDue
    <3>5. r = [id |-> o.id, status |-> o.kind, by |-> o.by]
      <4>1. o.id = r.id /\ o.kind = r.status /\ o.by = r.by
        BY <1>10, <3>3
      <4> QED
        BY <4>1 DEF Entry
    <3>6. Asked(chain'[m], r.id) /\ Q!Said(chain'[m], r.id) = r
      BY <1>3, <1>7, <1>8, <2>7, <3>2, <3>5
    <3> QED
      BY <2>2, <2>7, <3>4, <3>6 DEF EntryHolds
  <2> QED
    BY <1>t, <2>4, <2>5, <2>6, <2>7
<1> QED
  BY <1>11, <1>12, <1>13, <1>14, <1>15, <1>16, <1>17, <1>18, <1>19 DEF RqInv

LEMMA RowRefused ==
    ASSUME RqInv, NEW o \in ops, QueuesStay, chain' = chain,
           past' = [past EXCEPT !.refused = past.refused \cup {o.id}],
           ops' = ops \ {o}
    PROVE  RqInv'
<1>1. /\ queue' = queue /\ up' = up /\ proc' = proc /\ told' = told /\ taken' = taken /\ chain' = chain
      /\ \A w \in wire' : w \in wire \/ (w \in RqWords /\ Word(w.by, w.id, w.verdict) \in told)
      /\ past'.pids = past.pids /\ past'.reused = past.reused /\ past'.tool = past.tool
      /\ past'.removed = past.removed /\ past'.early = past.early
  BY DEF QueuesStay
<1>t. /\ \A m \in Q!Nodes : \A i \in 1 .. Len(queue[m]) : queue[m][i].id \in ReqIds
      /\ Centre \in Q!Nodes /\ StandIn \in Q!Nodes
      /\ \A p \in ops : p.node \in Q!Nodes /\ p.id \in ReqIds /\ p = Q!Row(p.node, p.kind, p.id, p.by)
      /\ \A t \in told : t.node \in Q!Nodes /\ t.id \in ReqIds
  BY RqTypesSay DEF RqInv
<1>2. past' \in RqPast /\ past'.refused = past.refused \cup {o.id}
  <2>1. past \in RqPast /\ o.id \in ReqIds
    BY <1>t DEF RqInv, RqTypes
  <2> QED
    BY <2>1 DEF RqPast
<1>3. \A x : (Excused(past, x) => Excused(past', x)) /\ (~Excused(past', x) => x # o.id)
  BY <1>1, <1>2 DEF Excused
<1>4. SeenIds' = SeenIds /\ \A m : Q!Fresh(m)' <=> Q!Fresh(m)
  BY <1>1 DEF SeenIds, Q!Fresh
<1>5. \A m, k, i, b : Q!Row(m, k, i, b).id = i
  BY DEF Q!Row
<1>6. \A p \in ops : p.id # o.id => p \in ops'
  OBVIOUS
<1>11. RqTypes'
  <2>1. RqTypes
    BY DEF RqInv
  <2>2. wire' \subseteq RqWords /\ ops' \subseteq RqOps
    BY <1>1, <2>1 DEF RqTypes
  <2> QED
    BY <1>1, <1>2, <2>1, <2>2 DEF RqTypes
<1>12. OfItsNode'
  BY <1>1 DEF RqInv, OfItsNode
<1>13. IdsSeen'
  BY <1>1, <1>4 DEF RqInv, IdsSeen
<1>14. DecidersTold'
  BY <1>1 DEF RqInv, DecidersTold
<1>15. ToolUnasked'
  BY <1>1, <1>4 DEF RqInv, ToolUnasked
<1>16. QueueKnown'
  <2>1. QueueKnown
    BY DEF RqInv
  <2>2. ASSUME NEW m \in Q!Nodes, NEW i \in 1 .. Len(queue[m])
        PROVE  KnownAsk(ops', chain[m], past', m, queue[m][i].id)
    <3>1. KnownAsk(ops, chain[m], past, m, queue[m][i].id)
      BY <2>1 DEF QueueKnown
    <3> QED
      BY <1>1, <1>2, <1>5, <1>6, <3>1 DEF KnownAsk
  <2> QED
    BY <1>1, <1>4, <2>1, <2>2 DEF QueueKnown
<1>17. ToldOnce'
  <2> SUFFICES ASSUME NEW t \in told, Q!Fresh(t.id[1]), ~Excused(past', t.id)
               PROVE  /\ WordSettled(ops', chain[t.node], queue[t.node], past', t)
                      /\ \A u \in told : u.node = t.node /\ u.id = t.id => u = t
    BY <1>1, <1>4 DEF ToldOnce
  <2>1. /\ WordSettled(ops, chain[t.node], queue[t.node], past, t)
        /\ \A u \in told : u.node = t.node /\ u.id = t.id => u = t
    BY <1>3 DEF RqInv, ToldOnce
  <2>2. t.id # o.id
    BY <1>3
  <2> QED
    BY <1>1, <1>5, <1>6, <2>1, <2>2 DEF WordSettled
<1>18. AsksQueued'
  BY <1>1 DEF RqInv, AsksQueued
<1>19. OwnHolds'
  <2> SUFFICES ASSUME NEW m \in Q!Nodes, Q!Fresh(m), NEW i \in 1 .. Len(queue[m]),
                      queue[m][i].id[1] = m, ~Excused(past', queue[m][i].id),
                      queue[m][i].id \notin past.tool
               PROVE  EntryHolds(ops', chain[m], m, queue[m][i])
    BY <1>1, <1>4 DEF OwnHolds
  <2>1. EntryHolds(ops, chain[m], m, queue[m][i]) /\ queue[m][i].id # o.id
    BY <1>3 DEF RqInv, OwnHolds
  <2>2. NoVerdictDue(ops, m, queue[m][i].id) => NoVerdictDue(ops', m, queue[m][i].id)
    BY DEF NoVerdictDue
  <2>3. VerdictDue(ops, m, queue[m][i]) => VerdictDue(ops', m, queue[m][i])
    BY <1>5, <1>6, <2>1 DEF VerdictDue
  <2> QED
    BY <2>1, <2>2, <2>3 DEF EntryHolds
<1> QED
  BY <1>11, <1>12, <1>13, <1>14, <1>15, <1>16, <1>17, <1>18, <1>19 DEF RqInv

(* A word lost, or one that decides nothing.                                *)
LEMMA WordGone ==
    ASSUME RqInv, wire' \subseteq wire,
           UNCHANGED <<up, proc, queue, chain, ops, taken, past, told>>
    PROVE  RqInv'
<1>1. SeenIds' = SeenIds /\ \A m : Q!Fresh(m)' <=> Q!Fresh(m)
  BY DEF SeenIds, Q!Fresh
<1>2. RqTypes'
  BY DEF RqInv, RqTypes
<1>3. OfItsNode' /\ DecidersTold' /\ AsksQueued'
  BY DEF RqInv, OfItsNode, DecidersTold, AsksQueued
<1>4. IdsSeen' /\ ToolUnasked' /\ QueueKnown'
  BY <1>1 DEF RqInv, IdsSeen, ToolUnasked, QueueKnown
<1>5. ToldOnce' /\ OwnHolds'
  BY <1>1 DEF RqInv, ToldOnce, OwnHolds
<1> QED
  BY <1>2, <1>3, <1>4, <1>5 DEF RqInv

(* A queue whose entries were all there before, in the order they had, the  *)
(* rest as it was or less.                                                  *)
LEMMA QueueWithout ==
    ASSUME NEW q \in Seq(Entry), NEW id, Has(q, id)
    PROVE  LET s == Q!RemoveFromQueue(q, id) IN
           /\ s \in Seq(Entry)
           /\ \A i \in 1 .. Len(s) : \E j \in 1 .. Len(q) : s[i] = q[j]
           /\ \A x : Once(q, x) => Once(s, x)
           /\ \A x : x # id /\ Has(q, x) => Has(s, x)
<1> DEFINE k == Q!Min(Q!Queued(q, id))  s == Q!RemoveAt(q, k)
<1>1. k \in 1 .. Len(q) /\ q[k].id = id /\ DOMAIN q = 1 .. Len(q) /\ Len(q) \in Nat
  BY QueuedIs
<1>2. Q!RemoveFromQueue(q, id) = s
  BY DEF Q!RemoveFromQueue
<1> HIDE DEF k
<1>3. /\ s \in Seq(Entry) /\ Len(s) = Len(q) - 1
      /\ \A i \in 1 .. Len(q) - 1 : s[i] = q[IF i < k THEN i ELSE i + 1]
  BY <1>1, WithoutOne
<1> HIDE DEF s
<1>4. DOMAIN s = 1 .. Len(q) - 1
  BY <1>3
<1>5. \A i \in 1 .. Len(s) : \E j \in 1 .. Len(q) : s[i] = q[j]
  <2> SUFFICES ASSUME NEW i \in 1 .. Len(q) - 1 PROVE \E j \in 1 .. Len(q) : s[i] = q[j]
    BY <1>3
  <2>1. (IF i < k THEN i ELSE i + 1) \in 1 .. Len(q)
    BY <1>1
  <2> QED
    BY <1>3, <2>1
<1>6. ASSUME NEW x, Once(q, x) PROVE Once(s, x)
  <2> SUFFICES ASSUME NEW i \in 1 .. Len(q) - 1, NEW j \in 1 .. Len(q) - 1, s[i].id = x, s[j].id = x
               PROVE  i = j
    BY <1>4 DEF Once
  <2> DEFINE a == IF i < k THEN i ELSE i + 1  b == IF j < k THEN j ELSE j + 1
  <2>1. a \in DOMAIN q /\ b \in DOMAIN q
    BY <1>1
  <2>2. s[i] = q[a] /\ s[j] = q[b]
    BY <1>3
  <2>3. a = b
    <3> HIDE DEF a, b
    <3> QED
      BY <1>6, <2>1, <2>2 DEF Once
  <2> QED
    BY <1>1, <2>3
<1>7. ASSUME NEW x, x # id, Has(q, x) PROVE Has(s, x)
  <2>1. PICK j \in 1 .. Len(q) : q[j].id = x
    BY <1>7, QueuedIs
  <2>2. j # k
    BY <1>1, <1>7, <2>1
  <2> DEFINE i == IF j < k THEN j ELSE j - 1
  <2>3. i \in 1 .. Len(q) - 1 /\ (IF i < k THEN i ELSE i + 1) = j
    BY <1>1, <2>2
  <2> HIDE DEF i
  <2>4. s[i] = q[j]
    BY <1>3, <2>3
  <2> QED
    BY <1>3, <2>1, <2>3, <2>4, QueuedIs
<1> QED
  BY <1>2, <1>3, <1>5, <1>6, <1>7

LEMMA RemovalKeeps ==
    ASSUME RqInv, NEW n \in Q!Nodes, NEW id, Q!DeleteRequest(n, id)
    PROVE  RqInv'
<1>0. /\ queue' = [queue EXCEPT ![n] = Q!RemoveFromQueue(queue[n], id)]
      /\ past' = [past EXCEPT !.removed = past.removed \cup {<<n, id>>}]
      /\ up' = up /\ proc' = proc /\ chain' = chain /\ ops' = ops /\ wire' = wire
      /\ taken' = taken /\ told' = told /\ Has(queue[n], id)
  BY DEF Q!DeleteRequest, Has
<1>t. /\ \A m \in Q!Nodes : queue[m] \in Seq(Entry) /\ \A i \in 1 .. Len(queue[m]) : queue[m][i].id \in ReqIds
      /\ Centre \in Q!Nodes /\ StandIn \in Q!Nodes
      /\ \A p \in ops : p.node \in Q!Nodes /\ p.id \in ReqIds
      /\ \A t \in told : t.node \in Q!Nodes /\ t.id \in ReqIds
  BY RqTypesSay DEF RqInv
<1>1. id \in ReqIds
  BY <1>0, <1>t, QueuedIs
<1>2. /\ past' \in RqPast /\ past'.removed = past.removed \cup {<<n, id>>}
      /\ past'.pids = past.pids /\ past'.reused = past.reused /\ past'.tool = past.tool
      /\ past'.refused = past.refused /\ past'.early = past.early
  <2>1. past \in RqPast
    BY DEF RqInv, RqTypes
  <2> QED
    BY <1>0, <1>1, <2>1 DEF RqPast
<1>3. /\ Q!RemoveFromQueue(queue[n], id) \in Seq(Entry)
      /\ \A i \in 1 .. Len(Q!RemoveFromQueue(queue[n], id)) :
           \E j \in 1 .. Len(queue[n]) : Q!RemoveFromQueue(queue[n], id)[i] = queue[n][j]
      /\ \A x : Once(queue[n], x) => Once(Q!RemoveFromQueue(queue[n], id), x)
      /\ \A x : x # id /\ Has(queue[n], x) => Has(Q!RemoveFromQueue(queue[n], id), x)
  BY <1>0, <1>t, QueueWithout
<1>4. /\ queue' \in [Q!Nodes -> Seq(Entry)]
      /\ queue'[n] = Q!RemoveFromQueue(queue[n], id) /\ \A m \in Q!Nodes \ {n} : queue'[m] = queue[m]
  <2>1. queue \in [Q!Nodes -> Seq(Entry)]
    BY DEF RqInv, RqTypes
  <2> QED
    BY <1>0, <1>3, <2>1
<1>5. \A m \in Q!Nodes :
        /\ \A i \in 1 .. Len(queue'[m]) : \E j \in 1 .. Len(queue[m]) : queue'[m][i] = queue[m][j]
        /\ \A x : Once(queue[m], x) => Once(queue'[m], x)
        /\ \A x : Has(queue[m], x) => Has(queue'[m], x) \/ <<m, x>> \in past'.removed
  <2> SUFFICES ASSUME NEW m \in Q!Nodes
               PROVE  /\ \A i \in 1 .. Len(queue'[m]) : \E j \in 1 .. Len(queue[m]) : queue'[m][i] = queue[m][j]
                      /\ \A x : Once(queue[m], x) => Once(queue'[m], x)
                      /\ \A x : Has(queue[m], x) => Has(queue'[m], x) \/ <<m, x>> \in past'.removed
    OBVIOUS
  <2>1. CASE m = n
    BY <1>2, <1>3, <1>4, <2>1
  <2>2. CASE m # n
    BY <1>4, <2>2
  <2> QED
    BY <2>1, <2>2
<1>6. SeenIds' = SeenIds /\ (\A m : Q!Fresh(m)' <=> Q!Fresh(m)) /\ \A x : Excused(past', x) <=> Excused(past, x)
  BY <1>0, <1>2 DEF SeenIds, Q!Fresh, Excused
<1>11. RqTypes'
  BY <1>0, <1>2, <1>4 DEF RqInv, RqTypes
<1>12. OfItsNode'
  <2>1. \A i \in 1 .. Len(queue'[StandIn]) : queue'[StandIn][i].id[1] = StandIn
    BY <1>5, <1>t DEF RqInv, OfItsNode
  <2> QED
    BY <1>0, <2>1 DEF RqInv, OfItsNode
<1>13. IdsSeen'
  <2>1. \A m \in Q!Nodes : \A i \in 1 .. Len(queue'[m]) : queue'[m][i].id \in SeenIds
    BY <1>5 DEF RqInv, IdsSeen
  <2> QED
    BY <1>0, <1>2, <1>6, <2>1 DEF RqInv, IdsSeen
<1>14. DecidersTold'
  <2>1. \A m \in Q!Nodes : \A i \in 1 .. Len(queue'[m]) :
          queue'[m][i].status # "pending" => Word(queue'[m][i].by, queue'[m][i].id, queue'[m][i].status) \in told
    BY <1>5 DEF RqInv, DecidersTold
  <2> QED
    BY <1>0, <2>1 DEF RqInv, DecidersTold
<1>15. ToolUnasked'
  BY <1>0, <1>2, <1>6 DEF RqInv, ToolUnasked
<1>16. QueueKnown'
  <2>1. \A m \in Q!Nodes : \A i \in 1 .. Len(queue'[m]) : KnownAsk(ops, chain[m], past, m, queue'[m][i].id)
    BY <1>5 DEF RqInv, QueueKnown
  <2>2. \A m \in Q!Nodes, x \in ReqIds : Q!Fresh(x[1])' => Once(queue'[m], x)
    BY <1>5, <1>6 DEF RqInv, QueueKnown
  <2>3. \A m, x : KnownAsk(ops, chain[m], past, m, x) => KnownAsk(ops', chain'[m], past', m, x)
    BY <1>0, <1>2 DEF KnownAsk
  <2> QED
    BY <2>1, <2>2, <2>3 DEF QueueKnown
<1>17. ToldOnce'
  <2> SUFFICES ASSUME NEW t \in told, Q!Fresh(t.id[1]), ~Excused(past, t.id)
               PROVE  /\ WordSettled(ops, chain[t.node], queue'[t.node], past', t)
                      /\ \A u \in told : u.node = t.node /\ u.id = t.id => u = t
    BY <1>0, <1>6 DEF ToldOnce
  <2>1. /\ WordSettled(ops, chain[t.node], queue[t.node], past, t)
        /\ \A u \in told : u.node = t.node /\ u.id = t.id => u = t
    BY DEF RqInv, ToldOnce
  <2>2. \A i \in 1 .. Len(queue'[t.node]) : queue'[t.node][i].id = t.id => queue'[t.node][i].status # "pending"
    BY <1>5, <1>t, <2>1 DEF WordSettled
  <2> QED
    BY <1>2, <2>1, <2>2 DEF WordSettled
<1>18. AsksQueued'
  <2>0. AsksQueued /\ past.removed \subseteq past'.removed
    BY <1>2 DEF RqInv
  <2>1. ASSUME NEW m \in Q!Nodes, NEW x \in ReqIds,
               up[m] /\ x[1] = m /\ Asked(chain[m], x) /\ Open(chain[m], x) /\ <<m, x>> \notin past'.removed
        PROVE  Has(queue'[m], x)
    <3>1. Has(queue[m], x)
      BY <2>0, <2>1 DEF AsksQueued
    <3> QED
      BY <1>5, <2>1, <3>1
  <2>2. ASSUME NEW o \in ops, o.kind = "ask"
        PROVE  Has(queue'[o.node], o.id) \/ <<o.node, o.id>> \in past'.removed
    <3>1. Has(queue[o.node], o.id) \/ <<o.node, o.id>> \in past.removed
      BY <2>0, <2>2 DEF AsksQueued
    <3> QED
      BY <1>5, <1>t, <2>0, <3>1
  <2> QED
    BY <1>0, <2>1, <2>2 DEF AsksQueued
<1>19. OwnHolds'
  <2> SUFFICES ASSUME NEW m \in Q!Nodes, Q!Fresh(m), NEW i \in 1 .. Len(queue'[m]),
                      queue'[m][i].id[1] = m, ~Excused(past, queue'[m][i].id),
                      queue'[m][i].id \notin past.tool
               PROVE  EntryHolds(ops, chain[m], m, queue'[m][i])
    BY <1>0, <1>2, <1>6 DEF OwnHolds
  <2>1. PICK j \in 1 .. Len(queue[m]) : queue'[m][i] = queue[m][j]
    BY <1>5
  <2> QED
    BY <2>1 DEF RqInv, OwnHolds
<1> QED
  BY <1>11, <1>12, <1>13, <1>14, <1>15, <1>16, <1>17, <1>18, <1>19 DEF RqInv

(* The stand-in's rows behind the centre's own.                             *)
LEMMA SegmentKeeps ==
    ASSUME RqInv, Q!RequestsAssumption, Q!MergeSegment
    PROVE  RqInv'
<1> DEFINE b == SubSeq(chain[StandIn], taken + 1, Len(chain[StandIn]))
<1>0. /\ chain' = [chain EXCEPT ![Centre] = chain[Centre] \o b] /\ taken' = Len(chain[StandIn])
      /\ taken < Len(chain[StandIn])
      /\ up' = up /\ proc' = proc /\ queue' = queue /\ ops' = ops /\ wire' = wire
      /\ past' = past /\ told' = told
  BY DEF Q!MergeSegment
<1>t. /\ \A m \in Q!Nodes : /\ chain[m] \in Seq(ReqRow) /\ Len(chain[m]) \in Nat
                            /\ queue[m] \in Seq(Entry)
                            /\ \A i \in 1 .. Len(queue[m]) : queue[m][i].id \in ReqIds
                            /\ \A i \in 1 .. Len(chain[m]) : chain[m][i].id \in ReqIds
      /\ Centre \in Q!Nodes /\ StandIn \in Q!Nodes
      /\ \A t \in told : t.node \in Q!Nodes /\ t.id \in ReqIds
      /\ past.tool \subseteq ReqIds
  BY RqTypesSay DEF RqInv
<1>1. /\ taken \in Nat /\ taken + 1 \in 1 .. Len(chain[StandIn])
      /\ chain \in [Q!Nodes -> Seq(ReqRow)]
  BY <1>0, <1>t DEF RqInv, RqTypes
<1>2. /\ b \in Seq(ReqRow) /\ Len(b) = Len(chain[StandIn]) - taken
      /\ \A i \in 1 .. Len(chain[StandIn]) - taken : b[i] = chain[StandIn][taken + i]
  <2>1. chain[StandIn] \in Seq(ReqRow) /\ Len(chain[StandIn]) \in Nat
    BY <1>t
  <2>2. \A i \in taken + 1 .. Len(chain[StandIn]) : chain[StandIn][i] \in ReqRow
    BY <1>1, <2>1
  <2> QED
    BY <1>1, <2>1, <2>2
<1>3. \A i \in 1 .. Len(b) : \E j \in 1 .. Len(chain[StandIn]) : b[i] = chain[StandIn][j]
  <2> SUFFICES ASSUME NEW i \in 1 .. Len(chain[StandIn]) - taken
               PROVE  \E j \in 1 .. Len(chain[StandIn]) : b[i] = chain[StandIn][j]
    BY <1>2
  <2>1. taken + i \in 1 .. Len(chain[StandIn])
    BY <1>1, <1>t
  <2> QED
    BY <1>2, <2>1
<1> HIDE DEF b
<1>4. /\ chain[Centre] \o b \in Seq(ReqRow) /\ Len(chain[Centre] \o b) = Len(chain[Centre]) + Len(b)
      /\ \A i \in 1 .. Len(chain[Centre]) + Len(b) :
           (chain[Centre] \o b)[i] = IF i <= Len(chain[Centre]) THEN chain[Centre][i]
                                     ELSE b[i - Len(chain[Centre])]
  BY <1>2, <1>t, ConcatProperties
<1>5. /\ chain' \in [Q!Nodes -> Seq(ReqRow)]
      /\ chain'[Centre] = chain[Centre] \o b /\ \A m \in Q!Nodes \ {Centre} : chain'[m] = chain[m]
  BY <1>0, <1>1, <1>4, <1>t
<1>6. /\ Begins(chain[Centre], chain'[Centre])
      /\ \A i \in 1 .. Len(chain'[Centre]) :
           \/ i \in 1 .. Len(chain[Centre]) /\ chain'[Centre][i] = chain[Centre][i]
           \/ /\ i \in Len(chain[Centre]) + 1 .. Len(chain'[Centre])
              /\ \E j \in 1 .. Len(chain[StandIn]) : chain'[Centre][i] = chain[StandIn][j]
  <2>1. Len(chain[Centre]) \in Nat /\ Len(b) \in Nat
    BY <1>2, <1>t
  <2>2. Begins(chain[Centre], chain'[Centre])
    BY <1>4, <1>5, <2>1 DEF Begins
  <2>3. ASSUME NEW i \in 1 .. Len(chain'[Centre])
        PROVE  \/ i \in 1 .. Len(chain[Centre]) /\ chain'[Centre][i] = chain[Centre][i]
               \/ /\ i \in Len(chain[Centre]) + 1 .. Len(chain'[Centre])
                  /\ \E j \in 1 .. Len(chain[StandIn]) : chain'[Centre][i] = chain[StandIn][j]
    <3>1. CASE i <= Len(chain[Centre])
      BY <1>4, <1>5, <2>1, <3>1
    <3>2. CASE ~(i <= Len(chain[Centre]))
      <4>1. i - Len(chain[Centre]) \in 1 .. Len(b) /\ i \in Len(chain[Centre]) + 1 .. Len(chain'[Centre])
        BY <1>4, <1>5, <2>1, <3>2
      <4>2. chain'[Centre][i] = b[i - Len(chain[Centre])]
        BY <1>4, <1>5, <2>1, <3>2
      <4> QED
        BY <1>3, <4>1, <4>2
    <3> QED
      BY <3>1, <3>2
  <2> QED
    BY <2>2, <2>3
<1>7. \A m \in Q!Nodes : \A i \in 1 .. Len(chain'[m]) :
        \/ i \in 1 .. Len(chain[m]) /\ chain'[m][i] = chain[m][i]
        \/ m = Centre /\ \E j \in 1 .. Len(chain[StandIn]) : chain'[m][i] = chain[StandIn][j]
  BY <1>5, <1>6
<1>8. \A m \in Q!Nodes, id \in ReqIds :
        Asked(chain[m], id) => Asked(chain'[m], id) /\ (Open(chain'[m], id) => Open(chain[m], id))
  <2>1. chain[Centre] \in Seq(ReqRow) /\ chain'[Centre] \in Seq(ReqRow)
    BY <1>5, <1>t
  <2>2. \A id \in ReqIds : Asked(chain[Centre], id) =>
          Asked(chain'[Centre], id) /\ (Open(chain'[Centre], id) => Open(chain[Centre], id))
    BY <1>6, <2>1, Longer
  <2> QED
    BY <1>5, <2>2
<1>9. \A m \in Q!Nodes, id \in ReqIds : id[1] = m =>
        /\ Asked(chain'[m], id) <=> Asked(chain[m], id)
        /\ Open(chain'[m], id) <=> Open(chain[m], id)
        /\ Asked(chain[m], id) => Q!Said(chain'[m], id) = Q!Said(chain[m], id)
  <2> SUFFICES ASSUME NEW id \in ReqIds, id[1] = Centre
               PROVE  /\ Asked(chain'[Centre], id) <=> Asked(chain[Centre], id)
                      /\ Open(chain'[Centre], id) <=> Open(chain[Centre], id)
                      /\ Asked(chain[Centre], id) => Q!Said(chain'[Centre], id) = Q!Said(chain[Centre], id)
    BY <1>5
  <2>1. \A i \in Len(chain[Centre]) + 1 .. Len(chain'[Centre]) : chain'[Centre][i].id # id
    <3> SUFFICES ASSUME NEW i \in Len(chain[Centre]) + 1 .. Len(chain'[Centre])
                 PROVE  chain'[Centre][i].id # id
      OBVIOUS
    <3>1. i \in 1 .. Len(chain'[Centre]) /\ i \notin 1 .. Len(chain[Centre])
      BY <1>t
    <3>2. PICK j \in 1 .. Len(chain[StandIn]) : chain'[Centre][i] = chain[StandIn][j]
      BY <1>6, <3>1
    <3>3. chain[StandIn][j].id[1] = StandIn
      BY DEF RqInv, OfItsNode
    <3> QED
      BY <3>2, <3>3 DEF Q!RequestsAssumption
  <2>2. chain[Centre] \in Seq(ReqRow) /\ chain'[Centre] \in Seq(ReqRow)
    BY <1>5, <1>t
  <2> QED
    BY <1>6, <2>1, <2>2, Untouched
<1>10. SeenIds' = SeenIds /\ \A m : Q!Fresh(m)' <=> Q!Fresh(m)
  BY <1>0 DEF SeenIds, Q!Fresh
<1>11. RqTypes'
  BY <1>0, <1>5, <1>t DEF RqInv, RqTypes
<1>12. OfItsNode'
  BY <1>0, <1>5, <1>t DEF RqInv, OfItsNode, Q!RequestsAssumption
<1>13. IdsSeen'
  <2>0. \A m \in Q!Nodes : \A i \in 1 .. Len(chain[m]) : chain[m][i].id \in SeenIds
    BY DEF RqInv, IdsSeen
  <2>1. ASSUME NEW m \in Q!Nodes, NEW i \in 1 .. Len(chain'[m])
        PROVE  chain'[m][i].id \in SeenIds
    BY <1>7, <1>t, <2>0
  <2> QED
    BY <1>0, <1>10, <2>1 DEF RqInv, IdsSeen
<1>14. DecidersTold'
  <2>0. \A m \in Q!Nodes : \A i \in 1 .. Len(chain[m]) :
          chain[m][i].kind # "ask" => Word(chain[m][i].by, chain[m][i].id, chain[m][i].kind) \in told
    BY DEF RqInv, DecidersTold
  <2>1. ASSUME NEW m \in Q!Nodes, NEW i \in 1 .. Len(chain'[m]), chain'[m][i].kind # "ask"
        PROVE  Word(chain'[m][i].by, chain'[m][i].id, chain'[m][i].kind) \in told
    <3>1. CASE i \in 1 .. Len(chain[m]) /\ chain'[m][i] = chain[m][i]
      BY <2>0, <2>1, <3>1
    <3>2. ASSUME NEW j \in 1 .. Len(chain[StandIn]), chain'[m][i] = chain[StandIn][j]
          PROVE  Word(chain'[m][i].by, chain'[m][i].id, chain'[m][i].kind) \in told
      <4>1. chain[StandIn][j].kind # "ask"
        BY <2>1, <3>2
      <4>2. Word(chain[StandIn][j].by, chain[StandIn][j].id, chain[StandIn][j].kind) \in told
        BY <1>t, <2>0, <4>1
      <4> QED
        BY <3>2, <4>2
    <3> QED
      BY <1>7, <3>1, <3>2
  <2> QED
    BY <1>0, <2>1 DEF RqInv, DecidersTold
<1>15. ToolUnasked'
  <2> SUFFICES ASSUME NEW x \in past.tool, Q!Fresh(x[1]), NEW m \in Q!Nodes, Asked(chain'[m], x)
               PROVE  FALSE
    BY <1>0, <1>10 DEF RqInv, ToolUnasked
  <2>1. ~Asked(chain[m], x) /\ ~Asked(chain[StandIn], x)
    BY <1>t DEF RqInv, ToolUnasked
  <2>2. DOMAIN chain[StandIn] = 1 .. Len(chain[StandIn]) /\ DOMAIN chain[m] = 1 .. Len(chain[m])
        /\ DOMAIN chain'[m] = 1 .. Len(chain'[m])
    BY <1>5, <1>t
  <2> QED
    BY <1>7, <2>1, <2>2 DEF Asked, Q!AskRows
<1>16. QueueKnown'
  <2>1. \A m \in Q!Nodes : \A i \in 1 .. Len(queue[m]) : KnownAsk(ops, chain'[m], past, m, queue[m][i].id)
    BY <1>8, <1>t DEF RqInv, QueueKnown, KnownAsk
  <2> QED
    BY <1>0, <1>10, <2>1 DEF RqInv, QueueKnown
<1>17. ToldOnce'
  <2> SUFFICES ASSUME NEW t \in told, Q!Fresh(t.id[1]), ~Excused(past, t.id)
               PROVE  /\ WordSettled(ops, chain'[t.node], queue[t.node], past, t)
                      /\ \A u \in told : u.node = t.node /\ u.id = t.id => u = t
    BY <1>0, <1>10 DEF ToldOnce
  <2>1. /\ WordSettled(ops, chain[t.node], queue[t.node], past, t)
        /\ \A u \in told : u.node = t.node /\ u.id = t.id => u = t
    BY DEF RqInv, ToldOnce
  <2> QED
    BY <1>8, <1>t, <2>1 DEF WordSettled
<1>18. AsksQueued'
  <2>1. \A m \in Q!Nodes, x \in ReqIds :
          /\ up[m] /\ x[1] = m /\ Asked(chain'[m], x) /\ Open(chain'[m], x)
          /\ <<m, x>> \notin past.removed
          => Has(queue[m], x)
    BY <1>9 DEF RqInv, AsksQueued
  <2> QED
    BY <1>0, <2>1 DEF RqInv, AsksQueued
<1>19. OwnHolds'
  <2> SUFFICES ASSUME NEW m \in Q!Nodes, Q!Fresh(m), NEW i \in 1 .. Len(queue[m]),
                      queue[m][i].id[1] = m, ~Excused(past, queue[m][i].id),
                      queue[m][i].id \notin past.tool
               PROVE  EntryHolds(ops, chain'[m], m, queue[m][i])
    BY <1>0, <1>10 DEF OwnHolds
  <2>1. EntryHolds(ops, chain[m], m, queue[m][i])
    BY DEF RqInv, OwnHolds
  <2>2. PICK id \in ReqIds : id = queue[m][i].id
    BY <1>t
  <2>3. /\ Asked(chain'[m], id) <=> Asked(chain[m], id)
        /\ Open(chain'[m], id) <=> Open(chain[m], id)
        /\ Asked(chain[m], id) => Q!Said(chain'[m], id) = Q!Said(chain[m], id)
    BY <1>9, <2>2
  <2> QED
    BY <2>1, <2>2, <2>3 DEF EntryHolds
<1> QED
  BY <1>11, <1>12, <1>13, <1>14, <1>15, <1>16, <1>17, <1>18, <1>19 DEF RqInv

(* A process dies: its queue, and the rows it had still to write.           *)
LEMMA RqCrashKeeps ==
    ASSUME RqInv, NEW n \in Q!Nodes, Q!Crash(n)
    PROVE  RqInv'
<1>0. /\ up' = [up EXCEPT ![n] = FALSE] /\ queue' = [queue EXCEPT ![n] = <<>>]
      /\ ops' = {o \in ops : o.node # n}
      /\ past' = [past EXCEPT !.refused = past.refused \cup {o.id : o \in {x \in ops : x.node = n}}]
      /\ proc' = proc /\ chain' = chain /\ wire' = wire /\ taken' = taken /\ told' = told
  BY DEF Q!Crash
<1>t. /\ \A m \in Q!Nodes : \A i \in 1 .. Len(queue[m]) : queue[m][i].id \in ReqIds
      /\ Centre \in Q!Nodes /\ StandIn \in Q!Nodes
      /\ \A p \in ops : p.node \in Q!Nodes /\ p.id \in ReqIds /\ p = Q!Row(p.node, p.kind, p.id, p.by)
      /\ \A t \in told : t.node \in Q!Nodes /\ t.id \in ReqIds
  BY RqTypesSay DEF RqInv
<1>1. /\ past' \in RqPast /\ past.refused \subseteq past'.refused
      /\ \A o \in ops : o.node = n => o.id \in past'.refused
      /\ past'.pids = past.pids /\ past'.reused = past.reused /\ past'.tool = past.tool
      /\ past'.removed = past.removed /\ past'.early = past.early
  <2>1. past \in RqPast /\ {o.id : o \in {x \in ops : x.node = n}} \subseteq ReqIds
    BY <1>t DEF RqInv, RqTypes
  <2>2. \A o \in ops : o.node = n => o.id \in {p.id : p \in {x \in ops : x.node = n}}
    OBVIOUS
  <2> DEFINE gone == {o.id : o \in {x \in ops : x.node = n}}
  <2>3. past' = [past EXCEPT !.refused = past.refused \cup gone]
    BY <1>0
  <2>4. gone \subseteq ReqIds /\ \A o \in ops : o.node = n => o.id \in gone
    BY <2>1, <2>2
  <2> HIDE DEF gone
  <2> QED
    BY <2>1, <2>3, <2>4 DEF RqPast
<1>2. /\ queue' \in [Q!Nodes -> Seq(Entry)] /\ up' \in [Q!Nodes -> BOOLEAN]
      /\ queue'[n] = <<>> /\ ~up'[n]
      /\ \A m \in Q!Nodes \ {n} : queue'[m] = queue[m] /\ up'[m] = up[m]
  <2>1. queue \in [Q!Nodes -> Seq(Entry)] /\ up \in [Q!Nodes -> BOOLEAN] /\ <<>> \in Seq(Entry)
    BY DEF RqInv, RqTypes
  <2> QED
    BY <1>0, <2>1
<1>3. \A m \in Q!Nodes : \A i \in 1 .. Len(queue'[m]) :
        m # n /\ i \in 1 .. Len(queue[m]) /\ queue'[m][i] = queue[m][i]
  <2>1. Len(queue'[n]) = 0
    BY <1>2
  <2>2. 1 .. 0 = {}
    OBVIOUS
  <2> QED
    BY <1>2, <2>1, <2>2
<1>4. \A x : Excused(past, x) => Excused(past', x)
  BY <1>1 DEF Excused
<1>5. \A o \in ops : o \in ops' \/ (o.node = n /\ Excused(past', o.id))
  BY <1>0, <1>1 DEF Excused
<1>6. SeenIds' = SeenIds /\ \A m : Q!Fresh(m)' <=> Q!Fresh(m)
  BY <1>0, <1>1 DEF SeenIds, Q!Fresh
<1>7. \A m, k, i, b : Q!Row(m, k, i, b).id = i /\ Q!Row(m, k, i, b).node = m
  BY DEF Q!Row
<1>8. ops' \subseteq ops /\ \A o \in ops' : o.node # n
  BY <1>0
<1>11. RqTypes'
  BY <1>0, <1>1, <1>2, <1>8 DEF RqInv, RqTypes
<1>12. OfItsNode'
  <2>1. \A o \in ops' : up'[o.node] /\ (o.node = StandIn => o.id[1] = StandIn)
    BY <1>2, <1>8, <1>t DEF RqInv, OfItsNode
  <2>2. \A i \in 1 .. Len(queue'[StandIn]) : queue'[StandIn][i].id[1] = StandIn
    BY <1>3, <1>t DEF RqInv, OfItsNode
  <2> QED
    BY <1>0, <2>1, <2>2 DEF RqInv, OfItsNode
<1>13. IdsSeen'
  <2>1. \A m \in Q!Nodes : \A i \in 1 .. Len(queue'[m]) : queue'[m][i].id \in SeenIds
    BY <1>3 DEF RqInv, IdsSeen
  <2> QED
    BY <1>0, <1>1, <1>6, <1>8, <2>1 DEF RqInv, IdsSeen
<1>14. DecidersTold'
  <2>1. \A m \in Q!Nodes : \A i \in 1 .. Len(queue'[m]) :
          queue'[m][i].status # "pending" => Word(queue'[m][i].by, queue'[m][i].id, queue'[m][i].status) \in told
    BY <1>3 DEF RqInv, DecidersTold
  <2> QED
    BY <1>0, <1>8, <2>1 DEF RqInv, DecidersTold
<1>15. ToolUnasked'
  BY <1>0, <1>1, <1>6, <1>8 DEF RqInv, ToolUnasked
<1>16. QueueKnown'
  <2>1. ASSUME NEW m \in Q!Nodes, NEW i \in 1 .. Len(queue'[m])
        PROVE  KnownAsk(ops', chain[m], past', m, queue'[m][i].id)
    <3>1. m # n /\ KnownAsk(ops, chain[m], past, m, queue'[m][i].id)
      BY <1>3 DEF RqInv, QueueKnown
    <3> QED
      BY <1>1, <1>5, <1>7, <3>1 DEF KnownAsk
  <2>2. \A m \in Q!Nodes, x \in ReqIds : Q!Fresh(x[1])' => Once(queue'[m], x)
    <3>1. \A x : Once(queue'[n], x)
      BY <1>2 DEF Once
    <3> QED
      BY <1>2, <1>6, <3>1 DEF RqInv, QueueKnown
  <2> QED
    BY <1>0, <2>1, <2>2 DEF QueueKnown
<1>17. ToldOnce'
  <2> SUFFICES ASSUME NEW t \in told, Q!Fresh(t.id[1]), ~Excused(past', t.id)
               PROVE  /\ WordSettled(ops', chain[t.node], queue'[t.node], past', t)
                      /\ \A u \in told : u.node = t.node /\ u.id = t.id => u = t
    BY <1>0, <1>6 DEF ToldOnce
  <2>1. /\ WordSettled(ops, chain[t.node], queue[t.node], past, t)
        /\ \A u \in told : u.node = t.node /\ u.id = t.id => u = t
    BY <1>4 DEF RqInv, ToldOnce
  <2>2. \A i \in 1 .. Len(queue'[t.node]) : queue'[t.node][i].id = t.id => queue'[t.node][i].status # "pending"
    BY <1>3, <1>t, <2>1 DEF WordSettled
  <2>3. Q!Row(t.node, t.verdict, t.id, t.node) \in ops => Q!Row(t.node, t.verdict, t.id, t.node) \in ops'
    BY <1>5, <1>7
  <2> QED
    BY <1>1, <2>1, <2>2, <2>3 DEF WordSettled
<1>18. AsksQueued'
  <2>1. \A m \in Q!Nodes, x \in ReqIds :
          /\ up'[m] /\ x[1] = m /\ Asked(chain[m], x) /\ Open(chain[m], x)
          /\ <<m, x>> \notin past.removed
          => Has(queue'[m], x)
    BY <1>2 DEF RqInv, AsksQueued
  <2>2. \A o \in ops' : o.kind = "ask" => Has(queue'[o.node], o.id) \/ <<o.node, o.id>> \in past.removed
    BY <1>2, <1>8, <1>t DEF RqInv, AsksQueued
  <2> QED
    BY <1>0, <1>1, <2>1, <2>2 DEF AsksQueued
<1>19. OwnHolds'
  <2> SUFFICES ASSUME NEW m \in Q!Nodes, Q!Fresh(m), NEW i \in 1 .. Len(queue'[m]),
                      queue'[m][i].id[1] = m, ~Excused(past', queue'[m][i].id),
                      queue'[m][i].id \notin past.tool
               PROVE  EntryHolds(ops', chain[m], m, queue'[m][i])
    BY <1>0, <1>1, <1>6 DEF OwnHolds
  <2>1. m # n /\ EntryHolds(ops, chain[m], m, queue'[m][i])
    BY <1>3, <1>4 DEF RqInv, OwnHolds
  <2>2. NoVerdictDue(ops, m, queue'[m][i].id) => NoVerdictDue(ops', m, queue'[m][i].id)
    BY <1>8 DEF NoVerdictDue
  <2>3. VerdictDue(ops, m, queue'[m][i]) => VerdictDue(ops', m, queue'[m][i])
    BY <1>5, <1>7, <1>8, <2>1 DEF VerdictDue
  <2> QED
    BY <2>1, <2>2, <2>3 DEF EntryHolds
<1> QED
  BY <1>11, <1>12, <1>13, <1>14, <1>15, <1>16, <1>17, <1>18, <1>19 DEF RqInv

(* A new process: its queue is what its chain leaves open.                  *)
LEMMA QueueReadBack ==
    ASSUME NEW c \in Seq(ReqRow)
    PROVE  LET q == Q!Restore(<<>>, Q!DeriveRequests(c)) IN
           /\ q \in Seq(Entry) /\ Distinct(q)
           /\ \A i \in 1 .. Len(q) : /\ q[i].status = "pending" /\ q[i].id \in ReqIds
                                     /\ Asked(c, q[i].id) /\ Open(c, q[i].id)
           /\ \A id \in ReqIds : Asked(c, id) /\ Open(c, id) => Has(q, id)
<1> DEFINE d == Q!DeriveRequests(c)  q == Q!Restore(<<>>, d)
<1>1. /\ d \in Seq(Entry)
      /\ \A i \in 1 .. Len(d) : Asked(c, d[i].id) /\ d[i] = Q!Said(c, d[i].id)
      /\ \A id \in ReqIds : Asked(c, id) => Has(d, id)
  BY RecordsHold DEF Derived
<1> HIDE DEF d
<1>2. /\ q \in Seq(Entry) /\ Distinct(q) /\ (\A i \in 1 .. Len(q) : q[i].status = "pending")
      /\ \A id : Has(q, id) <=> \E i \in 1 .. Len(d) : d[i].id = id /\ d[i].status = "pending"
  BY <1>1, QueueRestored DEF Seeded
<1> HIDE DEF q
<1>3. \A id \in ReqIds : Open(c, id) <=> Q!Said(c, id).status = "pending"
  BY SaidIs
<1>4. ASSUME NEW i \in 1 .. Len(q) PROVE q[i].id \in ReqIds /\ Asked(c, q[i].id) /\ Open(c, q[i].id)
  <2>1. q[i] \in Entry /\ q[i].id \in ReqIds
    <3>1. q[i] \in Entry
      BY <1>2
    <3> QED
      BY <3>1 DEF Entry
  <2>2. Has(q, q[i].id)
    BY <1>2, QueuedIs
  <2>3. PICK j \in 1 .. Len(d) : d[j].id = q[i].id /\ d[j].status = "pending"
    BY <1>2, <2>2
  <2> QED
    BY <1>1, <1>3, <2>1, <2>3
<1>5. ASSUME NEW id \in ReqIds, Asked(c, id), Open(c, id) PROVE Has(q, id)
  <2>1. PICK i \in 1 .. Len(d) : d[i].id = id
    BY <1>1, <1>5, QueuedIs
  <2>2. d[i].status = "pending"
    BY <1>1, <1>3, <1>5, <2>1
  <2> QED
    BY <1>2, <2>1, <2>2
<1> QED
  BY <1>2, <1>4, <1>5 DEF q, d

LEMMA RqBootKeeps ==
    ASSUME RqInv, NEW n \in Q!Nodes, NEW pid \in Pids, Q!Boot(n, pid)
    PROVE  RqInv'
<1> DEFINE new == Q!Restore(<<>>, Q!DeriveRequests(chain[n]))
<1>0. /\ ~up[n] /\ up' = [up EXCEPT ![n] = TRUE] /\ proc' = [proc EXCEPT ![n] = [pid |-> pid, seq |-> 0]]
      /\ queue' = [queue EXCEPT ![n] = new]
      /\ past' = [past EXCEPT !.pids = past.pids \cup {<<n, pid>>},
                              !.reused = IF <<n, pid>> \in past.pids THEN past.reused \cup {n} ELSE past.reused,
                              !.removed = {r \in past.removed : r[1] # n}]
      /\ chain' = chain /\ ops' = ops /\ wire' = wire /\ taken' = taken /\ told' = told
  BY DEF Q!Boot
<1>t. /\ \A m \in Q!Nodes : /\ chain[m] \in Seq(ReqRow) /\ queue[m] \in Seq(Entry)
                            /\ \A i \in 1 .. Len(queue[m]) : queue[m][i].id \in ReqIds
                            /\ \A i \in 1 .. Len(chain[m]) : chain[m][i].id \in ReqIds
                            /\ DOMAIN chain[m] = 1 .. Len(chain[m])
      /\ Centre \in Q!Nodes /\ StandIn \in Q!Nodes
      /\ \A p \in ops : p.node \in Q!Nodes /\ p.id \in ReqIds
      /\ \A t \in told : t.node \in Q!Nodes /\ t.id \in ReqIds
      /\ past.tool \subseteq ReqIds
      /\ \A id \in ReqIds : id[1] \in Q!Nodes /\ id[2] \in Pids /\ id[3] \in Nat
  BY RqTypesSay DEF RqInv
<1>1. /\ new \in Seq(Entry) /\ Distinct(new)
      /\ \A i \in 1 .. Len(new) : /\ new[i].status = "pending" /\ new[i].id \in ReqIds
                                  /\ Asked(chain[n], new[i].id) /\ Open(chain[n], new[i].id)
      /\ \A id \in ReqIds : Asked(chain[n], id) /\ Open(chain[n], id) => Has(new, id)
  BY <1>t, QueueReadBack
<1> HIDE DEF new
<1>2. /\ past' \in RqPast /\ past'.pids = past.pids \cup {<<n, pid>>}
      /\ past'.reused = IF <<n, pid>> \in past.pids THEN past.reused \cup {n} ELSE past.reused
      /\ past'.removed = {r \in past.removed : r[1] # n}
      /\ past'.tool = past.tool /\ past'.early = past.early /\ past'.refused = past.refused
  <2>1. past \in RqPast
    BY DEF RqInv, RqTypes
  <2> DEFINE R == IF <<n, pid>> \in past.pids THEN past.reused \cup {n} ELSE past.reused
             D == {r \in past.removed : r[1] # n}  P == past.pids \cup {<<n, pid>>}
  <2>2. P \in SUBSET (Q!Nodes \X Pids) /\ R \in SUBSET Q!Nodes /\ D \in SUBSET (Q!Nodes \X ReqIds)
    BY <2>1 DEF RqPast
  <2>3. past' = [past EXCEPT !.pids = P, !.reused = R, !.removed = D]
    BY <1>0
  <2> HIDE DEF R, D, P
  <2>4. past' \in RqPast /\ past'.pids = P /\ past'.reused = R /\ past'.removed = D
        /\ past'.tool = past.tool /\ past'.early = past.early /\ past'.refused = past.refused
    BY <2>1, <2>2, <2>3 DEF RqPast
  <2> QED
    BY <2>4 DEF R, D, P
<1>3. /\ queue' \in [Q!Nodes -> Seq(Entry)] /\ up' \in [Q!Nodes -> BOOLEAN]
      /\ proc' \in [Q!Nodes -> [pid : Pids, seq : Nat]]
      /\ queue'[n] = new /\ proc'[n].pid = pid /\ proc'[n].seq = 0
      /\ \A m \in Q!Nodes \ {n} : queue'[m] = queue[m] /\ proc'[m] = proc[m] /\ up'[m] = up[m]
      /\ \A m \in Q!Nodes : up[m] => up'[m]
  <2>1. /\ queue \in [Q!Nodes -> Seq(Entry)] /\ up \in [Q!Nodes -> BOOLEAN]
        /\ proc \in [Q!Nodes -> [pid : Pids, seq : Nat]]
    BY DEF RqInv, RqTypes
  <2>2. queue' \in [Q!Nodes -> Seq(Entry)] /\ queue'[n] = new /\ \A m \in Q!Nodes \ {n} : queue'[m] = queue[m]
    BY <1>0, <1>1, <2>1
  <2>3. /\ up' \in [Q!Nodes -> BOOLEAN] /\ (\A m \in Q!Nodes \ {n} : up'[m] = up[m])
        /\ \A m \in Q!Nodes : up[m] => up'[m]
    BY <1>0, <2>1
  <2>4. /\ proc' \in [Q!Nodes -> [pid : Pids, seq : Nat]] /\ proc'[n] = [pid |-> pid, seq |-> 0]
        /\ \A m \in Q!Nodes \ {n} : proc'[m] = proc[m]
    BY <1>0, <2>1
  <2> QED
    BY <2>2, <2>3, <2>4
<1>4. /\ \A o \in ops : o.node # n
      /\ \A m, k, i, b : Q!Row(m, k, i, b).node = m
  BY <1>0 DEF RqInv, OfItsNode, Q!Row
<1>5. (\A m : Q!Fresh(m)' => Q!Fresh(m)) /\ (\A x : Excused(past', x) <=> Excused(past, x))
  BY <1>2 DEF Q!Fresh, Excused
<1>6. SeenIds \subseteq SeenIds'
  <2> SUFFICES ASSUME NEW x \in SeenIds PROVE x \in SeenIds'
    OBVIOUS
  <2>1. x \in ReqIds /\ x[1] \in Q!Nodes /\ <<x[1], x[2]>> \in past.pids
    BY <1>t DEF SeenIds
  <2>2. <<x[1], x[2]>> \in past'.pids
    BY <1>2, <2>1
  <2>3. Q!Fresh(x[1])' /\ x[2] = proc'[x[1]].pid => x[3] <= proc'[x[1]].seq
    <3>1. CASE x[1] = n
      <4>1. x[2] = proc'[n].pid => <<n, pid>> \in past.pids
        BY <1>3, <2>1, <3>1
      <4> QED
        BY <1>2, <3>1, <4>1 DEF Q!Fresh
    <3>2. CASE x[1] # n
      <4>1. proc'[x[1]] = proc[x[1]]
        BY <1>3, <2>1, <3>2
      <4> QED
        BY <1>5, <4>1 DEF SeenIds
    <3> QED
      BY <3>1, <3>2
  <2> QED
    BY <2>1, <2>2, <2>3 DEF SeenIds
<1>11. RqTypes'
  BY <1>0, <1>2, <1>3 DEF RqInv, RqTypes
<1>12. OfItsNode'
  <2>0. OfItsNode
    BY DEF RqInv
  <2>1. \A o \in ops : up'[o.node] /\ (o.node = StandIn => o.id[1] = StandIn)
    BY <1>3, <1>t, <2>0 DEF OfItsNode
  <2>2. \A i \in 1 .. Len(queue'[StandIn]) : queue'[StandIn][i].id[1] = StandIn
    <3>1. CASE n = StandIn
      <4>1. \A x : Asked(chain[StandIn], x) => x[1] = StandIn
        BY <1>t, <2>0 DEF OfItsNode, Asked, Q!AskRows
      <4> QED
        BY <1>1, <1>3, <3>1, <4>1
    <3>2. CASE n # StandIn
      BY <1>3, <1>t, <2>0, <3>2 DEF OfItsNode
    <3> QED
      BY <3>1, <3>2
  <2> QED
    BY <1>0, <2>0, <2>1, <2>2 DEF OfItsNode
<1>13. IdsSeen'
  <2>0. IdsSeen
    BY DEF RqInv
  <2>1. \A m \in Q!Nodes : <<m, proc'[m].pid>> \in past'.pids
    BY <1>2, <1>3, <2>0 DEF IdsSeen
  <2>2. \A x : Asked(chain[n], x) => x \in SeenIds
    BY <1>t, <2>0 DEF IdsSeen, Asked, Q!AskRows
  <2>3. \A m \in Q!Nodes : \A i \in 1 .. Len(queue'[m]) : queue'[m][i].id \in SeenIds
    <3> SUFFICES ASSUME NEW m \in Q!Nodes, NEW i \in 1 .. Len(queue'[m]) PROVE queue'[m][i].id \in SeenIds
      OBVIOUS
    <3>1. CASE m = n
      BY <1>1, <1>3, <2>2, <3>1
    <3>2. CASE m # n
      BY <1>3, <2>0, <3>2 DEF IdsSeen
    <3> QED
      BY <3>1, <3>2
  <2> QED
    BY <1>0, <1>2, <1>6, <2>0, <2>1, <2>3 DEF IdsSeen
<1>14. DecidersTold'
  <2>0. DecidersTold
    BY DEF RqInv
  <2>1. \A m \in Q!Nodes : \A i \in 1 .. Len(queue'[m]) :
          queue'[m][i].status # "pending" => Word(queue'[m][i].by, queue'[m][i].id, queue'[m][i].status) \in told
    BY <1>1, <1>3, <2>0 DEF DecidersTold
  <2> QED
    BY <1>0, <2>0, <2>1 DEF DecidersTold
<1>15. ToolUnasked'
  BY <1>0, <1>2, <1>5 DEF RqInv, ToolUnasked
<1>16. QueueKnown'
  <2>0. QueueKnown
    BY DEF RqInv
  <2>1. ASSUME NEW m \in Q!Nodes, NEW i \in 1 .. Len(queue'[m])
        PROVE  KnownAsk(ops, chain[m], past', m, queue'[m][i].id)
    <3>1. CASE m = n
      BY <1>1, <1>3, <3>1 DEF KnownAsk
    <3>2. CASE m # n
      BY <1>2, <1>3, <2>0, <3>2 DEF QueueKnown, KnownAsk
    <3> QED
      BY <3>1, <3>2
  <2>2. \A m \in Q!Nodes, x \in ReqIds : Q!Fresh(x[1])' => Once(queue'[m], x)
    <3>1. \A x : Once(queue'[n], x)
      BY <1>1, <1>3 DEF Once, Distinct
    <3> QED
      BY <1>3, <1>5, <2>0, <3>1 DEF QueueKnown
  <2> QED
    BY <1>0, <2>1, <2>2 DEF QueueKnown
<1>17. ToldOnce'
  <2> SUFFICES ASSUME NEW t \in told, Q!Fresh(t.id[1]), ~Excused(past, t.id)
               PROVE  /\ WordSettled(ops, chain[t.node], queue'[t.node], past', t)
                      /\ \A u \in told : u.node = t.node /\ u.id = t.id => u = t
    BY <1>0, <1>5 DEF ToldOnce
  <2>1. /\ WordSettled(ops, chain[t.node], queue[t.node], past, t)
        /\ \A u \in told : u.node = t.node /\ u.id = t.id => u = t
    BY DEF RqInv, ToldOnce
  <2>2. CASE t.node # n
    BY <1>2, <1>3, <1>t, <2>1, <2>2 DEF WordSettled
  <2>3. CASE t.node = n
    <3>1. Q!Row(t.node, t.verdict, t.id, t.node) \notin ops
      BY <1>4, <2>3
    <3>2. \A i \in 1 .. Len(new) : new[i].id # t.id
      <4>1. CASE t.id \in past.tool
        BY <1>1, <4>1 DEF RqInv, ToolUnasked
      <4>2. CASE t.id \notin past.tool
        BY <1>1, <2>1, <2>3, <3>1, <4>2 DEF WordSettled
      <4> QED
        BY <4>1, <4>2
    <3> QED
      BY <1>2, <1>3, <2>1, <2>3, <3>2 DEF WordSettled
  <2> QED
    BY <2>2, <2>3
<1>18. AsksQueued'
  <2>0. AsksQueued
    BY DEF RqInv
  <2>1. ASSUME NEW m \in Q!Nodes, NEW x \in ReqIds,
               up'[m] /\ x[1] = m /\ Asked(chain[m], x) /\ Open(chain[m], x) /\ <<m, x>> \notin past'.removed
        PROVE  Has(queue'[m], x)
    <3>1. CASE m = n
      BY <1>1, <1>3, <2>1, <3>1
    <3>2. CASE m # n
      <4>1. <<m, x>> \notin past.removed
        <5>1. <<m, x>>[1] # n
          BY <3>2
        <5> QED
          BY <1>2, <2>1, <5>1
      <4> QED
        BY <1>3, <2>0, <2>1, <3>2, <4>1 DEF AsksQueued
    <3> QED
      BY <3>1, <3>2
  <2>2. ASSUME NEW o \in ops, o.kind = "ask"
        PROVE  Has(queue'[o.node], o.id) \/ <<o.node, o.id>> \in past'.removed
    <3>1. Has(queue[o.node], o.id) \/ <<o.node, o.id>> \in past.removed
      BY <2>0, <2>2 DEF AsksQueued
    <3>2. o.node # n /\ o.node \in Q!Nodes /\ <<o.node, o.id>>[1] # n
      BY <1>4, <1>t
    <3> QED
      BY <1>2, <1>3, <3>1, <3>2
  <2> QED
    BY <1>0, <2>1, <2>2 DEF AsksQueued
<1>19. OwnHolds'
  <2> SUFFICES ASSUME NEW m \in Q!Nodes, Q!Fresh(m), NEW i \in 1 .. Len(queue'[m]),
                      queue'[m][i].id[1] = m, ~Excused(past, queue'[m][i].id),
                      queue'[m][i].id \notin past.tool
               PROVE  EntryHolds(ops, chain[m], m, queue'[m][i])
    BY <1>0, <1>2, <1>5 DEF OwnHolds
  <2>1. CASE m # n
    BY <1>3, <2>1 DEF RqInv, OwnHolds
  <2>2. CASE m = n
    <3>1. NoVerdictDue(ops, n, queue'[m][i].id)
      BY <1>4 DEF NoVerdictDue
    <3> QED
      BY <1>1, <1>3, <2>2, <3>1 DEF EntryHolds
  <2> QED
    BY <2>1, <2>2
<1> QED
  BY <1>11, <1>12, <1>13, <1>14, <1>15, <1>16, <1>17, <1>18, <1>19 DEF RqInv

(* The steps of the code are those.                                         *)
LEMMA DecideKeeps ==
    ASSUME RqInv, NEW n \in Q!Nodes, NEW id \in ReqIds, NEW v \in Q!Verdicts, Q!Decide(n, id, v)
    PROVE  RqInv'
<1>1. queue[n] \in Seq(Entry) /\ past \in RqPast
  BY RqTypesSay DEF RqInv, RqTypes
<1>2. \E i \in 1 .. Len(queue[n]) : queue[n][i].id = id /\ queue[n][i].status = "pending"
  <2>1. Q!Decided(queue[n], id, v, n) # queue[n]
    BY DEF Q!Decide
  <2>2. Q!Decided(queue[n], id, v, n) # queue[n]
          => \E i \in 1 .. Len(queue[n]) : queue[n][i].id = id /\ queue[n][i].status = "pending"
    BY <1>1, DecidedIsPending
  <2> QED
    BY <2>1, <2>2
<1>3. past' \in RqPast /\ past'.pids = past.pids /\ past'.reused = past.reused
      /\ past'.tool = past.tool /\ past'.removed = past.removed /\ past'.refused = past.refused
      /\ past'.early = IF Q!Unwritten(id) THEN past.early \cup {id} ELSE past.early
  BY <1>1 DEF Q!Decide, RqPast
<1>4. Q!Row(n, "ask", id, n) \in ops => Q!Unwritten(id)
  <2>1. Q!Row(n, "ask", id, n).kind = "ask" /\ Q!Row(n, "ask", id, n).id = id
    BY DEF Q!Row
  <2> QED
    BY <2>1 DEF Q!Unwritten
<1>5. DecidesOne(n, id, v, n)
  BY <1>2, <1>3, <1>4 DEF DecidesOne, Q!Decide, Word
<1> QED
  BY <1>5, DecisionKeeps

LEMMA PeerDecisionKeeps ==
    ASSUME RqInv, NEW m \in wire, Q!PeerDecision(m)
    PROVE  RqInv'
<1>1. /\ queue[StandIn] \in Seq(Entry) /\ StandIn \in Q!Nodes /\ past \in RqPast
      /\ m.id \in ReqIds /\ m.verdict \in Q!Verdicts /\ m.by \in Q!Nodes
      /\ queue \in [Q!Nodes -> Seq(Entry)]
  BY RqTypesSay DEF RqInv, RqTypes
<1> DEFINE s == Q!Decided(queue[StandIn], m.id, m.verdict, m.by)
<1>2. /\ wire' \subseteq wire /\ queue' = [queue EXCEPT ![StandIn] = s]
      /\ ops' = ops \cup Q!Hear(m, {Q!Row(StandIn, m.verdict, m.id, m.by)})
      /\ past' = [past EXCEPT !.early =
                    IF Q!Hear(m, {m}) # {} /\ Q!Unwritten(m.id) THEN past.early \cup {m.id} ELSE past.early]
      /\ up[StandIn] /\ up' = up /\ proc' = proc /\ chain' = chain /\ taken' = taken /\ told' = told
  BY DEF Q!PeerDecision, Q!PeerVerdict
<1>3. \A w : Q!Hear(m, w) = IF s = queue[StandIn] THEN {} ELSE w
  BY DEF Q!Hear, Q!PeerVerdict
<1>4. s # queue[StandIn] =>
        \E i \in 1 .. Len(queue[StandIn]) : queue[StandIn][i].id = m.id /\ queue[StandIn][i].status = "pending"
  BY <1>1, DecidedIsPending
<1> HIDE DEF s
<1>5. CASE s = queue[StandIn]
  <2>1. ops' = ops
    BY <1>2, <1>3, <1>5
  <2>2. past' = past
    <3>1. past' = [past EXCEPT !.early = past.early]
      BY <1>2, <1>3, <1>5
    <3> QED
      BY <1>1, <3>1 DEF RqPast
  <2>3. queue' = queue
    BY <1>1, <1>2, <1>5
  <2> QED
    BY <1>2, <2>1, <2>2, <2>3, WordGone
<1>6. CASE s # queue[StandIn]
  <2>1. ops' = ops \cup {Q!Row(StandIn, m.verdict, m.id, m.by)}
    BY <1>2, <1>3, <1>6
  <2>2. past' \in RqPast /\ past'.pids = past.pids /\ past'.reused = past.reused
        /\ past'.tool = past.tool /\ past'.removed = past.removed /\ past'.refused = past.refused
        /\ past'.early = IF Q!Unwritten(m.id) THEN past.early \cup {m.id} ELSE past.early
    <3>1. past' = [past EXCEPT !.early = IF Q!Unwritten(m.id) THEN past.early \cup {m.id} ELSE past.early]
      BY <1>2, <1>3, <1>6
    <3> QED
      BY <1>1, <3>1 DEF RqPast
  <2>3. Q!Row(StandIn, "ask", m.id, StandIn) \in ops => Q!Unwritten(m.id)
    <3>1. /\ Q!Row(StandIn, "ask", m.id, StandIn).kind = "ask"
          /\ Q!Row(StandIn, "ask", m.id, StandIn).id = m.id
      BY DEF Q!Row
    <3> QED
      BY <3>1 DEF Q!Unwritten
  <2>4. Word(m.by, m.id, m.verdict) \in told
    BY DEF RqInv, DecidersTold
  <2>5. DecidesOne(StandIn, m.id, m.verdict, m.by)
    <3>1. queue' = [queue EXCEPT ![StandIn] = Q!Decided(queue[StandIn], m.id, m.verdict, m.by)]
      BY <1>2 DEF s
    <3>2. Word(m.by, m.id, m.verdict) \in told'
      BY <1>2, <2>4
    <3>3. /\ past.early \subseteq past'.early
          /\ Q!Row(StandIn, "ask", m.id, StandIn) \in ops => m.id \in past'.early
      BY <2>2, <2>3
    <3> QED
      BY <1>2, <1>4, <1>6, <2>1, <2>2, <3>1, <3>2, <3>3 DEF DecidesOne
  <2> QED
    BY <1>1, <2>5, DecisionKeeps
<1> QED
  BY <1>5, <1>6

LEMMA WriteKeeps ==
    ASSUME RqInv, NEW o \in ops, NEW accepted \in BOOLEAN, NEW sent \in BOOLEAN,
           Q!WriteRow(o, accepted, sent)
    PROVE  RqInv'
<1>1. /\ ops' = ops \ {o} /\ queue' = queue /\ up' = up /\ proc' = proc /\ told' = told /\ taken' = taken
      /\ accepted => past' = past /\ chain' = [chain EXCEPT ![o.node] =
                       Append(chain[o.node], [kind |-> o.kind, id |-> o.id, by |-> o.by])]
      /\ ~accepted => chain' = chain /\ past' = [past EXCEPT !.refused = past.refused \cup {o.id}]
      /\ sent => o.kind \in Q!Verdicts
      /\ wire' = IF sent THEN wire \cup {[id |-> o.id, verdict |-> o.kind, by |-> o.by]} ELSE wire
  BY DEF Q!WriteRow
<1>2. \A w \in wire' : w \in wire \/ (w \in RqWords /\ Word(w.by, w.id, w.verdict) \in told)
  <2> SUFFICES ASSUME sent
               PROVE  LET w == [id |-> o.id, verdict |-> o.kind, by |-> o.by]
                      IN w \in RqWords /\ Word(w.by, w.id, w.verdict) \in told
    BY <1>1
  <2>1. o.kind \in Q!Verdicts /\ o.kind # "ask" /\ o.id \in ReqIds /\ o.by \in Q!Nodes
    BY <1>1, RqTypesSay DEF RqInv, Q!Verdicts
  <2>2. Word(o.by, o.id, o.kind) \in told
    BY <2>1 DEF RqInv, DecidersTold
  <2> QED
    BY <2>1, <2>2 DEF RqWords
<1>3. past \in RqPast
  BY DEF RqInv, RqTypes
<1>4. QueuesStay
  <2>1. past'.pids = past.pids /\ past'.reused = past.reused /\ past'.tool = past.tool
        /\ past'.removed = past.removed /\ past'.early = past.early
    BY <1>1, <1>3 DEF RqPast
  <2> QED
    BY <1>1, <1>2, <2>1 DEF QueuesStay
<1> QED
  BY <1>1, <1>4, RowWritten, RowRefused

LEMMA RqInit == ASSUME Q!RequestsAssumption, Q!Init PROVE RqInv
<1>1. /\ up = [n \in Q!Nodes |-> TRUE]
      /\ proc = [n \in Q!Nodes |-> [pid |-> CHOOSE p \in Pids : TRUE, seq |-> 0]]
      /\ queue = [n \in Q!Nodes |-> <<>>] /\ chain = [n \in Q!Nodes |-> <<>>]
      /\ ops = {} /\ wire = {} /\ taken = 0 /\ told = {}
      /\ past = [pids |-> {<<n, proc[n].pid>> : n \in Q!Nodes}, reused |-> {}, tool |-> {},
                 removed |-> {}, early |-> {}, refused |-> {}]
  BY DEF Q!Init
<1>2. (CHOOSE p \in Pids : TRUE) \in Pids
  BY DEF Q!RequestsAssumption
<1>3. /\ proc \in [Q!Nodes -> [pid : Pids, seq : Nat]]
      /\ \A n \in Q!Nodes : <<n, proc[n].pid>> \in {<<m, proc[m].pid>> : m \in Q!Nodes}
      /\ {<<m, proc[m].pid>> : m \in Q!Nodes} \subseteq Q!Nodes \X Pids
  BY <1>1, <1>2
<1>4. past \in RqPast /\ past.tool = {} /\ past.pids = {<<m, proc[m].pid>> : m \in Q!Nodes}
  BY <1>1, <1>3 DEF RqPast
<1>5. \A n \in Q!Nodes : /\ queue[n] = <<>> /\ chain[n] = <<>>
                         /\ 1 .. Len(queue[n]) = {} /\ 1 .. Len(chain[n]) = {}
  BY <1>1
<1>6. Centre \in Q!Nodes /\ StandIn \in Q!Nodes
  BY DEF Q!Nodes
<1>7. \A n \in Q!Nodes : \A x : ~Asked(chain[n], x) /\ Once(queue[n], x)
  BY <1>5 DEF Asked, Q!AskRows, Once
<1>8. RqTypes
  BY <1>1, <1>3, <1>4 DEF RqTypes
<1>9. OfItsNode /\ IdsSeen /\ DecidersTold
  BY <1>1, <1>3, <1>4, <1>5, <1>6 DEF OfItsNode, IdsSeen, DecidersTold
<1>10. ToolUnasked /\ QueueKnown /\ ToldOnce /\ AsksQueued /\ OwnHolds
  BY <1>1, <1>4, <1>5, <1>7 DEF ToolUnasked, QueueKnown, ToldOnce, AsksQueued, OwnHolds
<1> QED
  BY <1>8, <1>9, <1>10 DEF RqInv

LEMMA RqStep == ASSUME Q!RequestsAssumption, RqInv, [Q!Next]_(Q!vars) PROVE RqInv'
<1>1. ASSUME NEW n \in Q!Nodes, Q!Ask(n) PROVE RqInv'
  <2>1. RqTypes /\ IdsSeen /\ TRUE \in BOOLEAN
    BY DEF RqInv
  <2>2. PICK id \in ReqIds : AsksOne(n, id, TRUE)
    BY <1>1, <2>1, AsksAreThat
  <2> QED
    BY <2>2, AskKeeps
<1>2. ASSUME NEW n \in Q!Nodes, Q!ToolAsk(n) PROVE RqInv'
  <2>1. RqTypes /\ IdsSeen /\ FALSE \in BOOLEAN
    BY DEF RqInv
  <2>2. PICK id \in ReqIds : AsksOne(n, id, FALSE)
    BY <1>2, <2>1, AsksAreThat
  <2> QED
    BY <2>2, AskKeeps
<1>3. ASSUME NEW n \in Q!Nodes, Q!Crash(n) PROVE RqInv'
  BY <1>3, RqCrashKeeps
<1>4. ASSUME NEW n \in Q!Nodes, NEW id, Q!DeleteRequest(n, id) PROVE RqInv'
  BY <1>4, RemovalKeeps
<1>5. ASSUME NEW n \in Q!Nodes, NEW id \in Q!QueuedIds(n), NEW v \in Q!Verdicts, Q!Decide(n, id, v)
      PROVE  RqInv'
  <2>1. queue[n] \in Seq(Entry) /\ \A i \in 1 .. Len(queue[n]) : queue[n][i].id \in ReqIds
    BY RqTypesSay DEF RqInv
  <2>2. id \in ReqIds
    BY <2>1 DEF Q!QueuedIds
  <2> QED
    BY <1>5, <2>2, DecideKeeps
<1>6. ASSUME NEW o \in ops, NEW accepted \in BOOLEAN, NEW sent \in BOOLEAN, Q!WriteRow(o, accepted, sent)
      PROVE  RqInv'
  BY <1>6, WriteKeeps
<1>7. ASSUME NEW m \in wire, Q!PeerDecision(m) PROVE RqInv'
  BY <1>7, PeerDecisionKeeps
<1>8. ASSUME NEW m \in wire, Q!Lose(m) PROVE RqInv'
  BY <1>8, WordGone DEF Q!Lose
<1>9. CASE Q!MergeSegment
  BY <1>9, SegmentKeeps
<1>10. ASSUME NEW n \in Q!Nodes, NEW pid \in Pids, Q!Boot(n, pid) PROVE RqInv'
  BY <1>10, RqBootKeeps
<1>11. CASE UNCHANGED Q!vars
  <2>1. wire' \subseteq wire /\ UNCHANGED <<up, proc, queue, chain, ops, taken, past, told>>
    BY <1>11 DEF Q!vars
  <2> QED
    BY <2>1, WordGone
<1> QED
  BY <1>1, <1>2, <1>3, <1>4, <1>5, <1>6, <1>7, <1>8, <1>9, <1>10, <1>11 DEF Q!Next

LEMMA RqCounts == \A S : Q!Cardinality(S) = Cardinality(S)
BY DEF Q!Cardinality, Cardinality

LEMMA RqSafe == ASSUME RqInv PROVE Q!RequestsInv
<1>t. /\ \A n \in Q!Nodes : /\ chain[n] \in Seq(ReqRow) /\ queue[n] \in Seq(Entry)
                            /\ DOMAIN chain[n] = 1 .. Len(chain[n]) /\ DOMAIN queue[n] = 1 .. Len(queue[n])
                            /\ \A i \in 1 .. Len(queue[n]) : queue[n][i] \in Entry /\ queue[n][i].id \in ReqIds
                            /\ \A i \in 1 .. Len(chain[n]) : chain[n][i] \in ReqRow /\ chain[n][i].id \in ReqIds
      /\ Centre \in Q!Nodes /\ StandIn \in Q!Nodes
  BY RqTypesSay DEF RqInv
<1>v. "pending" \notin Q!Verdicts /\ "ask" \notin Q!Verdicts
  BY DEF Q!Verdicts
<1>1. Q!RecordedAskIsQueued
  <2> SUFFICES ASSUME NEW n \in Q!Nodes, up[n], NEW i \in 1 .. Len(chain[n]), NEW id \in ReqIds,
                      id = chain[n][i].id, chain[n][i].kind = "ask", id[1] = n,
                      Q!Said(chain[n], id).status = "pending", <<n, id>> \notin past.removed
               PROVE  id \in Q!QueuedIds(n)
    BY <1>t DEF Q!RecordedAskIsQueued
  <2>1. Asked(chain[n], id)
    BY <1>t DEF Asked, Q!AskRows
  <2>2. Open(chain[n], id)
    BY <1>t, SaidIs
  <2>3. Has(queue[n], id)
    BY <2>1, <2>2 DEF RqInv, AsksQueued
  <2> QED
    BY <2>3 DEF Has, Q!Queued, Q!QueuedIds
<1>2. Q!DecisionSurvives
  <2> SUFFICES ASSUME NEW n \in Q!Nodes, Q!Fresh(n), NEW i \in 1 .. Len(queue[n]), NEW r,
                      r = queue[n][i], r.status \in Q!Verdicts, r.id[1] = n, ~Q!InFlight(n, r.id),
                      r.id \notin past.early \cup past.refused \cup past.tool
               PROVE  Q!Said(chain[n], r.id) = r
    BY <1>t DEF Q!DecisionSurvives
  <2>1. EntryHolds(ops, chain[n], n, r)
    BY DEF RqInv, OwnHolds, Excused
  <2>2. ~VerdictDue(ops, n, r)
    BY DEF VerdictDue, Q!InFlight, Q!Row
  <2> QED
    BY <1>v, <2>1, <2>2 DEF EntryHolds
<1>3. Q!NobodyContradictsHimself
  <2> SUFFICES ASSUME Q!Fresh(Centre), Q!Fresh(StandIn), NEW n \in Q!Nodes,
                      NEW i \in DOMAIN chain[n], NEW j \in DOMAIN chain[n],
                      chain[n][i].kind \in Q!Verdicts, chain[n][j].kind \in Q!Verdicts,
                      chain[n][i].id = chain[n][j].id, chain[n][i].by = chain[n][j].by,
                      chain[n][i].id \notin past.early \cup past.refused
               PROVE  chain[n][i].kind = chain[n][j].kind
    BY DEF Q!NobodyContradictsHimself
  <2>0. i \in 1 .. Len(chain[n]) /\ j \in 1 .. Len(chain[n])
    BY <1>t
  <2> DEFINE t == Word(chain[n][i].by, chain[n][i].id, chain[n][i].kind)
             u == Word(chain[n][j].by, chain[n][j].id, chain[n][j].kind)
  <2>1. t \in told /\ u \in told
    BY <1>v, <2>0 DEF RqInv, DecidersTold
  <2>2. t.id = chain[n][i].id /\ t.node = u.node /\ t.id = u.id
        /\ t.verdict = chain[n][i].kind /\ u.verdict = chain[n][j].kind
    BY DEF Word
  <2> HIDE DEF t, u
  <2>3. t.id \in ReqIds /\ ~Excused(past, t.id)
    BY <1>t, <2>0, <2>2 DEF Excused
  <2>4. Q!Fresh(t.id[1])
    BY <2>3, RqTypesSay DEF RqInv, Q!Nodes
  <2> QED
    BY <2>1, <2>2, <2>3, <2>4 DEF RqInv, ToldOnce
<1>4. Q!AskerIsToldTheTruth
  BY <1>t, <1>v DEF RqInv, DecidersTold, Word, Q!AskerIsToldTheTruth
<1>5. Q!RecordsAreTheChain
  <2> SUFFICES ASSUME NEW n \in Q!Nodes, NEW f, f = Q!DeriveRequests(chain[n])
               PROVE  /\ \A i \in DOMAIN f : /\ Q!AskRows(chain[n], f[i].id) # {}
                                            /\ f[i] = Q!Said(chain[n], f[i].id)
                      /\ \A i \in DOMAIN chain[n] : chain[n][i].kind = "ask" =>
                           Q!Cardinality(Q!Queued(f, chain[n][i].id)) = 1
    BY DEF Q!RecordsAreTheChain
  <2>0. Derived(chain[n], f)
    BY <1>t, RecordsHold
  <2>1. /\ f \in Seq(Entry) /\ Distinct(f) /\ DOMAIN f = 1 .. Len(f)
        /\ \A i \in 1 .. Len(f) : Asked(chain[n], f[i].id) /\ f[i] = Q!Said(chain[n], f[i].id)
        /\ \A id \in ReqIds : Asked(chain[n], id) => Has(f, id)
    BY <2>0 DEF Derived
  <2>4. ASSUME NEW i \in DOMAIN f
        PROVE  Q!AskRows(chain[n], f[i].id) # {} /\ f[i] = Q!Said(chain[n], f[i].id)
    BY <2>1 DEF Asked
  <2>2. ASSUME NEW i \in 1 .. Len(chain[n]), chain[n][i].kind = "ask"
        PROVE  Q!Cardinality(Q!Queued(f, chain[n][i].id)) = 1
    <3>1. PICK id \in ReqIds : id = chain[n][i].id
      BY <1>t
    <3>2. Asked(chain[n], id)
      BY <1>t, <2>2, <3>1 DEF Asked, Q!AskRows
    <3>3. PICK k \in DOMAIN f : f[k].id = id
      BY <2>1, <3>2 DEF Has, Q!Queued
    <3>4. Q!Queued(f, id) = {k}
      BY <2>1, <3>3 DEF Distinct, Q!Queued
    <3> QED
      BY <3>1, <3>4, RqCounts, FS_Singleton
  <2> QED
    BY <1>t, <2>2, <2>4
<1> QED
  BY <1>1, <1>2, <1>3, <1>4, <1>5 DEF Q!RequestsInv

(* Across restarts no recorded question is lost and no decision is          *)
(* forgotten, contradicted or told wrongly, and what is read back is what   *)
(* the chain says (request_sandbox, decide, derive_requests_from, restore). *)
THEOREM AsksOutliveRestarts == ASSUME Q!RequestsAssumption PROVE Q!Spec => []Q!RequestsInv
<1>1. Q!Init => RqInv
  BY RqInit
<1>2. RqInv /\ [Q!Next]_(Q!vars) => RqInv'
  BY RqStep
<1>3. RqInv => Q!RequestsInv
  BY RqSafe
<1> QED
  BY <1>1, <1>2, <1>3, PTL DEF Q!Spec

-----------------------------------------------------------------------------
(* Registry again: what a merge makes of the node's own files.  Every step  *)
(* of it leaves the local entries in front and adds those nobody has.       *)
Pushes(mine, theirs, v, n) ==
    /\ DOMAIN v = 1 .. Len(v) /\ Len(v) \in Nat /\ Len(mine) <= Len(v)
    /\ \A i \in 1 .. Len(mine) : v[i] = mine[i]
    /\ \A i \in Len(mine) + 1 .. Len(v) :
         \E j \in 1 .. n : v[i] = theirs[j] /\ G!Named(mine, theirs[j].id) = {}
    /\ \A j \in 1 .. n : G!Named(mine, theirs[j].id) = {} => \E i \in 1 .. Len(v) : v[i] = theirs[j]

IsFile(f) == f \in Seq({f[i] : i \in DOMAIN f})

LEMMA FileIs == ASSUME NEW f, IsFile(f) PROVE DOMAIN f = 1 .. Len(f) /\ Len(f) \in Nat
BY DEF IsFile

LEMMA PushedOnce ==
    ASSUME NEW M, NEW mine, NEW theirs, NEW v \in Seq(M), NEW n \in Nat, theirs[n + 1] \in M,
           Len(mine) \in Nat, Pushes(mine, theirs, v, n)
    PROVE  /\ G!Pushed(mine, v, theirs[n + 1]) \in Seq(M)
           /\ Pushes(mine, theirs, G!Pushed(mine, v, theirs[n + 1]), n + 1)
<1> DEFINE e == theirs[n + 1]  w == G!Pushed(mine, v, e)
<1>1. \A j \in 1 .. n + 1 : j \in 1 .. n \/ j = n + 1
  OBVIOUS
<1>2. CASE G!Named(mine, e.id) # {}
  <2>1. w = v
    BY <1>2 DEF G!Pushed
  <2> HIDE DEF w
  <2>2. \A j \in 1 .. n : j \in 1 .. n + 1
    OBVIOUS
  <2>3. \A i \in Len(mine) + 1 .. Len(v) :
          \E j \in 1 .. n + 1 : v[i] = theirs[j] /\ G!Named(mine, theirs[j].id) = {}
    BY <2>2 DEF Pushes
  <2>4. ASSUME NEW j \in 1 .. n + 1, G!Named(mine, theirs[j].id) = {}
        PROVE  \E i \in 1 .. Len(v) : v[i] = theirs[j]
    BY <1>1, <1>2, <2>4 DEF Pushes
  <2>5. Pushes(mine, theirs, v, n + 1)
    BY <2>3, <2>4 DEF Pushes
  <2> QED
    BY <2>1, <2>5 DEF w
<1>3. CASE G!Named(mine, e.id) = {}
  <2>1. w = Append(v, e)
    BY <1>3 DEF G!Pushed
  <2>2. /\ w \in Seq(M) /\ Len(v) \in Nat /\ Len(w) = Len(v) + 1 /\ w[Len(v) + 1] = e
        /\ DOMAIN w = 1 .. Len(w) /\ \A i \in 1 .. Len(v) : w[i] = v[i]
    BY <2>1
  <2> HIDE DEF w
  <2>3. ASSUME NEW i \in Len(mine) + 1 .. Len(w)
        PROVE  \E j \in 1 .. n + 1 : w[i] = theirs[j] /\ G!Named(mine, theirs[j].id) = {}
    <3>1. CASE i = Len(v) + 1
      <4>1. n + 1 \in 1 .. n + 1 /\ w[i] = theirs[n + 1]
        BY <2>2, <3>1
      <4> QED
        BY <1>3, <4>1
    <3>2. CASE i # Len(v) + 1
      <4>1. i \in Len(mine) + 1 .. Len(v) /\ i \in 1 .. Len(v)
        BY <2>2, <3>2
      <4>2. PICK j \in 1 .. n : v[i] = theirs[j] /\ G!Named(mine, theirs[j].id) = {}
        BY <4>1 DEF Pushes
      <4> QED
        BY <2>2, <4>1, <4>2
    <3> QED
      BY <3>1, <3>2
  <2>4. ASSUME NEW j \in 1 .. n + 1, G!Named(mine, theirs[j].id) = {}
        PROVE  \E i \in 1 .. Len(w) : w[i] = theirs[j]
    <3>1. CASE j = n + 1
      <4>1. Len(v) + 1 \in 1 .. Len(w)
        BY <2>2
      <4> QED
        BY <2>2, <3>1, <4>1
    <3>2. CASE j # n + 1
      <4>1. PICK i \in 1 .. Len(v) : v[i] = theirs[j]
        BY <1>1, <2>4, <3>2 DEF Pushes
      <4>2. i \in 1 .. Len(w)
        BY <2>2
      <4> QED
        BY <2>2, <4>1, <4>2
    <3> QED
      BY <3>1, <3>2
  <2>5. \A i \in 1 .. Len(mine) : i \in 1 .. Len(v)
    BY <2>2 DEF Pushes
  <2>6. Len(w) \in Nat /\ Len(mine) <= Len(w) /\ \A i \in 1 .. Len(mine) : w[i] = mine[i]
    BY <2>2, <2>5 DEF Pushes
  <2> QED
    BY <2>2, <2>3, <2>4, <2>6 DEF Pushes, w
<1> QED
  BY <1>2, <1>3

LEMMA ViewPushes ==
    ASSUME NEW mine, NEW theirs, IsFile(mine), IsFile(theirs)
    PROVE  Pushes(mine, theirs, G!View(mine, theirs), Len(theirs))
<1> DEFINE n == Len(theirs)  how == <<"merge", mine>>
           M == {mine[i] : i \in DOMAIN mine} \cup {theirs[i] : i \in DOMAIN theirs}
<1>1. /\ Len(mine) \in Nat /\ DOMAIN mine = 1 .. Len(mine) /\ mine \in Seq(M)
      /\ n \in Nat /\ DOMAIN theirs = 1 .. n /\ \A i \in 1 .. n : theirs[i] \in M
  BY FileIs DEF IsFile
<1>2. how[1] = "merge" /\ how[2] = mine
  OBVIOUS
<1> HIDE DEF M, how, n
<1>3. \A s, e : Step(how, s, e) = G!Pushed(mine, s, e)
  BY <1>2 DEF Step
<1>4. \E f : f = [k \in 0 .. n |-> IF k = 0 THEN mine ELSE G!Pushed(mine, f[k - 1], theirs[k])]
  <2>1. PICK f : StepsOf(how, f, mine, theirs, n)
    BY <1>1, StepsExist
  <2>2. /\ f = [k \in 0 .. n |-> f[k]]
        /\ \A k \in 0 .. n : f[k] = IF k = 0 THEN mine ELSE Step(how, f[k - 1], theirs[k])
    BY <2>1 DEF StepsOf
  <2>3. \A k \in 0 .. n : f[k] = IF k = 0 THEN mine ELSE G!Pushed(mine, f[k - 1], theirs[k])
    BY <1>3, <2>2
  <2>4. f = [k \in 0 .. n |-> IF k = 0 THEN mine ELSE G!Pushed(mine, f[k - 1], theirs[k])]
    BY <2>2, <2>3
  <2> QED
    BY <2>4
<1>5. PICK f : /\ f = [k \in 0 .. n |-> IF k = 0 THEN mine ELSE G!Pushed(mine, f[k - 1], theirs[k])]
               /\ G!View(mine, theirs) = f[n]
  BY <1>4 DEF G!View, n
<1>6. f[0] = mine /\ \A k \in 1 .. n : f[k] = G!Pushed(mine, f[k - 1], theirs[k])
  <2>1. \A k \in 0 .. n : f[k] = IF k = 0 THEN mine ELSE G!Pushed(mine, f[k - 1], theirs[k])
    BY <1>5
  <2> QED
    BY <1>1, <2>1
<1> DEFINE S == {k \in 0 .. n : ~(f[k] \in Seq(M) /\ Pushes(mine, theirs, f[k], k))}
<1>7. S = {}
  <2> SUFFICES ASSUME S # {} PROVE FALSE
    OBVIOUS
  <2>0. S \subseteq Nat
    BY <1>1
  <2>1. PICK k \in S : \A y \in S : k <= y
    BY <2>0, LeastNumber
  <2>2. k # 0
    <3>1. Pushes(mine, theirs, mine, 0)
      BY <1>1 DEF Pushes
    <3> QED
      BY <1>1, <1>6, <2>1, <3>1
  <2>3. k - 1 \in Nat /\ k - 1 \in 0 .. n /\ k \in 1 .. n /\ k - 1 \notin S /\ (k - 1) + 1 = k
    BY <1>1, <2>1, <2>2
  <2>4. f[k - 1] \in Seq(M) /\ Pushes(mine, theirs, f[k - 1], k - 1) /\ theirs[k] \in M
    BY <1>1, <2>3
  <2>5. /\ G!Pushed(mine, f[k - 1], theirs[k]) \in Seq(M)
        /\ Pushes(mine, theirs, G!Pushed(mine, f[k - 1], theirs[k]), k)
    <3> DEFINE m == k - 1
    <3>1. m \in Nat /\ m + 1 = k
      BY <2>3
    <3> HIDE DEF m
    <3>2. f[m] \in Seq(M) /\ Pushes(mine, theirs, f[m], m) /\ theirs[m + 1] \in M
      BY <2>4, <3>1 DEF m
    <3>3. /\ G!Pushed(mine, f[m], theirs[m + 1]) \in Seq(M)
          /\ Pushes(mine, theirs, G!Pushed(mine, f[m], theirs[m + 1]), m + 1)
      BY <1>1, <3>1, <3>2, PushedOnce
    <3> QED
      BY <3>1, <3>3 DEF m
  <2> QED
    BY <1>6, <2>1, <2>3, <2>5
<1>8. n \in 0 .. n
  BY <1>1
<1> QED
  BY <1>5, <1>7, <1>8 DEF n

LEMMA LeastOf ==
    ASSUME NEW S, S \subseteq Nat, S # {}
    PROVE  /\ G!Least(S) \in S /\ \A y \in S : G!Least(S) <= y
           /\ \A x \in S : (\A y \in S : x <= y) => G!Least(S) = x
<1>1. \E x \in S : \A y \in S : x <= y
  BY LeastNumber
<1>2. G!Least(S) = CHOOSE x \in S : \A y \in S : x <= y
  BY DEF G!Least
<1>3. G!Least(S) \in S /\ \A y \in S : G!Least(S) <= y
  BY <1>1, <1>2
<1>4. ASSUME NEW x \in S, \A y \in S : x <= y PROVE G!Least(S) = x
  <2>1. x <= G!Least(S) /\ G!Least(S) <= x /\ x \in Nat /\ G!Least(S) \in Nat
    BY <1>3, <1>4
  <2> QED
    BY <2>1
<1> QED
  BY <1>3, <1>4

(* For a name the local file has the view answers what the local file does. *)
LEMMA LocalEntry ==
    ASSUME NEW mine, NEW theirs, NEW v, NEW n \in Nat, IsFile(mine), Pushes(mine, theirs, v, n),
           NEW id, G!Named(mine, id) # {}
    PROVE  G!Entry(v, id) = G!Entry(mine, id)
<1> DEFINE A == G!Named(mine, id)  B == G!Named(v, id)  m == G!Least(A)
<1>1. /\ Len(mine) \in Nat /\ DOMAIN mine = 1 .. Len(mine) /\ DOMAIN v = 1 .. Len(v)
      /\ Len(v) \in Nat /\ Len(mine) <= Len(v) /\ \A i \in 1 .. Len(mine) : v[i] = mine[i]
  BY FileIs DEF Pushes
<1>2. A \subseteq Nat /\ B \subseteq Nat
  BY <1>1 DEF G!Named
<1>3. m \in A /\ \A y \in A : m <= y
  BY <1>2, LeastOf
<1>4. m \in 1 .. Len(mine) /\ mine[m].id = id /\ v[m] = mine[m] /\ m \in B
  BY <1>1, <1>3 DEF G!Named
<1>5. ASSUME NEW y \in B PROVE m <= y
  <2>1. CASE y \in 1 .. Len(mine)
    <3>1. y \in A
      BY <1>1, <2>1 DEF G!Named
    <3> QED
      BY <1>3, <3>1
  <2>2. CASE y \notin 1 .. Len(mine)
    <3>1. y \in 1 .. Len(v)
      BY <1>1 DEF G!Named
    <3> HIDE DEF m, A, B
    <3> QED
      BY <1>1, <1>4, <2>2, <3>1
  <2> QED
    BY <2>1, <2>2
<1>6. G!Least(B) = m
  BY <1>2, <1>4, <1>5, LeastOf
<1> QED
  BY <1>4, <1>6 DEF G!Entry

(* A name only the published file has, and has once, is answered as there.  *)
LEMMA PublishedEntry ==
    ASSUME NEW mine, NEW theirs, NEW v, IsFile(mine), IsFile(theirs),
           Pushes(mine, theirs, v, Len(theirs)),
           NEW j \in DOMAIN theirs, G!Named(mine, theirs[j].id) = {},
           \A i \in DOMAIN theirs : theirs[i].id = theirs[j].id => i = j
    PROVE  G!Entry(v, theirs[j].id) = theirs[j]
<1> DEFINE B == G!Named(v, theirs[j].id)  m == G!Least(B)
<1>1. /\ Len(mine) \in Nat /\ DOMAIN mine = 1 .. Len(mine) /\ DOMAIN v = 1 .. Len(v)
      /\ Len(v) \in Nat /\ Len(mine) <= Len(v) /\ \A i \in 1 .. Len(mine) : v[i] = mine[i]
      /\ DOMAIN theirs = 1 .. Len(theirs)
  BY FileIs DEF Pushes
<1>2. PICK k \in 1 .. Len(v) : v[k] = theirs[j]
  BY <1>1 DEF Pushes
<1>3. B \subseteq Nat /\ k \in B
  BY <1>1, <1>2 DEF G!Named
<1>4. m \in B
  BY <1>3, LeastOf
<1>5. m \in 1 .. Len(v) /\ v[m].id = theirs[j].id
  BY <1>1, <1>4 DEF G!Named
<1> HIDE DEF m, B
<1>6. m \notin 1 .. Len(mine)
  BY <1>1, <1>5 DEF G!Named
<1>7. m \in Len(mine) + 1 .. Len(v)
  BY <1>1, <1>5, <1>6
<1>8. PICK i \in 1 .. Len(theirs) : v[m] = theirs[i]
  BY <1>7 DEF Pushes
<1>9. i = j
  BY <1>1, <1>5, <1>8
<1> QED
  BY <1>8, <1>9 DEF G!Entry, m, B

(* What was merged was handed out, from files the server had let in.        *)
MergeKnown ==
    /\ local.peers \in PeerFile /\ local.rooms \in RoomFile
    /\ \A p \in published : p.peers \in PeerFile /\ p.rooms \in RoomFile /\ G!RoomsAllowed(p.rooms)
    /\ \A p \in merged.from :
         /\ p \in published
         /\ merged = [peers |-> G!MergeTable(local.peers, p.peers),
                      rooms |-> G!MergeRooms(local.rooms, p.rooms), from |-> {p}]

LEMMA MergeInit == ASSUME G!RegistryAssumption, G!Init PROVE MergeKnown
BY DEF G!Init, MergeKnown

LEMMA MergeRests ==
    ASSUME MergeKnown, UNCHANGED <<local, merged>>, published \subseteq published',
           \A p \in published' : /\ p.peers \in PeerFile /\ p.rooms \in RoomFile
                                 /\ G!RoomsAllowed(p.rooms)
    PROVE  MergeKnown'
BY DEF MergeKnown, G!MergeTable, G!MergeRooms, G!RoomsAllowed

LEMMA MergeNext ==
    ASSUME RegistryIInv, MergeKnown, [G!Next]_(G!vars) PROVE MergeKnown'
<1>1. CASE \E r \in Reader : G!Publish(r)
  <2>1. PICK r \in Reader : G!Publish(r)
    BY <1>1
  <2> DEFINE p == [generation |-> reader[r].generation, peers |-> reader[r].peers, rooms |-> rooms]
  <2>2. /\ reader[r].at = "numbered" /\ published' = published \cup {p}
        /\ UNCHANGED <<local, merged>>
    BY <2>1 DEF G!Publish
  <2>3. p.peers \in PeerFile /\ p.rooms \in RoomFile /\ G!RoomsAllowed(p.rooms)
    BY <2>2 DEF RegistryIInv, RegistryTyped, ReaderTyped
  <2> HIDE DEF p
  <2> QED
    BY <2>2, <2>3, MergeRests DEF MergeKnown
<1>2. CASE \E p \in published : G!Merge(p)
  <2>1. PICK p \in published : G!Merge(p)
    BY <1>2
  <2>2. /\ merged' = [peers |-> G!MergeTable(local.peers, p.peers),
                      rooms |-> G!MergeRooms(local.rooms, p.rooms), from |-> {p}]
        /\ UNCHANGED <<local, published>>
    BY <2>1 DEF G!Merge
  <2>3. merged'.from = {p}
    BY <2>2
  <2> QED
    BY <2>2, <2>3 DEF MergeKnown
<1>3. CASE UNCHANGED <<published, local, merged>>
  BY <1>3, MergeRests DEF MergeKnown
<1>4. CASE \E e \in Editor : \/ \E f \in PeerFile : G!SetPeers(e, f)
                             \/ \E f \in RoomFile : G!SetRooms(e, f)
                             \/ G!WriteTable(e) \/ G!WriteKeys(e) \/ G!Advance(e)
  BY <1>3, <1>4 DEF G!SetPeers, G!SetRooms, G!WriteTable, G!WriteKeys, G!Advance, G!node
<1>5. CASE \E r \in Reader : \/ G!RouteFrame(r) \/ G!RouteWithKeys(r) \/ G!RouteEnds(r)
                             \/ G!AskRegistry(r)
  BY <1>3, <1>5 DEF G!RouteFrame, G!RouteWithKeys, G!RouteEnds, G!AskRegistry, G!node
<1>6. CASE UNCHANGED G!vars
  BY <1>3, <1>6 DEF G!vars
<1> QED
  BY <1>1, <1>2, <1>4, <1>5, <1>6 DEF G!Next

LEMMA MergeSafe == ASSUME RegistryIInv, MergeKnown PROVE G!MovesAreReported /\ G!LocalWins
<1>1. CASE merged.from = {}
  BY <1>1 DEF G!MovesAreReported, G!LocalWins
<1>2. CASE merged.from # {}
  <2>1. PICK p : p \in merged.from
    BY <1>2
  <2>2. /\ p \in published
        /\ merged = [peers |-> G!MergeTable(local.peers, p.peers),
                     rooms |-> G!MergeRooms(local.rooms, p.rooms), from |-> {p}]
    BY <2>1 DEF MergeKnown
  <2>3. \A o \in merged.from : o = p
    BY <2>2
  <2> DEFINE mp == local.peers  mr == local.rooms  vp == merged.peers.view  vr == merged.rooms.view
  <2>4. /\ IsFile(mp) /\ IsFile(mr) /\ IsFile(p.peers) /\ IsFile(p.rooms)
        /\ G!RoomsAllowed(p.rooms)
    BY <2>2 DEF MergeKnown, RegistryIInv, G!RegistryAssumption, IsFile
  <2>5. /\ vp = G!View(mp, p.peers) /\ vr = G!View(mr, p.rooms)
        /\ merged.peers.conflicts =
             {p.peers[j].id : j \in {k \in G!Known(mp, p.peers) :
                ~G!SameEntry(G!Entry(mp, p.peers[k].id), p.peers[k])}}
        /\ merged.rooms.conflicts = {p.rooms[j].id : j \in G!RoomClashes(mr, p.rooms)}
    BY <2>2 DEF G!MergeTable, G!MergeRooms, G!MergeWith
  <2>6. Pushes(mp, p.peers, vp, Len(p.peers)) /\ Pushes(mr, p.rooms, vr, Len(p.rooms))
        /\ Len(p.peers) \in Nat /\ Len(p.rooms) \in Nat
    BY <2>4, <2>5, ViewPushes, FileIs
  <2> HIDE DEF mp, mr, vp, vr
  <2>7. /\ \A id : G!Named(mp, id) # {} => G!Entry(vp, id) = G!Entry(mp, id)
        /\ \A id : G!Named(mr, id) # {} => G!Entry(vr, id) = G!Entry(mr, id)
    BY <2>4, <2>6, LocalEntry
  <2>8. /\ \A id \in G!Ids(mp) : G!Named(mp, id) # {}
        /\ \A id \in G!Ids(mr) : G!Named(mr, id) # {}
    BY DEF G!Ids, G!Named
  <2>9. G!LocalWins
    BY <2>7, <2>8 DEF G!LocalWins, mp, mr, vp, vr
  <2>10. ASSUME NEW i \in DOMAIN p.peers, NEW e, e = p.peers[i], e.id \in G!Ids(mp),
                e.id \notin merged.peers.conflicts
         PROVE  e.key = G!Entry(vp, e.id).key /\ e.addr = G!Entry(vp, e.id).addr
    <3>1. i \in G!Known(mp, p.peers)
      BY <2>8, <2>10 DEF G!Known
    <3>2. G!SameEntry(G!Entry(mp, e.id), e)
      BY <2>5, <2>10, <3>1
    <3>3. G!Entry(vp, e.id) = G!Entry(mp, e.id)
      BY <2>7, <2>8, <2>10
    <3> QED
      BY <3>2, <3>3 DEF G!SameEntry
  <2>11. ASSUME NEW i \in DOMAIN p.rooms
         PROVE  \/ p.rooms[i] = G!Entry(vr, p.rooms[i].id)
                \/ p.rooms[i].id \in merged.rooms.conflicts
    <3>1. CASE G!Named(mr, p.rooms[i].id) = {}
      <4>1. \A j \in DOMAIN p.rooms : p.rooms[j].id = p.rooms[i].id => j = i
        BY <2>4 DEF G!RoomsAllowed
      <4> QED
        BY <2>4, <2>6, <3>1, <4>1, PublishedEntry
    <3>2. CASE G!Named(mr, p.rooms[i].id) # {}
      <4>1. i \in G!Known(mr, p.rooms)
        BY <3>2 DEF G!Known
      <4>2. CASE G!Entry(mr, p.rooms[i].id) = p.rooms[i]
        BY <2>7, <3>2, <4>2
      <4>3. CASE G!Entry(mr, p.rooms[i].id) # p.rooms[i]
        BY <2>5, <4>1, <4>3 DEF G!RoomClashes
      <4> QED
        BY <4>2, <4>3
    <3> QED
      BY <3>1, <3>2
  <2>12. G!MovesAreReported
    <3> SUFFICES /\ \A i \in DOMAIN p.peers :
                      LET e == p.peers[i]
                      IN  e.id \in G!Ids(mp) /\ e.id \notin merged.peers.conflicts =>
                            e.key = G!Entry(vp, e.id).key /\ e.addr = G!Entry(vp, e.id).addr
                 /\ \A i \in DOMAIN p.rooms :
                      \/ p.rooms[i] = G!Entry(vr, p.rooms[i].id)
                      \/ p.rooms[i].id \in merged.rooms.conflicts
      BY <2>3 DEF G!MovesAreReported, mp, vp, vr
    <3> QED
      BY <2>10, <2>11
  <2> QED
    BY <2>9, <2>12
<1> QED
  BY <1>1, <1>2

(***************************************************************************)
(* The keys follow the table, the newest registry handed out is the one in *)
(* force, and whatever a node merges, its own files answer for the names   *)
(* they have, and another key, address or room for one of them is reported *)
(* (set_peers, registry, merge_table, merge_rooms).                        *)
(***************************************************************************)
THEOREM OwnFilesWin == ASSUME G!RegistryAssumption PROVE G!Spec => []G!RegistryInv
<1>1. G!Init => RegistryIInv /\ MergeKnown
  BY RegistryInit, MergeInit
<1>2. RegistryIInv /\ MergeKnown /\ [G!Next]_(G!vars) => RegistryIInv' /\ MergeKnown'
  BY RegistryNext, MergeNext
<1>3. RegistryIInv /\ MergeKnown => G!RegistryInv
  BY RegistrySafe, MergeSafe DEF RegistryServes, G!RegistryInv
<1> QED
  BY <1>1, <1>2, <1>3, PTL DEF G!Spec
=============================================================================
