---------------------------- MODULE TasksProofs ----------------------------
(***************************************************************************)
(* Theorems about the task engine, for every set of objects, every set of  *)
(* operations and every value of the limits and the bounds.                *)
(***************************************************************************)
EXTENDS Tasks, TLAPS

\* The constant frames and names are of their types.
LEMMA Constants == Blank \in Frame /\ AnyName \in LockNames
  <1>1. (CHOOSE o \in Objs : TRUE) \in Objs
    BY TasksAssumption
  <1>2. (CHOOSE l \in LockNames : TRUE) \in LockNames
    BY TasksAssumption
  <1>3. QED
    BY <1>1, <1>2 DEF Blank, AnyName, Frame, Dests

\* What send_message() appends for a reply is a message.
LEMMA SendAnswerType ==
  ASSUME TypeOK, NEW f \in Frame, NEW k \in Kinds, NEW keep \in SUBSET msgs,
         SendAnswer(f, k, keep)
  PROVE  msgs' \subseteq Message /\ serial' \in Nat
  BY DEF TypeOK, SendAnswer, Answer, Message, Frame, Dests

LEMMA FollowsType ==
  ASSUME NEW S, S \subseteq Message \/ S \subseteq Event, NEW k \in Serials(S)
  PROVE  k \in Nat
  BY DEF Serials, Message, Event

LEMMA InitType == Init => TypeOK
  <1> SUFFICES ASSUME Init PROVE TypeOK
    OBVIOUS
  <1>1. handled \in BOOLEAN /\ ticked \in BOOLEAN
    BY DEF Init
  <1>2. locks \in [Objs -> SUBSET Lock]
    BY DEF Init
  <1>3. QED
    BY <1>1, <1>2, Constants DEF Init, TypeOK

\* What send_message() appends for the end of a connection is a message.
LEMMA NotifyType ==
  ASSUME TypeOK, NEW o \in Objs, Notify(o)
  PROVE  /\ msgs' \subseteq Message /\ serial' \in Nat /\ next_msgid' \in Nat
         /\ inputs' \in Nat /\ UNCHANGED events
  BY DEF TypeOK, Notify, Message, Kinds, Dests, NewId

LEMMA EnvironmentType == TypeOK /\ Environment => TypeOK'
  <1> SUFFICES ASSUME TypeOK, Environment PROVE TypeOK'
    OBVIOUS
  <1> USE DEF TypeOK, queues, loop, world
  <1>1. ASSUME NEW o \in Objs, do_parse(o) PROVE TypeOK'
    BY <1>1, Constants DEF do_parse, Input, Message, Event, Kinds, Dests, NewId
  <1>2. ASSUME NEW o \in Objs, Evict(o) \/ disconnect_player(o) PROVE TypeOK'
    BY <1>2, NotifyType DEF Evict, disconnect_player, Input
  <1>3. ASSUME NEW r \in Remotes, NEW o \in Objs, NEW id \in RemoteIds,
               RemoteCall(r, o, id)
        PROVE  TypeOK'
    BY <1>3, TasksAssumption DEF RemoteCall, receive_message, Input, Message, Kinds, Dests
  <1>4. ASSUME NEW r \in Remotes, NEW o \in Objs, NEW id \in 0 .. next_msgid,
               NEW k \in Answers, RemoteReply(r, o, id, k)
        PROVE  TypeOK'
    BY <1>4 DEF RemoteReply, receive_message, Input, Message, Kinds, Dests, Answers, Replies
  <1>5. QED
    BY <1>1, <1>2, <1>3, <1>4 DEF Environment

LEMMA ResumeType ==
  ASSUME TypeOK, NEW f \in Frame,
         NEW x \in {"RUNNING", "RAISED", "HALTED"}, Resume(f, x),
         msgs' \subseteq Message, serial' \in Nat, reply' \in Nat
  PROVE  TypeOK'
  <1>1. nxt' \in Nat
    BY FollowsType DEF Resume, ReadNext, TypeOK
  <1>2. QED
    BY <1>1 DEF Resume, TypeOK, world

LEMMA ResumeRaiseType ==
  ASSUME TypeOK, NEW f \in Frame, NEW k \in {"raise", "ticks"},
         ResumeRaise(f, k), reply' \in Nat
  PROVE  TypeOK'
  <1>1. msgs' \subseteq Message /\ serial' \in Nat
    BY SendAnswerType DEF ResumeRaise, TypeOK, Kinds, Replies
  <1>2. CASE k = "raise" /\ f.ign
    BY <1>1, <1>2, ResumeType DEF ResumeRaise
  <1>3. CASE ~(k = "raise" /\ f.ign)
    BY <1>1, <1>3, ResumeType DEF ResumeRaise
  <1>4. QED
    BY <1>2, <1>3

LEMMA SkipType ==
  ASSUME TypeOK, NEW S, S = msgs \/ S = events, Skip(S)
  PROVE  TypeOK'
  <1>1. cur' \in Nat
    BY FollowsType DEF Skip, TypeOK
  <1>2. QED
    BY <1>1 DEF Skip, TypeOK, queues, world

LEMMA EventType == TypeOK /\ process_event => TypeOK'
  <1> SUFFICES ASSUME TypeOK, NEW e \in events,
                      \/ process_message_event(e) \/ process_lock_event(e)
                      \/ process_timer_event(e) \/ process_sys_message_event(e)
                      \/ process_dead_event(e)
               PROVE  TypeOK'
    BY DEF process_event
  <1>f. e.f \in Frame /\ e.n \in Nat /\ e \in Event
    BY DEF TypeOK, Event
  <1>m. reply \in Nat /\ msgs \subseteq Message /\ serial \in Nat
    BY DEF TypeOK
  <1>1. CASE process_message_event(e)
    <2>1. ASSUME NEW m \in find_reply(e), reply' = m.n,
                 LET f == [e.f EXCEPT !.ticks = m.ticks] IN
                   \/ m.kind = "return" /\ Resume(f, "RUNNING") /\ UNCHANGED <<msgs, serial>>
                   \/ m.kind = "halt" /\ Resume(f, "HALTED") /\ UNCHANGED <<msgs, serial>>
                   \/ m.kind \in {"raise", "ticks"} /\ ResumeRaise(f, m.kind)
          PROVE  TypeOK'
      <3> DEFINE f == [e.f EXCEPT !.ticks = m.ticks]
      <3>1. m \in Message
        BY <1>m DEF find_reply
      <3>2. f \in Frame /\ m.n \in Nat
        BY <1>f, <3>1 DEF Frame, Message
      <3> HIDE DEF f
      <3>3. CASE m.kind = "return" /\ Resume(f, "RUNNING") /\ UNCHANGED <<msgs, serial>>
        BY <2>1, <3>2, <3>3, <1>m, ResumeType
      <3>4. CASE m.kind = "halt" /\ Resume(f, "HALTED") /\ UNCHANGED <<msgs, serial>>
        BY <2>1, <3>2, <3>4, <1>m, ResumeType
      <3>5. CASE m.kind \in {"raise", "ticks"} /\ ResumeRaise(f, m.kind)
        BY <2>1, <3>2, <3>5, ResumeRaiseType
      <3>6. QED
        BY <2>1, <3>3, <3>4, <3>5 DEF f
    <2>2. CASE ResumeRaise(e.f, "raise") /\ UNCHANGED reply
      BY <2>2, <1>f, <1>m, ResumeRaiseType
    <2>3. CASE Skip(events)
      BY <2>3, SkipType
    <2>4. QED
      BY <1>1, <2>1, <2>2, <2>3 DEF process_message_event
  <1>2. CASE process_lock_event(e)
    <2>1. CASE resume_method(e.f, "RUNNING")
      BY <2>1, <1>f, <1>m, ResumeType DEF resume_method
    <2>2. CASE ResumeRaise(e.f, "raise") /\ UNCHANGED reply
      BY <2>2, <1>f, <1>m, ResumeRaiseType
    <2>3. CASE Skip(events)
      BY <2>3, SkipType
    <2>4. CASE /\ phase' = "crashed"
               /\ UNCHANGED <<live, locks, queues, world, cur, nxt, handled, reply,
                              frame, ex, ticked>>
      BY <2>4 DEF TypeOK, queues, world
    <2>5. QED
      BY <1>2, <2>1, <2>2, <2>3, <2>4 DEF process_lock_event
  <1>3. CASE process_timer_event(e)
    BY <1>3, <1>f, <1>m, ResumeType, SkipType DEF process_timer_event, resume_method
  <1>4. CASE process_sys_message_event(e)
    <2>1. CASE Skip(events)
      BY <2>1, SkipType
    <2>2. CASE ~Skip(events)
      <3>1. cur' \in Nat
        BY <1>4, <2>2, FollowsType DEF process_sys_message_event, TypeOK
      <3>2. handled' \in BOOLEAN
        BY <1>4, <2>2 DEF process_sys_message_event
      <3>3. QED
        BY <1>4, <2>2, <3>1, <3>2 DEF process_sys_message_event, TypeOK, world
    <2>3. QED
      BY <2>1, <2>2
  <1>5. CASE process_dead_event(e)
    BY <1>5, <1>f, <1>m, ResumeRaiseType DEF process_dead_event
  <1>6. QED
    BY <1>1, <1>2, <1>3, <1>4, <1>5

LEMMA MessageType == TypeOK /\ process_message => TypeOK'
  <1> SUFFICES ASSUME TypeOK, NEW m \in msgs,
                      \/ PassReply(m)
                      \/ \E k \in {"raise", "return"} : Refuse(m, k)
                      \/ \E ign \in Igns : call_method(m, ign)
               PROVE  TypeOK'
    BY DEF process_message
  <1>m. m \in Message
    BY DEF TypeOK
  <1>1. CASE PassReply(m)
    BY <1>1, SkipType DEF PassReply
  <1>2. ASSUME NEW k \in {"raise", "return"}, Refuse(m, k) PROVE TypeOK'
    <2>1. FrameOf(m, FALSE) \in Frame
      BY <1>m DEF FrameOf, Frame, Message, Dests
    <2>2. msgs' \subseteq Message /\ serial' \in Nat
      BY <1>2, <2>1, SendAnswerType DEF Refuse, Kinds, Replies
    <2>3. cur' \in Nat
      BY <1>2, FollowsType DEF Refuse, TypeOK
    <2>4. handled' \in BOOLEAN
      BY <1>2 DEF Refuse
    <2>5. QED
      BY <1>2, <2>2, <2>3, <2>4 DEF Refuse, TypeOK, world
  <1>3. ASSUME NEW ign \in Igns, call_method(m, ign) PROVE TypeOK'
    <2>0. ign \in BOOLEAN
      BY TasksAssumption
    <2>1. FrameOf(m, ign) \in Frame
      BY <1>m, <2>0 DEF FrameOf, Frame, Message, Dests
    <2>2. nxt' \in Nat
      BY <1>3, FollowsType DEF call_method, ReadNext, TypeOK
    <2>3. QED
      BY <1>3, <2>1, <2>2 DEF call_method, TypeOK, queues, world
  <1>4. QED
    BY <1>1, <1>2, <1>3

\* The frame after the pushes of an operation is a frame.
LEMMA PushedType == TypeOK => Pushed \in Frame
  BY DEF TypeOK, Pushed, Frame

\* What an operation leaves alone, and what it does to the frame.
LEMMA RunsType ==
  ASSUME TypeOK, NEW o, Runs(o)
  PROVE  /\ frame' \in Frame /\ ticked' \in BOOLEAN /\ Pushed \in Frame
         /\ ex = "RUNNING"
         /\ UNCHANGED <<rounds, phase, cur, nxt, handled, reply>>
  BY PushedType DEF Runs, loop

LEMMA OpType ==
  ASSUME TypeOK, NEW o, Op(o)
  PROVE  /\ frame' \in Frame /\ ticked' \in BOOLEAN /\ Pushed \in Frame
         /\ ex = "RUNNING"
         /\ UNCHANGED <<inputs, rounds, phase, cur, nxt, handled, reply>>
  BY RunsType DEF Op

LEMMA RaiseType ==
  ASSUME TypeOK, NEW f \in Frame, ex = "RUNNING", raise(f)
  PROVE  /\ msgs' \subseteq Message /\ serial' \in Nat
         /\ ex' \in {"RUNNING", "RAISED"}
  <1>1. CASE f.ign
    BY <1>1 DEF raise, TypeOK
  <1>2. CASE ~f.ign
    BY <1>2, SendAnswerType DEF raise, Kinds, Replies
  <1>3. QED
    BY <1>1, <1>2

LEMMA MessageOpType ==
  ASSUME TypeOK, NEW d \in Dests, NEW k \in Sends, op_message(d, k)
  PROVE  TypeOK'
  <1>1. Pushed \in Frame /\ ex = "RUNNING"
    BY OpType DEF op_message
  <1>2. k \in Kinds
    BY TasksAssumption DEF Kinds
  <1>3. Waiting(d) \in Event
    BY <1>1, Constants DEF Waiting, Event, TypeOK
  <1>4. d \in Objs => Request(d, k) \in Message
    BY <1>1, <1>2 DEF Request, Message, TypeOK, Frame, Dests
  <1>5. msgs' \subseteq Message /\ serial' \in Nat /\ ex' \in {"RUNNING", "RAISED", "BLOCKED"}
    BY <1>1, <1>4, RaiseType DEF op_message, TypeOK
  <1>6. events' \subseteq Event /\ next_msgid' \in Nat
    BY <1>3 DEF op_message, TypeOK, NewId
  <1>7. QED
    BY <1>5, <1>6, OpType DEF op_message, TypeOK

LEMMA LockOpType ==
  ASSUME TypeOK, NEW name \in LockNames, op_lock(name)
  PROVE  TypeOK'
  <1>1. Pushed \in Frame
    BY PushedType
  <1>2. [n |-> serial + 1, name |-> name, by |-> Pushed.msgid] \in Lock
    BY <1>1 DEF Lock, Frame, TypeOK
  <1>3. [n |-> serial, on |-> "lock", f |-> Pushed, bmsgid |-> 0,
         dest |-> Pushed.this, lock |-> name] \in Event
    BY <1>1 DEF Event, Frame, Dests, TypeOK
  <1>4. locks' \in [Objs -> SUBSET Lock]
    BY <1>1, <1>2 DEF op_lock, TypeOK, Frame
  <1>5. events' \subseteq Event /\ ex' \in {"BLOCKED", "RUNNING"}
    BY <1>3 DEF op_lock, TypeOK
  <1>6. QED
    BY <1>4, <1>5, OpType DEF op_lock, TypeOK

LEMMA TimerType ==
  ASSUME TypeOK, NEW f \in Frame, NEW past, Timer(f, past)
  PROVE  /\ events' \subseteq Event /\ serial' \in Nat /\ due' \subseteq Nat
         /\ UNCHANGED <<live, locks, msgs, next_msgid>>
  <1>1. [n |-> serial, on |-> "timer", f |-> f, bmsgid |-> 0, dest |-> f.this,
         lock |-> AnyName] \in Event
    BY Constants DEF Event, Frame, Dests, TypeOK
  <1>2. QED
    BY <1>1 DEF Timer, TypeOK

LEMMA KillOpType ==
  ASSUME TypeOK, NEW pid, op_kill(pid)
  PROVE  TypeOK'
  <1>1. Pushed \in Frame /\ ex = "RUNNING"
    BY OpType DEF op_kill
  <1>2. \A e \in events : Killed(e) \subseteq Event
    BY DEF Killed, Event, TypeOK
  <1>3. events' \subseteq Event
    BY <1>2 DEF op_kill, TypeOK
  <1>4. msgs' \subseteq Message /\ serial' \in Nat /\ ex' \in {"RUNNING", "RAISED"}
    BY <1>1, RaiseType DEF op_kill, TypeOK
  <1>5. QED
    BY <1>3, <1>4, OpType DEF op_kill, TypeOK

LEMMA OpcodeType == TypeOK /\ opcode => TypeOK'
  <1> SUFFICES ASSUME TypeOK, opcode PROVE TypeOK'
    OBVIOUS
  <1>1. CASE op_compute
    <2>1. ticked' \in BOOLEAN
      BY <1>1 DEF op_compute
    <2>2. QED
      BY <1>1, <2>1 DEF op_compute, TypeOK, queues, world, loop
  <1>2. CASE op_fail
    BY <1>2, OpType, RaiseType DEF op_fail, TypeOK
  <1>3. CASE op_return
    BY <1>3, OpType DEF op_return, TypeOK, queues
  <1>4. CASE op_destroy
    <2>1. locks' \in [Objs -> SUBSET Lock]
      BY <1>4 DEF op_destroy, TypeOK
    <2>2. /\ msgs' \subseteq Message /\ serial' \in Nat /\ next_msgid' \in Nat
          /\ inputs' \in Nat /\ UNCHANGED events
      <3>1. Pushed.this \in Objs
        BY PushedType DEF Frame
      <3>2. QED
        BY <1>4, <3>1, NotifyType DEF op_destroy, queues, TypeOK
    <2>3. QED
      BY <1>4, <2>1, <2>2, RunsType DEF op_destroy, TypeOK
  <1>d. ASSUME NEW o \in Objs, op_disconnect(o) PROVE TypeOK'
    BY <1>d, RunsType, NotifyType DEF op_disconnect, TypeOK
  <1>5. ASSUME NEW k \in {"raise", "ticks"}, op_raise(k) PROVE TypeOK'
    <2>1. msgs' \subseteq Message /\ serial' \in Nat
      BY <1>5, PushedType, SendAnswerType DEF op_raise, Kinds, Replies
    <2>2. QED
      BY <1>5, <2>1, OpType DEF op_raise, TypeOK
  <1>6. ASSUME NEW name \in LockNames, op_unlock(name) PROVE TypeOK'
    <2>1. locks' \in [Objs -> SUBSET Lock]
      BY <1>6 DEF op_unlock, TypeOK
    <2>2. QED
      BY <1>6, <2>1, OpType DEF op_unlock, TypeOK, queues
  <1>7. ASSUME NEW past \in BOOLEAN, op_at(past) PROVE TypeOK'
    <2>1. [Pushed EXCEPT !.at = TRUE] \in Frame
      BY PushedType DEF Frame
    <2>2. QED
      BY <1>7, <2>1, OpType, TimerType DEF op_at, TypeOK
  <1>8. ASSUME NEW past \in BOOLEAN, NEW r \in BOOLEAN, op_sleep(r, past) PROVE TypeOK'
    <2>1. [Pushed EXCEPT !.ticks = 0, !.age = 0] \in Frame /\ Pushed \in Frame
      BY PushedType DEF Frame
    <2>2. (IF r THEN [Pushed EXCEPT !.ticks = 0, !.age = 0] ELSE Pushed) \in Frame
      BY <2>1
    <2>3. QED
      BY <1>8, <2>2, OpType, TimerType DEF op_sleep, TypeOK
  <1>9. QED
    BY <1>1, <1>2, <1>3, <1>4, <1>d, <1>5, <1>6, <1>7, <1>8,
       MessageOpType, LockOpType, KillOpType DEF opcode

LEMMA TickType == TypeOK /\ Tick => TypeOK'
  <1> SUFFICES ASSUME TypeOK, Tick PROVE TypeOK'
    OBVIOUS
  <1>1. [frame EXCEPT !.ticks = @ + 1] \in Frame
    BY DEF TypeOK, Frame
  <1>2. msgs' \subseteq Message /\ serial' \in Nat
    BY <1>1, SendAnswerType DEF Tick, TypeOK, Kinds, Replies
  <1>3. ticked' \in BOOLEAN
    BY DEF Tick
  <1>4. QED
    BY <1>1, <1>2, <1>3 DEF Tick, TypeOK, world, loop

LEMMA FinishType == TypeOK /\ Finish => TypeOK'
  <1> SUFFICES ASSUME TypeOK, Finish PROVE TypeOK'
    OBVIOUS
  <1>1. msgs' \subseteq Message /\ serial' \in Nat
    BY SendAnswerType DEF Finish, TypeOK, Kinds, Replies
  <1>2. locks' \in [Objs -> SUBSET Lock]
    BY DEF Finish, TypeOK
  <1>3. handled' \in BOOLEAN
    BY DEF Finish
  <1>4. QED
    BY <1>1, <1>2, <1>3, Constants DEF Finish, TypeOK, world

LEMMA LoopType == TypeOK /\ (StartQueues \/ EndEvents \/ EndMsgs) => TypeOK'
  <1> SUFFICES ASSUME TypeOK, StartQueues \/ EndEvents \/ EndMsgs PROVE TypeOK'
    OBVIOUS
  <1>1. CASE StartQueues
    <2>1. cur' \in Nat
      BY <1>1, FollowsType DEF StartQueues, TypeOK
    <2>2. handled' \in BOOLEAN
      BY <1>1 DEF StartQueues
    <2>3. due' \subseteq Nat
      BY <1>1 DEF StartQueues, TypeOK, Event
    <2>4. QED
      BY <1>1, <2>1, <2>2, <2>3 DEF StartQueues, TypeOK, queues
  <1>2. CASE EndEvents
    <2>1. cur' \in Nat
      BY <1>2, FollowsType DEF EndEvents, TypeOK
    <2>2. QED
      BY <1>2, <2>1 DEF EndEvents, TypeOK, queues, world
  <1>3. CASE EndMsgs
    <2>1. cur' \in Nat
      BY <1>3, FollowsType DEF EndMsgs, TypeOK
    <2>2. handled' \in BOOLEAN
      BY <1>3 DEF EndMsgs
    <2>3. QED
      BY <1>3, <2>1, <2>2 DEF EndMsgs, TypeOK, world
  <1>4. QED
    BY <1>1, <1>2, <1>3

LEMMA NextType == TypeOK /\ [Next]_vars => TypeOK'
  <1>1. TypeOK /\ UNCHANGED vars => TypeOK'
    BY DEF TypeOK, vars, queues, loop, world
  <1>2. QED
    BY <1>1, EnvironmentType, EventType, MessageType, OpcodeType, TickType,
       FinishType, LoopType DEF Next, process_queues

\* Every reachable state of the task engine is well typed: queues hold messages
\* and events, and what is addressed to a remote object never enters the queue.
THEOREM TypeCorrect == Spec => []TypeOK
  BY InitType, NextType, PTL DEF Spec

-----------------------------------------------------------------------------
(* What an operation of a running method may do to the queues.             *)

\* d is event e, possibly marked by kill().
Same(d, e) ==
    /\ d.n = e.n /\ d.f = e.f
    /\ d = e \/ (d.on = "dead" /\ e.on # "sys")

\* d is an event of the method being executed.
OfFrame(d) ==
    /\ d.on # "sys"
    /\ d.f.this = frame.this /\ d.f.msgid = frame.msgid /\ d.f.caller = frame.caller

SameFrame ==
    /\ frame'.this = frame.this /\ frame'.msgid = frame.msgid
    /\ frame'.caller = frame.caller /\ frame'.ign = frame.ign

\* The event queue is left alone, gets one new event at its end, or has an event
\* marked by kill().
EventsStep ==
    \/ UNCHANGED events
    \/ \E d \in events' : /\ events' = events \cup {d}
                          /\ d.n >= serial /\ d.n < serial' /\ OfFrame(d)
    \/ \E e \in events : /\ e.on # "sys"
                         /\ events' = (events \ {e}) \cup {[e EXCEPT !.on = "dead"]}

\* An operation leaves the walk alone, does not touch a cell of either queue
\* except to mark an event dead, and blocks only with an event of its own queued.
OpcodeStep ==
    /\ ex = "RUNNING" /\ ex' # "NONE" /\ UNCHANGED loop /\ SameFrame
    /\ msgs \subseteq msgs' /\ serial' >= serial
    /\ EventsStep
    /\ ex' = "BLOCKED" => \E d \in events' : d.n >= serial /\ OfFrame(d)

LEMMA PushedSame ==
  ASSUME TypeOK
  PROVE  /\ Pushed.this = frame.this /\ Pushed.msgid = frame.msgid
         /\ Pushed.caller = frame.caller /\ Pushed.ign = frame.ign
         /\ Pushed.age = frame.age /\ Pushed.at = frame.at
  BY DEF TypeOK, Frame, Pushed

LEMMA RunsStep ==
  ASSUME TypeOK, NEW o, Runs(o)
  PROVE  ex = "RUNNING" /\ UNCHANGED loop /\ SameFrame /\ frame' = Pushed
  BY PushedSame DEF Runs, SameFrame

LEMMA OpStep ==
  ASSUME TypeOK, NEW o, Op(o)
  PROVE  ex = "RUNNING" /\ UNCHANGED loop /\ SameFrame /\ frame' = Pushed
  BY RunsStep DEF Op

LEMMA NotifyStep ==
  ASSUME TypeOK, NEW o, Notify(o)
  PROVE  msgs \subseteq msgs' /\ serial' >= serial /\ UNCHANGED events
  BY DEF Notify, TypeOK

LEMMA SendAnswerStep ==
  ASSUME TypeOK, NEW f, NEW k, NEW keep, SendAnswer(f, k, keep)
  PROVE  keep \subseteq msgs' /\ serial' >= serial
  BY DEF SendAnswer, TypeOK

LEMMA RaiseStep ==
  ASSUME TypeOK, NEW f, ex = "RUNNING", raise(f)
  PROVE  msgs \subseteq msgs' /\ serial' >= serial /\ ex' \in {"RUNNING", "RAISED"}
  <1>1. CASE f.ign
    BY <1>1 DEF raise, TypeOK
  <1>2. CASE ~f.ign
    BY <1>2, SendAnswerStep DEF raise
  <1>3. QED
    BY <1>1, <1>2

\* What the three cases have in common.
LEMMA EventsFacts ==
  ASSUME TypeOK, EventsStep
  PROVE  /\ \A e \in events : \E d \in events' : Same(d, e)
         /\ \A d \in events' : \/ \E e \in events : Same(d, e)
                               \/ d.n >= serial /\ d.n < serial' /\ OfFrame(d)
  <1>1. \A x \in events : Same(x, x)
    BY DEF Same
  <1>2. \A e \in events : e.on # "sys" => Same([e EXCEPT !.on = "dead"], e)
    BY DEF Same, TypeOK, Event
  <1>3. CASE UNCHANGED events
    BY <1>1, <1>3
  <1>4. ASSUME NEW d, events' = events \cup {d}, d.n >= serial, d.n < serial', OfFrame(d)
        PROVE  /\ \A e \in events : \E x \in events' : Same(x, e)
               /\ \A x \in events' : \/ \E e \in events : Same(x, e)
                                     \/ x.n >= serial /\ x.n < serial' /\ OfFrame(x)
    BY <1>1, <1>4
  <1>5. ASSUME NEW d \in events, d.on # "sys",
               events' = (events \ {d}) \cup {[d EXCEPT !.on = "dead"]}
        PROVE  /\ \A e \in events : \E x \in events' : Same(x, e)
               /\ \A x \in events' : \E e \in events : Same(x, e)
    BY <1>1, <1>2, <1>5
  <1>6. QED
    BY <1>3, <1>4, <1>5 DEF EventsStep

LEMMA OpcodeSteps == TypeOK /\ opcode => OpcodeStep
  <1> SUFFICES ASSUME TypeOK, opcode PROVE OpcodeStep
    OBVIOUS
  <1>s. serial \in Nat
    BY DEF TypeOK
  <1> USE DEF OpcodeStep
  <1>1. CASE op_compute
    BY <1>1, <1>s DEF EventsStep, op_compute, queues, SameFrame
  <1>2. CASE op_fail
    BY <1>2, OpStep, RaiseStep DEF EventsStep, op_fail
  <1>3. CASE op_return
    BY <1>3, <1>s, OpStep DEF EventsStep, op_return, queues
  <1>4. CASE op_destroy
    BY <1>4, <1>s, RunsStep, NotifyStep DEF EventsStep, op_destroy, queues
  <1>d. ASSUME NEW o, op_disconnect(o) PROVE OpcodeStep
    BY <1>d, RunsStep, NotifyStep DEF EventsStep, op_disconnect
  <1>5. ASSUME NEW k \in {"raise", "ticks"}, op_raise(k) PROVE OpcodeStep
    BY <1>5, OpStep, SendAnswerStep DEF EventsStep, op_raise
  <1>6. ASSUME NEW d \in Dests, NEW k \in Sends, op_message(d, k) PROVE OpcodeStep
    <2>1. ex = "RUNNING" /\ UNCHANGED loop /\ SameFrame
      BY <1>6, OpStep DEF op_message
    <2>2. CASE UNCHANGED events /\ raise(Pushed)
      BY <2>1, <2>2, RaiseStep DEF EventsStep
    <2>3. CASE ~(UNCHANGED events /\ raise(Pushed))
      <3>1. /\ events' = events \cup {Waiting(d)} /\ serial' = serial + 2
            /\ ex' = "BLOCKED" /\ msgs \subseteq msgs'
        BY <1>6, <2>3 DEF op_message
      <3>2. OfFrame(Waiting(d)) /\ Waiting(d).n = serial + 1
        BY PushedSame DEF OfFrame, Waiting
      <3>3. EventsStep
        BY <3>1, <3>2, <1>s DEF EventsStep
      <3>4. QED
        BY <2>1, <3>1, <3>2, <3>3, <1>s
    <2>4. QED
      BY <2>2, <2>3
  <1>7. ASSUME NEW name \in LockNames, op_lock(name) PROVE OpcodeStep
    <2>1. ex = "RUNNING" /\ UNCHANGED loop /\ SameFrame
      BY <1>7, OpStep DEF op_lock
    <2> DEFINE d == [n |-> serial, on |-> "lock", f |-> Pushed, bmsgid |-> 0,
                     dest |-> Pushed.this, lock |-> name]
    <2>2. OfFrame(d) /\ d.n = serial
      BY PushedSame DEF OfFrame
    <2>3. serial' = serial + 2 /\ UNCHANGED msgs
      BY <1>7 DEF op_lock
    <2>4. \/ UNCHANGED events /\ ex' = "RUNNING"
          \/ events' = events \cup {d} /\ ex' = "BLOCKED"
      BY <1>7 DEF op_lock
    <2>5. EventsStep
      <3>1. CASE UNCHANGED events
        BY <3>1 DEF EventsStep
      <3>2. CASE events' = events \cup {d}
        <4> HIDE DEF d
        <4> QED
          BY <3>2, <2>2, <2>3, <1>s DEF EventsStep
      <3>3. QED
        BY <2>4, <3>1, <3>2
    <2> HIDE DEF d
    <2>6. QED
      BY <2>1, <2>2, <2>3, <2>4, <2>5, <1>s
  <1>8. ASSUME NEW name \in LockNames, op_unlock(name) PROVE OpcodeStep
    BY <1>8, <1>s, OpStep DEF EventsStep, op_unlock, queues
  <1>9. ASSUME NEW past, NEW f, Timer(f, past), ex = "RUNNING", UNCHANGED loop,
               SameFrame, ex' # "NONE",
               f.this = frame.this, f.msgid = frame.msgid, f.caller = frame.caller
        PROVE  OpcodeStep
    <2> DEFINE d == [n |-> serial, on |-> "timer", f |-> f, bmsgid |-> 0,
                     dest |-> f.this, lock |-> AnyName]
    <2>1. OfFrame(d) /\ d.n = serial
      BY <1>9 DEF OfFrame
    <2>2. events' = events \cup {d} /\ serial' = serial + 1 /\ UNCHANGED msgs
      BY <1>9 DEF Timer
    <2> HIDE DEF d
    <2>3. EventsStep
      BY <2>1, <2>2, <1>s DEF EventsStep
    <2>4. QED
      BY <1>9, <2>1, <2>2, <2>3, <1>s
  <1>10. ASSUME NEW past \in BOOLEAN, op_at(past) PROVE OpcodeStep
    <2> DEFINE f == [Pushed EXCEPT !.at = TRUE]
    <2>1. f.this = frame.this /\ f.msgid = frame.msgid /\ f.caller = frame.caller
      BY PushedSame, PushedType DEF Frame
    <2> HIDE DEF f
    <2>2. QED
      BY <1>10, <1>9, <2>1, OpStep DEF op_at, f
  <1>11. ASSUME NEW past \in BOOLEAN, NEW r \in BOOLEAN, op_sleep(r, past)
         PROVE  OpcodeStep
    <2> DEFINE f == IF r THEN [Pushed EXCEPT !.ticks = 0, !.age = 0] ELSE Pushed
    <2>1. f.this = frame.this /\ f.msgid = frame.msgid /\ f.caller = frame.caller
      BY PushedSame, PushedType DEF Frame
    <2>2. Timer(f, past) /\ ex' = "BLOCKED" /\ Op("sleep")
      BY <1>11 DEF op_sleep
    <2> HIDE DEF f
    <2>3. QED
      BY <1>9, <2>1, <2>2, OpStep
  <1>12. ASSUME NEW pid, op_kill(pid) PROVE OpcodeStep
    <2>1. ex = "RUNNING" /\ UNCHANGED loop /\ SameFrame
      BY <1>12, OpStep DEF op_kill
    <2>2. msgs \subseteq msgs' /\ serial' >= serial /\ ex' \in {"RUNNING", "RAISED"}
      BY <1>12, <2>1, <1>s, RaiseStep DEF op_kill
    <2>3. EventsStep
      <3>1. CASE UNCHANGED events
        BY <3>1 DEF EventsStep
      <3>2. ASSUME NEW e \in events, e.on # "sys",
                   events' = (events \ {e}) \cup {[e EXCEPT !.on = "dead"]}
            PROVE  EventsStep
        BY <3>2 DEF EventsStep
      <3>3. QED
        BY <1>12, <3>1, <3>2 DEF op_kill, Killed
    <2>4. QED
      BY <2>1, <2>2, <2>3
  <1>13. QED
    BY <1>1, <1>2, <1>3, <1>4, <1>d, <1>5, <1>6, <1>7, <1>8, <1>10, <1>11, <1>12 DEF opcode

-----------------------------------------------------------------------------
(* The walks of the queues.                                                *)

\* While a method runs the walk stands still and the cell after the current one
\* is known; m of process_message_event() is forgotten before the next cell.
LoopInv ==
    /\ ex # "NONE" => phase \in {"events", "msgs"} /\ (nxt = 0 \/ nxt > cur)
    /\ ex = "NONE" \/ phase = "msgs" => reply = 0
    /\ ticked => ex # "NONE"

CursorInv == TypeOK /\ LoopInv /\ CursorValid

\* Cells with the same serials are on the list after an operation.
LEMMA OpcodeQueued ==
  ASSUME TypeOK, OpcodeStep, NEW k
  PROVE  /\ Queued(k, events) => Queued(k, events')
         /\ Queued(k, msgs) => Queued(k, msgs')
  BY EventsFacts DEF OpcodeStep, Queued, Same

LEMMA FollowsQueued ==
  ASSUME NEW S, NEW i \in Nat, NEW k \in Serials(S), Follows(k, i, S)
  PROVE  Queued(k, S) /\ (k = 0 \/ k > i)
  BY DEF Follows, Queued

LEMMA ResumeCursor ==
  ASSUME CursorInv, TypeOK', NEW e \in events, At(e), NEW f,
         NEW x \in {"RUNNING", "RAISED", "HALTED"}, Resume(f, x)
  PROVE  LoopInv' /\ CursorValid'
  <1>1. /\ phase = "events" /\ phase' = "events" /\ cur' = cur /\ events' = events
        /\ Queued(cur, events) /\ ex' # "NONE"
    BY DEF Resume, At, CursorInv, CursorValid
  <1>2. Queued(nxt', events) /\ (nxt' = 0 \/ nxt' > cur)
    BY FollowsQueued DEF Resume, ReadNext, CursorInv, TypeOK
  <1>3. QED
    BY <1>1, <1>2 DEF LoopInv, CursorValid

LEMMA SkipCursor ==
  ASSUME CursorInv, NEW S, ex = "NONE",
         \/ S = events /\ phase = "events"
         \/ S = msgs /\ phase = "msgs",
         Skip(S)
  PROVE  LoopInv' /\ CursorValid'
  <1>1. Queued(cur', S)
    BY FollowsQueued DEF Skip, CursorInv, TypeOK
  <1>2. QED
    BY <1>1 DEF Skip, queues, CursorInv, LoopInv, CursorValid

LEMMA EventCursor ==
  ASSUME CursorInv, TypeOK', process_event
  PROVE  LoopInv' /\ CursorValid'
  <1> PICK e \in events : \/ process_message_event(e) \/ process_lock_event(e)
                          \/ process_timer_event(e) \/ process_sys_message_event(e)
                          \/ process_dead_event(e)
    BY DEF process_event
  <1>1. At(e)
    BY DEF process_message_event, process_lock_event, process_timer_event,
           process_sys_message_event, process_dead_event
  <1>2. ex = "NONE" /\ phase = "events" /\ e.n = cur
    BY <1>1 DEF At
  <1>3. CASE Skip(events)
    BY <1>2, <1>3, SkipCursor
  <1>4. ASSUME NEW f, NEW x \in {"RUNNING", "RAISED", "HALTED"}, Resume(f, x)
        PROVE  LoopInv' /\ CursorValid'
    BY <1>1, <1>4, ResumeCursor
  <1>5. ASSUME NEW f, NEW k, ResumeRaise(f, k) PROVE LoopInv' /\ CursorValid'
    <2>1. CASE k = "raise" /\ f.ign
      BY <1>5, <2>1, <1>4 DEF ResumeRaise
    <2>2. CASE ~(k = "raise" /\ f.ign)
      BY <1>5, <2>2, <1>4 DEF ResumeRaise
    <2>3. QED
      BY <2>1, <2>2
  <1>6. CASE process_message_event(e)
    BY <1>6, <1>3, <1>4, <1>5 DEF process_message_event
  <1>7. CASE process_lock_event(e)
    <2>1. CASE phase' = "crashed" /\ UNCHANGED <<reply, ex, ticked>>
      BY <2>1, <1>2 DEF CursorInv, LoopInv, CursorValid
    <2>2. QED
      BY <1>7, <2>1, <1>3, <1>4, <1>5 DEF process_lock_event, resume_method
  <1>8. CASE process_timer_event(e)
    BY <1>8, <1>3, <1>4 DEF process_timer_event, resume_method
  <1>9. CASE process_sys_message_event(e) /\ ~Skip(events)
    <2>1. events' = events \ {e} /\ UNCHANGED <<phase, ex, reply, ticked>>
      BY <1>9 DEF process_sys_message_event
    <2>2. Queued(cur', events) /\ (cur' = 0 \/ cur' > cur)
      BY <1>9, FollowsQueued DEF process_sys_message_event, CursorInv, TypeOK
    <2>3. Queued(cur', events')
      BY <2>1, <2>2, <1>2 DEF Queued, CursorInv, TypeOK
    <2>4. QED
      BY <2>1, <2>3, <1>2 DEF CursorInv, LoopInv, CursorValid
  <1>10. CASE process_dead_event(e)
    BY <1>10, <1>5 DEF process_dead_event
  <1>11. QED
    BY <1>3, <1>6, <1>7, <1>8, <1>9, <1>10

LEMMA MessageCursor ==
  ASSUME CursorInv, TypeOK', process_message
  PROVE  LoopInv' /\ CursorValid'
  <1> PICK m \in msgs : \/ PassReply(m)
                        \/ \E k \in {"raise", "return"} : Refuse(m, k)
                        \/ \E ign \in Igns : call_method(m, ign)
    BY DEF process_message
  <1>1. AtMsg(m)
    BY DEF PassReply, Refuse, call_method
  <1>2. ex = "NONE" /\ phase = "msgs" /\ m.n = cur
    BY <1>1 DEF AtMsg
  <1>3. CASE PassReply(m)
    BY <1>2, <1>3, SkipCursor DEF PassReply
  <1>4. ASSUME NEW k, Refuse(m, k) PROVE LoopInv' /\ CursorValid'
    <2>1. Queued(cur', msgs) /\ (cur' = 0 \/ cur' > cur)
      BY <1>4, FollowsQueued DEF Refuse, CursorInv, TypeOK
    <2>2. msgs \ {m} \subseteq msgs'
      BY <1>4, SendAnswerStep DEF Refuse, CursorInv
    <2>3. Queued(cur', msgs')
      BY <2>1, <2>2, <1>2 DEF Queued, CursorInv, TypeOK
    <2>4. QED
      BY <1>4, <1>2, <2>3 DEF Refuse, CursorInv, LoopInv, CursorValid
  <1>5. ASSUME NEW ign, call_method(m, ign) PROVE LoopInv' /\ CursorValid'
    <2>1. Queued(nxt', msgs) /\ (nxt' = 0 \/ nxt' > cur)
      BY <1>5, FollowsQueued DEF call_method, ReadNext, CursorInv, TypeOK
    <2>2. Queued(cur, msgs)
      BY <1>2 DEF CursorInv, CursorValid
    <2>3. QED
      BY <1>5, <1>2, <2>1, <2>2 DEF call_method, queues, CursorInv, LoopInv, CursorValid
  <1>6. QED
    BY <1>3, <1>4, <1>5

LEMMA FinishCursor ==
  ASSUME CursorInv, Finish
  PROVE  LoopInv' /\ CursorValid'
  <1>1. /\ ex # "NONE" /\ cur' = nxt /\ reply' = 0 /\ ex' = "NONE" /\ ~ticked
        /\ UNCHANGED <<phase, ticked>>
        /\ events' = {e \in events : phase = "events" => e.n # cur}
    BY DEF Finish
  <1>2. {m \in msgs : m.n # reply /\ (phase = "msgs" => m.n # cur)} \subseteq msgs'
    BY SendAnswerStep DEF Finish, CursorInv
  <1>3. phase = "events" => Queued(nxt, events')
    BY <1>1 DEF CursorInv, LoopInv, CursorValid, Queued, TypeOK
  <1>4. phase = "msgs" => Queued(nxt, msgs')
    BY <1>1, <1>2 DEF CursorInv, LoopInv, CursorValid, Queued, TypeOK
  <1>5. QED
    BY <1>1, <1>3, <1>4 DEF LoopInv, CursorValid

LEMMA NextCursor == CursorInv /\ [Next]_vars => CursorInv'
  <1> SUFFICES ASSUME CursorInv, [Next]_vars PROVE CursorInv'
    OBVIOUS
  <1>t. TypeOK'
    BY NextType DEF CursorInv
  <1> SUFFICES LoopInv' /\ CursorValid'
    BY <1>t DEF CursorInv
  <1>1. CASE Environment
    BY <1>1 DEF Environment, do_parse, disconnect_player, Evict, RemoteCall, RemoteReply, receive_message,
                Input, loop, CursorInv, LoopInv, CursorValid
  <1>2. CASE StartQueues
    <2>1. Queued(cur', events)
      BY <1>2, FollowsQueued DEF StartQueues
    <2>2. QED
      BY <1>2, <2>1 DEF StartQueues, queues, CursorInv, LoopInv, CursorValid
  <1>3. CASE EndEvents
    <2>1. Queued(cur', msgs)
      BY <1>3, FollowsQueued DEF EndEvents
    <2>2. QED
      BY <1>3, <2>1 DEF EndEvents, queues, CursorInv, LoopInv, CursorValid
  <1>4. CASE EndMsgs
    <2>1. Again => Queued(cur', events)
      BY <1>4, FollowsQueued DEF EndMsgs
    <2>2. QED
      BY <1>4, <2>1 DEF EndMsgs, CursorInv, LoopInv, CursorValid
  <1>5. CASE opcode
    <2>1. OpcodeStep
      BY <1>5, OpcodeSteps DEF CursorInv
    <2>2. QED
      BY <2>1, OpcodeQueued DEF OpcodeStep, loop, CursorInv, LoopInv, CursorValid
  <1>6. CASE Tick
    <2>1. ex # "NONE" /\ ex' # "NONE" /\ UNCHANGED <<phase, cur, nxt, reply, events>>
      BY <1>6 DEF Tick, loop, CursorInv, LoopInv
    <2>2. msgs \subseteq msgs'
      BY <1>6, SendAnswerStep DEF Tick, CursorInv
    <2>3. QED
      BY <1>6, <2>1, <2>2 DEF Tick, CursorInv, LoopInv, CursorValid, Queued
  <1>7. CASE UNCHANGED vars
    BY <1>7 DEF vars, queues, loop, CursorInv, LoopInv, CursorValid
  <1>8. QED
    BY <1>t, <1>1, <1>2, <1>3, <1>4, <1>5, <1>6, <1>7, EventCursor, MessageCursor,
       FinishCursor DEF Next, process_queues

\* process_queues() never follows a pointer to a freed cell, whatever methods run
\* between reading enext or mnext and using it.
THEOREM CursorSafe == Spec => []CursorValid
  <1>1. Init => CursorInv
    BY InitType DEF Init, CursorInv, LoopInv, CursorValid
  <1>2. CursorInv => CursorValid
    BY DEF CursorInv
  <1>3. QED
    BY <1>1, <1>2, NextCursor, PTL DEF Spec

-----------------------------------------------------------------------------
(* Locks.                                                                  *)

\* The event being resumed is the frame's; a method that has blocked has another
\* event on the queue, which the removal of the current one does not touch.
FrameInv ==
    /\ serial > 0 /\ \A e \in events : e.n < serial
    /\ phase = "events" /\ ex # "NONE" => \A e \in events : e.n = cur => OfFrame(e)
    /\ ex = "BLOCKED" => \E e \in events : OfFrame(e) /\ ~Current(e)

\* No two events share a cell.
UniqueEvents == \A d, e \in events : d.n = e.n => d = e

TaskInv == CursorInv /\ FrameInv /\ UniqueEvents

\* A step that starts no method and runs none: the queue keeps its events, but for
\* an event of the system that is done, and gets new ones at its end.
QuietStep ==
    /\ ex = "NONE" /\ ex' = "NONE" /\ serial' >= serial
    /\ \A e \in events : e.on # "sys" => e \in events'
    /\ \A d \in events' : d \in events \/ (d.n >= serial /\ d.n < serial')
    /\ \A d, e \in events' : d.n = e.n => d = e \/ d \in events \/ e \in events

\* A step that starts or resumes a method.
StartStep ==
    /\ ex = "NONE" /\ ex' \in {"RUNNING", "STOPPED", "RAISED", "HALTED"}
    /\ UNCHANGED <<events, locks, phase, cur>> /\ serial' >= serial
    /\ phase = "events" =>
          \E e \in events : /\ e.n = cur /\ e.on # "sys"
                            /\ frame'.this = e.f.this /\ frame'.msgid = e.f.msgid
                            /\ frame'.caller = e.f.caller

LEMMA ResumeStart ==
  ASSUME TaskInv, NEW e \in events, At(e), e.on # "sys", NEW f, NEW x, Resume(f, x),
         x \in {"RUNNING", "RAISED", "HALTED"}, serial' >= serial,
         f.this = e.f.this, f.msgid = e.f.msgid, f.caller = e.f.caller
  PROVE  StartStep
  BY DEF Resume, At, StartStep

LEMMA ResumeRaiseStart ==
  ASSUME TaskInv, NEW e \in events, At(e), e.on # "sys", NEW f, NEW k, ResumeRaise(f, k),
         f.this = e.f.this, f.msgid = e.f.msgid, f.caller = e.f.caller
  PROVE  StartStep
  <1>1. serial' >= serial
    BY SendAnswerStep DEF ResumeRaise, TaskInv, CursorInv, TypeOK
  <1>2. CASE k = "raise" /\ f.ign
    BY <1>1, <1>2, ResumeStart DEF ResumeRaise
  <1>3. CASE ~(k = "raise" /\ f.ign)
    BY <1>1, <1>3, ResumeStart DEF ResumeRaise
  <1>4. QED
    BY <1>2, <1>3

\* Every step on an event resumes a method, or is quiet.
LEMMA EventStep ==
  ASSUME TaskInv, process_event
  PROVE  StartStep \/ (QuietStep /\ UNCHANGED locks)
  <1> PICK e \in events : \/ process_message_event(e) \/ process_lock_event(e)
                          \/ process_timer_event(e) \/ process_sys_message_event(e)
                          \/ process_dead_event(e)
    BY DEF process_event
  <1>1. At(e)
    BY DEF process_message_event, process_lock_event, process_timer_event,
           process_sys_message_event, process_dead_event
  <1>2. ex = "NONE" /\ phase = "events" /\ e.n = cur /\ serial \in Nat
    BY <1>1 DEF At, TaskInv, CursorInv, TypeOK
  <1>3. CASE Skip(events)
    BY <1>2, <1>3 DEF Skip, queues, QuietStep
  <1>4. CASE process_message_event(e)
    <2>1. e.on # "sys"
      BY <1>4 DEF process_message_event
    <2>2. ASSUME NEW m, LET f == [e.f EXCEPT !.ticks = m.ticks] IN
                   \/ Resume(f, "RUNNING") /\ UNCHANGED <<msgs, serial>>
                   \/ Resume(f, "HALTED") /\ UNCHANGED <<msgs, serial>>
                   \/ ResumeRaise(f, m.kind)
          PROVE  StartStep
      <3> DEFINE f == [e.f EXCEPT !.ticks = m.ticks]
      <3>1. f.this = e.f.this /\ f.msgid = e.f.msgid /\ f.caller = e.f.caller
        BY DEF TaskInv, CursorInv, TypeOK, Event, Frame
      <3>2. \/ Resume(f, "RUNNING") /\ UNCHANGED <<msgs, serial>>
            \/ Resume(f, "HALTED") /\ UNCHANGED <<msgs, serial>>
            \/ ResumeRaise(f, m.kind)
        BY <2>2
      <3> HIDE DEF f
      <3>3. QED
        BY <1>1, <1>2, <2>1, <3>1, <3>2, ResumeStart, ResumeRaiseStart
    <2>3. QED
      BY <1>4, <1>1, <1>2, <2>1, <2>2, <1>3, ResumeRaiseStart DEF process_message_event
  <1>5. CASE process_lock_event(e)
    <2>1. e.on # "sys"
      BY <1>5 DEF process_lock_event
    <2>2. CASE phase' = "crashed" /\ UNCHANGED <<queues, locks, ex>>
      BY <2>2, <1>2 DEF QuietStep, queues
    <2>3. CASE resume_method(e.f, "RUNNING")
      BY <2>1, <2>3, <1>1, <1>2, ResumeStart DEF resume_method
    <2>4. CASE ResumeRaise(e.f, "raise")
      BY <2>1, <2>4, <1>1, ResumeRaiseStart
    <2>5. QED
      BY <1>5, <1>3, <2>2, <2>3, <2>4 DEF process_lock_event, Skip
  <1>6. CASE process_timer_event(e)
    BY <1>6, <1>1, <1>2, <1>3, ResumeStart DEF process_timer_event, resume_method, Skip
  <1>7. CASE process_sys_message_event(e) /\ ~Skip(events)
    <2>1. events' = events \ {e} /\ e.on = "sys" /\ UNCHANGED <<ex, serial, locks>>
      BY <1>7 DEF process_sys_message_event
    <2>2. QED
      BY <1>2, <2>1 DEF QuietStep, TaskInv, CursorInv, LoopInv
  <1>8. CASE process_dead_event(e)
    BY <1>8, <1>1, ResumeRaiseStart DEF process_dead_event
  <1>9. QED
    BY <1>3, <1>4, <1>5, <1>6, <1>7, <1>8 DEF Skip

LEMMA MessageStep ==
  ASSUME TaskInv, process_message
  PROVE  StartStep \/ (QuietStep /\ UNCHANGED locks)
  <1> PICK m \in msgs : \/ PassReply(m)
                        \/ \E k \in {"raise", "return"} : Refuse(m, k)
                        \/ \E ign \in Igns : call_method(m, ign)
    BY DEF process_message
  <1>1. serial \in Nat
    BY DEF TaskInv, CursorInv, TypeOK
  <1>2. CASE PassReply(m)
    BY <1>1, <1>2 DEF PassReply, AtMsg, Skip, queues, QuietStep
  <1>3. ASSUME NEW k, Refuse(m, k) PROVE QuietStep /\ UNCHANGED locks
    <2>1. serial' >= serial
      BY <1>3, SendAnswerStep DEF Refuse, TaskInv, CursorInv
    <2>2. QED
      BY <1>3, <2>1 DEF Refuse, AtMsg, QuietStep
  <1>4. ASSUME NEW ign, call_method(m, ign) PROVE StartStep
    BY <1>1, <1>4 DEF call_method, AtMsg, StartStep, queues
  <1>5. QED
    BY <1>2, <1>3, <1>4

\* Locks disappear or stay when a quiet step is taken.
QuietLocks == \A o \in Objs : locks'[o] \subseteq locks[o]

LEMMA OtherSteps ==
  ASSUME TaskInv, Environment \/ StartQueues \/ EndEvents \/ EndMsgs
  PROVE  QuietStep /\ QuietLocks
  <1>1. serial \in Nat /\ (phase = "idle" => ex = "NONE")
    BY DEF TaskInv, CursorInv, LoopInv, TypeOK
  <1>2. ASSUME NEW o \in Objs, do_parse(o) PROVE QuietStep /\ QuietLocks
    BY <1>1, <1>2 DEF do_parse, Input, QuietStep, QuietLocks
  <1>n. ASSUME NEW o \in Objs, disconnect_player(o) PROVE QuietStep /\ QuietLocks
    BY <1>1, <1>n DEF disconnect_player, Notify, Input, QuietStep, QuietLocks
  <1>3. ASSUME NEW o \in Objs, Evict(o) PROVE QuietStep /\ QuietLocks
    BY <1>1, <1>3 DEF Evict, queues, QuietStep, QuietLocks, TaskInv, CursorInv, TypeOK
  <1>4. ASSUME NEW m, receive_message(m) PROVE QuietStep /\ QuietLocks
    BY <1>1, <1>4 DEF receive_message, Input, QuietStep, QuietLocks
  <1>5. CASE StartQueues
    BY <1>1, <1>5 DEF StartQueues, queues, QuietStep, QuietLocks
  <1>6. CASE EndEvents
    BY <1>1, <1>6 DEF EndEvents, queues, QuietStep, QuietLocks
  <1>7. CASE EndMsgs
    BY <1>1, <1>7 DEF EndMsgs, QuietStep, QuietLocks
  <1>8. QED
    BY <1>2, <1>n, <1>3, <1>4, <1>5, <1>6, <1>7 DEF Environment, RemoteCall, RemoteReply

LEMMA QuietFrame ==
  ASSUME TaskInv, CursorInv', QuietStep
  PROVE  FrameInv' /\ UniqueEvents'
  <1>0. /\ serial \in Nat /\ serial' \in Nat /\ ex' = "NONE"
        /\ \A e \in events : e.n \in Nat
        /\ \A e \in events' : e.n \in Nat
    BY DEF QuietStep, TaskInv, CursorInv, TypeOK, Event
  <1>1. FrameInv'
    BY <1>0 DEF QuietStep, TaskInv, FrameInv
  <1>2. UniqueEvents'
    BY <1>0 DEF QuietStep, TaskInv, FrameInv, UniqueEvents
  <1>3. QED
    BY <1>1, <1>2

LEMMA StartFrame ==
  ASSUME TaskInv, CursorInv', StartStep
  PROVE  FrameInv' /\ UniqueEvents'
  <1>1. serial \in Nat /\ serial' \in Nat /\ \A e \in events : e.n \in Nat
    BY DEF TaskInv, CursorInv, TypeOK, Event
  <1>2. phase = "events" => \A e \in events : e.n = cur => OfFrame(e)'
    BY DEF StartStep, OfFrame, TaskInv, UniqueEvents
  <1>3. QED
    BY <1>1, <1>2 DEF StartStep, FrameInv, TaskInv, UniqueEvents

LEMMA OpcodeFrame ==
  ASSUME TaskInv, CursorInv', OpcodeStep
  PROVE  FrameInv' /\ UniqueEvents'
  <1>1. /\ serial \in Nat /\ serial' \in Nat /\ cur \in Nat /\ serial > 0
        /\ \A e \in events : e.n \in Nat /\ e.n < serial
        /\ serial' >= serial /\ UNCHANGED <<phase, cur>> /\ ex = "RUNNING"
    BY DEF TaskInv, CursorInv, TypeOK, Event, FrameInv, OpcodeStep, loop
  <1>2. /\ \A e \in events : \E d \in events' : Same(d, e)
        /\ \A d \in events' : \/ \E e \in events : Same(d, e)
                              \/ d.n >= serial /\ d.n < serial' /\ OfFrame(d)
    BY EventsFacts DEF TaskInv, CursorInv, OpcodeStep
  <1>3. \A d \in events' : OfFrame(d) => OfFrame(d)'
    BY DEF OpcodeStep, SameFrame, OfFrame
  <1>4. \A d, e : Same(d, e) /\ OfFrame(e) => OfFrame(d)
    BY DEF Same, OfFrame
  <1>5. phase = "events" => cur < serial
    BY <1>1 DEF TaskInv, CursorInv, CursorValid, Queued
  <1>6. serial' > 0 /\ \A e \in events' : e.n < serial'
    BY <1>1, <1>2 DEF Same
  <1>7. phase = "events" => \A d \in events' : d.n = cur => OfFrame(d)'
    <2> SUFFICES ASSUME phase = "events", NEW d \in events', d.n = cur PROVE OfFrame(d)'
      OBVIOUS
    <2>1. PICK e \in events : Same(d, e)
      BY <1>1, <1>2, <1>5
    <2>2. OfFrame(e)
      BY <2>1, <1>1 DEF TaskInv, FrameInv, Same
    <2>3. QED
      BY <2>1, <2>2, <1>3, <1>4
  <1>8. ex' = "BLOCKED" => \E d \in events' : OfFrame(d)' /\ ~Current(d)'
    BY <1>1, <1>3, <1>5 DEF OpcodeStep, Current
  <1>9. UniqueEvents'
    <2>1. CASE UNCHANGED events
      BY <2>1 DEF TaskInv, UniqueEvents
    <2>2. ASSUME NEW d \in events', events' = events \cup {d}, d.n >= serial PROVE UniqueEvents'
      BY <2>2, <1>1 DEF TaskInv, UniqueEvents
    <2>3. ASSUME NEW e \in events, events' = (events \ {e}) \cup {[e EXCEPT !.on = "dead"]}
          PROVE  UniqueEvents'
      <3>1. [e EXCEPT !.on = "dead"].n = e.n
        BY DEF TaskInv, CursorInv, TypeOK, Event
      <3>2. QED
        BY <2>3, <3>1 DEF TaskInv, UniqueEvents
    <2>4. QED
      BY <2>1, <2>2, <2>3 DEF OpcodeStep, EventsStep
  <1>10. QED
    BY <1>1, <1>6, <1>7, <1>8, <1>9 DEF FrameInv

LEMMA TickFrame ==
  ASSUME TaskInv, Tick
  PROVE  /\ FrameInv' /\ UniqueEvents' /\ SameFrame /\ ex # "NONE" /\ ex' # "NONE"
         /\ UNCHANGED <<locks, events>>
  <1>1. SameFrame
    BY DEF Tick, SameFrame, TaskInv, CursorInv, TypeOK, Frame
  <1>2. serial' >= serial /\ serial' \in Nat
    <2>1. SendAnswer([frame EXCEPT !.ticks = @ + 1], "ticks", msgs) \/ UNCHANGED serial
      BY DEF Tick
    <2>2. QED
      BY <2>1 DEF SendAnswer, TaskInv, CursorInv, TypeOK
  <1>3. /\ UNCHANGED <<events, locks, phase, cur>> /\ ex # "NONE" /\ ex' \in {ex, "RAISED"}
    BY DEF Tick, loop, TaskInv, CursorInv, LoopInv
  <1>4. \A e \in events : OfFrame(e)' <=> OfFrame(e)
    BY <1>1, <1>3 DEF OfFrame, SameFrame
  <1>5. serial' > 0 /\ \A e \in events : e.n < serial'
    BY <1>2 DEF TaskInv, FrameInv, CursorInv, TypeOK, Event
  <1>6. ex' = "BLOCKED" => \E e \in events : OfFrame(e)' /\ ~Current(e)'
    BY <1>3, <1>4 DEF TaskInv, FrameInv, Current
  <1>7. phase = "events" => \A e \in events : e.n = cur => OfFrame(e)'
    BY <1>3, <1>4 DEF TaskInv, FrameInv
  <1>8. QED
    BY <1>1, <1>3, <1>5, <1>6, <1>7 DEF FrameInv, TaskInv, UniqueEvents

LEMMA FinishFrame ==
  ASSUME TaskInv, Finish
  PROVE  FrameInv' /\ UniqueEvents'
  <1>1. serial' >= serial /\ serial' \in Nat
    BY SendAnswerStep DEF Finish, SendAnswer, TaskInv, CursorInv, TypeOK
  <1>2. events' \subseteq events /\ ex' = "NONE"
    BY DEF Finish
  <1>3. QED
    BY <1>1, <1>2 DEF FrameInv, UniqueEvents, TaskInv, CursorInv, TypeOK, Event

LEMMA NextTask == TaskInv /\ [Next]_vars => TaskInv'
  <1> SUFFICES ASSUME TaskInv, [Next]_vars PROVE TaskInv'
    OBVIOUS
  <1>c. CursorInv'
    BY NextCursor DEF TaskInv
  <1> SUFFICES FrameInv' /\ UniqueEvents'
    BY <1>c DEF TaskInv
  <1>1. CASE Environment \/ StartQueues \/ EndEvents \/ EndMsgs
    BY <1>c, <1>1, OtherSteps, QuietFrame
  <1>2. CASE process_event \/ process_message
    BY <1>c, <1>2, EventStep, MessageStep, StartFrame, QuietFrame
  <1>3. CASE opcode
    BY <1>c, <1>3, OpcodeSteps, OpcodeFrame DEF TaskInv, CursorInv
  <1>4. CASE Tick \/ Finish
    BY <1>4, TickFrame, FinishFrame
  <1>5. CASE UNCHANGED vars
    BY <1>5 DEF vars, queues, loop, TaskInv, FrameInv, UniqueEvents, OfFrame, Current
  <1>6. QED
    BY <1>1, <1>2, <1>3, <1>4, <1>5 DEF Next, process_queues

\* Object o has a task of message id b on the event queue.
HasTask(o, b) == \E e \in events : e.on # "sys" /\ e.f.this = o /\ e.f.msgid = b

\* An operation places locks only under the message id of its own method.
LEMMA OpcodeLocks ==
  ASSUME TypeOK, opcode, NEW o \in Objs, NEW l \in locks'[o]
  PROVE  l \in locks[o] \/ (o = frame.this /\ l.by = frame.msgid)
  <1>0. locks \in [Objs -> SUBSET Lock]
    BY DEF TypeOK
  <1>1. CASE op_compute \/ op_fail \/ op_return
    BY <1>1 DEF op_compute, op_fail, op_return
  <1>2. CASE op_destroy
    BY <1>0, <1>2 DEF op_destroy
  <1>3. ASSUME NEW k, op_raise(k) \/ op_kill(k) \/ op_disconnect(k) PROVE l \in locks[o]
    BY <1>3 DEF op_raise, op_kill, op_disconnect
  <1>4. ASSUME NEW d, NEW k, op_message(d, k) PROVE l \in locks[o]
    BY <1>4 DEF op_message
  <1>5. ASSUME NEW name, op_lock(name)
        PROVE  l \in locks[o] \/ (o = frame.this /\ l.by = frame.msgid)
    BY <1>0, <1>5, PushedSame DEF op_lock
  <1>6. ASSUME NEW name, op_unlock(name) PROVE l \in locks[o]
    BY <1>0, <1>6 DEF op_unlock
  <1>7. ASSUME NEW r, NEW past, op_at(past) \/ op_sleep(r, past) PROVE l \in locks[o]
    BY <1>7 DEF op_at, op_sleep, Timer
  <1>8. QED
    BY <1>1, <1>2, <1>3, <1>4, <1>5, <1>6, <1>7 DEF opcode

LEMMA FinishLocks ==
  ASSUME TaskInv, LockOwnerAlive, Finish
  PROVE  LockOwnerAlive'
  <1>0. locks \in [Objs -> SUBSET Lock] /\ frame.this \in Objs
    BY DEF TaskInv, CursorInv, TypeOK, Frame
  <1>1. events' = {e \in events : phase = "events" => e.n # cur} /\ ex # "NONE"
    BY DEF Finish
  <1> SUFFICES ASSUME NEW o \in Objs, NEW l \in locks'[o]
               PROVE  \E e \in events' : e.on # "sys" /\ e.f.this = o /\ e.f.msgid = l.by
    BY DEF LockOwnerAlive
  <1>2. l \in locks[o]
    BY <1>0 DEF Finish
  <1>3. CASE o = frame.this /\ l.by = frame.msgid
    <2>1. ex = "BLOCKED"
      BY <1>0, <1>3 DEF Finish, GivesUpLocks
    <2>2. PICK e \in events : OfFrame(e) /\ ~Current(e)
      BY <2>1 DEF TaskInv, FrameInv
    <2>3. e \in events'
      BY <1>1, <2>2 DEF Current
    <2>4. QED
      BY <1>3, <2>2, <2>3 DEF OfFrame
  <1>4. CASE ~(o = frame.this /\ l.by = frame.msgid)
    <2>1. PICK e \in events : e.on # "sys" /\ e.f.this = o /\ e.f.msgid = l.by
      BY <1>2, <1>4 DEF LockOwnerAlive
    <2>2. ~(phase = "events" /\ e.n = cur)
      BY <1>1, <1>4, <2>1 DEF TaskInv, FrameInv, OfFrame
    <2>3. QED
      BY <1>1, <2>1, <2>2
  <1>5. QED
    BY <1>3, <1>4

LEMMA NextLocks == TaskInv /\ LockOwnerAlive /\ [Next]_vars => LockOwnerAlive'
  <1> SUFFICES ASSUME TaskInv, LockOwnerAlive, [Next]_vars PROVE LockOwnerAlive'
    OBVIOUS
  <1>0. ex = "NONE" => \A o \in Objs : \A l \in locks[o] : HasTask(o, l.by)
    BY DEF LockOwnerAlive, HasTask
  <1>1. CASE QuietStep /\ QuietLocks
    BY <1>0, <1>1 DEF QuietStep, QuietLocks, LockOwnerAlive, HasTask
  <1>2. CASE StartStep
    BY <1>0, <1>2 DEF StartStep, LockOwnerAlive, HasTask
  <1>3. CASE opcode
    <2>1. OpcodeStep
      BY <1>3, OpcodeSteps DEF TaskInv, CursorInv
    <2>2. \A e \in events : \E d \in events' : Same(d, e)
      BY <2>1, EventsFacts DEF OpcodeStep, TaskInv, CursorInv
    <2>3. \A e \in events : e.on # "sys" =>
            \E d \in events' : d.on # "sys" /\ d.f = e.f
      BY <2>2 DEF Same
    <2> SUFFICES ASSUME NEW o \in Objs, NEW l \in locks'[o]
                 PROVE  \/ ex' # "NONE" /\ frame'.this = o /\ frame'.msgid = l.by
                        \/ \E e \in events' : e.on # "sys" /\ e.f.this = o /\ e.f.msgid = l.by
      BY DEF LockOwnerAlive
    <2>4. l \in locks[o] \/ (o = frame.this /\ l.by = frame.msgid)
      BY <1>3, OpcodeLocks DEF TaskInv, CursorInv
    <2>5. QED
      BY <2>1, <2>3, <2>4 DEF OpcodeStep, SameFrame, LockOwnerAlive
  <1>4. CASE Tick
    BY <1>4, TickFrame DEF SameFrame, LockOwnerAlive
  <1>5. CASE UNCHANGED vars
    BY <1>5 DEF vars, queues, LockOwnerAlive
  <1>6. UNCHANGED locks => QuietLocks
    BY DEF QuietLocks
  <1>7. QED
    BY <1>1, <1>2, <1>3, <1>4, <1>5, <1>6, OtherSteps, EventStep, MessageStep, FinishLocks
       DEF Next, process_queues

LEMMA InitTask == Init => TaskInv
  BY InitType DEF Init, TaskInv, CursorInv, LoopInv, CursorValid, FrameInv, UniqueEvents

\* A lock never outlives the last task of the message id that placed it, although
\* at statements let several tasks share one id and kill() ends any of them.
THEOREM LocksHaveOwners == Spec => []LockOwnerAlive
  <1>1. Init => LockOwnerAlive
    BY DEF Init, LockOwnerAlive
  <1>2. QED
    BY <1>1, InitTask, NextTask, NextLocks, PTL DEF Spec

\* An operation removes locks only of its own method, or with the object.
LEMMA OpcodeKeeps ==
  ASSUME TypeOK, opcode, NEW o \in live', NEW l \in locks[o] \ locks'[o]
  PROVE  ex # "NONE" /\ frame.this = o /\ frame.msgid = l.by
  <1>0. /\ locks \in [Objs -> SUBSET Lock] /\ frame.this \in Objs /\ ex # "NONE"
        /\ live' \subseteq Objs
    BY OpcodeSteps, OpcodeType DEF TypeOK, Frame, OpcodeStep
  <1>1. CASE op_compute \/ op_fail \/ op_return
    BY <1>1 DEF op_compute, op_fail, op_return
  <1>2. CASE op_destroy
    BY <1>0, <1>2, PushedSame DEF op_destroy
  <1>3. ASSUME NEW k, op_raise(k) \/ op_kill(k) \/ op_disconnect(k) PROVE FALSE
    BY <1>3 DEF op_raise, op_kill, op_disconnect
  <1>4. ASSUME NEW d, NEW k, op_message(d, k) PROVE FALSE
    BY <1>4 DEF op_message
  <1>5. ASSUME NEW name, op_lock(name) PROVE FALSE
    BY <1>0, <1>5, PushedSame DEF op_lock
  <1>6. ASSUME NEW name, op_unlock(name)
        PROVE  ex # "NONE" /\ frame.this = o /\ frame.msgid = l.by
    BY <1>0, <1>6 DEF op_unlock, OwnLocks
  <1>7. ASSUME NEW r, NEW past, op_at(past) \/ op_sleep(r, past) PROVE FALSE
    BY <1>7 DEF op_at, op_sleep, Timer
  <1>8. QED
    BY <1>1, <1>2, <1>3, <1>4, <1>5, <1>6, <1>7 DEF opcode

\* As long as the cache evicts nothing, a lock disappears only while a task of its
\* own message id runs, or with its object.
THEOREM LocksKept ==
  ASSUME ~Evicts
  PROVE  Spec => LockKept
  <1> DEFINE Keeps == \A o \in live' : \A l \in locks[o] \ locks'[o] :
                         ex # "NONE" /\ frame.this = o /\ frame.msgid = l.by
  <1>1. TypeOK /\ CursorInv /\ TaskInv /\ [Next]_vars => [Keeps]_vars
    <2> SUFFICES ASSUME TypeOK, TaskInv, Next PROVE Keeps
      OBVIOUS
    <2>1. CASE UNCHANGED locks
      BY <2>1
    <2>2. CASE Environment
      BY <2>1, <2>2 DEF Environment, do_parse, disconnect_player, Evict,
                        RemoteCall, RemoteReply, receive_message, Input
    <2>3. CASE StartQueues \/ EndEvents \/ EndMsgs
      BY <2>1, <2>3 DEF StartQueues, EndEvents, EndMsgs
    <2>4. CASE process_event \/ process_message
      BY <2>1, <2>4, EventStep, MessageStep DEF StartStep
    <2>5. CASE opcode
      BY <2>5, OpcodeKeeps
    <2>6. CASE Tick
      BY <2>1, <2>6 DEF Tick
    <2>7. CASE Finish
      <3>1. locks \in [Objs -> SUBSET Lock] /\ live' \subseteq Objs
        BY <2>7 DEF Finish, TypeOK
      <3>2. QED
        BY <2>7, <3>1 DEF Finish
    <2>8. QED
      BY <2>2, <2>3, <2>4, <2>5, <2>6, <2>7 DEF Next, process_queues
  <1>2. TaskInv => TypeOK /\ CursorInv
    BY DEF TaskInv, CursorInv
  <1>3. QED
    BY <1>1, <1>2, InitTask, NextTask, PTL DEF Spec, LockKept
=============================================================================
