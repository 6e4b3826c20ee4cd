-------------------------- MODULE TasksReplyProofs --------------------------
(***************************************************************************)
(* Theorems about calls and their answers.                                 *)
(*                                                                         *)
(* find_reply() compares message ids and nothing else, and yet gives no    *)
(* event the answer to the call of another object.  No reply is dropped    *)
(* that an event waits for; and as long as no program sends the message    *)
(* "halt", each call to an object of this server is answered by someone.   *)
(* (A method that is halted answers nobody, and TLC shows that its caller  *)
(* then waits for ever.)                                                   *)
(*                                                                         *)
(* The answer to a call goes from hand to hand: the call on the queue, the *)
(* frame of the method, the events it waits in, the reply.  The invariants *)
(* say whose answer each of them carries, and which message the current    *)
(* step has taken, so that no hand is emptied before the next is filled.   *)
(***************************************************************************)
EXTENDS TasksProofs

\* Id b is a used one, and whoever waits for it is object o.
Fits(b, o) ==
    /\ b < next_msgid
    /\ \A e \in events : Awaiting(e) /\ e.bmsgid = b => Waiter(e) = o

\* A reply belongs to the one who waits for its id.  A program may send a reply of
\* its own making, and then waits for what it sent; hence m.from.
MessageFits(m) ==
    IF ISREPLY(m)
    THEN /\ m.msgid < next_msgid
         /\ \A e \in events : Awaiting(e) /\ e.bmsgid = m.msgid =>
               Waiter(e) \in {m.to, m.from}
    ELSE m.from \in Objs => Fits(m.msgid, m.from)

\* Ids are awaited once, and whatever will cause an answer to a local caller (a
\* call on the queue, the method being executed, a task that waits) knows its caller.
IdInv ==
    /\ \A e \in events : Awaiting(e) => e.bmsgid < next_msgid
    /\ \A e, d \in events : Awaiting(e) /\ Awaiting(d) /\ e.bmsgid = d.bmsgid => e = d
    /\ \A m \in msgs : MessageFits(m)
    /\ ex # "NONE" /\ frame.caller \in Objs => Fits(frame.msgid, frame.caller)
    /\ \A d \in events : d.on # "sys" /\ d.f.caller \in Objs =>
          Fits(d.f.msgid, d.f.caller)

\* A step that starts no wait, and adds nothing that does not fit.
TameStep ==
    /\ UNCHANGED next_msgid
    /\ \A d \in events' : Awaiting(d) => d \in events
    /\ \A d \in events' : d.on # "sys" /\ d.f.caller \in Objs =>
          Fits(d.f.msgid, d.f.caller)
    /\ \A m \in msgs' : MessageFits(m)
    /\ ex' # "NONE" /\ frame'.caller \in Objs => Fits(frame'.msgid, frame'.caller)

LEMMA TameInv ==
  ASSUME IdInv, TameStep
  PROVE  IdInv'
  <1>1. ASSUME NEW b, NEW o, Fits(b, o)
        PROVE  /\ b < next_msgid'
               /\ \A e \in events' : Awaiting(e) /\ e.bmsgid = b => Waiter(e) = o
    BY <1>1 DEF TameStep, Fits
  <1>2. ASSUME NEW m \in msgs', MessageFits(m) PROVE MessageFits(m)'
    <2>1. CASE ISREPLY(m)
      BY <1>2, <2>1 DEF MessageFits, TameStep
    <2>2. CASE ~ISREPLY(m)
      BY <1>1, <1>2, <2>2 DEF MessageFits, Fits
    <2>3. QED
      BY <2>1, <2>2
  <1>3. \A m \in msgs' : MessageFits(m)'
    BY <1>2 DEF TameStep
  <1>4. ex' # "NONE" /\ frame'.caller \in Objs => Fits(frame.msgid, frame.caller)'
    BY <1>1 DEF TameStep, Fits
  <1>5. \A d \in events' : d.on # "sys" /\ d.f.caller \in Objs =>
          Fits(d.f.msgid, d.f.caller)'
    BY <1>1 DEF TameStep, Fits
  <1>6. QED
    BY <1>3, <1>4, <1>5 DEF IdInv, TameStep

\* An answer fits if the frame it answers for does.
LEMMA AnswerFits ==
  ASSUME IdInv, NEW f, NEW k \in Replies, NEW keep \in SUBSET msgs,
         SendAnswer(f, k, keep), f.caller \in Objs => Fits(f.msgid, f.caller)
  PROVE  \A m \in msgs' : MessageFits(m)
  <1>1. f.caller \in Objs => MessageFits(Answer(f, k))
    BY DEF Answer, MessageFits, Fits, ISREPLY
  <1>2. QED
    BY <1>1 DEF SendAnswer, IdInv

LEMMA RaiseFits ==
  ASSUME IdInv, NEW f, raise(f), f.caller \in Objs => Fits(f.msgid, f.caller)
  PROVE  \A m \in msgs' : MessageFits(m)
  <1>1. CASE f.ign
    BY <1>1 DEF raise, IdInv
  <1>2. CASE ~f.ign
    BY <1>2, AnswerFits DEF raise, Replies
  <1>3. QED
    BY <1>1, <1>2

LEMMA ResumeTame ==
  ASSUME IdInv, NEW e \in events, e.on # "sys", NEW f, NEW x, Resume(f, x),
         f.msgid = e.f.msgid, f.caller = e.f.caller,
         \A m \in msgs' : MessageFits(m)
  PROVE  TameStep
  BY DEF Resume, TameStep, IdInv

LEMMA ResumeRaiseTame ==
  ASSUME IdInv, NEW e \in events, e.on # "sys", NEW f, NEW k \in {"raise", "ticks"},
         ResumeRaise(f, k), f.msgid = e.f.msgid, f.caller = e.f.caller
  PROVE  TameStep
  <1>1. f.caller \in Objs => Fits(f.msgid, f.caller)
    BY DEF IdInv
  <1>2. CASE k = "raise" /\ f.ign
    <2>1. UNCHANGED msgs
      BY <1>2 DEF ResumeRaise
    <2>2. QED
      BY <1>2, <2>1, ResumeTame DEF ResumeRaise, IdInv
  <1>3. CASE ~(k = "raise" /\ f.ign)
    <2>1. \A m \in msgs' : MessageFits(m)
      BY <1>1, <1>3, AnswerFits DEF ResumeRaise, Replies
    <2>2. QED
      BY <1>3, <2>1, ResumeTame DEF ResumeRaise
  <1>4. QED
    BY <1>2, <1>3

\* The queues, the frame and the state of execute() are left alone.
LEMMA QuietTame ==
  ASSUME IdInv, UNCHANGED <<events, next_msgid, frame, ex>>, msgs' \subseteq msgs
  PROVE  TameStep
  BY DEF TameStep, IdInv

LEMMA EventTame ==
  ASSUME TypeOK, IdInv, process_event
  PROVE  TameStep
  <1> PICK e \in events : \/ process_message_event(e) \/ process_lock_event(e)
                          \/ process_timer_event(e) \/ process_sys_message_event(e)
                          \/ process_dead_event(e)
    BY DEF process_event
  <1>1. CASE Skip(events)
    BY <1>1, QuietTame DEF Skip, queues
  <1>2. ASSUME NEW f, NEW x, Resume(f, x), UNCHANGED msgs, e.on # "sys",
               f.msgid = e.f.msgid, f.caller = e.f.caller
        PROVE  TameStep
    BY <1>2, ResumeTame DEF IdInv
  <1>3. CASE process_message_event(e)
    <2>1. ASSUME NEW m, m.kind \in Kinds, LET f == [e.f EXCEPT !.ticks = m.ticks] IN
                   \/ Resume(f, "RUNNING") /\ UNCHANGED <<msgs, serial>>
                   \/ Resume(f, "HALTED") /\ UNCHANGED <<msgs, serial>>
                   \/ m.kind \in {"raise", "ticks"} /\ ResumeRaise(f, m.kind)
          PROVE  TameStep
      <3> DEFINE f == [e.f EXCEPT !.ticks = m.ticks]
      <3>1. f.msgid = e.f.msgid /\ f.caller = e.f.caller
        BY DEF TypeOK, Event, Frame
      <3>2. e.on # "sys"
        BY <1>3 DEF process_message_event
      <3>3. \/ Resume(f, "RUNNING") /\ UNCHANGED msgs
            \/ Resume(f, "HALTED") /\ UNCHANGED msgs
            \/ m.kind \in {"raise", "ticks"} /\ ResumeRaise(f, m.kind)
        BY <2>1
      <3> HIDE DEF f
      <3>4. QED
        BY <1>2, <3>1, <3>2, <3>3, ResumeRaiseTame
    <2>2. \A m \in msgs : m.kind \in Kinds
      BY DEF TypeOK, Message
    <2>3. CASE ResumeRaise(e.f, "raise")
      BY <1>3, <2>3, ResumeRaiseTame DEF process_message_event
    <2>4. QED
      BY <1>1, <1>3, <2>1, <2>2, <2>3 DEF process_message_event, find_reply
  <1>4. CASE process_lock_event(e)
    <2>1. e.on # "sys"
      BY <1>4 DEF process_lock_event
    <2>2. CASE UNCHANGED <<queues, frame, ex>>
      BY <2>2, QuietTame DEF queues
    <2>3. QED
      BY <1>1, <1>2, <1>4, <2>1, <2>2, ResumeRaiseTame DEF process_lock_event, resume_method
  <1>5. CASE process_timer_event(e)
    BY <1>1, <1>2, <1>5 DEF process_timer_event, resume_method
  <1>6. CASE process_sys_message_event(e) /\ ~Skip(events)
    <2>1. events' \subseteq events /\ msgs' \subseteq msgs
          /\ UNCHANGED <<next_msgid, frame, ex>>
      BY <1>6 DEF process_sys_message_event
    <2>2. QED
      BY <2>1 DEF TameStep, IdInv
  <1>7. CASE process_dead_event(e)
    BY <1>7, ResumeRaiseTame DEF process_dead_event
  <1>8. QED
    BY <1>1, <1>3, <1>4, <1>5, <1>6, <1>7

LEMMA MessageTame ==
  ASSUME TypeOK, IdInv, process_message
  PROVE  TameStep
  <1> PICK m \in msgs : \/ PassReply(m)
                        \/ \E k \in {"raise", "return"} : Refuse(m, k)
                        \/ \E ign \in Igns : call_method(m, ign)
    BY DEF process_message
  <1>1. CASE PassReply(m)
    BY <1>1, QuietTame DEF PassReply, Skip, queues
  <1>2. ~ISREPLY(m) => (m.from \in Objs => Fits(m.msgid, m.from))
    BY DEF IdInv, MessageFits
  <1>3. ASSUME NEW k \in {"raise", "return"}, Refuse(m, k) PROVE TameStep
    <2>1. FrameOf(m, FALSE).caller = m.from /\ FrameOf(m, FALSE).msgid = m.msgid
      BY DEF FrameOf
    <2>2. /\ SendAnswer(FrameOf(m, FALSE), k, msgs \ {m}) /\ ~ISREPLY(m)
          /\ k \in Replies /\ msgs \ {m} \in SUBSET msgs
      BY <1>3 DEF Refuse, Replies
    <2>3. \A x \in msgs' : MessageFits(x)
      BY <1>2, <2>1, <2>2, AnswerFits
    <2>4. QED
      BY <1>3, <2>3 DEF Refuse, TameStep, IdInv
  <1>4. ASSUME NEW ign, call_method(m, ign) PROVE TameStep
    <2>1. frame'.caller = m.from /\ frame'.msgid = m.msgid
      BY <1>4 DEF call_method, FrameOf
    <2>2. QED
      BY <1>2, <1>4, <2>1 DEF call_method, queues, TameStep, IdInv
  <1>5. QED
    BY <1>1, <1>3, <1>4

-----------------------------------------------------------------------------

\* The frame of a running method fits after the pushes of an operation.
LEMMA PushedFits ==
  ASSUME TypeOK, IdInv, ex # "NONE"
  PROVE  Pushed.caller \in Objs => Fits(Pushed.msgid, Pushed.caller)
  BY PushedSame DEF IdInv

\* Every operation that makes no new id.
LEMMA OpcodeTame ==
  ASSUME TypeOK, IdInv, opcode,
         \A d \in Dests, k \in Sends : ~op_message(d, k),
         \A o \in Objs : ~Notify(o)
  PROVE  TameStep
  <1>0. OpcodeStep
    BY OpcodeSteps
  <1>1. /\ ex = "RUNNING" /\ SameFrame
        /\ \A d \in events' : \/ \E e \in events : Same(d, e)
                              \/ OfFrame(d)
    BY <1>0, EventsFacts DEF OpcodeStep
  <1>2. \A d \in events' : d.on # "sys" /\ d.f.caller \in Objs =>
          Fits(d.f.msgid, d.f.caller)
    BY <1>1 DEF IdInv, Same, OfFrame
  <1>3. frame'.caller \in Objs => Fits(frame'.msgid, frame'.caller)
    BY <1>1 DEF SameFrame, IdInv
  <1>4. /\ UNCHANGED next_msgid
        /\ \A m \in msgs' : MessageFits(m)
        /\ \A d \in events' : Awaiting(d) => d \in events
    <2> DEFINE Goal == /\ UNCHANGED next_msgid
                       /\ \A m \in msgs' : MessageFits(m)
                       /\ \A d \in events' : Awaiting(d) => d \in events
    <2>0. \A m \in msgs : MessageFits(m)
      BY DEF IdInv
    <2>p. Pushed.caller \in Objs => Fits(Pushed.msgid, Pushed.caller)
      BY <1>1, PushedFits
    <2>1. CASE op_compute \/ op_return
      BY <2>0, <2>1 DEF op_compute, op_return, queues
    <2>d. CASE op_destroy
      <3>1. Pushed.this \in Objs
        BY PushedType DEF Frame
      <3>2. QED
        BY <2>0, <2>d, <3>1 DEF op_destroy, queues
    <2>2. CASE op_fail
      BY <2>2, <2>p, RaiseFits DEF op_fail
    <2>3. ASSUME NEW k \in {"raise", "ticks"}, op_raise(k) PROVE Goal
      BY <2>3, <2>p, AnswerFits DEF op_raise, Replies
    <2>4. ASSUME NEW name, op_lock(name) PROVE Goal
      BY <2>0, <2>4 DEF op_lock, Awaiting
    <2>5. ASSUME NEW name, op_unlock(name) PROVE Goal
      BY <2>0, <2>5 DEF op_unlock, queues
    <2>6. ASSUME NEW f, NEW past, Timer(f, past) PROVE Goal
      BY <2>0, <2>6 DEF Timer, Awaiting
    <2>7. ASSUME NEW r, NEW past, op_at(past) \/ op_sleep(r, past) PROVE Goal
      BY <2>6, <2>7 DEF op_at, op_sleep
    <2>8. ASSUME NEW pid, op_kill(pid) PROVE Goal
      <3>1. \A m \in msgs' : MessageFits(m)
        BY <2>0, <2>8, <2>p, RaiseFits DEF op_kill
      <3>2. \A e \in events : \A d \in Killed(e) : ~Awaiting(d)
        BY DEF Killed, Awaiting, TypeOK, Event
      <3>3. QED
        BY <2>8, <3>1, <3>2 DEF op_kill
    <2>9. QED
      BY <2>1, <2>d, <2>2, <2>3, <2>4, <2>5, <2>7, <2>8 DEF opcode, op_disconnect
  <1>5. QED
    BY <1>2, <1>3, <1>4 DEF TameStep

\* send_message() uses a new id, so that nothing that is around can fit it by
\* accident.
LEMMA MessageOpId ==
  ASSUME TypeOK, TypeOK', IdInv, NEW d \in Dests, NEW k \in Sends, op_message(d, k)
  PROVE  IdInv'
  <1>0. ex = "RUNNING" /\ SameFrame /\ next_msgid \in Nat
    BY OpStep DEF op_message, TypeOK
  <1>p. Pushed.caller \in Objs => Fits(Pushed.msgid, Pushed.caller)
    BY <1>0, PushedFits
  <1>1. CASE UNCHANGED events /\ raise(Pushed)
    <2>1. \A m \in msgs' : MessageFits(m)
      BY <1>1, <1>p, RaiseFits
    <2>2. next_msgid' \in {next_msgid, next_msgid + 1}
      BY DEF op_message, NewId
    <2>3. \A e \in events : Awaiting(e) => e.bmsgid \in Nat
      BY DEF TypeOK, Event
    <2>4. \A m \in msgs' : m.msgid \in Nat
      BY DEF TypeOK, Message
    <2>5. ASSUME NEW b \in Nat, NEW o, Fits(b, o) PROVE Fits(b, o)'
      BY <1>0, <1>1, <2>2, <2>5 DEF Fits, Awaiting, Waiter
    <2>6. \A m \in msgs' : MessageFits(m)'
      <3> TAKE m \in msgs'
      <3>1. CASE ISREPLY(m)
        BY <1>0, <1>1, <2>1, <2>2, <2>4, <3>1 DEF MessageFits, Awaiting, Waiter
      <3>2. CASE ~ISREPLY(m)
        BY <2>1, <2>4, <2>5, <3>2 DEF MessageFits
      <3>3. QED
        BY <3>1, <3>2
    <2>7. \A e \in events : e.on # "sys" /\ e.f.caller \in Objs =>
            Fits(e.f.msgid, e.f.caller)'
      BY <2>5 DEF IdInv, TypeOK, Event, Frame
    <2>8. frame'.caller \in Objs => Fits(frame.msgid, frame.caller)'
      <3> PICK i, c : i = frame.msgid /\ c = frame.caller
        OBVIOUS
      <3>1. i \in Nat /\ (c \in Objs => Fits(i, c))
        BY <1>0 DEF IdInv, TypeOK, Frame
      <3>2. frame'.msgid = i /\ frame'.caller = c /\ (c \in Objs => Fits(i, c)')
        BY <1>0, <2>5, <3>1 DEF SameFrame
      <3>3. QED
        BY <3>2 DEF Fits
    <2>9. QED
      BY <1>0, <1>1, <2>2, <2>3, <2>6, <2>7, <2>8 DEF IdInv, Awaiting
  <1>2. CASE ~(UNCHANGED events /\ raise(Pushed))
    <2> PICK w : w = Waiting(d)
      OBVIOUS
    <2> PICK r : r = Request(d, k)
      OBVIOUS
    <2> PICK b : b = next_msgid
      OBVIOUS
    <2> PICK o : o = frame.this
      OBVIOUS
    <2>1. /\ events' = events \cup {w} /\ next_msgid' = b + 1 /\ b \in Nat
          /\ msgs' \subseteq msgs \cup {r} /\ ex' = "BLOCKED"
      BY <1>0, <1>2 DEF op_message, NewId
    <2>2. /\ w.on = "message" /\ w.bmsgid = b /\ w.f.this = o
          /\ w.f.msgid = frame.msgid /\ w.f.caller = frame.caller
          /\ r.msgid = b /\ r.from = o
      BY PushedSame DEF Waiting, Request
    <2>3. \A e \in events : Awaiting(e) => e.bmsgid < b
      BY DEF IdInv
    <2>4. ASSUME NEW i \in Nat, NEW c, Fits(i, c) PROVE Fits(i, c)'
      BY <2>1, <2>2, <2>4 DEF Fits
    <2>5. Fits(b, o)'
      BY <2>1, <2>2, <2>3 DEF Fits, Awaiting, Waiter, TypeOK, Event
    <2>6. \A m \in msgs : MessageFits(m)'
      <3> TAKE m \in msgs
      <3>0. m.msgid \in Nat /\ MessageFits(m)
        BY DEF TypeOK, Message, IdInv
      <3>1. CASE ISREPLY(m)
        BY <2>1, <2>2, <3>0, <3>1 DEF MessageFits
      <3>2. CASE ~ISREPLY(m)
        BY <2>4, <3>0, <3>2 DEF MessageFits
      <3>3. QED
        BY <3>1, <3>2
    <2>7. MessageFits(r)'
      BY <2>2, <2>5 DEF MessageFits, Fits
    <2>8. \A e \in events : e.on # "sys" /\ e.f.caller \in Objs =>
            Fits(e.f.msgid, e.f.caller)'
      BY <2>4 DEF IdInv, TypeOK, Event, Frame
    <2>9. frame.caller \in Objs => Fits(w.f.msgid, w.f.caller)'
      <3>1. frame.caller \in Objs => Fits(w.f.msgid, w.f.caller)
        BY <1>0, <2>2 DEF IdInv
      <3>2. w.f.msgid \in Nat
        BY <2>2 DEF TypeOK, Frame
      <3>3. QED
        BY <2>4, <3>1, <3>2
    <2>10. frame'.caller \in Objs => Fits(frame.msgid, frame.caller)'
      <3>1. frame'.msgid = w.f.msgid /\ frame'.caller = w.f.caller
        BY <1>0, <2>2 DEF SameFrame
      <3>2. QED
        BY <2>2, <2>9, <3>1 DEF Fits
    <2>11. \A e \in events' : e.on # "sys" /\ e.f.caller \in Objs =>
             Fits(e.f.msgid, e.f.caller)'
      BY <2>1, <2>2, <2>8, <2>9
    <2>12. \A e \in events' : Awaiting(e) => e.bmsgid < next_msgid'
      BY <2>1, <2>2, <2>3 DEF TypeOK, Event
    <2>13. \A e, c \in events' : Awaiting(e) /\ Awaiting(c) /\ e.bmsgid = c.bmsgid => e = c
      BY <2>1, <2>2, <2>3 DEF IdInv, TypeOK, Event
    <2>14. QED
      BY <2>1, <2>6, <2>7, <2>10, <2>11, <2>12, <2>13 DEF IdInv, Awaiting
  <1>3. QED
    BY <1>1, <1>2

-----------------------------------------------------------------------------

\* A command of a player is a call of its own id, for which the system waits.
LEMMA ParseId ==
  ASSUME TypeOK, TypeOK', IdInv, ex = "NONE", NEW o \in Objs, do_parse(o)
  PROVE  IdInv'
  <1> PICK b : b = next_msgid
    OBVIOUS
  <1> PICK w : w = [n |-> serial + 1, on |-> "sys", f |-> Blank,
                    bmsgid |-> next_msgid, dest |-> o, lock |-> AnyName]
    OBVIOUS
  <1> PICK r : r = [n |-> serial, msgid |-> next_msgid, kind |-> "call",
                    age |-> 0, ticks |-> 0, from |-> o, to |-> o]
    OBVIOUS
  <1>1. /\ events' = events \cup {w} /\ msgs' = msgs \cup {r}
        /\ next_msgid' = b + 1 /\ b \in Nat /\ ex' = "NONE"
    BY DEF do_parse, Input, NewId, TypeOK
  <1>2. /\ w.on = "sys" /\ w.bmsgid = b /\ w.dest = o
        /\ r.msgid = b /\ r.from = o /\ r.kind = "call"
    OBVIOUS
  <1>3. \A e \in events : Awaiting(e) => e.bmsgid < b
    BY DEF IdInv
  <1>4. ASSUME NEW i \in Nat, NEW c, Fits(i, c) PROVE Fits(i, c)'
    BY <1>1, <1>2, <1>4 DEF Fits
  <1>5. Fits(b, o)'
    BY <1>1, <1>2, <1>3 DEF Fits, Awaiting, Waiter, TypeOK, Event
  <1>6. \A m \in msgs : MessageFits(m)'
    <2> TAKE m \in msgs
    <2>0. m.msgid \in Nat /\ MessageFits(m)
      BY DEF TypeOK, Message, IdInv
    <2>1. CASE ISREPLY(m)
      BY <1>1, <1>2, <2>0, <2>1 DEF MessageFits
    <2>2. CASE ~ISREPLY(m)
      BY <1>4, <2>0, <2>2 DEF MessageFits
    <2>3. QED
      BY <2>1, <2>2
  <1>7. MessageFits(r)'
    BY <1>2, <1>5 DEF MessageFits, ISREPLY, Replies
  <1>8. \A e \in events' : e.on # "sys" /\ e.f.caller \in Objs =>
          Fits(e.f.msgid, e.f.caller)'
    BY <1>1, <1>2, <1>4 DEF IdInv, TypeOK, Event, Frame
  <1>9. \A e \in events' : Awaiting(e) => e.bmsgid < next_msgid'
    BY <1>1, <1>2, <1>3 DEF TypeOK, Event
  <1>10. \A e, c \in events' : Awaiting(e) /\ Awaiting(c) /\ e.bmsgid = c.bmsgid => e = c
    BY <1>1, <1>2, <1>3 DEF IdInv, TypeOK, Event
  <1>11. QED
    BY <1>1, <1>6, <1>7, <1>8, <1>9, <1>10 DEF IdInv, Awaiting

\* The end of a connection is a call of a new id, for which nobody waits.
LEMMA NotifyId ==
  ASSUME TypeOK, TypeOK', IdInv, NEW o \in Objs, Notify(o),
         ex' # "NONE" => ex # "NONE" /\ SameFrame
  PROVE  IdInv'
  <1> PICK b : b = next_msgid
    OBVIOUS
  <1> PICK r : r = [n |-> serial, msgid |-> next_msgid, kind |-> "call",
                    age |-> 0, ticks |-> 0, from |-> o, to |-> o]
    OBVIOUS
  <1>1. /\ events' = events /\ msgs' = msgs \cup {r}
        /\ next_msgid' = b + 1 /\ b \in Nat
    BY DEF Notify, NewId, TypeOK
  <1>2. r.msgid = b /\ r.from = o /\ r.kind = "call"
    OBVIOUS
  <1>3. \A e \in events : Awaiting(e) => e.bmsgid < b /\ e.bmsgid \in Nat
    BY DEF IdInv, TypeOK, Event
  <1>4. ASSUME NEW i \in Nat, NEW c, Fits(i, c) PROVE Fits(i, c)'
    BY <1>1, <1>4 DEF Fits
  <1>5. Fits(b, o)'
    BY <1>1, <1>3 DEF Fits, Awaiting
  <1>6. \A m \in msgs : MessageFits(m)'
    <2> TAKE m \in msgs
    <2>0. m.msgid \in Nat /\ MessageFits(m)
      BY DEF TypeOK, Message, IdInv
    <2>1. CASE ISREPLY(m)
      BY <1>1, <2>0, <2>1 DEF MessageFits
    <2>2. CASE ~ISREPLY(m)
      BY <1>4, <2>0, <2>2 DEF MessageFits
    <2>3. QED
      BY <2>1, <2>2
  <1>7. MessageFits(r)'
    BY <1>2, <1>5 DEF MessageFits, ISREPLY, Replies
  <1>8. \A e \in events' : e.on # "sys" /\ e.f.caller \in Objs =>
          Fits(e.f.msgid, e.f.caller)'
    BY <1>1, <1>4 DEF IdInv, TypeOK, Event, Frame
  <1>9. ex' # "NONE" /\ frame'.caller \in Objs => Fits(frame.msgid, frame.caller)'
    <2> PICK i, c : i = frame.msgid /\ c = frame.caller
      OBVIOUS
    <2>1. i \in Nat /\ (ex # "NONE" /\ c \in Objs => Fits(i, c))
      BY DEF IdInv, TypeOK, Frame
    <2>2. ex' # "NONE" => /\ frame'.msgid = i /\ frame'.caller = c
                          /\ (c \in Objs => Fits(i, c)')
      BY <1>4, <2>1 DEF SameFrame
    <2>3. QED
      BY <2>2 DEF Fits
  <1>10. QED
    BY <1>1, <1>3, <1>6, <1>7, <1>8, <1>9 DEF IdInv, Awaiting

LEMMA RemoteTame ==
  ASSUME TypeOK, IdInv, NEW r \in Remotes, NEW o \in Objs
  PROVE  /\ \A id : RemoteCall(r, o, id) => TameStep
         /\ \A id, k : RemoteReply(r, o, id, k) /\ k \in Replies => TameStep
  <1>1. ASSUME NEW m, receive_message(m), MessageFits(m) PROVE TameStep
    BY <1>1 DEF receive_message, Input, TameStep, IdInv
  <1>2. ASSUME NEW id, RemoteCall(r, o, id) PROVE TameStep
    <2> DEFINE m == [n |-> serial, msgid |-> id, kind |-> "call", age |-> 0,
                     ticks |-> 0, from |-> r, to |-> o]
    <2>1. MessageFits(m)
      BY TasksAssumption DEF MessageFits, ISREPLY, Replies
    <2> HIDE DEF m
    <2>2. QED
      BY <1>1, <1>2, <2>1 DEF RemoteCall, m
  <1>3. ASSUME NEW id, NEW k, RemoteReply(r, o, id, k), k \in Replies PROVE TameStep
    <2> DEFINE m == [n |-> serial, msgid |-> id, kind |-> k, age |-> 0,
                     ticks |-> 0, from |-> r, to |-> o]
    <2>1. MessageFits(m)
      BY <1>3 DEF RemoteReply, MessageFits, ISREPLY, Awaiting, Waiter
    <2> HIDE DEF m
    <2>2. QED
      BY <1>1, <1>3, <2>1 DEF RemoteReply, m
  <1>4. QED
    BY <1>2, <1>3

LEMMA TickTame ==
  ASSUME TypeOK, IdInv, LoopInv, Tick
  PROVE  TameStep
  <1> DEFINE f == [frame EXCEPT !.ticks = @ + 1]
  <1>1. f.msgid = frame.msgid /\ f.caller = frame.caller
    BY DEF TypeOK, Frame
  <1>2. frame' = f /\ (SendAnswer(f, "ticks", msgs) \/ UNCHANGED msgs)
        /\ UNCHANGED <<events, next_msgid>> /\ ex # "NONE"
    BY DEF Tick, LoopInv
  <1> HIDE DEF f
  <1>3. f.caller \in Objs => Fits(f.msgid, f.caller)
    BY <1>1, <1>2 DEF IdInv
  <1>4. \A m \in msgs' : MessageFits(m)
    BY <1>2, <1>3, AnswerFits DEF Replies, IdInv
  <1>5. QED
    BY <1>2, <1>3, <1>4 DEF TameStep, IdInv

LEMMA FinishTame ==
  ASSUME IdInv, Finish
  PROVE  TameStep
  <1>1. /\ events' \subseteq events /\ ex' = "NONE" /\ ex # "NONE" /\ UNCHANGED next_msgid
        /\ \/ SendAnswer(frame, "return", {m \in msgs : m.n # reply /\ (phase = "msgs" => m.n # cur)})
           \/ msgs' \subseteq msgs
    BY DEF Finish
  <1>2. frame.caller \in Objs => Fits(frame.msgid, frame.caller)
    BY <1>1 DEF IdInv
  <1>3. \A m \in msgs' : MessageFits(m)
    BY <1>1, <1>2, AnswerFits DEF Replies, IdInv
  <1>4. QED
    BY <1>1, <1>3 DEF TameStep, IdInv

LEMMA NextId == TypeOK /\ LoopInv /\ IdInv /\ TypeOK' /\ [Next]_vars => IdInv'
  <1> SUFFICES ASSUME TypeOK, LoopInv, IdInv, TypeOK', [Next]_vars PROVE IdInv'
    OBVIOUS
  <1>1. ASSUME NEW o \in Objs, do_parse(o) PROVE IdInv'
    BY <1>1, ParseId DEF do_parse, Input, LoopInv
  <1>n. ASSUME NEW o \in Objs, disconnect_player(o) PROVE IdInv'
    BY <1>n, NotifyId DEF disconnect_player, Input, LoopInv
  <1>2. ASSUME NEW o \in Objs, Evict(o) PROVE IdInv'
    BY <1>2, QuietTame, TameInv DEF Evict, queues
  <1>3. ASSUME NEW r \in Remotes, NEW o \in Objs,
               \/ \E id \in RemoteIds : RemoteCall(r, o, id)
               \/ \E id \in 0 .. next_msgid, k \in Answers : RemoteReply(r, o, id, k)
        PROVE  IdInv'
    BY <1>3, RemoteTame, TameInv DEF Answers, Replies
  <1>4. CASE StartQueues \/ EndEvents \/ EndMsgs
    BY <1>4, QuietTame, TameInv DEF StartQueues, EndEvents, EndMsgs, queues
  <1>5. CASE process_event \/ process_message
    BY <1>5, EventTame, MessageTame, TameInv
  <1>6. CASE opcode
    <2>1. ASSUME NEW o \in Objs, Notify(o) PROVE IdInv'
      BY <1>6, <2>1, OpcodeSteps, NotifyId DEF OpcodeStep
    <2>2. QED
      BY <1>6, <2>1, OpcodeTame, MessageOpId, TameInv
  <1>7. CASE Tick \/ Finish
    BY <1>7, TickTame, FinishTame, TameInv
  <1>8. CASE UNCHANGED vars
    BY <1>8, QuietTame, TameInv DEF vars, queues
  <1>9. QED
    BY <1>1, <1>n, <1>2, <1>3, <1>4, <1>5, <1>6, <1>7, <1>8
       DEF Next, Environment, process_queues

\* A reply is taken only by the object that made the call or sent the message: no
\* two events wait for the same id, and calls from other servers, whose ids come
\* from other counters, never produce a reply on the local queue.
THEOREM RepliesMatch == Spec => []RightReply
  <1>1. Init => TypeOK /\ LoopInv /\ IdInv
    BY InitType DEF Init, LoopInv, IdInv
  <1>2. IdInv => RightReply
    BY DEF IdInv, RightReply, MessageFits, find_reply
  <1>3. Spec => [](TypeOK /\ LoopInv /\ CursorValid)
    <2>1. Init => CursorInv
      BY InitTask DEF TaskInv
    <2>2. CursorInv => TypeOK /\ LoopInv /\ CursorValid
      BY DEF CursorInv
    <2>3. QED
      BY <2>1, <2>2, NextCursor, PTL DEF Spec
  <1>4. QED
    BY <1>1, <1>2, <1>3, NextId, PTL DEF Spec

-----------------------------------------------------------------------------
(* No reply is dropped that an event waits for.                            *)

\* The events that the walk has passed, if it has handled nothing so far.
Passed(e) == phase = "msgs" \/ (phase = "events" /\ (cur = 0 \/ e.n < cur))

SeenInv ==
    /\ \A e \in events : 0 < e.n
    /\ ex = "NONE" /\ ~handled =>
          \A e \in events : Awaiting(e) /\ Passed(e) => find_reply(e) = {}

\* The first cell of the list comes next.
LEMMA NothingPassed ==
  ASSUME TypeOK, SeenInv, UNCHANGED events, phase' = "events",
         NEW k \in Serials(events), Follows(k, 0, events), cur' = k
  PROVE  \A e \in events : ~Passed(e)'
  <1>1. k \in Nat /\ \A e \in events : e.n \in Nat /\ 0 < e.n
    BY FollowsType DEF TypeOK, Event, SeenInv
  <1>2. \A e \in events : k # 0 /\ ~(e.n < k)
    BY <1>1 DEF Follows
  <1>3. QED
    BY <1>2 DEF Passed

LEMMA EventBirth ==
  ASSUME TaskInv, SeenInv, [Next]_vars
  PROVE  \A e \in events' : 0 < e.n
  <1>1. serial \in Nat /\ serial > 0 /\ TypeOK /\ \A e \in events : 0 < e.n
    BY DEF TaskInv, CursorInv, FrameInv, TypeOK, SeenInv
  <1>2. CASE Environment \/ StartQueues \/ EndEvents \/ EndMsgs \/ process_event
             \/ process_message
    <2>1. QuietStep \/ UNCHANGED events
      BY <1>2, OtherSteps, EventStep, MessageStep DEF StartStep
    <2>2. CASE QuietStep
      <3>1. \A d \in events' : d \in events \/ d.n >= serial
        BY <2>2 DEF QuietStep
      <3>2. TypeOK'
        BY <1>1, <1>2, NextType DEF Next, process_queues
      <3>3. \A d \in events' : d.n \in Nat
        BY <3>2 DEF TypeOK, Event
      <3>4. QED
        BY <1>1, <3>1, <3>3
    <2>3. QED
      BY <1>1, <2>1, <2>2
  <1>3. CASE opcode
    <2>1. \A d \in events' : (\E e \in events : Same(d, e)) \/ d.n >= serial
      BY <1>1, <1>3, OpcodeSteps, EventsFacts DEF OpcodeStep
    <2>2. TypeOK'
      BY <1>1, <1>3, NextType DEF Next, process_queues
    <2>3. \A d \in events' : d.n \in Nat
      BY <2>2 DEF TypeOK, Event
    <2>4. QED
      BY <1>1, <2>1, <2>3 DEF Same
  <1>4. CASE Tick \/ Finish
    BY <1>1, <1>4 DEF Tick, Finish
  <1>5. CASE UNCHANGED vars
    BY <1>1, <1>5 DEF vars, queues
  <1>6. QED
    BY <1>2, <1>3, <1>4, <1>5 DEF Next, process_queues

\* The walk goes on from an event that has no reply.
LEMMA SkipSeen ==
  ASSUME TaskInv, SeenInv, NEW e \in events, At(e), Skip(events),
         Awaiting(e) => find_reply(e) = {}
  PROVE  SeenInv'
  <1>1. /\ ex = "NONE" /\ phase = "events" /\ e.n = cur /\ 0 < e.n
        /\ UNCHANGED <<events, msgs, handled, ex, phase>>
    BY DEF At, SeenInv, Skip, queues
  <1>2. \A x \in events : x.n \in Nat /\ (x.n = cur => x = e)
    BY <1>1 DEF TaskInv, CursorInv, TypeOK, Event, UniqueEvents
  <1>3. \A x \in events : Passed(x)' => x = e \/ Passed(x)
    <2>1. \A x \in events : cur' = 0 \/ x.n < cur' => x.n <= cur
      BY <1>1, <1>2 DEF Skip, Follows
    <2>2. cur \in Nat
      BY DEF TaskInv, CursorInv, TypeOK
    <2>3. QED
      BY <1>1, <1>2, <2>1, <2>2 DEF Passed
  <1>4. ~handled => \A x \in events : Awaiting(x) /\ Passed(x)' => find_reply(x)' = {}
    BY <1>1, <1>3 DEF SeenInv, find_reply
  <1>5. QED
    BY <1>1, <1>4 DEF SeenInv

LEMMA NextSeen ==
  ASSUME TaskInv, SeenInv, [Next]_vars
  PROVE  SeenInv'
  <1>1. \A e \in events' : 0 < e.n
    BY EventBirth
  <1>2. ex' # "NONE" \/ handled' \/ phase' \notin {"events", "msgs"} => SeenInv'
    BY <1>1 DEF SeenInv, Passed
  <1>3. CASE UNCHANGED <<events, msgs, handled, ex, phase, cur>>
    BY <1>3 DEF SeenInv, Passed, find_reply
  <1>4. CASE Environment
    <2>1. phase' = "idle"
      BY <1>4 DEF Environment, do_parse, disconnect_player, Evict, RemoteCall, RemoteReply,
                  receive_message, Input, loop
    <2>2. QED
      BY <1>2, <2>1
  <1>5. CASE StartQueues \/ (EndMsgs /\ Again)
    <2>1. UNCHANGED events /\ phase' = "events"
          /\ \E k \in Serials(events) : Follows(k, 0, events) /\ cur' = k
      BY <1>5 DEF StartQueues, EndMsgs, queues
    <2>2. \A e \in events' : ~Passed(e)'
      BY <2>1, NothingPassed DEF TaskInv, CursorInv
    <2>3. QED
      BY <1>1, <2>2 DEF SeenInv
  <1>6. CASE EndMsgs /\ ~Again
    BY <1>2, <1>6 DEF EndMsgs
  <1>7. CASE EndEvents
    <2>1. /\ ex = "NONE" /\ phase = "events" /\ cur = 0
          /\ UNCHANGED <<events, msgs, handled, ex>>
      BY <1>7 DEF EndEvents, queues
    <2>2. QED
      BY <1>1, <2>1 DEF SeenInv, Passed, find_reply
  <1>8. ASSUME NEW e \in events,
               \/ process_message_event(e) \/ process_lock_event(e)
               \/ process_timer_event(e) \/ process_sys_message_event(e)
               \/ process_dead_event(e)
        PROVE  SeenInv'
    <2>1. At(e)
      BY <1>8 DEF process_message_event, process_lock_event, process_timer_event,
                  process_sys_message_event, process_dead_event
    <2>2. CASE Skip(events)
      <3>1. Awaiting(e) => find_reply(e) = {}
        <4>1. ex' = "NONE" /\ UNCHANGED events
          BY <2>1, <2>2 DEF Skip, queues, At
        <4>2. CASE process_message_event(e)
          BY <4>1, <4>2 DEF process_message_event, Resume, ResumeRaise
        <4>3. CASE process_sys_message_event(e)
          BY <4>1, <4>3 DEF process_sys_message_event
        <4>4. QED
          BY <1>8, <4>2, <4>3 DEF Awaiting, process_lock_event, process_timer_event,
                                  process_dead_event
      <3>2. QED
        BY <2>1, <2>2, <3>1, SkipSeen
    <2>3. CASE ~Skip(events)
      <3>1. ex' # "NONE" \/ handled' \/ phase' = "crashed"
        BY <1>8, <2>3 DEF process_message_event, process_lock_event, process_timer_event,
                          process_sys_message_event, process_dead_event,
                          resume_method, Resume, ResumeRaise
      <3>2. QED
        BY <1>2, <3>1
    <2>4. QED
      BY <2>2, <2>3
  <1>9. ASSUME NEW m \in msgs, PassReply(m) PROVE SeenInv'
    <2>1. phase = "msgs" /\ UNCHANGED <<events, msgs, handled, ex, phase>>
      BY <1>9 DEF PassReply, AtMsg, Skip, queues
    <2>2. QED
      BY <2>1 DEF SeenInv, Passed, find_reply
  <1>10. ASSUME NEW m \in msgs, NEW k, Refuse(m, k) PROVE SeenInv'
    BY <1>2, <1>10 DEF Refuse
  <1>11. ASSUME NEW m \in msgs, NEW ign, call_method(m, ign) PROVE SeenInv'
    BY <1>2, <1>11 DEF call_method
  <1>12. CASE opcode
    BY <1>2, <1>12, OpcodeSteps DEF OpcodeStep, TaskInv, CursorInv
  <1>13. CASE Tick
    BY <1>2, <1>13, TickFrame
  <1>14. CASE Finish
    BY <1>2, <1>14 DEF Finish
  <1>15. CASE UNCHANGED vars
    BY <1>3, <1>15 DEF vars, queues, loop
  <1>16. QED
    BY <1>4, <1>5, <1>6, <1>7, <1>8, <1>9, <1>10, <1>11, <1>12, <1>13, <1>14, <1>15
       DEF Next, process_queues, process_event, process_message

\* When process_queues() drops the replies that are left (message.c 125-130), no
\* event waits for one of them: a walk of the events that handled none has looked
\* for the reply of each, and nothing was queued since.
THEOREM OrphansOnly == Spec => DropsOnlyOrphans
  <1> DEFINE Drop == phase = "msgs" /\ phase' = "idle" =>
                       \A m \in msgs \ msgs', e \in events : Awaiting(e) => e.bmsgid # m.msgid
  <1>1. Init => TaskInv /\ SeenInv
    BY InitTask DEF Init, SeenInv
  <1>2. TaskInv /\ SeenInv /\ [Next]_vars => (TaskInv /\ SeenInv)'
    BY NextTask, NextSeen
  <1>3. TaskInv /\ SeenInv /\ [Next]_vars => [Drop]_vars
    <2> SUFFICES ASSUME TaskInv, SeenInv, Next, phase = "msgs", phase' = "idle",
                        NEW m \in msgs \ msgs', NEW e \in events, Awaiting(e)
                 PROVE  e.bmsgid # m.msgid
      OBVIOUS
    <2>1. CASE EndMsgs
      <3>1. ex = "NONE" /\ ~handled /\ ISREPLY(m)
        BY <2>1 DEF EndMsgs, Again
      <3>2. find_reply(e) = {}
        BY <3>1 DEF SeenInv, Passed
      <3>3. QED
        BY <3>1, <3>2 DEF find_reply
    <2>2. CASE Environment \/ StartQueues \/ EndEvents
      BY <2>2 DEF Environment, do_parse, disconnect_player, Evict, RemoteCall, RemoteReply,
                  receive_message, Input, StartQueues, EndEvents
    <2>3. CASE process_event
      BY <2>3 DEF process_event, process_message_event, process_lock_event,
                  process_timer_event, process_sys_message_event, process_dead_event, At
    <2>4. CASE process_message
      BY <2>4 DEF process_message, PassReply, Refuse, call_method, Skip
    <2>5. CASE opcode
      BY <2>5, OpcodeSteps DEF OpcodeStep, loop, TaskInv, CursorInv
    <2>6. CASE Tick \/ Finish
      BY <2>6 DEF Tick, Finish, loop
    <2>7. QED
      BY <2>1, <2>2, <2>3, <2>4, <2>5, <2>6 DEF Next, process_queues
  <1>4. QED
    BY <1>1, <1>2, <1>3, PTL DEF Spec, DropsOnlyOrphans

-----------------------------------------------------------------------------
(* The message queue.                                                      *)

\* The programs that the second theorem is about.
NoHalts == "halt" \notin Sends

MsgInv ==
    /\ \A m \in msgs : 0 < m.n /\ m.n < serial /\ m.kind # "halt"
    /\ \A l, m \in msgs : l.n = m.n => l = m

\* The messages in keep stay, and new ones are put behind them.
Grows(keep) ==
    /\ serial' >= serial /\ keep \subseteq msgs'
    /\ \A m \in msgs' : m \in keep \/ (m.n >= serial /\ m.n < serial' /\ m.kind # "halt")
    /\ \A l, m \in msgs' : l.n = m.n => l = m \/ l \in keep \/ m \in keep

\* A new message is the answer of frame f to a caller on this server.
Replied(f) ==
    f.caller \in Objs =>
        \E m \in msgs' : /\ m.n >= serial /\ ISREPLY(m)
                         /\ m.msgid = f.msgid /\ m.to = f.caller

LEMMA GrowsMsgs ==
  ASSUME TaskInv, TypeOK', MsgInv, NEW keep \in SUBSET msgs, Grows(keep)
  PROVE  MsgInv'
  <1>1. serial \in Nat /\ serial > 0 /\ serial' \in Nat /\ \A m \in msgs' : m.n \in Nat
    BY DEF TaskInv, CursorInv, FrameInv, TypeOK, Message
  <1>2. \A m \in msgs' : 0 < m.n /\ m.n < serial' /\ m.kind # "halt"
    BY <1>1 DEF Grows, MsgInv
  <1>3. \A l, m \in msgs' : l.n = m.n => l = m
    <2> SUFFICES ASSUME NEW l \in msgs', NEW m \in msgs', l.n = m.n PROVE l = m
      OBVIOUS
    <2>1. CASE l \in keep /\ m \in keep
      BY <2>1 DEF MsgInv
    <2>2. CASE ~(l \in keep /\ m \in keep)
      <3>1. \A x \in keep : x.n < serial
        BY DEF MsgInv
      <3>2. QED
        BY <1>1, <2>2, <3>1 DEF Grows
    <2>3. QED
      BY <2>1, <2>2
  <1>4. QED
    BY <1>2, <1>3 DEF MsgInv

LEMMA NothingGrows ==
  ASSUME TypeOK, UNCHANGED serial, msgs' \subseteq msgs
  PROVE  Grows(msgs')
  BY DEF TypeOK, Grows

\* The queue gets one message.
LEMMA OneGrows ==
  ASSUME TypeOK, NEW m, NEW keep, msgs' = keep \cup {m}, m.n = serial, m.kind # "halt",
         serial' > serial, serial' \in Nat
  PROVE  Grows(keep)
  BY DEF TypeOK, Grows

LEMMA AnswerGrows ==
  ASSUME TypeOK, NEW f, NEW k \in {"return", "raise", "ticks"}, NEW keep,
         SendAnswer(f, k, keep)
  PROVE  Grows(keep) /\ Replied(f)
  <1>1. CASE f.caller \in Objs
    <2>1. msgs' = keep \cup {Answer(f, k)} /\ serial' = serial + 1
      BY <1>1 DEF SendAnswer
    <2>2. /\ Answer(f, k).n = serial /\ Answer(f, k).kind = k
          /\ Answer(f, k).msgid = f.msgid /\ Answer(f, k).to = f.caller
      BY DEF Answer
    <2>3. serial' > serial /\ serial' \in Nat /\ serial >= serial
      BY <2>1 DEF TypeOK
    <2>4. Grows(keep)
      BY <2>1, <2>2, <2>3, OneGrows
    <2>5. Replied(f)
      BY <2>1, <2>2, <2>3 DEF Replied, ISREPLY, Replies
    <2>6. QED
      BY <2>4, <2>5
  <1>2. CASE f.caller \notin Objs
    <2>1. msgs' = keep /\ serial' = serial
      BY <1>2 DEF SendAnswer
    <2>2. QED
      BY <1>2, <2>1 DEF Grows, Replied, TypeOK
  <1>3. QED
    BY <1>1, <1>2

LEMMA RaiseGrows ==
  ASSUME TypeOK, ex = "RUNNING", NEW f, raise(f)
  PROVE  Grows(msgs) /\ ex' \in {"RUNNING", "RAISED"} /\ (ex' = "RAISED" => Replied(f))
  <1>1. CASE f.ign
    BY <1>1, NothingGrows DEF raise
  <1>2. CASE ~f.ign
    BY <1>2, AnswerGrows DEF raise
  <1>3. QED
    BY <1>1, <1>2

LEMMA NotifyGrows ==
  ASSUME TypeOK, NEW o, Notify(o)
  PROVE  Grows(msgs) /\ UNCHANGED events
  <1>1. PICK m : m = [n |-> serial, msgid |-> next_msgid, kind |-> "call",
                      age |-> 0, ticks |-> 0, from |-> o, to |-> o]
    OBVIOUS
  <1>2. m.n = serial /\ m.kind = "call"
    BY <1>1
  <1>3. msgs' = msgs \cup {m} /\ serial' = serial + 1 /\ UNCHANGED events
    BY <1>1 DEF Notify
  <1>4. serial' > serial /\ serial' \in Nat
    BY <1>3 DEF TypeOK
  <1>5. QED
    BY <1>2, <1>3, <1>4, OneGrows

\* A new wait is for the answer to a new call, or to one of another server.
NewWaits ==
    \A d \in events' : Awaiting(d) =>
        \/ d \in events
        \/ /\ d.bmsgid = next_msgid
           /\ d.dest \in Objs => \E m \in msgs' : m.msgid = d.bmsgid /\ m.from = Waiter(d)

\* What an operation of a running method does to the messages.
ServeStep ==
    /\ Grows(msgs) /\ NewWaits
    /\ ex' # "HALTED" /\ (ex' = "RAISED" => Replied(frame))

LEMMA RepliedSame ==
  ASSUME TypeOK, Replied(Pushed)
  PROVE  Replied(frame)
  BY PushedSame DEF Replied

LEMMA TimerWaits ==
  ASSUME TypeOK, NEW f, NEW past, Timer(f, past)
  PROVE  NewWaits /\ Grows(msgs)
  <1>1. PICK d : d = [n |-> serial, on |-> "timer", f |-> f, bmsgid |-> 0,
                      dest |-> f.this, lock |-> AnyName]
    OBVIOUS
  <1>2. d.on = "timer"
    BY <1>1
  <1>3. events' = events \cup {d} /\ UNCHANGED msgs /\ serial' = serial + 1
    BY <1>1 DEF Timer
  <1>4. NewWaits
    BY <1>2, <1>3 DEF NewWaits, Awaiting
  <1>5. Grows(msgs)
    BY <1>3 DEF Grows, TypeOK
  <1>6. QED
    BY <1>4, <1>5

LEMMA MessageServes ==
  ASSUME NoHalts, TypeOK, NEW d \in Dests, NEW k \in Sends, op_message(d, k)
  PROVE  ServeStep
  <1>1. ex = "RUNNING"
    BY OpStep DEF op_message
  <1>2. CASE UNCHANGED events /\ raise(Pushed)
    BY <1>1, <1>2, RaiseGrows, RepliedSame DEF ServeStep, NewWaits
  <1>3. CASE ~(UNCHANGED events /\ raise(Pushed))
    <2> PICK w, r : w = Waiting(d) /\ r = Request(d, k)
      OBVIOUS
    <2>1. /\ w.on = "message" /\ w.bmsgid = next_msgid /\ w.dest = d /\ w.f = Pushed
          /\ r.n = serial /\ r.msgid = next_msgid /\ r.kind = k /\ r.from = Pushed.this
      BY DEF Waiting, Request
    <2>2. /\ events' = events \cup {w} /\ serial' = serial + 2 /\ ex' = "BLOCKED"
          /\ \/ d \in Objs /\ msgs' = msgs \cup {r}
             \/ d \in Remotes /\ UNCHANGED msgs
      BY <1>3 DEF op_message
    <2>3. serial' > serial /\ serial' \in Nat
      BY <2>2 DEF TypeOK
    <2>4. k # "halt"
      BY DEF NoHalts
    <2>5. Grows(msgs)
      <3>1. CASE msgs' = msgs \cup {r}
        BY <2>1, <2>3, <2>4, <3>1, OneGrows
      <3>2. CASE UNCHANGED msgs
        BY <2>3, <3>2 DEF Grows, TypeOK
      <3>3. QED
        BY <2>2, <3>1, <3>2
    <2>6. NewWaits
      <3>1. d \in Objs => r \in msgs'
        BY <2>2, TasksAssumption
      <3>2. Waiter(w) = Pushed.this
        BY <2>1 DEF Waiter
      <3>3. QED
        BY <2>1, <2>2, <3>1, <3>2 DEF NewWaits
    <2>7. QED
      BY <2>2, <2>5, <2>6 DEF ServeStep
  <1>4. QED
    BY <1>2, <1>3

LEMMA OpcodeServes ==
  ASSUME NoHalts, TypeOK, opcode
  PROVE  ServeStep
  <1> USE DEF ServeStep
  <1>0. ex = "RUNNING"
    BY OpcodeSteps DEF OpcodeStep
  <1>e. UNCHANGED events => NewWaits
    BY DEF NewWaits
  <1>1. CASE op_compute \/ op_return
    <2>1. UNCHANGED <<events, msgs, serial>> /\ ex' \in {"RUNNING", "STOPPED"}
      BY <1>0, <1>1 DEF op_compute, op_return, queues
    <2>2. QED
      BY <1>e, <2>1, NothingGrows
  <1>2. CASE op_fail
    BY <1>0, <1>e, <1>2, RaiseGrows, RepliedSame DEF op_fail
  <1>3. CASE op_destroy
    <2>1. ex' = "STOPPED" /\ \/ Notify(Pushed.this)
                             \/ UNCHANGED <<events, msgs, serial>>
      BY <1>3 DEF op_destroy, queues
    <2>2. QED
      BY <1>e, <2>1, NothingGrows, NotifyGrows
  <1>4. ASSUME NEW o \in Objs, op_disconnect(o) PROVE ServeStep
    BY <1>0, <1>e, <1>4, NotifyGrows DEF op_disconnect
  <1>5. ASSUME NEW k \in {"raise", "ticks"}, op_raise(k) PROVE ServeStep
    BY <1>e, <1>5, AnswerGrows, RepliedSame DEF op_raise
  <1>6. ASSUME NEW name \in LockNames, op_lock(name) PROVE ServeStep
    <2>1. UNCHANGED msgs /\ serial' = serial + 2 /\ ex' \in {"BLOCKED", "RUNNING"}
      BY <1>6 DEF op_lock
    <2>2. Grows(msgs)
      BY <2>1 DEF Grows, TypeOK
    <2>3. NewWaits
      <3>1. PICK d : d = [n |-> serial, on |-> "lock", f |-> Pushed, bmsgid |-> 0,
                          dest |-> Pushed.this, lock |-> name]
        OBVIOUS
      <3>2. d.on = "lock"
        BY <3>1
      <3>3. UNCHANGED events \/ events' = events \cup {d}
        BY <1>6, <3>1 DEF op_lock
      <3>4. QED
        BY <3>2, <3>3 DEF NewWaits, Awaiting
    <2>4. QED
      BY <2>1, <2>2, <2>3
  <1>7. ASSUME NEW name \in LockNames, op_unlock(name) PROVE ServeStep
    <2>1. UNCHANGED <<events, msgs, serial, ex>>
      BY <1>7 DEF op_unlock, queues
    <2>2. QED
      BY <1>0, <1>e, <2>1, NothingGrows
  <1>8. ASSUME NEW past, op_at(past) PROVE ServeStep
    BY <1>0, <1>8, TimerWaits DEF op_at
  <1>9. ASSUME NEW r, NEW past, op_sleep(r, past) PROVE ServeStep
    <2>1. ex' = "BLOCKED" /\ \E f : Timer(f, past)
      BY <1>9 DEF op_sleep
    <2>2. QED
      BY <2>1, TimerWaits
  <1>10. ASSUME NEW pid, op_kill(pid) PROVE ServeStep
    <2>1. \/ UNCHANGED <<msgs, serial, ex>>
          \/ raise(Pushed)
      BY <1>10 DEF op_kill
    <2>2. NewWaits
      <3>1. UNCHANGED events \/ \E e \in events : events' = (events \ {e}) \cup Killed(e)
        BY <1>10 DEF op_kill
      <3>2. \A e \in events : \A d \in Killed(e) : ~Awaiting(d)
        BY DEF Killed, Awaiting, TypeOK, Event
      <3>3. QED
        BY <3>1, <3>2 DEF NewWaits
    <2>3. QED
      BY <1>0, <2>1, <2>2, NothingGrows, RaiseGrows, RepliedSame
  <1>11. QED
    BY <1>1, <1>2, <1>3, <1>4, <1>5, <1>6, <1>7, <1>8, <1>9, <1>10, MessageServes DEF opcode

-----------------------------------------------------------------------------
(* From hand to hand.                                                      *)

\* Whom the message m keeps from waiting in vain.
Hands(m) == IF ISREPLY(m) THEN {m.to, m.from} ELSE {m.from}

Held(b, o) == \E m \in msgs : m.msgid = b /\ o \in Hands(m)

\* The method being executed will answer call b of object o.
Running(b, o) == ex \in {"RUNNING", "STOPPED"} /\ frame.msgid = b /\ frame.caller = o

\* A task that waits will.
Pending(b, o) == \E e \in events : /\ e.on # "sys" /\ ~Current(e)
                                   /\ e.f.msgid = b /\ e.f.caller = o

\* The reply that process_message_event() has taken is awaited by no event but the
\* one it resumed.
TakenInv ==
    /\ reply < serial
    /\ \A m \in msgs : m.n = reply =>
          ISREPLY(m) /\ \A e \in events : Awaiting(e) /\ e.bmsgid = m.msgid => Current(e)

\* The call that is being processed is the one whose method is executed.
CalleeInv ==
    phase = "msgs" /\ ex # "NONE" =>
        \A m \in msgs : m.n = cur =>
            ~ISREPLY(m) /\ frame.msgid = m.msgid /\ frame.caller = m.from

\* A method that has raised an error has sent it to its caller.
AnsweredInv ==
    ex = "RAISED" /\ frame.caller \in Objs =>
        \E m \in msgs : /\ ISREPLY(m) /\ m.msgid = frame.msgid /\ m.to = frame.caller
                        /\ m.n # reply /\ (phase = "msgs" => m.n # cur)

ServeInv ==
    ex # "HALTED" /\ MsgInv /\ TakenInv /\ CalleeInv /\ AnsweredInv /\ WaiterServed

LEMMA OwedHands ==
  \A b, o : Owed(b, o) <=> Held(b, o) \/ Running(b, o) \/ Pending(b, o)
  BY DEF Owed, Held, Hands, Running, Pending

LEMMA OwedHandsNext ==
  \A b, o : Owed(b, o)' <=> Held(b, o)' \/ Running(b, o)' \/ Pending(b, o)'
  BY DEF Owed, Held, Hands, Running, Pending

LEMMA WaiterType ==
  ASSUME TypeOK, NEW e \in events, e.dest \in Objs
  PROVE  Waiter(e) \in Objs
  BY DEF TypeOK, Event, Frame, Waiter

\* The answer of a frame is in the hands of the queue.
LEMMA RepliedHeld ==
  ASSUME NEW f, Replied(f), f.caller \in Objs
  PROVE  Held(f.msgid, f.caller)'
  BY DEF Replied, Held, Hands

\* The cell being processed is an old one.
LEMMA CursorOld ==
  ASSUME TaskInv, MsgInv, phase \in {"events", "msgs"}
  PROVE  cur < serial
  <1>1. cur \in Nat /\ serial \in Nat /\ serial > 0
    BY DEF TaskInv, CursorInv, FrameInv, TypeOK
  <1>2. CASE phase = "events"
    BY <1>1, <1>2 DEF TaskInv, CursorInv, FrameInv, CursorValid, Queued
  <1>3. CASE phase = "msgs"
    BY <1>1, <1>3 DEF TaskInv, CursorInv, MsgInv, CursorValid, Queued
  <1>4. QED
    BY <1>2, <1>3

\* A step outside execute(): the messages it removes are awaited by nobody, or
\* replaced.
LEMMA QuietServes ==
  ASSUME TaskInv, TaskInv', ServeInv, QuietStep, MsgInv',
         \A d \in events' : Awaiting(d) /\ d.dest \in Objs =>
            \/ Held(d.bmsgid, Waiter(d))'
            \/ d \in events /\ \A m \in msgs \ msgs' :
                    m.msgid = d.bmsgid => Waiter(d) \notin Hands(m)
  PROVE  ServeInv'
  <1>1. ex = "NONE" /\ ex' = "NONE" /\ reply' = 0 /\ serial' > 0
    BY DEF QuietStep, TaskInv, CursorInv, LoopInv, FrameInv
  <1>2. TakenInv'
    <2>1. \A m \in msgs' : m.n \in Nat /\ 0 < m.n
      BY DEF MsgInv, TaskInv, CursorInv, TypeOK, Message
    <2>2. QED
      BY <1>1, <2>1 DEF TakenInv
  <1>3. CalleeInv' /\ AnsweredInv' /\ ex' # "HALTED"
    BY <1>1 DEF CalleeInv, AnsweredInv
  <1>4. WaiterServed'
    <2> SUFFICES ASSUME NEW d \in events', Awaiting(d), d.dest \in Objs
                 PROVE  Owed(d.bmsgid, Waiter(d))'
      BY DEF WaiterServed, Awaiting, Waiter
    <2>1. CASE Held(d.bmsgid, Waiter(d))'
      BY <2>1, OwedHandsNext
    <2>2. CASE d \in events /\ \A m \in msgs \ msgs' :
                    m.msgid = d.bmsgid => Waiter(d) \notin Hands(m)
      <3>1. Owed(d.bmsgid, Waiter(d))
        BY <1>1, <2>2 DEF ServeInv, WaiterServed, Current
      <3>2. Held(d.bmsgid, Waiter(d)) => Held(d.bmsgid, Waiter(d))'
        BY <2>2 DEF Held, Hands
      <3>3. Pending(d.bmsgid, Waiter(d)) => Pending(d.bmsgid, Waiter(d))'
        BY <1>1 DEF Pending, QuietStep, Current, Waiter
      <3>4. ~Running(d.bmsgid, Waiter(d))
        BY <1>1 DEF Running
      <3>5. QED
        BY <3>1, <3>2, <3>3, <3>4, OwedHands, OwedHandsNext
    <2>3. QED
      BY <2>1, <2>2
  <1>5. QED
    BY <1>2, <1>3, <1>4 DEF ServeInv


\* A step that starts or resumes a method: what the event or the call promised, the
\* frame promises now, or it has been answered.
LEMMA StartServes ==
  ASSUME TaskInv, TaskInv', IdInv, ServeInv, StartStep, MsgInv', Grows(msgs),
         ex' # "HALTED", ex' = "RAISED" => phase = "events" /\ Replied(frame'),
         phase = "msgs" => UNCHANGED <<msgs, reply>> /\
            \A m \in msgs : m.n = cur =>
                ~ISREPLY(m) /\ frame'.msgid = m.msgid /\ frame'.caller = m.from,
         \/ UNCHANGED reply
         \/ \E e \in events : /\ phase = "events" /\ e.n = cur /\ Awaiting(e)
                              /\ \E m \in find_reply(e) : reply' = m.n
  PROVE  ServeInv'
  <1>1. /\ ex = "NONE" /\ reply = 0 /\ ex' \in {"RUNNING", "STOPPED", "RAISED"}
        /\ UNCHANGED <<events, phase, cur>> /\ msgs \subseteq msgs'
        /\ serial \in Nat /\ serial' \in Nat /\ 0 < serial /\ serial <= serial'
        /\ \A m \in msgs' : m.n \in Nat /\ 0 < m.n
    BY DEF StartStep, TaskInv, CursorInv, LoopInv, FrameInv, TypeOK, Message, Grows, MsgInv
  <1>2. reply' = 0 \/ reply' < serial
    BY <1>1 DEF find_reply, ServeInv, MsgInv
  <1>3. TakenInv'
    <2>1. reply' < serial'
      <3>1. reply' \in Nat
        BY DEF TaskInv, CursorInv, TypeOK
      <3>2. QED
        BY <1>1, <1>2, <3>1
    <2> SUFFICES ASSUME NEW l \in msgs', l.n = reply'
                 PROVE  /\ ISREPLY(l)
                        /\ \A d \in events' : Awaiting(d) /\ d.bmsgid = l.msgid => Current(d)'
      BY <2>1 DEF TakenInv, ISREPLY, Awaiting
    <2>2. PICK e \in events : /\ phase = "events" /\ e.n = cur /\ Awaiting(e)
                              /\ \E m \in find_reply(e) : reply' = m.n
      BY <1>1
    <2>3. PICK m \in find_reply(e) : reply' = m.n
      BY <2>2
    <2>4. l = m
      BY <1>1, <2>3 DEF MsgInv, find_reply
    <2>5. \A d \in events : Awaiting(d) /\ d.bmsgid = l.msgid => d = e
      BY <2>2, <2>4 DEF IdInv, find_reply
    <2>6. Current(e)'
      BY <1>1, <2>2 DEF Current
    <2>7. QED
      BY <1>1, <2>4, <2>5, <2>6 DEF find_reply
  <1>4. CalleeInv'
    BY <1>1 DEF CalleeInv, ISREPLY
  <1>5. AnsweredInv'
    <2> SUFFICES ASSUME ex' = "RAISED", frame'.caller \in Objs
                 PROVE  \E m \in msgs' : /\ ISREPLY(m) /\ m.msgid = frame'.msgid
                                         /\ m.to = frame'.caller
                                         /\ m.n # reply' /\ (phase' = "msgs" => m.n # cur')
      BY DEF AnsweredInv, ISREPLY
    <2>1. PICK m \in msgs' : /\ m.n >= serial /\ ISREPLY(m)
                             /\ m.msgid = frame'.msgid /\ m.to = frame'.caller
      BY DEF Replied
    <2>2. phase' = "events"
      BY <1>1
    <2>3. m.n # reply'
      <3>1. reply' \in Nat
        BY DEF TaskInv, CursorInv, TypeOK
      <3>2. QED
        BY <1>1, <1>2, <2>1, <3>1
    <2>4. QED
      BY <2>1, <2>2, <2>3
  <1>6. WaiterServed'
    <2> SUFFICES ASSUME NEW d \in events', Awaiting(d), d.dest \in Objs
                 PROVE  Owed(d.bmsgid, Waiter(d))'
      BY DEF WaiterServed, Awaiting, Waiter
    <2> DEFINE b == d.bmsgid
               o == Waiter(d)
    <2>1. o \in Objs
      BY <1>1, WaiterType DEF TaskInv, CursorInv
    <2>2. Owed(b, o)
      BY <1>1 DEF ServeInv, WaiterServed, Current
    <2>3. Held(b, o) => Held(b, o)'
      BY <1>1 DEF Held, Hands, ISREPLY
    <2>4. ~Running(b, o)
      BY <1>1 DEF Running
    <2>5. ASSUME Pending(b, o) PROVE Running(b, o)' \/ Held(b, o)' \/ Pending(b, o)'
      <3>1. PICK e \in events : e.on # "sys" /\ e.f.msgid = b /\ e.f.caller = o
        BY <2>5 DEF Pending
      <3>2. CASE ~(phase = "events" /\ e.n = cur)
        BY <1>1, <3>1, <3>2 DEF Pending, Current
      <3>3. CASE phase = "events" /\ e.n = cur
        <4>1. frame'.msgid = b /\ frame'.caller = o
          BY <3>1, <3>3 DEF StartStep, TaskInv, UniqueEvents
        <4>2. CASE ex' = "RAISED"
          <5>1. PICK f : f = frame'
            OBVIOUS
          <5>2. Replied(f) /\ f.msgid = b /\ f.caller = o
            BY <4>1, <4>2, <5>1 DEF Replied
          <5>3. QED
            BY <2>1, <5>2, RepliedHeld DEF Held, Hands
        <4>3. CASE ex' # "RAISED"
          BY <1>1, <4>1, <4>3 DEF Running
        <4>4. QED
          BY <4>2, <4>3
      <3>4. QED
        BY <3>2, <3>3
    <2>6. QED
      BY <2>2, <2>3, <2>4, <2>5, OwedHands, OwedHandsNext
  <1>7. QED
    BY <1>1, <1>3, <1>4, <1>5, <1>6 DEF ServeInv


\* A step of the method being executed.
LEMMA RunServes ==
  ASSUME TaskInv, TaskInv', IdInv, ServeInv, MsgInv', Grows(msgs), NewWaits,
         ex # "NONE", ex' \notin {"NONE", "HALTED"}, UNCHANGED loop, SameFrame,
         \A e \in events : \E d \in events' : Same(d, e),
         ex' = "RAISED" => Replied(frame) \/ ex = "RAISED",
         ex' = "BLOCKED" => ex = "BLOCKED" \/ \E d \in events' : d.n >= serial /\ OfFrame(d)
  PROVE  ServeInv'
  <1>1. /\ UNCHANGED <<phase, cur, reply>> /\ msgs \subseteq msgs'
        /\ serial \in Nat /\ serial' \in Nat /\ serial <= serial'
        /\ reply \in Nat /\ reply < serial /\ cur \in Nat /\ next_msgid \in Nat
        /\ \A m \in msgs' : m.n \in Nat /\ m.msgid \in Nat
        /\ \A e \in events' : e.n \in Nat
    BY DEF loop, TaskInv, CursorInv, TypeOK, Message, Event, Grows, ServeInv, TakenInv
  <1>2. phase \in {"events", "msgs"} /\ cur < serial
    BY CursorOld DEF TaskInv, CursorInv, LoopInv, ServeInv
  <1>3. \A m \in msgs' : m.n < serial => m \in msgs
    BY <1>1 DEF Grows
  <1>4. \A e \in events : Current(e) <=> Current(e)'
    BY <1>1 DEF Current
  <1>5. TakenInv'
    <2>1. reply' < serial'
      BY <1>1
    <2> SUFFICES ASSUME NEW m \in msgs', m.n = reply'
                 PROVE  /\ ISREPLY(m)
                        /\ \A d \in events' : Awaiting(d) /\ d.bmsgid = m.msgid => Current(d)'
      BY <2>1 DEF TakenInv, ISREPLY, Awaiting
    <2>2. m \in msgs /\ ISREPLY(m)
      BY <1>1, <1>3 DEF ServeInv, TakenInv
    <2>3. m.msgid < next_msgid
      BY <2>2 DEF IdInv, MessageFits
    <2>4. \A d \in events' : Awaiting(d) /\ d.bmsgid = m.msgid => d \in events
      BY <1>1, <2>3 DEF NewWaits
    <2>5. QED
      BY <1>1, <1>4, <2>2, <2>4 DEF ServeInv, TakenInv
  <1>6. CalleeInv'
    BY <1>1, <1>2, <1>3 DEF CalleeInv, ServeInv, SameFrame, ISREPLY
  <1>7. AnsweredInv'
    <2> SUFFICES ASSUME ex' = "RAISED", frame.caller \in Objs
                 PROVE  \E m \in msgs' : /\ ISREPLY(m) /\ m.msgid = frame.msgid
                                         /\ m.to = frame.caller
                                         /\ m.n # reply /\ (phase = "msgs" => m.n # cur)
      BY <1>1 DEF AnsweredInv, ISREPLY, SameFrame
    <2>1. CASE ex = "RAISED"
      BY <1>1, <2>1 DEF ServeInv, AnsweredInv
    <2>2. CASE Replied(frame)
      <3>1. PICK m \in msgs' : /\ m.n >= serial /\ ISREPLY(m)
                               /\ m.msgid = frame.msgid /\ m.to = frame.caller
        BY <2>2 DEF Replied
      <3>2. QED
        BY <1>1, <1>2, <3>1
    <2>3. QED
      BY <2>1, <2>2
  <1>8. WaiterServed'
    <2> SUFFICES ASSUME NEW d \in events', Awaiting(d), d.dest \in Objs, ~Current(d)'
                 PROVE  Owed(d.bmsgid, Waiter(d))'
      BY DEF WaiterServed, Awaiting, Waiter
    <2> PICK b, o : b = d.bmsgid /\ o = Waiter(d)
      OBVIOUS
    <2> SUFFICES Held(b, o)' \/ Running(b, o)' \/ Pending(b, o)'
      BY OwedHandsNext
    <2>1. CASE d \notin events
      BY <2>1 DEF NewWaits, Held, Hands, ISREPLY
    <2>2. CASE d \in events
      <3>1. Owed(b, o) /\ o \in Objs
        BY <1>4, <2>2, WaiterType DEF ServeInv, WaiterServed, TaskInv, CursorInv
      <3>2. Held(b, o) => Held(b, o)'
        BY <1>1 DEF Held, Hands, ISREPLY
      <3>3. Pending(b, o) => Pending(b, o)'
        BY <1>1 DEF Pending, Same, Current
      <3>4. ASSUME Running(b, o) PROVE Held(b, o)' \/ Running(b, o)' \/ Pending(b, o)'
        <4>1. /\ ex \in {"RUNNING", "STOPPED"} /\ frame.msgid = b /\ frame.caller = o
              /\ frame'.msgid = b /\ frame'.caller = o
          BY <3>4 DEF Running, SameFrame
        <4>2. CASE ex' = "RAISED"
          <5>1. PICK f : f = frame
            OBVIOUS
          <5>2. Replied(f) /\ f.msgid = b /\ f.caller = o
            BY <4>1, <4>2, <5>1
          <5>3. QED
            BY <3>1, <5>2, RepliedHeld DEF Held, Hands
        <4>3. CASE ex' = "BLOCKED"
          <5>1. PICK e \in events' : e.n >= serial /\ OfFrame(e)
            BY <4>1, <4>3
          <5>2. ~Current(e)'
            BY <1>1, <1>2, <5>1 DEF Current
          <5>3. QED
            BY <4>1, <5>1, <5>2 DEF Pending, OfFrame
        <4>4. CASE ex' \in {"RUNNING", "STOPPED"}
          BY <4>1, <4>4 DEF Running
        <4>5. QED
          BY <4>2, <4>3, <4>4 DEF TaskInv, CursorInv, TypeOK
      <3>5. QED
        BY <3>1, <3>2, <3>3, <3>4, OwedHands
    <2>3. QED
      BY <2>1, <2>2
  <1>9. QED
    BY <1>5, <1>6, <1>7, <1>8 DEF ServeInv

\* execute() is left: the method has answered its caller, now or before, or waits
\* with an event of its own.
LEMMA FinishServes ==
  ASSUME TaskInv, TaskInv', ServeInv, Finish
  PROVE  ServeInv'
  <1> PICK keep : keep = {m \in msgs : m.n # reply /\ (phase = "msgs" => m.n # cur)}
    OBVIOUS
  <1>1. /\ ex \in {"BLOCKED", "STOPPED", "RAISED"} /\ ex' = "NONE" /\ reply' = 0
        /\ events' = {e \in events : phase = "events" => e.n # cur}
        /\ keep \in SUBSET msgs /\ serial' \in Nat /\ 0 < serial' /\ TypeOK /\ TypeOK'
    BY DEF Finish, TaskInv, CursorInv, FrameInv, TypeOK, ServeInv
  <1>2. IF ex = "STOPPED" THEN SendAnswer(frame, "return", keep)
                          ELSE msgs' = keep /\ UNCHANGED serial
    BY DEF Finish, AnswersCaller
  <1>3. Grows(keep) /\ (ex = "STOPPED" => Replied(frame))
    <2>1. CASE ex = "STOPPED"
      BY <1>1, <1>2, <2>1, AnswerGrows
    <2>2. CASE ex # "STOPPED"
      BY <1>1, <1>2, <2>2, NothingGrows
    <2>3. QED
      BY <2>1, <2>2
  <1>4. MsgInv' /\ keep \subseteq msgs'
    BY <1>1, <1>3, GrowsMsgs DEF ServeInv, Grows
  <1>5. TakenInv'
    <2>1. \A m \in msgs' : m.n \in Nat /\ 0 < m.n
      BY <1>1, <1>4 DEF MsgInv, TypeOK, Message
    <2>2. QED
      BY <1>1, <2>1 DEF TakenInv
  <1>6. CalleeInv' /\ AnsweredInv' /\ ex' # "HALTED"
    BY <1>1 DEF CalleeInv, AnsweredInv
  <1>7. WaiterServed'
    <2> SUFFICES ASSUME NEW d \in events', Awaiting(d), d.dest \in Objs
                 PROVE  Owed(d.bmsgid, Waiter(d))'
      BY DEF WaiterServed, Awaiting, Waiter
    <2> PICK b, o : b = d.bmsgid /\ o = Waiter(d)
      OBVIOUS
    <2> SUFFICES Held(b, o)' \/ Running(b, o)' \/ Pending(b, o)'
      BY OwedHandsNext
    <2>1. d \in events /\ ~Current(d) /\ o \in Objs
      BY <1>1, WaiterType DEF Current
    <2>2. Owed(b, o)
      BY <2>1 DEF ServeInv, WaiterServed
    <2>3. ASSUME frame.msgid = b, frame.caller = o
          PROVE  Held(b, o)' \/ Pending(b, o)'
      <3>1. CASE ex = "STOPPED"
        <4>1. PICK f : f = frame
          OBVIOUS
        <4>2. QED
          BY <1>3, <2>1, <2>3, <3>1, <4>1, RepliedHeld DEF Held, Hands
      <3>2. CASE ex = "RAISED"
        <4>1. PICK m \in keep : ISREPLY(m) /\ m.msgid = b /\ m.to = o
          BY <2>1, <2>3, <3>2 DEF ServeInv, AnsweredInv
        <4>2. QED
          BY <1>4, <4>1 DEF Held, Hands, ISREPLY
      <3>3. CASE ex = "BLOCKED"
        <4>1. PICK e \in events : OfFrame(e) /\ ~Current(e)
          BY <3>3 DEF TaskInv, FrameInv
        <4>2. e \in events' /\ ~Current(e)'
          BY <1>1, <3>3, <4>1 DEF Current
        <4>3. QED
          BY <2>3, <4>1, <4>2 DEF Pending, OfFrame
      <3>4. QED
        BY <1>1, <3>1, <3>2, <3>3
    <2>4. ASSUME Held(b, o) PROVE Held(b, o)' \/ Pending(b, o)'
      <3>1. PICK m \in msgs : m.msgid = b /\ o \in Hands(m)
        BY <2>4 DEF Held
      <3>2. m.n # reply
        BY <2>1, <3>1 DEF ServeInv, TakenInv
      <3>3. CASE m \in keep
        BY <1>4, <3>1, <3>3 DEF Held, Hands, ISREPLY
      <3>4. CASE m \notin keep
        <4>1. phase = "msgs" /\ m.n = cur
          BY <3>2, <3>4
        <4>2. ~ISREPLY(m) /\ frame.msgid = m.msgid /\ frame.caller = m.from
          BY <1>1, <4>1 DEF ServeInv, CalleeInv
        <4>3. QED
          BY <2>3, <3>1, <4>2 DEF Hands
      <3>5. QED
        BY <3>3, <3>4
    <2>5. ASSUME Pending(b, o) PROVE Pending(b, o)'
      <3>1. PICK e \in events : e.on # "sys" /\ ~Current(e) /\ e.f.msgid = b /\ e.f.caller = o
        BY <2>5 DEF Pending
      <3>2. e \in events' /\ ~Current(e)'
        BY <1>1, <3>1 DEF Current
      <3>3. QED
        BY <3>1, <3>2 DEF Pending
    <2>6. QED
      BY <2>2, <2>3, <2>4, <2>5, OwedHands DEF Running
  <1>8. QED
    BY <1>4, <1>5, <1>6, <1>7 DEF ServeInv

-----------------------------------------------------------------------------
(* Every action.                                                           *)

\* The queue only gets longer, and with nothing but a call starts a wait.
LEMMA QuietGrows ==
  ASSUME TaskInv, TaskInv', ServeInv, QuietStep, Grows(msgs),
         \A d \in events' : Awaiting(d) /\ d.dest \in Objs =>
            d \in events \/ Held(d.bmsgid, Waiter(d))'
  PROVE  ServeInv'
  <1>1. MsgInv'
    BY GrowsMsgs DEF TaskInv, CursorInv, ServeInv
  <1>2. msgs \ msgs' = {}
    BY DEF Grows
  <1>3. QED
    BY <1>1, <1>2, QuietServes

LEMMA EnvironmentServes ==
  ASSUME NoHalts, TaskInv, TaskInv', ServeInv, Environment
  PROVE  ServeInv'
  <1>1. QuietStep /\ TypeOK
    BY OtherSteps DEF TaskInv, CursorInv
  <1>2. ASSUME NEW o \in Objs, do_parse(o) PROVE ServeInv'
    <2> PICK m, e : /\ m = [n |-> serial, msgid |-> next_msgid, kind |-> "call",
                            age |-> 0, ticks |-> 0, from |-> o, to |-> o]
                    /\ e = [n |-> serial + 1, on |-> "sys", f |-> Blank,
                            bmsgid |-> next_msgid, dest |-> o, lock |-> AnyName]
      OBVIOUS
    <2>1. /\ m.n = serial /\ m.kind = "call" /\ m.msgid = next_msgid /\ m.from = o
          /\ e.on = "sys" /\ e.bmsgid = next_msgid /\ e.dest = o
      OBVIOUS
    <2>2. msgs' = msgs \cup {m} /\ events' = events \cup {e} /\ serial' = serial + 2
      BY <1>2 DEF do_parse
    <2>3. serial' > serial /\ serial' \in Nat
      BY <1>1, <2>2 DEF TypeOK
    <2>4. Grows(msgs)
      BY <1>1, <2>1, <2>2, <2>3, OneGrows
    <2>5. Held(e.bmsgid, Waiter(e))'
      BY <2>1, <2>2 DEF Held, Hands, Waiter, ISREPLY, Replies
    <2>6. QED
      BY <1>1, <2>2, <2>4, <2>5, QuietGrows
  <1>3. ASSUME NEW o \in Objs, disconnect_player(o) PROVE ServeInv'
    BY <1>1, <1>3, NotifyGrows, QuietGrows DEF disconnect_player
  <1>4. ASSUME NEW o \in Objs, Evict(o) PROVE ServeInv'
    <2>1. UNCHANGED <<msgs, events, serial>>
      BY <1>4 DEF Evict, queues
    <2>2. QED
      BY <1>1, <2>1, NothingGrows, QuietGrows
  <1>5. ASSUME NEW m, receive_message(m), m.n = serial, m.kind # "halt" PROVE ServeInv'
    <2>1. msgs' = msgs \cup {m} /\ serial' = serial + 1 /\ UNCHANGED events
      BY <1>5 DEF receive_message
    <2>2. serial' > serial /\ serial' \in Nat
      BY <1>1, <2>1 DEF TypeOK
    <2>3. QED
      BY <1>1, <1>5, <2>1, <2>2, OneGrows, QuietGrows
  <1>6. ASSUME NEW r \in Remotes, NEW o \in Objs, NEW id \in RemoteIds, RemoteCall(r, o, id)
        PROVE  ServeInv'
    <2> PICK m : m = [n |-> serial, msgid |-> id, kind |-> "call", age |-> 0,
                      ticks |-> 0, from |-> r, to |-> o]
      OBVIOUS
    <2>1. receive_message(m) /\ m.n = serial /\ m.kind = "call"
      BY <1>6 DEF RemoteCall
    <2>2. QED
      BY <1>5, <2>1
  <1>7. ASSUME NEW r \in Remotes, NEW o \in Objs, NEW id, NEW k \in Answers,
               RemoteReply(r, o, id, k)
        PROVE  ServeInv'
    <2> PICK m : m = [n |-> serial, msgid |-> id, kind |-> k, age |-> 0,
                      ticks |-> 0, from |-> r, to |-> o]
      OBVIOUS
    <2>1. receive_message(m) /\ m.n = serial /\ m.kind = k
      BY <1>7 DEF RemoteReply
    <2>2. k # "halt"
      BY DEF NoHalts, Answers
    <2>3. QED
      BY <1>5, <2>1, <2>2
  <1>8. QED
    BY <1>2, <1>3, <1>4, <1>6, <1>7 DEF Environment

\* The replies that EndMsgs drops are awaited by nobody.
LEMMA WalkServes ==
  ASSUME TaskInv, TaskInv', SeenInv, ServeInv, StartQueues \/ EndEvents \/ EndMsgs
  PROVE  ServeInv'
  <1>1. QuietStep /\ TypeOK /\ UNCHANGED <<events, serial>>
    BY OtherSteps DEF TaskInv, CursorInv, StartQueues, EndEvents, EndMsgs, queues
  <1>2. CASE UNCHANGED msgs
    BY <1>1, <1>2, NothingGrows, QuietGrows
  <1>3. CASE EndMsgs /\ ~Again
    <2>1. /\ msgs' = {m \in msgs : ~ISREPLY(m)} /\ ~handled /\ ex = "NONE" /\ phase = "msgs"
      BY <1>3 DEF EndMsgs, Again
    <2>2. MsgInv'
      BY <1>1, <2>1 DEF ServeInv, MsgInv
    <2>3. \A d \in events, m \in msgs \ msgs' : Awaiting(d) => m.msgid # d.bmsgid
      BY <2>1 DEF SeenInv, Passed, find_reply
    <2>4. QED
      BY <1>1, <2>2, <2>3, QuietServes
  <1>4. QED
    BY <1>2, <1>3 DEF StartQueues, EndEvents, EndMsgs, queues


LEMMA ResumeRaiseGrows ==
  ASSUME TypeOK, NEW f, NEW k \in {"raise", "ticks"}, ResumeRaise(f, k)
  PROVE  /\ Grows(msgs) /\ ex' \in {"RUNNING", "STOPPED", "RAISED"}
         /\ ex' = "RAISED" => Replied(frame')
  <1>1. frame' = f /\ ex' \in {"RUNNING", "STOPPED", "RAISED"}
    BY DEF ResumeRaise, Resume
  <1>2. CASE k = "raise" /\ f.ign
    <2>1. UNCHANGED <<msgs, serial>> /\ ex' # "RAISED"
      BY <1>2 DEF ResumeRaise, Resume
    <2>2. QED
      BY <1>1, <2>1, NothingGrows
  <1>3. CASE ~(k = "raise" /\ f.ign)
    <2>1. SendAnswer(f, k, msgs)
      BY <1>3 DEF ResumeRaise
    <2>2. Grows(msgs) /\ Replied(f)
      BY <2>1, AnswerGrows
    <2>3. Replied(frame')
      BY <1>1, <2>2 DEF Replied
    <2>4. QED
      BY <1>1, <2>2, <2>3
  <1>4. QED
    BY <1>2, <1>3

\* An event that resumes a method.
LEMMA ResumeServes ==
  ASSUME TaskInv, TaskInv', IdInv, ServeInv, process_event, NEW e \in events, At(e),
         Grows(msgs), ex' \in {"RUNNING", "STOPPED", "RAISED"},
         ex' = "RAISED" => Replied(frame'),
         \/ UNCHANGED reply
         \/ Awaiting(e) /\ \E m \in find_reply(e) : reply' = m.n
  PROVE  ServeInv'
  <1>1. phase = "events" /\ e.n = cur
    BY DEF At
  <1>2. StartStep
    BY EventStep DEF QuietStep
  <1>3. MsgInv'
    BY GrowsMsgs DEF TaskInv, CursorInv, ServeInv
  <1>4. QED
    BY <1>1, <1>2, <1>3, StartServes

LEMMA EventServes ==
  ASSUME NoHalts, TaskInv, TaskInv', IdInv, ServeInv, process_event
  PROVE  ServeInv'
  <1>1. TypeOK
    BY DEF TaskInv, CursorInv
  <1>2. ASSUME UNCHANGED <<msgs, events, serial, ex>>, ex = "NONE" PROVE ServeInv'
    <2>1. QuietStep
      BY <1>2, EventStep DEF StartStep
    <2>2. QED
      BY <1>1, <1>2, <2>1, NothingGrows, QuietGrows
  <1>3. ASSUME NEW e \in events, process_message_event(e) PROVE ServeInv'
    <2>1. At(e) /\ Awaiting(e)
      BY <1>3 DEF process_message_event, Awaiting
    <2>2. CASE Skip(events)
      BY <1>2, <2>1, <2>2 DEF Skip, queues, At
    <2>3. ASSUME UNCHANGED reply, NEW f, ResumeRaise(f, "raise") PROVE ServeInv'
      BY <1>1, <2>1, <2>3, ResumeRaiseGrows, ResumeServes
    <2>4. ASSUME NEW m \in find_reply(e), reply' = m.n, NEW f,
                 \/ m.kind = "return" /\ Resume(f, "RUNNING") /\ UNCHANGED <<msgs, serial>>
                 \/ m.kind = "halt"
                 \/ m.kind \in {"raise", "ticks"} /\ ResumeRaise(f, m.kind)
          PROVE  ServeInv'
      <3>1. m.kind # "halt"
        BY DEF ServeInv, MsgInv, find_reply
      <3>2. CASE Resume(f, "RUNNING") /\ UNCHANGED <<msgs, serial>>
        <4>1. ex' \in {"RUNNING", "STOPPED"}
          BY <3>2 DEF Resume
        <4>2. QED
          BY <1>1, <2>1, <2>4, <3>2, <4>1, NothingGrows, ResumeServes
      <3>3. CASE m.kind \in {"raise", "ticks"} /\ ResumeRaise(f, m.kind)
        <4>1. PICK k \in {"raise", "ticks"} : ResumeRaise(f, k)
          BY <3>3
        <4>2. QED
          BY <1>1, <2>1, <2>4, <4>1, ResumeRaiseGrows, ResumeServes
      <3>4. QED
        BY <2>4, <3>1, <3>2, <3>3
    <2>5. QED
      BY <1>3, <2>2, <2>3, <2>4 DEF process_message_event
  <1>4. ASSUME NEW e \in events, process_lock_event(e) PROVE ServeInv'
    <2>1. At(e)
      BY <1>4 DEF process_lock_event
    <2>2. CASE Skip(events)
      BY <1>2, <2>1, <2>2 DEF Skip, queues, At
    <2>3. CASE e.f.this \notin live
      BY <1>2, <1>4, <2>1, <2>3 DEF process_lock_event, queues, At
    <2>4. CASE resume_method(e.f, "RUNNING")
      <3>1. ex' \in {"RUNNING", "STOPPED"} /\ UNCHANGED <<msgs, serial, reply>>
        BY <2>4 DEF resume_method, Resume
      <3>2. QED
        BY <1>1, <2>1, <3>1, NothingGrows, ResumeServes
    <2>5. CASE ResumeRaise(e.f, "raise") /\ UNCHANGED reply
      BY <1>1, <2>1, <2>5, ResumeRaiseGrows, ResumeServes
    <2>6. QED
      BY <1>4, <2>2, <2>3, <2>4, <2>5 DEF process_lock_event
  <1>5. ASSUME NEW e \in events, process_timer_event(e) PROVE ServeInv'
    <2>1. At(e)
      BY <1>5 DEF process_timer_event
    <2>2. CASE Skip(events)
      BY <1>2, <2>1, <2>2 DEF Skip, queues, At
    <2>3. CASE resume_method(e.f, "RUNNING")
      <3>1. ex' \in {"RUNNING", "STOPPED"} /\ UNCHANGED <<msgs, serial, reply>>
        BY <2>3 DEF resume_method, Resume
      <3>2. QED
        BY <1>1, <2>1, <3>1, NothingGrows, ResumeServes
    <2>4. QED
      BY <1>5, <2>2, <2>3 DEF process_timer_event
  <1>6. ASSUME NEW e \in events, process_sys_message_event(e) PROVE ServeInv'
    <2>1. At(e) /\ Awaiting(e)
      BY <1>6 DEF process_sys_message_event, Awaiting
    <2>2. CASE Skip(events)
      BY <1>2, <2>1, <2>2 DEF Skip, queues, At
    <2>3. CASE ~Skip(events)
      <3>1. /\ msgs' = msgs \ {m \in msgs : First(m, find_reply(e))}
            /\ events' = events \ {e} /\ UNCHANGED <<serial, ex>>
        BY <1>6, <2>3 DEF process_sys_message_event
      <3>2. QuietStep
        BY <2>1, <3>1, EventStep DEF StartStep, At
      <3>3. MsgInv'
        BY <3>1 DEF ServeInv, MsgInv
      <3>4. \A d \in events', m \in msgs \ msgs' : Awaiting(d) => m.msgid # d.bmsgid
        BY <2>1, <3>1 DEF IdInv, First, find_reply
      <3>5. QED
        BY <3>1, <3>2, <3>3, <3>4, QuietServes
    <2>4. QED
      BY <2>2, <2>3
  <1>7. ASSUME NEW e \in events, process_dead_event(e) PROVE ServeInv'
    BY <1>1, <1>7, ResumeRaiseGrows, ResumeServes DEF process_dead_event
  <1>8. QED
    BY <1>3, <1>4, <1>5, <1>6, <1>7 DEF process_event


\* A call that starts a method, or is answered at once.
LEMMA CallServes ==
  ASSUME TaskInv, TaskInv', IdInv, ServeInv, process_message
  PROVE  ServeInv'
  <1>1. TypeOK
    BY DEF TaskInv, CursorInv
  <1>2. ASSUME NEW m \in msgs, PassReply(m) PROVE ServeInv'
    <2>1. ex = "NONE" /\ UNCHANGED <<msgs, events, serial, ex>>
      BY <1>2 DEF PassReply, AtMsg, Skip, queues
    <2>2. QuietStep
      BY <2>1, MessageStep DEF StartStep
    <2>3. QED
      BY <1>1, <2>1, <2>2, NothingGrows, QuietGrows
  <1>3. ASSUME NEW m \in msgs, NEW k \in {"raise", "return"}, Refuse(m, k) PROVE ServeInv'
    <2> PICK f, keep : f = FrameOf(m, FALSE) /\ keep = msgs \ {m}
      OBVIOUS
    <2>1. /\ SendAnswer(f, k, keep) /\ ~ISREPLY(m)
          /\ ex = "NONE" /\ UNCHANGED <<events, ex>>
      BY <1>3 DEF Refuse, AtMsg
    <2>2. f.msgid = m.msgid /\ f.caller = m.from
      BY DEF FrameOf
    <2>3. QuietStep
      BY <1>3, <2>1, MessageStep DEF StartStep
    <2>4. Grows(keep) /\ Replied(f)
      BY <1>1, <2>1, AnswerGrows
    <2>5. MsgInv'
      BY <2>4, GrowsMsgs DEF TaskInv, CursorInv, ServeInv
    <2>6. \A x \in msgs \ msgs' : x = m
      BY <2>4 DEF Grows
    <2>7. ASSUME NEW d \in events, d.dest \in Objs, m.msgid = d.bmsgid, Waiter(d) \in Hands(m)
          PROVE  Held(d.bmsgid, Waiter(d))'
      <3>1. Waiter(d) = f.caller /\ d.bmsgid = f.msgid /\ f.caller \in Objs
        BY <1>1, <2>1, <2>2, <2>7, WaiterType DEF Hands
      <3>2. QED
        BY <2>4, <3>1, RepliedHeld DEF Held, Hands, Waiter
    <2>8. QED
      BY <2>1, <2>3, <2>5, <2>6, <2>7, QuietServes
  <1>4. ASSUME NEW m \in msgs, NEW ign \in Igns, call_method(m, ign) PROVE ServeInv'
    <2>1. /\ ex' = "RUNNING" /\ phase = "msgs" /\ m.n = cur /\ ~ISREPLY(m)
          /\ frame' = FrameOf(m, ign) /\ UNCHANGED <<msgs, serial, reply>>
      BY <1>4 DEF call_method, AtMsg, queues
    <2>2. frame'.msgid = m.msgid /\ frame'.caller = m.from
      BY <2>1 DEF FrameOf
    <2>3. StartStep
      BY <2>1, MessageStep DEF QuietStep
    <2>4. Grows(msgs)
      BY <1>1, <2>1, NothingGrows
    <2>5. MsgInv'
      BY <2>4, GrowsMsgs DEF TaskInv, CursorInv, ServeInv
    <2>6. \A x \in msgs : x.n = cur => x = m
      BY <2>1 DEF ServeInv, MsgInv
    <2>7. QED
      BY <2>1, <2>2, <2>3, <2>4, <2>5, <2>6, StartServes
  <1>5. QED
    BY <1>2, <1>3, <1>4 DEF process_message

LEMMA OpcodeKeepsServe ==
  ASSUME NoHalts, TaskInv, TaskInv', IdInv, ServeInv, opcode
  PROVE  ServeInv'
  <1>1. OpcodeStep /\ ServeStep /\ TypeOK
    BY OpcodeSteps, OpcodeServes DEF TaskInv, CursorInv
  <1>2. \A e \in events : \E d \in events' : Same(d, e)
    BY <1>1, EventsFacts DEF OpcodeStep
  <1>3. MsgInv'
    BY <1>1, GrowsMsgs DEF TaskInv, CursorInv, ServeInv, ServeStep
  <1>4. QED
    BY <1>1, <1>2, <1>3, RunServes DEF OpcodeStep, ServeStep

LEMMA TickServes ==
  ASSUME TaskInv, TaskInv', IdInv, ServeInv, Tick
  PROVE  ServeInv'
  <1> PICK f : f = [frame EXCEPT !.ticks = @ + 1]
    OBVIOUS
  <1>1. /\ SameFrame /\ ex # "NONE" /\ ex' # "NONE" /\ UNCHANGED <<loop, events>> /\ TypeOK
    BY TickFrame DEF Tick, TaskInv, CursorInv
  <1>2. f = frame'
    BY DEF Tick
  <1>3. \/ UNCHANGED <<msgs, serial, ex>>
        \/ SendAnswer(f, "ticks", msgs) /\ ex' = "RAISED"
    BY DEF Tick
  <1>4. Grows(msgs) /\ ex' # "HALTED" /\ (ex' = "RAISED" => Replied(frame) \/ ex = "RAISED")
    <2>1. CASE UNCHANGED <<msgs, serial, ex>>
      BY <1>1, <2>1, NothingGrows DEF ServeInv
    <2>2. CASE SendAnswer(f, "ticks", msgs) /\ ex' = "RAISED"
      <3>1. Grows(msgs) /\ Replied(f)
        BY <1>1, <2>2, AnswerGrows
      <3>2. f.msgid = frame.msgid /\ f.caller = frame.caller
        BY <1>1, <1>2 DEF SameFrame
      <3>3. QED
        BY <2>2, <3>1, <3>2 DEF Replied
    <2>3. QED
      BY <1>3, <2>1, <2>2
  <1>5. MsgInv'
    BY <1>4, GrowsMsgs DEF TaskInv, CursorInv, ServeInv
  <1>6. NewWaits /\ \A e \in events : \E d \in events' : Same(d, e)
    BY <1>1 DEF NewWaits, Same
  <1>7. ex' = "BLOCKED" => ex = "BLOCKED"
    BY <1>3
  <1>8. QED
    BY <1>1, <1>4, <1>5, <1>6, <1>7, RunServes

LEMMA NextServes ==
  ASSUME NoHalts, TaskInv, SeenInv, IdInv, ServeInv, [Next]_vars
  PROVE  ServeInv'
  <1>1. TaskInv'
    BY NextTask
  <1>2. CASE UNCHANGED vars
    BY <1>2 DEF vars, queues, loop, ServeInv, MsgInv, TakenInv, CalleeInv, AnsweredInv,
                WaiterServed, Owed, Current
  <1>3. QED
    BY <1>1, <1>2, EnvironmentServes, WalkServes, EventServes, CallServes, OpcodeKeepsServe,
       TickServes, FinishServes DEF Next, process_queues

\* No caller is ever left without someone who will answer it: not by an error, a
\* kill, a destroyed object, a missing method or a lack of ticks.
THEOREM CallersServed ==
  ASSUME NoHalts
  PROVE  Spec => []WaiterServed
  <1> DEFINE Inv == TaskInv /\ SeenInv /\ IdInv /\ ServeInv
  <1>1. Init => Inv
    <2> SUFFICES ASSUME Init PROVE Inv
      OBVIOUS
    <2>1. TaskInv /\ SeenInv
      BY InitTask DEF Init, SeenInv
    <2>2. IdInv /\ ServeInv
      BY DEF Init, IdInv, ServeInv, MsgInv, TakenInv, CalleeInv, AnsweredInv, WaiterServed
    <2>3. QED
      BY <2>1, <2>2
  <1>2. Inv /\ [Next]_vars => Inv'
    <2> SUFFICES ASSUME Inv, [Next]_vars PROVE Inv'
      OBVIOUS
    <2>1. TaskInv' /\ SeenInv' /\ ServeInv'
      BY NextTask, NextSeen, NextServes
    <2>2. IdInv'
      BY <2>1, NextId DEF TaskInv, CursorInv
    <2>3. QED
      BY <2>1, <2>2
  <1>3. Inv => WaiterServed
    BY DEF ServeInv
  <1>4. QED
    BY <1>1, <1>2, <1>3, PTL DEF Spec

=============================================================================
