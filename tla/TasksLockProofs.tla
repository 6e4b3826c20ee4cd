-------------------------- MODULE TasksLockProofs --------------------------
(***************************************************************************)
(* The theorem that lock() returns to one message id at a time, for any    *)
(* programs with at, kill, destroy, timeouts and eviction, if they do not  *)
(* lock a name twice and no method ignores errors.  TLC shows that it is   *)
(* false without the second condition: a method that ignores the E_TIMEOUT *)
(* of its lock() goes on, and its entry stays on the list.  README.md has  *)
(* the history in which a name locked twice has two owners.                *)
(*                                                                         *)
(* An entry that is not the first of its name belongs to a method that     *)
(* waits for it, or that has come to its end and is about to give it up.   *)
(***************************************************************************)
EXTENDS TasksProofs, WellFoundedInduction

\* The programs that the theorem is about.
Careful == ~Nests /\ TRUE \notin Igns

\* The method of message id b on object o has ended, and Finish is to come.
Ended(o, b) ==
    ex \in {"STOPPED", "RAISED", "HALTED"} /\ frame.this = o /\ frame.msgid = b

\* The method that placed l on o waits for it, or was killed while it did.
WaitsFor(o, l) ==
    \E e \in events : /\ e.on \in {"lock", "dead"} /\ e.f.this = o /\ e.lock = l.name
                      /\ e.f.msgid = l.by /\ ~Current(e)

LockNumbers == \A o \in Objs : \A l, m \in locks[o] : l.n < serial /\ (l.n = m.n => l = m)

\* A message id has one entry of a name.
OneEntry == \A o \in Objs : \A l, m \in locks[o] : l.name = m.name /\ l.by = m.by => l = m

NoneIgnores == (\A e \in events : ~e.f.ign) /\ (ex # "NONE" => ~frame.ign)

LaterWaits ==
    \A o \in Objs : \A l, m \in locks[o] :
        m.name = l.name /\ m.n < l.n => Ended(o, l.by) \/ WaitsFor(o, l)

ListInv == LockNumbers /\ OneEntry /\ LaterWaits
-----------------------------------------------------------------------------
(* No method ignores errors.                                               *)

LEMMA TimerIgn ==
  ASSUME NoneIgnores, NEW f, NEW past, ~f.ign, Timer(f, past)
  PROVE  \A d \in events' : ~d.f.ign
  BY DEF NoneIgnores, Timer

LEMMA OpcodeIgn ==
  ASSUME TypeOK, NoneIgnores, opcode
  PROVE  NoneIgnores'
  <1>1. ex = "RUNNING" /\ SameFrame
    BY OpcodeSteps DEF OpcodeStep
  <1>2. ~frame'.ign /\ ~Pushed.ign
    BY <1>1, PushedSame DEF SameFrame, NoneIgnores
  <1> SUFFICES \A d \in events' : ~d.f.ign
    BY <1>2 DEF NoneIgnores
  <1>3. CASE UNCHANGED events
    BY <1>3 DEF NoneIgnores
  <1>4. ASSUME NEW d \in Dests, NEW k \in Sends, op_message(d, k)
        PROVE  \A x \in events' : ~x.f.ign
    <2>1. UNCHANGED events \/ events' = events \cup {Waiting(d)}
      BY <1>4 DEF op_message
    <2>2. Waiting(d).f = Pushed
      BY DEF Waiting
    <2>3. QED
      BY <1>2, <2>1, <2>2 DEF NoneIgnores
  <1>5. ASSUME NEW name \in LockNames, op_lock(name) PROVE \A x \in events' : ~x.f.ign
    <2>1. \/ UNCHANGED events
          \/ \E d : d.f = Pushed /\ events' = events \cup {d}
      BY <1>5 DEF op_lock
    <2>2. QED
      BY <1>2, <2>1 DEF NoneIgnores
  <1>6. ASSUME NEW past, op_at(past) PROVE \A x \in events' : ~x.f.ign
    <2> DEFINE f == [Pushed EXCEPT !.at = TRUE]
    <2>1. ~f.ign
      BY <1>2, PushedType DEF Frame
    <2>2. Timer(f, past)
      BY <1>6 DEF op_at
    <2> HIDE DEF f
    <2>3. QED
      BY <2>1, <2>2, TimerIgn
  <1>7. ASSUME NEW r, NEW past, op_sleep(r, past) PROVE \A x \in events' : ~x.f.ign
    <2> DEFINE f == IF r THEN [Pushed EXCEPT !.ticks = 0, !.age = 0] ELSE Pushed
    <2>1. ~f.ign
      BY <1>2, PushedType DEF Frame
    <2>2. Timer(f, past)
      BY <1>7 DEF op_sleep
    <2> HIDE DEF f
    <2>3. QED
      BY <2>1, <2>2, TimerIgn
  <1>8. ASSUME NEW pid, op_kill(pid) PROVE \A x \in events' : ~x.f.ign
    <2>1. UNCHANGED events \/ \E e \in events : events' = (events \ {e}) \cup Killed(e)
      BY <1>8 DEF op_kill
    <2>2. \A e \in events : \A d \in Killed(e) : d.f = e.f
      BY DEF Killed, TypeOK, Event
    <2>3. QED
      BY <2>1, <2>2 DEF NoneIgnores
  <1>9. QED
    BY <1>3, <1>4, <1>5, <1>6, <1>7, <1>8
       DEF opcode, op_compute, op_fail, op_return, op_destroy, op_disconnect, op_raise,
           op_unlock, queues, Notify

-----------------------------------------------------------------------------
(* The event queue.                                                        *)

\* What a step does that resumes the method of e.
Resumes(e) ==
    /\ At(e) /\ e.on # "sys" /\ StartStep
    /\ frame'.this = e.f.this /\ frame'.msgid = e.f.msgid /\ frame'.ign = e.f.ign
    /\ e.on = "dead" => ex' \in {"STOPPED", "RAISED"}
    /\ e.on = "lock" => ex' \in {"STOPPED", "RAISED"} \/ ~LockedOut(e)

LEMMA ResumesRaise ==
  ASSUME TaskInv, NoneIgnores, NEW e \in events, At(e), e.on # "sys",
         ResumeRaise(e.f, "raise")
  PROVE  Resumes(e)
  <1>1. StartStep
    BY ResumeRaiseStart
  <1>2. frame' = e.f /\ ex' \in {"STOPPED", "RAISED"}
    BY DEF ResumeRaise, Resume, NoneIgnores
  <1>3. QED
    BY <1>1, <1>2 DEF Resumes

LEMMA EventResumes ==
  ASSUME TaskInv, NoneIgnores, process_event
  PROVE  \/ \E e \in events : Resumes(e)
         \/ QuietStep /\ UNCHANGED locks /\ events' \subseteq events
  <1> PICK e \in events : \/ process_message_event(e) \/ process_lock_event(e)
                          \/ process_timer_event(e) \/ process_sys_message_event(e)
                          \/ process_dead_event(e)
    BY DEF process_event
  <1>1. At(e) /\ ex = "NONE"
    BY DEF process_message_event, process_lock_event, process_timer_event,
           process_sys_message_event, process_dead_event, At
  <1>2. StartStep \/ (QuietStep /\ UNCHANGED locks)
    BY EventStep
  <1>3. CASE ex' = "NONE"
    <2>1. QuietStep /\ UNCHANGED locks
      BY <1>2, <1>3 DEF StartStep
    <2>2. events' \subseteq events
      BY <1>3 DEF process_message_event, process_lock_event, process_timer_event,
                  process_sys_message_event, process_dead_event, Skip, queues,
                  resume_method, Resume, ResumeRaise
    <2>3. QED
      BY <2>1, <2>2
  <1>4. CASE ex' # "NONE"
    <2>1. StartStep
      BY <1>2, <1>4 DEF QuietStep
    <2>2. CASE process_message_event(e)
      <3>1. e.on = "message"
        BY <2>2 DEF process_message_event
      <3>2. ASSUME NEW m PROVE LET f == [e.f EXCEPT !.ticks = m.ticks] IN
              f.this = e.f.this /\ f.msgid = e.f.msgid /\ f.ign = e.f.ign
        BY DEF TaskInv, CursorInv, TypeOK, Event, Frame
      <3>3. \/ frame' = e.f
            \/ \E m \in find_reply(e) : frame' = [e.f EXCEPT !.ticks = m.ticks]
        BY <1>1, <1>4, <2>2 DEF process_message_event, Skip, Resume, ResumeRaise
      <3>4. QED
        BY <1>1, <2>1, <3>1, <3>2, <3>3 DEF Resumes
    <2>3. CASE process_lock_event(e)
      <3>1. e.on = "lock"
        BY <2>3 DEF process_lock_event
      <3>2. CASE ResumeRaise(e.f, "raise")
        BY <1>1, <3>1, <3>2, ResumesRaise
      <3>3. CASE ~LockedOut(e) /\ resume_method(e.f, "RUNNING")
        BY <1>1, <2>1, <3>1, <3>3 DEF resume_method, Resume, Resumes
      <3>4. QED
        BY <1>1, <1>4, <2>3, <3>2, <3>3 DEF process_lock_event, Skip
    <2>4. CASE process_timer_event(e)
      <3>1. e.on = "timer" /\ frame' = e.f
        BY <1>1, <1>4, <2>4 DEF process_timer_event, resume_method, Resume, Skip
      <3>2. QED
        BY <1>1, <2>1, <3>1 DEF Resumes
    <2>5. CASE process_sys_message_event(e)
      BY <1>1, <1>4, <2>5 DEF process_sys_message_event, Skip
    <2>6. CASE process_dead_event(e)
      BY <1>1, <2>6, ResumesRaise DEF process_dead_event
    <2>7. QED
      BY <2>2, <2>3, <2>4, <2>5, <2>6
  <1>5. QED
    BY <1>3, <1>4

\* What a message or the main loop does to the event queue.
LEMMA OtherIgn ==
  ASSUME TaskInv, NoneIgnores, Environment \/ StartQueues \/ EndEvents \/ EndMsgs
  PROVE  NoneIgnores'
  <1>1. ex' = "NONE"
    BY OtherSteps DEF QuietStep
  <1>2. \A d \in events' : ~d.f.ign
    <2>1. ASSUME NEW o \in Objs, do_parse(o) PROVE \A d \in events' : ~d.f.ign
      BY <2>1 DEF do_parse, NoneIgnores, Blank
    <2>2. ASSUME NEW o \in Objs, disconnect_player(o) \/ Evict(o) PROVE UNCHANGED events
      BY <2>2 DEF disconnect_player, Notify, Evict, queues
    <2>3. CASE StartQueues \/ EndEvents \/ EndMsgs
      BY <2>3 DEF StartQueues, EndEvents, EndMsgs, queues, NoneIgnores
    <2>4. ASSUME NEW r, NEW o, NEW id, RemoteCall(r, o, id) PROVE UNCHANGED events
      BY <2>4 DEF RemoteCall, receive_message
    <2>5. ASSUME NEW r, NEW o, NEW id, NEW k, RemoteReply(r, o, id, k) PROVE UNCHANGED events
      BY <2>5 DEF RemoteReply, receive_message
    <2>6. QED
      BY <2>1, <2>2, <2>3, <2>4, <2>5 DEF Environment, NoneIgnores
  <1>3. QED
    BY <1>1, <1>2 DEF NoneIgnores

LEMMA MessageIgn ==
  ASSUME Careful, TaskInv, NoneIgnores, process_message
  PROVE  NoneIgnores' /\ UNCHANGED <<events, locks>> /\ serial' >= serial
  <1>s. serial \in Nat
    BY DEF TaskInv, CursorInv, TypeOK
  <1> PICK m \in msgs : \/ PassReply(m)
                        \/ \E k \in {"raise", "return"} : Refuse(m, k)
                        \/ \E ign \in Igns : call_method(m, ign)
    BY DEF process_message
  <1>1. CASE PassReply(m)
    BY <1>s, <1>1 DEF PassReply, AtMsg, Skip, queues, NoneIgnores
  <1>2. ASSUME NEW k, Refuse(m, k)
        PROVE  NoneIgnores' /\ UNCHANGED <<events, locks>> /\ serial' >= serial
    BY <1>2, SendAnswerStep DEF Refuse, AtMsg, NoneIgnores, TaskInv, CursorInv
  <1>3. ASSUME NEW ign \in Igns, call_method(m, ign)
        PROVE  NoneIgnores' /\ UNCHANGED <<events, locks>> /\ serial' >= serial
    <2>1. ign = FALSE
      BY TasksAssumption DEF Careful
    <2>2. frame'.ign = FALSE
      BY <1>3, <2>1 DEF call_method, FrameOf
    <2>3. QED
      BY <1>s, <1>3, <2>2 DEF call_method, queues, NoneIgnores
  <1>4. QED
    BY <1>1, <1>2, <1>3

LEMMA NextIgn ==
  ASSUME Careful, TaskInv, NoneIgnores, [Next]_vars
  PROVE  NoneIgnores'
  <1>1. CASE process_event
    <2>1. CASE QuietStep /\ events' \subseteq events
      BY <2>1 DEF QuietStep, NoneIgnores
    <2>2. ASSUME NEW e \in events, Resumes(e) PROVE NoneIgnores'
      BY <2>2 DEF Resumes, StartStep, NoneIgnores
    <2>3. QED
      BY <1>1, <2>1, <2>2, EventResumes
  <1>2. CASE Tick
    <2>1. SameFrame /\ ex # "NONE" /\ UNCHANGED events
      BY <1>2, TickFrame
    <2>2. QED
      BY <2>1 DEF SameFrame, NoneIgnores
  <1>3. CASE Finish
    BY <1>3 DEF Finish, NoneIgnores
  <1>4. CASE opcode
    BY <1>4, OpcodeIgn DEF TaskInv, CursorInv
  <1>5. CASE UNCHANGED vars
    BY <1>5 DEF vars, queues, NoneIgnores
  <1>6. QED
    BY <1>1, <1>2, <1>3, <1>4, <1>5, OtherIgn, MessageIgn DEF Next, process_queues

-----------------------------------------------------------------------------
(* The lists of locks.                                                     *)

\* A list has a first cell.
LEMMA FirstExists ==
  ASSUME NEW S, NEW l \in S, \A x \in S : x.n \in Nat
  PROVE  \E x \in S : First(x, S)
  <1> DEFINE N == {x.n : x \in S}
             R == OpToRel(<, Nat)
  <1>1. PICK k \in N : \A j \in N : ~(<<j, k>> \in R)
    <2>1. IsWellFoundedOn(R, Nat)
      BY NatLessThanWellFounded DEF R
    <2>2. N # {} /\ N \subseteq Nat
      OBVIOUS
    <2>3. QED
      BY <2>1, <2>2, WFMin, Zenon
  <1>2. \A j \in N : ~(j < k)
    BY <1>1 DEF R, OpToRel
  <1>3. PICK x \in S : x.n = k
    OBVIOUS
  <1>4. QED
    BY <1>2, <1>3 DEF First

\* A list without some of its entries has none in a later place.
LEMMA FewerLocks ==
  ASSUME TypeOK, ListInv, TypeOK', serial' >= serial,
         \A o \in Objs : locks'[o] \subseteq locks[o],
         \A o \in Objs : \A l \in locks'[o] :
             Ended(o, l.by) \/ WaitsFor(o, l) => Ended(o, l.by)' \/ WaitsFor(o, l)'
  PROVE  ListInv'
  <1>1. \A o \in Objs : \A l \in locks[o] : l.n \in Nat
    BY DEF TypeOK, Lock
  <1>2. serial \in Nat /\ serial' \in Nat
    BY DEF TypeOK
  <1>3. LockNumbers'
    BY <1>1, <1>2 DEF ListInv, LockNumbers
  <1>4. OneEntry' /\ LaterWaits'
    BY DEF ListInv, OneEntry, LaterWaits
  <1>5. QED
    BY <1>3, <1>4 DEF ListInv

LEMMA QuietLists ==
  ASSUME TypeOK, ListInv, TypeOK', QuietStep, QuietLocks
  PROVE  ListInv'
  <1>1. \A o \in Objs : \A l \in locks'[o] : WaitsFor(o, l) => WaitsFor(o, l)'
    BY DEF QuietStep, WaitsFor, Current
  <1>2. \A o, b : ~Ended(o, b)
    BY DEF QuietStep, Ended
  <1>3. QED
    BY <1>1, <1>2, FewerLocks DEF QuietStep, QuietLocks

\* The method of e gets the lock, or comes to its end.
LEMMA ResumesLists ==
  ASSUME TaskInv, ListInv, TypeOK', NEW e \in events, Resumes(e)
  PROVE  ListInv'
  <1>1. /\ ex = "NONE" /\ e.n = cur /\ phase = "events"
        /\ UNCHANGED <<events, locks, phase, cur>> /\ serial' >= serial
        /\ frame'.this = e.f.this /\ frame'.msgid = e.f.msgid
    BY DEF Resumes, At, StartStep
  <1>2. \A o, b : ~Ended(o, b)
    BY <1>1 DEF Ended
  <1>3. locks \in [Objs -> SUBSET Lock] /\ \A o \in Objs : \A l \in locks[o] : l.n \in Nat
    BY DEF TaskInv, CursorInv, TypeOK, Lock
  <1>4. LockNumbers' /\ OneEntry'
    <2>1. serial \in Nat /\ serial' \in Nat
      BY DEF TaskInv, CursorInv, TypeOK
    <2>2. QED
      BY <1>1, <1>3, <2>1 DEF ListInv, LockNumbers, OneEntry
  <1> SUFFICES ASSUME NEW o \in Objs, NEW l \in locks[o], NEW m \in locks[o],
                      m.name = l.name, m.n < l.n
               PROVE  Ended(o, l.by)' \/ WaitsFor(o, l)'
    BY <1>1, <1>4 DEF ListInv, LaterWaits
  <1>5. WaitsFor(o, l)
    BY <1>2 DEF ListInv, LaterWaits
  <1>6. PICK w \in events : /\ w.on \in {"lock", "dead"} /\ w.f.this = o /\ w.lock = l.name
                            /\ w.f.msgid = l.by
    BY <1>5 DEF WaitsFor
  <1>7. CASE w = e
    <2>1. CASE ex' \in {"STOPPED", "RAISED"}
      BY <1>1, <1>6, <1>7, <2>1 DEF Ended
    <2>2. CASE e.on = "lock" /\ ~LockedOut(e)
      <3> DEFINE S == {x \in locks[o] : x.name = l.name}
      <3>1. PICK h \in S : First(h, S)
        BY <1>3, FirstExists
      <3>2. h.by = l.by
        BY <1>6, <1>7, <2>2, <3>1 DEF LockedOut
      <3>3. h = l
        BY <3>1, <3>2 DEF ListInv, OneEntry
      <3>4. l.n <= m.n
        BY <3>1, <3>3 DEF First
      <3>5. QED
        BY <1>3, <3>4
    <2>3. QED
      BY <1>6, <1>7, <2>1, <2>2 DEF Resumes
  <1>8. CASE w # e
    <2>1. w.n # cur
      BY <1>1, <1>8 DEF TaskInv, UniqueEvents
    <2>2. QED
      BY <1>1, <1>6, <2>1 DEF WaitsFor, Current
  <1>9. QED
    BY <1>7, <1>8


\* The events of a waiting method stay, killed or not.
LEMMA WaitsStay ==
  ASSUME TypeOK, EventsStep
  PROVE  \A e \in events : e.on # "sys" =>
            \E d \in events' : /\ d.n = e.n /\ d.f = e.f /\ d.lock = e.lock
                               /\ d.on = e.on \/ d.on = "dead"
  <1>1. CASE UNCHANGED events \/ \E d \in events' : events' = events \cup {d}
    BY <1>1
  <1>2. ASSUME NEW k \in events, events' = (events \ {k}) \cup {[k EXCEPT !.on = "dead"]}
        PROVE  \A e \in events : e.on # "sys" =>
                  \E d \in events' : /\ d.n = e.n /\ d.f = e.f /\ d.lock = e.lock
                                     /\ d.on = e.on \/ d.on = "dead"
    <2> DEFINE d == [k EXCEPT !.on = "dead"]
    <2>1. d.n = k.n /\ d.f = k.f /\ d.lock = k.lock /\ d.on = "dead" /\ d \in events'
      BY <1>2 DEF TypeOK, Event
    <2> HIDE DEF d
    <2>2. QED
      BY <1>2, <2>1
  <1>3. QED
    BY <1>1, <1>2 DEF EventsStep

LEMMA OpcodeWaits ==
  ASSUME TypeOK, OpcodeStep, NEW o \in Objs, NEW l, WaitsFor(o, l)
  PROVE  WaitsFor(o, l)'
  <1>1. PICK e \in events : /\ e.on \in {"lock", "dead"} /\ e.f.this = o /\ e.lock = l.name
                            /\ e.f.msgid = l.by /\ ~Current(e)
    BY DEF WaitsFor
  <1>2. PICK d \in events' : /\ d.n = e.n /\ d.f = e.f /\ d.lock = e.lock
                             /\ d.on = e.on \/ d.on = "dead"
    BY <1>1, WaitsStay DEF OpcodeStep
  <1>3. UNCHANGED <<phase, cur>> /\ ex # "NONE"
    BY DEF OpcodeStep, loop
  <1>4. ~Current(d)'
    BY <1>1, <1>2, <1>3 DEF Current
  <1>5. QED
    BY <1>1, <1>2, <1>4 DEF WaitsFor

\* Only lock() makes a list longer.
LEMMA OnlyLock ==
  ASSUME TypeOK, opcode, ~\E name \in LockNames : op_lock(name), NEW o \in Objs
  PROVE  locks'[o] \subseteq locks[o]
  <1>0. locks \in [Objs -> SUBSET Lock]
    BY DEF TypeOK
  <1>1. CASE op_destroy
    BY <1>0, <1>1 DEF op_destroy
  <1>2. ASSUME NEW name, op_unlock(name) PROVE locks'[o] \subseteq locks[o]
    BY <1>0, <1>2 DEF op_unlock
  <1>3. QED
    BY <1>1, <1>2 DEF opcode, op_compute, op_fail, op_return, op_raise, op_kill,
                      op_disconnect, op_message, op_at, op_sleep, Timer

\* The new entry is the last of its list; if another has its name its method waits.
LEMMA LockLists ==
  ASSUME Careful, TaskInv, ListInv, TypeOK', OpcodeStep, NEW name \in LockNames, op_lock(name)
  PROVE  ListInv'
  <1> PICK s, b : s = frame.this /\ b = frame.msgid
    OBVIOUS
  <1> PICK new : new = [n |-> serial + 1, name |-> name, by |-> b]
    OBVIOUS
  <1>1. /\ s \in Objs /\ locks \in [Objs -> SUBSET Lock] /\ serial \in Nat
        /\ \A o \in Objs : \A l \in locks[o] : l.n \in Nat /\ l.n < serial
    BY DEF TaskInv, CursorInv, TypeOK, Frame, Lock, ListInv, LockNumbers
  <1>2. Pushed.this = s /\ Pushed.msgid = b
    BY PushedSame DEF TaskInv, CursorInv
  <1>3. /\ locks' = [locks EXCEPT ![s] = @ \cup {new}] /\ serial' = serial + 2
        /\ \A l \in locks[s] : l.name = name => l.by # b
    BY <1>2 DEF op_lock, Careful
  <1>4. new.n = serial + 1 /\ new.name = name /\ new.by = b
    OBVIOUS
  <1>5. (\E l \in locks[s] : l.name = name) => WaitsFor(s, new)'
    <2> SUFFICES ASSUME \E l \in locks[s] : l.name = name PROVE WaitsFor(s, new)'
      OBVIOUS
    <2>1. PICK d : d = [n |-> serial, on |-> "lock", f |-> Pushed, bmsgid |-> 0,
                        dest |-> Pushed.this, lock |-> name]
      OBVIOUS
    <2>2. /\ d \in events' /\ d.n = serial /\ d.on = "lock" /\ d.f.this = s
          /\ d.f.msgid = b /\ d.lock = name
      <3>1. events' = events \cup {d}
        BY <1>2, <2>1 DEF op_lock
      <3>2. QED
        BY <1>2, <2>1, <3>1
    <2>3. phase = "events" => cur < serial
      <3>1. \A e \in events : e.n < serial
        BY DEF TaskInv, FrameInv
      <3>2. serial > 0
        BY DEF TaskInv, FrameInv
      <3>3. QED
        BY <3>1, <3>2 DEF TaskInv, CursorInv, CursorValid, Queued
    <2>4. ~Current(d)'
      <3>1. phase' = phase /\ cur' = cur /\ cur \in Nat
        BY DEF OpcodeStep, loop, TaskInv, CursorInv, TypeOK
      <3>2. QED
        BY <1>1, <2>2, <2>3, <3>1 DEF Current
    <2>5. QED
      BY <1>4, <2>2, <2>4 DEF WaitsFor
  <1>6. /\ locks'[s] = locks[s] \cup {new}
        /\ \A o \in Objs : o # s => locks'[o] = locks[o]
    BY <1>1, <1>3
  <1>7. LockNumbers'
    BY <1>1, <1>3, <1>4, <1>6 DEF ListInv, LockNumbers
  <1>8. OneEntry'
    BY <1>1, <1>3, <1>4, <1>6 DEF ListInv, OneEntry
  <1>9. LaterWaits'
    <2> SUFFICES ASSUME NEW o \in Objs, NEW l \in locks'[o], NEW m \in locks'[o],
                        m.name = l.name, m.n < l.n
                 PROVE  WaitsFor(o, l)'
      BY DEF LaterWaits
    <2>1. CASE o = s /\ l = new
      <3>1. m \in locks[s]
        BY <1>1, <1>4, <1>6, <2>1
      <3>2. QED
        BY <1>4, <1>5, <2>1, <3>1
    <2>2. CASE ~(o = s /\ l = new)
      <3>1. l \in locks[o]
        BY <1>6, <2>2
      <3>2. m \in locks[o]
        <4>1. l.n \in Nat /\ l.n < serial
          BY <1>1, <3>1
        <4>2. m # new
          BY <1>1, <1>4, <4>1
        <4>3. QED
          BY <1>6, <4>2
      <3>3. ~Ended(o, l.by)
        BY DEF OpcodeStep, Ended
      <3>4. WaitsFor(o, l)
        BY <3>1, <3>2, <3>3 DEF ListInv, LaterWaits
      <3>5. QED
        BY <3>4, OpcodeWaits DEF TaskInv, CursorInv
    <2>3. QED
      BY <2>1, <2>2
  <1>10. QED
    BY <1>7, <1>8, <1>9 DEF ListInv

LEMMA OpcodeLists ==
  ASSUME Careful, TaskInv, ListInv, TypeOK', opcode
  PROVE  ListInv'
  <1>1. OpcodeStep /\ TypeOK
    BY OpcodeSteps DEF TaskInv, CursorInv
  <1>2. CASE \E name \in LockNames : op_lock(name)
    BY <1>1, <1>2, LockLists
  <1>3. CASE ~\E name \in LockNames : op_lock(name)
    <2>1. \A o \in Objs : locks'[o] \subseteq locks[o]
      BY <1>1, <1>3, OnlyLock
    <2>2. \A o, b : ~Ended(o, b)
      BY <1>1 DEF OpcodeStep, Ended
    <2>3. QED
      BY <1>1, <2>1, <2>2, OpcodeWaits, FewerLocks DEF OpcodeStep
  <1>4. QED
    BY <1>2, <1>3

LEMMA TickLists ==
  ASSUME TaskInv, ListInv, TypeOK', Tick
  PROVE  ListInv'
  <1>1. SameFrame /\ ex # "NONE" /\ ex' # "NONE" /\ UNCHANGED <<locks, events>>
    BY TickFrame
  <1>2. /\ UNCHANGED <<phase, cur>> /\ ex' \in {ex, "RAISED"}
        /\ SendAnswer([frame EXCEPT !.ticks = @ + 1], "ticks", msgs) \/ UNCHANGED serial
    BY DEF Tick, loop
  <1>3. TypeOK /\ serial' >= serial
    BY <1>2 DEF SendAnswer, TaskInv, CursorInv, TypeOK
  <1>4. \A o, b : Ended(o, b) => Ended(o, b)'
    BY <1>1, <1>2 DEF SameFrame, Ended
  <1>5. \A o, l : WaitsFor(o, l) => WaitsFor(o, l)'
    BY <1>1, <1>2 DEF WaitsFor, Current
  <1>6. QED
    BY <1>1, <1>3, <1>4, <1>5, FewerLocks

\* A method that has ended gives up its entries.
LEMMA FinishLists ==
  ASSUME TaskInv, ListInv, TypeOK', Finish
  PROVE  ListInv'
  <1>1. /\ TypeOK /\ ex' = "NONE" /\ ex # "NONE"
        /\ events' = {e \in events : phase = "events" => e.n # cur}
    BY DEF Finish, TaskInv, CursorInv
  <1>2. locks \in [Objs -> SUBSET Lock] /\ frame.this \in Objs
    BY <1>1 DEF TypeOK, Frame
  <1>3. serial' >= serial
    BY <1>1, SendAnswerStep DEF Finish, TypeOK
  <1>4. \A o \in Objs : \A l \in locks'[o] : l \in locks[o] /\ ~Ended(o, l.by)
    BY <1>2 DEF Finish, GivesUpLocks, Ended
  <1>5. \A o \in Objs : \A l \in locks'[o] : WaitsFor(o, l) => WaitsFor(o, l)'
    BY <1>1 DEF WaitsFor, Current
  <1>6. QED
    BY <1>1, <1>3, <1>4, <1>5, FewerLocks

-----------------------------------------------------------------------------
(* The theorem.                                                            *)

LEMMA NextLists ==
  ASSUME Careful, TaskInv, NoneIgnores, ListInv, TypeOK', [Next]_vars
  PROVE  ListInv'
  <1>1. UNCHANGED locks => QuietLocks
    BY DEF QuietLocks
  <1>2. TypeOK /\ serial \in Nat
    BY DEF TaskInv, CursorInv, TypeOK
  <1>3. CASE Environment \/ StartQueues \/ EndEvents \/ EndMsgs
    BY <1>2, <1>3, OtherSteps, QuietLists
  <1>4. CASE process_event
    BY <1>1, <1>2, <1>4, EventResumes, ResumesLists, QuietLists
  <1>5. CASE process_message
    <2>1. /\ UNCHANGED <<events, locks>> /\ serial' >= serial
          /\ ex = "NONE" /\ (ex' = "NONE" \/ phase' = "msgs")
      <3>1. ex = "NONE" /\ (ex' = "NONE" \/ phase' = "msgs")
        BY <1>5 DEF process_message, PassReply, Refuse, call_method, AtMsg, Skip
      <3>2. QED
        BY <1>5, <3>1, MessageIgn
    <2>2. \A o, b : ~Ended(o, b)
      BY <2>1 DEF Ended
    <2>3. \A o, l : WaitsFor(o, l) => WaitsFor(o, l)'
      BY <2>1 DEF WaitsFor, Current
    <2>4. QED
      BY <1>2, <2>1, <2>2, <2>3, FewerLocks
  <1>6. CASE opcode
    BY <1>6, OpcodeLists
  <1>7. CASE Tick \/ Finish
    BY <1>7, TickLists, FinishLists
  <1>8. CASE UNCHANGED vars
    BY <1>2, <1>8 DEF vars, queues, loop, ListInv, LockNumbers, OneEntry, LaterWaits,
                      Ended, WaitsFor, Current
  <1>9. QED
    BY <1>3, <1>4, <1>5, <1>6, <1>7, <1>8 DEF Next, process_queues

\* The entries of two message ids have different places, and only that of the
\* first does not wait.
LEMMA ListsExclude ==
  ASSUME TypeOK, ListInv
  PROVE  LockExclusive
  <1> SUFFICES ASSUME NEW o \in Objs, NEW name \in LockNames,
                      NEW i \in Holders(o, name), NEW j \in Holders(o, name)
               PROVE  i = j
    BY DEF LockExclusive
  <1> DEFINE Holds(l) == l \in locks[o] /\ l.name = name /\ ~Ended(o, l.by) /\ ~WaitsFor(o, l)
  <1>1. \A k \in Holders(o, name) : \E l : Holds(l) /\ l.by = k
    BY DEF Holders, Ended, WaitsFor
  <1>2. PICK l : Holds(l) /\ l.by = i
    BY <1>1
  <1>3. PICK m : Holds(m) /\ m.by = j
    BY <1>1
  <1>4. l.n \in Nat /\ m.n \in Nat
    BY <1>2, <1>3 DEF TypeOK, Lock
  <1>5. ~(l.n < m.n) /\ ~(m.n < l.n)
    BY <1>2, <1>3 DEF ListInv, LaterWaits
  <1>6. l.n = m.n
    BY <1>4, <1>5
  <1>7. l = m
    BY <1>2, <1>3, <1>6 DEF ListInv, LockNumbers
  <1>8. QED
    BY <1>2, <1>3, <1>7

\* lock() returns to one message id at a time, although a waiting method is let
\* through by its place on a list that other methods change by lock(), unlock(),
\* their end, their timeouts and kill() between two visits, and although message
\* ids of other servers may be the same (opcodes2.c 385-457, message.c 226-281).
THEOREM LocksExclude ==
  ASSUME Careful
  PROVE  Spec => []LockExclusive
  <1>1. Init => TaskInv /\ NoneIgnores /\ ListInv
    BY InitTask DEF Init, NoneIgnores, ListInv, LockNumbers, OneEntry, LaterWaits
  <1>2. TaskInv /\ NoneIgnores /\ ListInv /\ [Next]_vars =>
           (TaskInv /\ NoneIgnores /\ ListInv)'
    <2> SUFFICES ASSUME TaskInv, NoneIgnores, ListInv, [Next]_vars
                 PROVE  (TaskInv /\ NoneIgnores /\ ListInv)'
      OBVIOUS
    <2>1. TaskInv'
      BY NextTask
    <2>2. TypeOK'
      BY <2>1 DEF TaskInv, CursorInv
    <2>3. QED
      BY <2>1, <2>2, NextIgn, NextLists
  <1>3. TaskInv /\ ListInv => LockExclusive
    BY ListsExclude DEF TaskInv, CursorInv
  <1>4. QED
    BY <1>1, <1>2, <1>3, PTL DEF Spec

=============================================================================
