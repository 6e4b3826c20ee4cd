------------------------------- MODULE Tasks -------------------------------
(***************************************************************************)
(* The task engine of the server: the message queue and the event queue of *)
(* message.c, and the execution of methods by execute.c together with the  *)
(* opcodes that touch the queues (calls, locks, timers, kill, destroy).    *)
(*                                                                         *)
(* The server is one thread.  Its main loop alternates between reading     *)
(* input (phase "idle") and process_queues(), which walks the event queue, *)
(* then the message queue, and repeats while anything was handled.         *)
(* Handling an event or a message runs a method until it ends or blocks.   *)
(*                                                                         *)
(* A linked list of the code is a set of records stamped with a serial n   *)
(* taken from one counter: cells are only ever appended at the tail, so    *)
(* list order is serial order.  A pointer to a cell is its serial, the     *)
(* null pointer is 0.                                                      *)
(***************************************************************************)
EXTENDS Integers

CONSTANTS
    Objs,        \* the objects of this server
    Remotes,     \* objects of other servers
    LockNames,   \* the names programs give to lock() and unlock()
    Ops,         \* the operations programs use: a subset of AllOps
    Sends,       \* the kinds of message programs send: a subset of Kinds
    Igns,        \* may a method ignore errors: a subset of BOOLEAN
    Nests,       \* TRUE if programs lock a name they have already locked
    Arrivals,    \* what happens on connections: a subset of {"command", "notice"}
    RemoteIds,   \* message ids other servers use for their calls
    MaxAge,      \* max_age: the longest chain of calls, 0 for no limit
    MaxTicks,    \* max_ticks: the opcodes a chain of calls may execute
    Evicts,      \* TRUE if the cache is small enough to evict objects
    MaxInputs,   \* bound: messages from players and servers, ended connections
    MaxRounds    \* bound: iterations of the main loop

(***************************************************************************)
(* "raise" carries an error a method may declare that it ignores, "ticks"  *)
(* one it may not (the NOIGNORE errors, E_TICKS among them).               *)
(***************************************************************************)
Replies == {"return", "raise", "ticks", "halt"}
Kinds == {"call"} \cup Replies

AllOps == {"compute", "fail", "raise", "return", "message", "lock", "unlock",
           "at", "sleep", "kill", "destroy", "disconnect"}

ASSUME TasksAssumption ==
    /\ Objs # {} /\ LockNames # {} /\ Objs \cap Remotes = {}
    /\ Ops \subseteq AllOps /\ Sends \subseteq Kinds
    /\ Arrivals \subseteq {"command", "notice"} /\ RemoteIds \subseteq Nat
    /\ Igns \subseteq BOOLEAN /\ Nests \in BOOLEAN /\ Evicts \in BOOLEAN
    /\ MaxAge \in Nat /\ MaxTicks \in Nat
    /\ MaxInputs \in Nat /\ MaxRounds \in Nat

VARIABLES
    live,        \* the objects that exist
    locks,       \* the lock list of each object
    msgs,        \* msg_head .. msg_tail
    events,      \* event_head .. event_tail
    due,         \* serials of the events whose timeout_at is past cur_time
    next_msgid,
    serial,      \* the serial of the next cell
    phase,       \* where the main loop is
    cur,         \* the loop variable of process_queues, e or m
    nxt,         \* enext or mnext, read before the cell is processed
    handled,     \* events_handled || msgs_handled
    reply,       \* m of process_message_event
    frame,       \* the frame of the method being executed
    ex,          \* ex_state, "NONE" outside execute()
    ticked,      \* an opcode has run and frame.ticks++ is still to come
    inputs, rounds

queues == <<msgs, events, next_msgid, serial>>
loop == <<phase, cur, nxt, handled, reply>>
world == <<due, inputs, rounds>>
vars == <<live, locks, queues, loop, world, frame, ex, ticked>>

Dests == Objs \cup Remotes

\* What Event and the global frame record of a method being executed; ign: the
\* method ignores the errors it may ignore.  at is history: the task was made by
\* an at statement.
Frame == [msgid: Nat, age: Nat, ticks: Nat, this: Objs, caller: Dests,
          ign: BOOLEAN, at: BOOLEAN]

Message == [n: Nat, msgid: Nat, kind: Kinds, age: Nat, ticks: Nat,
            from: Dests, to: Objs]

Event == [n: Nat, on: {"message", "lock", "timer", "sys", "dead"}, f: Frame,
          bmsgid: Nat, dest: Dests, lock: LockNames]

\* by is added_by.
Lock == [n: Nat, name: LockNames, by: Nat]

Blank == [msgid |-> 0, age |-> 0, ticks |-> 0, this |-> CHOOSE o \in Objs : TRUE,
          caller |-> CHOOSE o \in Objs : TRUE, ign |-> FALSE,
          at |-> FALSE]

AnyName == CHOOSE l \in LockNames : TRUE

ISREPLY(m) == m.kind \in Replies

-----------------------------------------------------------------------------
(* Lists.                                                                  *)

First(x, S) == x \in S /\ \A y \in S : x.n <= y.n

\* k is the serial of the cell that follows serial i in list S, or 0.
Follows(k, i, S) ==
    \/ k = 0 /\ \A x \in S : x.n <= i
    \/ k > i /\ (\E x \in S : x.n = k) /\ \A x \in S : x.n > i => k <= x.n

Serials(S) == {x.n : x \in S} \cup {0}

-----------------------------------------------------------------------------
(* Messages.                                                               *)

\* The message that answers the call frame f executes.
Answer(f, k) == [n |-> serial, msgid |-> f.msgid, kind |-> k, age |-> f.age,
                 ticks |-> f.ticks, from |-> f.this, to |-> f.caller]

\* Mutant: the answer to a remote caller is queued locally.
SendAnswerLocal(f, k, keep) ==
    msgs' = keep \cup {Answer(f, k)} /\ serial' = serial + 1

\* send_message() of a reply to f's caller, after the messages in keep are all
\* that is left of the queue.  A remote caller is answered by yo(), whose
\* failure is not looked at.
SendAnswer(f, k, keep) ==
    IF f.caller \in Objs
    THEN msgs' = keep \cup {Answer(f, k)} /\ serial' = serial + 1
    ELSE msgs' = keep /\ UNCHANGED serial

\* Mutant: the id is used and not counted.
SameId == next_msgid

\* next_msgid++
NewId == next_msgid + 1

find_reply(e) == {m \in msgs : m.msgid = e.bmsgid /\ ISREPLY(m)}

\* The frame do_method sets up for message m.
FrameOf(m, ign) == [msgid |-> m.msgid, age |-> m.age, ticks |-> m.ticks,
                    this |-> m.to, caller |-> m.from, ign |-> ign,
                    at |-> FALSE]

-----------------------------------------------------------------------------
Init ==
    /\ live = Objs
    /\ locks = [o \in Objs |-> {}]
    /\ msgs = {} /\ events = {} /\ due = {}
    /\ next_msgid = 0 /\ serial = 1
    /\ phase = "idle" /\ cur = 0 /\ nxt = 0 /\ handled = FALSE /\ reply = 0
    /\ frame = Blank /\ ex = "NONE" /\ ticked = FALSE
    /\ inputs = 0 /\ rounds = 0

-----------------------------------------------------------------------------
(* Input.  It is read only between two calls of process_queues().          *)

Input ==
    /\ phase = "idle" /\ inputs < MaxInputs
    /\ inputs' = inputs + 1
    /\ UNCHANGED <<live, locks, due, rounds, loop, frame, ex, ticked>>

\* A player's command or connection: a message the player's object sends itself,
\* and an event of the system (which has no frame) that waits for the answer.
do_parse(o) ==
    /\ Input
    /\ msgs' = msgs \cup {[n |-> serial, msgid |-> next_msgid, kind |-> "call",
                           age |-> 0, ticks |-> 0, from |-> o, to |-> o]}
    /\ events' = events \cup {[n |-> serial + 1, on |-> "sys", f |-> Blank,
                               bmsgid |-> next_msgid, dest |-> o, lock |-> AnyName]}
    /\ serial' = serial + 2
    /\ next_msgid' = NewId

\* The connection of player o has ended: send_message() queues a call of the
\* player's disconnect method, for whose answer nobody waits.  What the system
\* object is told about other servers and at boot is sent in the same way.
Notify(o) ==
    /\ inputs < MaxInputs /\ inputs' = inputs + 1
    /\ msgs' = msgs \cup {[n |-> serial, msgid |-> next_msgid, kind |-> "call",
                           age |-> 0, ticks |-> 0, from |-> o, to |-> o]}
    /\ serial' = serial + 1
    /\ next_msgid' = NewId
    /\ UNCHANGED events

disconnect_player(o) == Input /\ Notify(o)

receive_message(m) ==
    /\ Input
    /\ msgs' = msgs \cup {m} /\ serial' = serial + 1
    /\ UNCHANGED <<events, next_msgid>>

\* A call from a remote server, under an id that server chose.
RemoteCall(r, o, id) ==
    receive_message([n |-> serial, msgid |-> id, kind |-> "call", age |-> 0,
                     ticks |-> 0, from |-> r, to |-> o])

\* An answer from a remote server: to a call that was sent to it, or a late one
\* that nobody waits for.
RemoteReply(r, o, id, k) ==
    /\ id < next_msgid
    /\ \A e \in events : e.on \in {"message", "sys"} /\ e.bmsgid = id =>
          e.dest = r /\ e.f.this = o
    /\ receive_message([n |-> serial, msgid |-> id, kind |-> k, age |-> 0,
                        ticks |-> 0, from |-> r, to |-> o])

\* An object no method uses leaves the cache: cache_get() reuses its slot and
\* frees it.  Its lock list is not part of what is written to the database.  An
\* object used since the last cache_reset() is not evicted, so that it may as well
\* have left before the walks began.
Evict(o) ==
    /\ Evicts /\ phase = "idle" /\ locks[o] # {}
    /\ locks' = [locks EXCEPT ![o] = {}]
    /\ UNCHANGED <<live, queues, loop, world, frame, ex, ticked>>

-----------------------------------------------------------------------------
(* process_queues().                                                       *)

\* The events whose timeout_at is ever looked at.
Timed(e) == e.on \in {"lock", "timer", "sys"} \/ (e.on = "message" /\ e.dest \in Remotes)

\* The main loop reads the clock, which may find more events due, and enters
\* the walk of the event queue.
StartQueues ==
    /\ phase = "idle" /\ rounds < MaxRounds
    /\ rounds' = rounds + 1
    /\ \E more \in SUBSET {e.n : e \in {x \in events : Timed(x)}} :
          due' = (due \cap {e.n : e \in events}) \cup more
    /\ phase' = "events" /\ handled' = FALSE
    /\ \E k \in Serials(events) : Follows(k, 0, events) /\ cur' = k
    /\ UNCHANGED <<live, locks, queues, nxt, reply, inputs, frame, ex, ticked>>

At(e) == phase = "events" /\ ex = "NONE" /\ e \in events /\ e.n = cur

\* enext = e->next
ReadNext(S) == \E k \in Serials(S) : Follows(k, cur, S) /\ nxt' = k

\* The cell is left where it is: the loop moves on.
Skip(S) ==
    /\ \E k \in Serials(S) : Follows(k, cur, S) /\ cur' = k
    /\ UNCHANGED <<live, locks, queues, world, phase, nxt, handled, reply,
                   frame, ex, ticked>>

\* frame = *e, and the first lines of execute(): a method whose object is gone
\* stops, whatever state it was to be resumed in.
Resume(f, x) ==
    /\ frame' = f
    /\ ex' = IF f.this \in live THEN x ELSE "STOPPED"
    /\ ReadNext(events)
    /\ UNCHANGED <<live, locks, events, next_msgid, world, phase, cur, handled,
                   ticked>>

\* resume_method_raise(): the error is pushed if the method ignores it, and
\* passed on to the caller if not.
ResumeRaise(f, k) ==
    /\ Resume(f, IF k = "raise" /\ f.ign THEN "RUNNING" ELSE "RAISED")
    /\ IF k = "raise" /\ f.ign
       THEN UNCHANGED <<msgs, serial>>
       ELSE SendAnswer(f, k, msgs)

resume_method(f, x) == Resume(f, x) /\ UNCHANGED <<msgs, serial, reply>>

\* A reply resumes the method that waits for it; so does the timeout of a call
\* to a remote server, and a retry that finds the server gone.
process_message_event(e) ==
    /\ At(e) /\ e.on = "message"
    /\ \/ \E m \in find_reply(e) :
            LET f == [e.f EXCEPT !.ticks = m.ticks] IN
            /\ First(m, find_reply(e))
            /\ reply' = m.n
            /\ \/ m.kind = "return" /\ Resume(f, "RUNNING") /\ UNCHANGED <<msgs, serial>>
               \/ m.kind = "halt" /\ Resume(f, "HALTED") /\ UNCHANGED <<msgs, serial>>
               \/ m.kind \in {"raise", "ticks"} /\ ResumeRaise(f, m.kind)
       \/ /\ find_reply(e) = {} /\ e.dest \in Remotes
          /\ ResumeRaise(e.f, "raise")
          /\ UNCHANGED reply
       \/ /\ find_reply(e) = {} /\ (e.dest \in Objs \/ e.n \notin due)
          /\ Skip(events)

\* Mutant: an entry of its own anywhere on the list lets the task through.
LockedOutUnlessEntered(e) ==
    /\ \E l \in locks[e.f.this] : l.name = e.lock
    /\ \A l \in locks[e.f.this] : l.name = e.lock => l.by # e.f.msgid

\* find_lock(): another message id comes first on the list of that name.
LockedOut(e) ==
    \E l \in locks[e.f.this] :
        /\ First(l, {x \in locks[e.f.this] : x.name = e.lock})
        /\ l.by # e.f.msgid

\* retrieve() of a destroyed object is the null pointer, which find_lock()
\* dereferences.
process_lock_event(e) ==
    /\ At(e) /\ e.on = "lock"
    /\ \/ e.f.this \in live /\ ~LockedOut(e) /\ resume_method(e.f, "RUNNING")
       \/ /\ e.f.this \in live /\ LockedOut(e) /\ e.n \in due
          /\ ResumeRaise(e.f, "raise") /\ UNCHANGED reply
       \/ e.f.this \in live /\ LockedOut(e) /\ e.n \notin due /\ Skip(events)
       \/ /\ e.f.this \notin live /\ phase' = "crashed"
          /\ UNCHANGED <<live, locks, queues, world, cur, nxt, handled, reply,
                         frame, ex, ticked>>

process_timer_event(e) ==
    /\ At(e) /\ e.on = "timer"
    /\ \/ e.n \in due /\ resume_method(e.f, "RUNNING")
       \/ e.n \notin due /\ Skip(events)

process_sys_message_event(e) ==
    /\ At(e) /\ e.on = "sys"
    /\ \/ /\ find_reply(e) # {} \/ e.n \in due
          /\ msgs' = msgs \ {m \in msgs : First(m, find_reply(e))}
          /\ events' = events \ {e}
          /\ handled' = TRUE
          /\ \E k \in Serials(events) : Follows(k, cur, events) /\ cur' = k
          /\ UNCHANGED <<live, locks, next_msgid, serial, world, phase, nxt,
                         reply, frame, ex, ticked>>
       \/ find_reply(e) = {} /\ e.n \notin due /\ Skip(events)

process_dead_event(e) ==
    /\ At(e) /\ e.on = "dead"
    /\ ResumeRaise(e.f, "raise")
    /\ UNCHANGED reply

EndEvents ==
    /\ phase = "events" /\ ex = "NONE" /\ cur = 0
    /\ phase' = "msgs"
    /\ \E k \in Serials(msgs) : Follows(k, 0, msgs) /\ cur' = k
    /\ UNCHANGED <<live, locks, queues, world, nxt, handled, reply, frame, ex,
                   ticked>>

AtMsg(m) == phase = "msgs" /\ ex = "NONE" /\ m \in msgs /\ m.n = cur

PassReply(m) == AtMsg(m) /\ ISREPLY(m) /\ Skip(msgs)

\* A call that starts no method: the object does not exist, or has no such
\* method, or call_verb's arguments are wrong ("raise"), or call_verb found no
\* verb that matches ("return").
Refuse(m, k) ==
    /\ AtMsg(m) /\ ~ISREPLY(m)
    /\ k = "raise" \/ (k = "return" /\ m.to \in live)
    /\ SendAnswer(FrameOf(m, FALSE), k, msgs \ {m})
    /\ handled' = TRUE
    /\ \E i \in Serials(msgs) : Follows(i, cur, msgs) /\ cur' = i
    /\ UNCHANGED <<live, locks, events, next_msgid, world, phase, nxt, reply,
                   frame, ex, ticked>>

\* call_method() and call_verb(): a method of the object or of an ancestor is
\* found, and do_method() sets up its frame.
call_method(m, ign) ==
    /\ AtMsg(m) /\ ~ISREPLY(m) /\ m.to \in live
    /\ frame' = FrameOf(m, ign)
    /\ ex' = "RUNNING"
    /\ ReadNext(msgs)
    /\ UNCHANGED <<live, locks, queues, world, phase, cur, handled, reply,
                   ticked>>

\* Mutant: the queues are walked once.
AgainNever == FALSE

\* Mutant: the walks go on while any event is left.
AgainWhileEvents == handled \/ events # {}

\* while (msgs_handled || events_handled)
Again == handled

\* Both walks are over.  They are repeated if anything was handled; if not, the
\* replies that are left are dropped and the main loop goes on.
EndMsgs ==
    /\ phase = "msgs" /\ ex = "NONE" /\ cur = 0
    /\ \/ /\ Again
          /\ phase' = "events"
          /\ \E k \in Serials(events) : Follows(k, 0, events) /\ cur' = k
          /\ UNCHANGED msgs
       \/ /\ ~Again
          /\ phase' = "idle"
          /\ msgs' = {m \in msgs : ~ISREPLY(m)}
          /\ UNCHANGED cur
    /\ handled' = FALSE
    /\ UNCHANGED <<live, locks, events, next_msgid, serial, world, nxt, reply,
                   frame, ex, ticked>>

-----------------------------------------------------------------------------
(* execute().  One action stands for an opcode and the pushes of its       *)
(* operands, which cost at least one tick before the opcode runs.          *)

Pushed == [frame EXCEPT !.ticks = @ + 1]

Runs(o) ==
    /\ o \in Ops /\ ex = "RUNNING" /\ ~ticked
    /\ Pushed.ticks < MaxTicks
    /\ frame' = Pushed /\ ticked' = TRUE
    /\ UNCHANGED <<rounds, loop>>

\* An opcode that ends no connection.
Op(o) == Runs(o) /\ UNCHANGED inputs

\* Any opcode that does not touch the queues, the locks or the frame, such as the
\* push that uses the last tick.
op_compute ==
    /\ ex = "RUNNING" /\ ~ticked
    /\ "compute" \in Ops \/ Pushed.ticks >= MaxTicks
    /\ ticked' = TRUE
    /\ UNCHANGED <<live, locks, queues, world, loop, frame, ex>>

\* raise() of an error a method may ignore.
raise(f) ==
    IF f.ign THEN UNCHANGED <<msgs, serial, ex>>
             ELSE SendAnswer(f, "raise", msgs) /\ ex' = "RAISED"

op_fail ==
    /\ Op("fail") /\ raise(Pushed)
    /\ UNCHANGED <<live, locks, events, next_msgid, due>>

\* The raise statement does not ask the method's own error handlers.
op_raise(k) ==
    /\ Op("raise") /\ SendAnswer(Pushed, k, msgs) /\ ex' = "RAISED"
    /\ UNCHANGED <<live, locks, events, next_msgid, due>>

\* Return, or the end of the method's code.
op_return ==
    /\ Op("return") /\ ex' = "STOPPED"
    /\ UNCHANGED <<live, locks, queues, due>>

\* The event send_message_and_block() queues for the running method.
Waiting(d) == [n |-> serial + 1, on |-> "message", f |-> Pushed,
               bmsgid |-> next_msgid, dest |-> d, lock |-> AnyName]

Request(d, k) == [n |-> serial, msgid |-> next_msgid, kind |-> k,
                  age |-> Pushed.age + 1, ticks |-> Pushed.ticks,
                  from |-> Pushed.this, to |-> d]

\* A message to another object, or pass(): send_message() gives it a new id and
\* the method blocks until an answer with that id arrives.
op_message(d, k) ==
    /\ Op("message")
    /\ UNCHANGED <<live, locks, due>>
    /\ \/ /\ MaxAge > 0 /\ Pushed.age + 1 >= MaxAge
          /\ raise(Pushed) /\ UNCHANGED <<events, next_msgid>>
       \/ /\ MaxAge > 0 => Pushed.age + 1 < MaxAge
          /\ next_msgid' = NewId
          /\ \/ /\ d \in Objs
                /\ msgs' = msgs \cup {Request(d, k)}
                /\ events' = events \cup {Waiting(d)}
                /\ serial' = serial + 2 /\ ex' = "BLOCKED"
             \/ /\ d \in Remotes                       \* yo() sends it
                /\ events' = events \cup {Waiting(d)}
                /\ serial' = serial + 2 /\ ex' = "BLOCKED" /\ UNCHANGED msgs
             \/ d \in Remotes /\ raise(Pushed) /\ UNCHANGED events   \* or fails

\* The lock is entered at the end of the list in any case; if the name is
\* already on the list the method blocks.
op_lock(name) ==
    LET mine == locks[Pushed.this]
        taken == \E l \in mine : l.name = name
    IN  /\ Op("lock")
        /\ Nests \/ \A l \in mine : l.name = name => l.by # Pushed.msgid
        /\ locks' = [locks EXCEPT ![Pushed.this] =
                        @ \cup {[n |-> serial + 1, name |-> name, by |-> Pushed.msgid]}]
        /\ events' = IF taken
                     THEN events \cup {[n |-> serial, on |-> "lock", f |-> Pushed,
                                        bmsgid |-> 0, dest |-> Pushed.this,
                                        lock |-> name]}
                     ELSE events
        /\ ex' = IF taken THEN "BLOCKED" ELSE "RUNNING"
        /\ serial' = serial + 2
        /\ UNCHANGED <<live, msgs, next_msgid, due>>

\* Mutant: any entry of that name.
OwnLocksAny(name) == {l \in locks[frame.this] : l.name = name}

OwnLocks(name) == {l \in locks[frame.this] : l.name = name /\ l.by = frame.msgid}

\* The first entry of that name and of this message id is removed, if any.
op_unlock(name) ==
    /\ Op("unlock")
    /\ locks' = [locks EXCEPT ![frame.this] =
                    @ \ {l \in OwnLocks(name) : First(l, OwnLocks(name))}]
    /\ UNCHANGED <<live, queues, due, ex>>

\* A timer event with frame f.  past: its time is not later than cur_time.
Timer(f, past) ==
    /\ events' = events \cup {[n |-> serial, on |-> "timer", f |-> f, bmsgid |-> 0,
                               dest |-> f.this, lock |-> AnyName]}
    /\ due' = IF past THEN due \cup {serial} ELSE due
    /\ serial' = serial + 1
    /\ UNCHANGED <<live, locks, msgs, next_msgid>>

\* at: the statements up to endat become a task of their own, with a copy of the
\* frame, its message id and its caller included; this task goes on after endat.
op_at(past) ==
    Op("at") /\ Timer([Pushed EXCEPT !.at = TRUE], past) /\ UNCHANGED ex

\* sleep: ticks and age start again after a sleep of sleep_to_refresh seconds
\* or more, whose end is always later than cur_time.
op_sleep(refresh, past) ==
    /\ Op("sleep") /\ ~(refresh /\ past)
    /\ Timer(IF refresh THEN [Pushed EXCEPT !.ticks = 0, !.age = 0] ELSE Pushed, past)
    /\ ex' = "BLOCKED"

\* Mutant: the event is freed at once.
KilledFreed(e) == {}

\* e->blocked_on = BL_DEAD
Killed(e) == {[e EXCEPT !.on = "dead"]}

\* kill(pid): cmkill() marks the first event of that id for its next turn, if the
\* killer may (it is a wizard or the task's player), and raises E_PERM if not.
op_kill(pid) ==
    LET found == {e \in events : e.on # "sys" /\ e.f.msgid = pid}
    IN  /\ Op("kill")
        /\ \/ /\ \E e \in found :
                    /\ First(e, found)
                    /\ events' = (events \ {e}) \cup Killed(e)
              /\ UNCHANGED <<msgs, serial, ex>>
           \/ found # {} /\ raise(Pushed) /\ UNCHANGED events
           \/ found = {} /\ UNCHANGED <<msgs, serial, ex, events>>
        /\ UNCHANGED <<live, locks, next_msgid, due>>

\* disconnect(), set_parse() and an outbound connection end the connection a
\* player has.
op_disconnect(o) ==
    Runs("disconnect") /\ Notify(o) /\ UNCHANGED <<live, locks, due, ex>>

\* destroy(): this object is deleted from cache and database, and disconnected if
\* it is a player with a connection.
op_destroy ==
    /\ Runs("destroy")
    /\ live' = live \ {Pushed.this}
    /\ locks' = [locks EXCEPT ![Pushed.this] = {}]
    /\ ex' = "STOPPED"
    /\ Notify(Pushed.this) \/ UNCHANGED <<queues, inputs>>
    /\ UNCHANGED due

\* The end of the loop body of execute(): the tick of the opcode is counted, and
\* when it is the last one E_TICKS is raised, in whatever state the opcode left
\* the method.
Tick ==
    LET f == [frame EXCEPT !.ticks = @ + 1]
    IN  /\ ticked /\ ticked' = FALSE
        /\ frame' = f
        /\ IF f.ticks >= MaxTicks
           THEN SendAnswer(f, "ticks", msgs) /\ ex' = "RAISED"
           ELSE UNCHANGED <<msgs, serial, ex>>
        /\ UNCHANGED <<live, locks, events, next_msgid, world, loop>>

\* Mutant: only a method that stopped gives up its locks.
GivesUpLocksOnStop == ex = "STOPPED"

GivesUpLocks == ex # "BLOCKED"

\* Mutant: nothing is sent on behalf of an object that is gone.
AnswersCallerIfLive == ex = "STOPPED" /\ frame.this \in live

AnswersCaller == ex = "STOPPED"

\* execute() leaves its loop and process_queues() removes the cell it was
\* processing.  A method that did not block gives up its locks, and one that
\* stopped answers its caller.
Finish ==
    LET keep == {m \in msgs : m.n # reply /\ (phase = "msgs" => m.n # cur)}
    IN  /\ ex \notin {"NONE", "RUNNING"} /\ ~ticked
        /\ locks' = IF GivesUpLocks
                    THEN [locks EXCEPT ![frame.this] = {l \in @ : l.by # frame.msgid}]
                    ELSE locks
        /\ IF AnswersCaller THEN SendAnswer(frame, "return", keep)
                            ELSE msgs' = keep /\ UNCHANGED serial
        /\ events' = {e \in events : phase = "events" => e.n # cur}
        /\ cur' = nxt /\ nxt' = 0 /\ reply' = 0 /\ handled' = TRUE
        /\ frame' = Blank /\ ex' = "NONE"
        /\ UNCHANGED <<live, next_msgid, world, phase, ticked>>

-----------------------------------------------------------------------------
\* Other servers run the same code: they answer as this one does.
Answers == {"return", "raise", "ticks"} \cup (Sends \cap {"halt"})

Environment ==
    \/ \E o \in Objs : \/ "command" \in Arrivals /\ do_parse(o)
                       \/ "notice" \in Arrivals /\ disconnect_player(o)
                       \/ Evict(o)
    \/ \E r \in Remotes, o \in Objs :
          \/ \E id \in RemoteIds : RemoteCall(r, o, id)
          \/ \E id \in 0 .. next_msgid, k \in Answers : RemoteReply(r, o, id, k)

process_event ==
    \E e \in events :
        \/ process_message_event(e) \/ process_lock_event(e)
        \/ process_timer_event(e) \/ process_sys_message_event(e)
        \/ process_dead_event(e)

process_message ==
    \E m \in msgs :
        \/ PassReply(m)
        \/ \E k \in {"raise", "return"} : Refuse(m, k)
        \/ \E ign \in Igns : call_method(m, ign)

opcode ==
    \/ op_compute \/ op_fail \/ op_return \/ op_destroy
    \/ \E o \in Objs : op_disconnect(o)
    \/ \E k \in {"raise", "ticks"} : op_raise(k)
    \/ \E d \in Dests, k \in Sends : op_message(d, k)
    \/ \E name \in LockNames : op_lock(name) \/ op_unlock(name)
    \/ \E past \in BOOLEAN : op_at(past) \/ \E r \in BOOLEAN : op_sleep(r, past)
    \/ \E pid \in {e.f.msgid : e \in events} \cup {next_msgid} : op_kill(pid)

process_queues ==
    process_event \/ EndEvents \/ process_message \/ EndMsgs \/ opcode \/ Tick \/ Finish

Next == Environment \/ StartQueues \/ process_queues

Spec == Init /\ [][Next]_vars

\* The server is one thread that never waits inside process_queues().
FairSpec == Spec /\ WF_vars(process_queues)

-----------------------------------------------------------------------------
TypeOK ==
    /\ live \subseteq Objs
    /\ locks \in [Objs -> SUBSET Lock]
    /\ msgs \subseteq Message /\ events \subseteq Event /\ due \subseteq Nat
    /\ next_msgid \in Nat /\ serial \in Nat
    /\ phase \in {"idle", "events", "msgs", "crashed"}
    /\ cur \in Nat /\ nxt \in Nat /\ handled \in BOOLEAN /\ reply \in Nat
    /\ frame \in Frame /\ ticked \in BOOLEAN
    /\ ex \in {"NONE", "RUNNING", "BLOCKED", "STOPPED", "RAISED", "HALTED"}
    /\ inputs \in Nat /\ rounds \in Nat

Queued(k, S) == k = 0 \/ \E x \in S : x.n = k

\* The loops of process_queues() never follow a pointer to a freed cell: the cell
\* being processed, and the one that was read as its successor before a method of
\* any length ran, are both still on the queue (message.c 81-90 and 91-120).
CursorValid ==
    /\ phase = "events" =>
          Queued(cur, events) /\ (ex # "NONE" => Queued(nxt, events))
    /\ phase = "msgs" =>
          Queued(cur, msgs) /\ (ex # "NONE" => Queued(nxt, msgs))

Awaiting(e) == e.on \in {"message", "sys"}

\* The object that waits for the answer, which is also the sender of the call.
Waiter(e) == IF e.on = "sys" THEN e.dest ELSE e.f.this

\* The event whose method is running; it leaves the queue when the method is done.
Current(e) == phase = "events" /\ ex # "NONE" /\ e.n = cur

\* find_reply() compares message ids only (message.c 253-264).  Two waiting events
\* never wait for the same id, and what an event would take for its reply belongs
\* to the object that waits, although calls of other servers carry ids from
\* another counter.
RightReply ==
    /\ \A e, d \in events : Awaiting(e) /\ Awaiting(d) /\ e.bmsgid = d.bmsgid => e = d
    /\ \A e \in events : Awaiting(e) =>
          \A m \in find_reply(e) : Waiter(e) \in {m.to, m.from}

\* Someone still owes object o the answer to its call b, or it is on its way (a
\* program that sends a reply of its own making waits for what it sent).
Owed(b, o) ==
    \/ \E m \in msgs : m.msgid = b /\ o \in (IF ISREPLY(m) THEN {m.to, m.from} ELSE {m.from})
    \/ ex \in {"RUNNING", "STOPPED"} /\ frame.msgid = b /\ frame.caller = o
    \/ \E e \in events : /\ e.on # "sys" /\ ~Current(e)
                         /\ e.f.msgid = b /\ e.f.caller = o

\* A local call has no timeout (message.c 198-200), so no caller may ever be left
\* without someone who will answer it: not by an error, a kill, a destroyed
\* object, a missing method or a lack of ticks.
WaiterServed ==
    \A e \in events :
        /\ Awaiting(e) /\ ~Current(e)
        /\ e.dest \in Objs
        => Owed(e.bmsgid, Waiter(e))

\* When process_queues() drops the replies that are left (message.c 125-130), no
\* event waits for one of them.
DropsOnlyOrphans ==
    [][phase = "msgs" /\ phase' = "idle" =>
         \A m \in msgs \ msgs', e \in events : Awaiting(e) => e.bmsgid # m.msgid]_vars

\* "Locks placed by an execution thread remain in effect until a corresponding
\* unlock() call, or until the thread terminates": a lock never outlives the last
\* task of the message id that placed it (execute.c 249-252, 446-467).
LockOwnerAlive ==
    \A o \in Objs : \A l \in locks[o] :
        \/ ex # "NONE" /\ frame.this = o /\ frame.msgid = l.by
        \/ \E e \in events : e.on # "sys" /\ e.f.this = o /\ e.f.msgid = l.by

\* The other half of that sentence: a lock disappears only while a task of its own
\* message id runs, or with the object.
LockKept ==
    [][\A o \in live' : \A l \in locks[o] \ locks'[o] :
         ex # "NONE" /\ frame.this = o /\ frame.msgid = l.by]_vars

\* The message ids whose lock(name) on o has returned and that are still entered; a
\* task that was killed while it waited for the lock has not got it.
Holders(o, name) ==
    {l.by : l \in {x \in locks[o] :
        /\ x.name = name
        /\ ~(ex \in {"STOPPED", "RAISED", "HALTED"} /\ frame.this = o /\ frame.msgid = x.by)
        /\ \A e \in events : e.on \in {"lock", "dead"} /\ e.f.this = o /\ e.lock = name
                             /\ ~Current(e) => e.f.msgid # x.by}}

\* Mutual exclusion: lock() returns to one message id at a time (opcodes2.c
\* 385-457, message.c 226-281).
LockExclusive ==
    \A o \in Objs, name \in LockNames :
        \A i, j \in Holders(o, name) : i = j

\* A method that has blocked is not ended before its event resumes it.
BlockedNotEnded ==
    [][ex = "BLOCKED" => ex' \in {"BLOCKED", "NONE"}]_vars

\* The answer to a call is on its way only when the method has ended: the caller
\* does not go on while the method it called is still blocked.
AnswerEndsMethod ==
    \A e \in events, m \in msgs :
        /\ Awaiting(e) /\ m \in find_reply(e) /\ m.kind = "return"
        => \A d \in events : d.on \in {"sys", "dead"} \/ d.f.at \/ Current(d)
                             \/ d.f.msgid # m.msgid \/ d.f.caller # m.to

\* process_queues() always ends, whatever the programs do: the ticks of a chain
\* of calls are limited, and what resets them waits for a later round.
QueuesEnd == (phase \in {"events", "msgs"}) ~> (phase \in {"idle", "crashed"})
=============================================================================
