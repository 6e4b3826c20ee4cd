-------------------------------- MODULE Yo --------------------------------
(***************************************************************************)
(* The protocol between servers: servers.c, serverio.c and the parts of    *)
(* message.c and dispatch.c that send and receive remote messages.         *)
(*                                                                         *)
(* Servers exchange datagrams that may be lost, repeated and reordered: net *)
(* is the set of all that were ever sent, any of which may arrive at any   *)
(* time.  A server that is sent a call runs it and answers; the caller     *)
(* sends the call again at growing intervals until the answer comes or the *)
(* time is up.  A connect that is refused, because the server is unknown   *)
(* or its address is not the configured one, has the effect of a lost one. *)
(***************************************************************************)
EXTENDS Integers

CONSTANTS
    Servers,
    Callers,     \* servers whose methods call objects of other servers
    Restarting,  \* servers that stop and start again
    Retry,       \* MSG_RETRY: the first interval of the retries
    Timeout,     \* MSG_TIMEOUT
    MaxCalls,    \* bound: message ids a server uses for remote calls
    MaxStarts,   \* bound: times a server is started
    MaxRuns      \* bound: calls run

ASSUME YoAssumption ==
    /\ Callers \subseteq Servers /\ Restarting \subseteq Servers
    /\ Retry \in Nat \ {0} /\ Timeout \in Nat \ {0}
    /\ MaxCalls \in Nat /\ MaxStarts \in Nat \ {0} /\ MaxRuns \in Nat

VARIABLES
    starts,      \* times each server was started; it runs under that number
    up,          \* servers that run
    tab,         \* the table of servers of each server
    next_msgid,
    events,      \* calls whose methods wait, with their timers
    running,     \* calls a server has queued or executes
    net,         \* datagrams sent
    hist         \* history, for RemoteCalls: what it has but for waiting

vars == <<starts, up, tab, next_msgid, events, running, net, hist>>

Call == [from: Servers, to: Servers, start: Nat, id: Nat]

\* t is the time left until timeout_at, r until retry_at, iv is retry_interval.
Event == [call: Call, t: Nat, r: Nat, iv: Nat]

\* The fields of struct Server that change.
Entry == [connected: BOOLEAN, last_msgid: Nat \cup {-1}]

Meta == [kind: {"connect", "connectok", "disconnect"}, from: Servers, to: Servers]
Message == [kind: {"call", "return"}, call: Call]

\* Mutant: the number before the first id is taken for the one before that.
NewEntryLow == [connected |-> FALSE, last_msgid |-> -2]

\* serverconfig(), and serv_add() for a server that was not known.
NewEntry == [connected |-> FALSE, last_msgid |-> -1]

-----------------------------------------------------------------------------
\* Datagrams D are handed to sendto(); nothing is known of what becomes of them.
Sends(D) == net' = net \cup D

Peers(s) == Servers \ {s}

\* connect_to_servers() at the start.  The server has lost what it knew.
Start(s) ==
    /\ s \notin up /\ starts[s] < MaxStarts
    /\ up' = up \cup {s}
    /\ starts' = [starts EXCEPT ![s] = @ + 1]
    /\ tab' = [tab EXCEPT ![s] = [p \in Servers |-> NewEntry]]
    /\ next_msgid' = [next_msgid EXCEPT ![s] = 0]
    /\ Sends({[kind |-> "connect", from |-> s, to |-> p] : p \in Peers(s)})
    /\ UNCHANGED <<events, running, hist>>

\* close_sockets() and disconnect_from_servers(), at a shutdown and when a signal
\* ends the server; a server that is just gone sends nothing.
Stop(s, quiet) ==
    /\ s \in Restarting /\ s \in up
    /\ up' = up \ {s}
    /\ events' = {e \in events : e.call.from # s}
    /\ running' = {c \in running : c.to # s}
    /\ hist' = [hist EXCEPT !.ran = {c \in @ : c.to # s}]
    /\ IF quiet THEN UNCHANGED net
       ELSE Sends({[kind |-> "disconnect", from |-> s, to |-> p] :
                     p \in {q \in Peers(s) : tab[s][q].connected}})
    /\ UNCHANGED <<starts, tab, next_msgid>>

-----------------------------------------------------------------------------
(* Calls.                                                                  *)

\* yo() returns 0.
yo(s, p) == tab[s][p].connected

NewCall(s, p) == [from |-> s, to |-> p, start |-> starts[s], id |-> next_msgid[s]]

\* send_message() to a remote object.  An id is used even if the call then fails
\* with E_SERVERDN.
send_message(s, p) ==
    LET c == NewCall(s, p)
    IN  /\ s \in up \cap Callers /\ p # s /\ next_msgid[s] < MaxCalls
        /\ next_msgid' = [next_msgid EXCEPT ![s] = @ + 1]
        /\ IF yo(s, p)
           THEN /\ Sends({[kind |-> "call", call |-> c]})
                /\ events' = events \cup {[call |-> c, t |-> Timeout, r |-> Retry, iv |-> Retry]}
                /\ hist' = [hist EXCEPT !.sent = @ \cup {c}]
           ELSE UNCHANGED <<net, events, hist>>
        /\ UNCHANGED <<starts, up, tab, running>>

\* Mutant: the time is not looked at while the next retry is not due.
LaterRetryOnly(e) == [e EXCEPT !.r = IF @ > 1 THEN @ - 1 ELSE @]

Later(e) == [e EXCEPT !.t = @ - 1, !.r = @ - 1]

\* Time passes: the walk of the event queue finds no answer.  The method is resumed
\* with E_TIMEOUT when the time is up, or if a retry finds the server gone; a retry
\* doubles the interval.
process_message_event(e) ==
    LET l == Later(e)
    IN  /\ e \in events
        /\ \/ l.t = 0 /\ events' = events \ {e} /\ UNCHANGED net
           \/ /\ l.t > 0 /\ l.r = 0 /\ ~yo(e.call.from, e.call.to)
              /\ events' = events \ {e} /\ UNCHANGED net
           \/ /\ l.t > 0 /\ l.r = 0 /\ yo(e.call.from, e.call.to)
              /\ events' = (events \ {e}) \cup {[l EXCEPT !.iv = 2 * @, !.r = 2 * l.iv]}
              /\ Sends({[kind |-> "call", call |-> e.call]})
           \/ /\ l.t > 0 /\ l.r > 0
              /\ events' = (events \ {e}) \cup {l} /\ UNCHANGED net
        /\ UNCHANGED <<starts, up, tab, next_msgid, running, hist>>

\* The method that was called ends, and its answer is sent if the caller's server
\* is connected.
Answer(c) ==
    /\ c \in running
    /\ running' = running \ {c}
    /\ IF yo(c.to, c.from) THEN Sends({[kind |-> "return", call |-> c]}) ELSE UNCHANGED net
    /\ UNCHANGED <<starts, up, tab, next_msgid, events, hist>>

-----------------------------------------------------------------------------
(* server_command(): a datagram arrives.                                   *)

\* The server p is connected to s from now on.
Connected(s, p) ==
    /\ tab' = [tab EXCEPT ![s][p] = [connected |-> TRUE, last_msgid |-> -1]]
    /\ hist' = [hist EXCEPT !.ran = {c \in @ : ~(c.from = p /\ c.to = s)}]

meta_command(d) ==
    /\ d \in net /\ d.kind \in {"connect", "connectok", "disconnect"} /\ d.to \in up
    /\ \/ /\ d.kind = "connect" /\ Connected(d.to, d.from)
          /\ Sends({[kind |-> "connectok", from |-> d.to, to |-> d.from]})
       \/ d.kind = "connectok" /\ Connected(d.to, d.from) /\ UNCHANGED net
       \/ /\ d.kind = "disconnect"
          /\ tab' = [tab EXCEPT ![d.to][d.from].connected = FALSE]
          /\ UNCHANGED <<net, hist>>
    /\ UNCHANGED <<starts, up, next_msgid, events, running>>

\* Mutant: the same id is new once more.
serv_discardmsg_same(s, c) == c.id < tab[s][c.from].last_msgid

serv_discardmsg(s, c) == c.id <= tab[s][c.from].last_msgid

\* A call is discarded if it is not later than the last one from that server, and
\* queued if it is.
ReceiveCall(d) ==
    LET c == d.call
    IN  /\ d \in net /\ d.kind = "call" /\ c.to \in up
        /\ tab[c.to][c.from].connected
        /\ ~serv_discardmsg(c.to, c) /\ hist.runs < MaxRuns
        /\ tab' = [tab EXCEPT ![c.to][c.from].last_msgid = c.id]
        /\ running' = running \cup {c}
        /\ hist' = [hist EXCEPT !.ran = @ \cup {c}, !.ever = @ \cup {c},
                                !.runs = @ + 1]
        /\ UNCHANGED <<starts, up, next_msgid, events, net>>

\* The event that waits for the id of the answer.
find_reply(s, c) == {e \in events : e.call.from = s /\ e.call.id = c.id}

\* An answer resumes the method that waits for its id; nobody may wait any more.
ReceiveReturn(d) ==
    LET c == d.call
    IN  /\ d \in net /\ d.kind = "return" /\ c.from \in up
        /\ tab[c.from][c.to].connected
        /\ \E e \in find_reply(c.from, c) :
              /\ events' = events \ {e}
              /\ hist' = [hist EXCEPT !.back = @ \cup {e.call}]
        /\ UNCHANGED <<starts, up, tab, next_msgid, running, net>>

-----------------------------------------------------------------------------
Init ==
    /\ starts = [s \in Servers |-> 0] /\ up = {}
    /\ tab = [s \in Servers |-> [p \in Servers |-> NewEntry]]
    /\ next_msgid = [s \in Servers |-> 0]
    /\ events = {} /\ running = {} /\ net = {}
    /\ hist = [sent |-> {}, back |-> {}, ran |-> {}, ever |-> {}, runs |-> 0]

Timer == \E e \in events : process_message_event(e)

Next ==
    \/ \E s \in Servers :
          \/ Start(s) \/ \E quiet \in BOOLEAN : Stop(s, quiet)
          \/ \E p \in Servers : send_message(s, p)
    \/ Timer
    \/ \E c \in running : Answer(c)
    \/ \E d \in net : meta_command(d) \/ ReceiveCall(d) \/ ReceiveReturn(d)

Spec == Init /\ [][Next]_vars

\* The main loop of a server that runs goes round, and its clock goes on.
FairSpec == Spec /\ WF_vars(Timer)

-----------------------------------------------------------------------------
TypeOK ==
    /\ starts \in [Servers -> Nat] /\ up \subseteq Servers
    /\ tab \in [Servers -> [Servers -> Entry]]
    /\ next_msgid \in [Servers -> Nat]
    /\ events \subseteq Event /\ running \subseteq Call /\ net \subseteq Meta \cup Message

\* The calls whose callers wait.
Waits == {e.call : e \in events}

Calls == INSTANCE RemoteCalls WITH
            sent <- hist.sent, waiting <- Waits, back <- hist.back, ran <- hist.ran,
            ever <- hist.ever, runs <- hist.runs

\* Remote calls are those of RemoteCalls although datagrams are lost, repeated and
\* reordered and calls are sent again: a call is run at most once in a connection
\* (servers.c 386-407), and a late answer resumes nobody but its caller
\* (message.c 159-200, 484-507).
CallsSpec == Calls!Spec

\* A caller does not wait for ever, whatever happens to the other server and to the
\* datagrams (message.c 177-196).
CallsEnd == \A s \in Callers, n \in 0 .. MaxCalls :
                (\E e \in events : e.call.from = s /\ e.call.id = n)
                    ~> ~(\E e \in events : e.call.from = s /\ e.call.id = n)
=============================================================================
