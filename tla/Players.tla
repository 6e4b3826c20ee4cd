------------------------------ MODULE Players ------------------------------
(***************************************************************************)
(* The connections of players: the list of netio.c and playerio.c, the     *)
(* main loop that serves it, and the operations by which programs change   *)
(* it.                                                                     *)
(*                                                                         *)
(* One iteration of run_server() is: a command of each player is queued    *)
(* (queue_player_commands), programs run (process_queues), select() waits, *)
(* and what is ready is served (process_fdsets).  The list is a set here:  *)
(* each loop over it does the same whatever its order, but for those of    *)
(* disconnect() and disconnect_fd(), which may read what they have freed   *)
(* (see Close).                                                            *)
(***************************************************************************)
EXTENDS Integers

CONSTANTS
    Ids,         \* the objects that are players
    Sys,         \* SYS_OBJ, the id of a connection whose player is not known yet
    Fds,         \* descriptors the system may give out, from 0 on
    TotFds,      \* totfds: what init_fdsets() compares the highest one with
    MaxCmds,     \* MAX_CMDS
    MsecPerCmd,  \* MSEC_PER_CMD
    Ticks,       \* milliseconds that may pass in one iteration
    Switches,    \* TRUE if set_parse() is used on a connection that has a player
    MaxLines,    \* bound: lines of a connection that wait to be executed
    MaxRan       \* bound: commands that are counted

ASSUME PlayersAssumption ==
    /\ Sys \notin Ids /\ Fds \subseteq Nat /\ TotFds \in Nat
    /\ MaxCmds \in Nat /\ MsecPerCmd \in Nat \ {0} /\ Ticks \subseteq Nat
    /\ Switches \in BOOLEAN
    /\ MaxLines \in Nat /\ MaxRan \in Nat

VARIABLES
    players,     \* the cells of the list
    nfds,        \* one more than the highest descriptor ever used
    phase,       \* where run_server() is
    told,        \* objects sent a disconnect message by the last step
    window       \* history: what one connection has done since some moment

vars == <<players, nfds, phase, told, window>>

\* input counts the commands read and not yet executed.  sock and eof are the state
\* of the socket: lines not read yet, and that the other end has closed it.
Player == [fd: Fds, id: Ids \cup {Sys}, connected: BOOLEAN, outbound: BOOLEAN,
           input: Nat, quota: Int, sock: Nat, eof: BOOLEAN]

\* Milliseconds that have passed, and commands of the connection on fd executed.
Window == [fd: Fds, msec: Nat, ran: Nat]

WindowOn(fd) == [fd |-> fd, msec |-> 0, ran |-> 0]

FullQuota == MaxCmds * MsecPerCmd

InUse == {p.fd : p \in players}

Free == Fds \ InUse

\* The system gives out the lowest descriptor.
Lowest(fd) == fd \in Free /\ \A g \in Free : fd <= g

init_player(fd, id, out, conn) ==
    [fd |-> fd, id |-> id, connected |-> conn, outbound |-> out, input |-> 0,
     quota |-> FullQuota, sock |-> 0, eof |-> FALSE]

NfdsFor(fd) == IF fd >= nfds THEN fd + 1 ELSE nfds

\* Another connection has the descriptor now.
Fresh(fd) == IF fd = window.fd THEN WindowOn(fd) ELSE window

\* remove_player() of some connections.
Without(gone) == players \ gone

\* A cell is changed.
Becomes(p, q) == players' = (players \ {p}) \cup {q}

-----------------------------------------------------------------------------
(* The other ends of the connections.                                      *)

\* A line arrives at a socket.
Types(p) ==
    /\ ~p.eof /\ (p.connected \/ ~p.outbound)
    /\ p.sock + p.input < MaxLines
    /\ Becomes(p, [p EXCEPT !.sock = @ + 1])
    /\ told' = {} /\ UNCHANGED <<nfds, phase, window>>

HangsUp(p) ==
    /\ ~p.eof
    /\ Becomes(p, [p EXCEPT !.eof = TRUE])
    /\ told' = {} /\ UNCHANGED <<nfds, phase, window>>

\* History only: the commands of a connection are counted from now on.
Watch(p) ==
    /\ phase = "commands" /\ window' = WindowOn(p.fd)
    /\ told' = {} /\ UNCHANGED <<players, nfds, phase>>

-----------------------------------------------------------------------------
(* run_server()                                                            *)

\* Mutant: the quota is not limited.
CappedNever(q) == q

Capped(q) == IF q > FullQuota THEN FullQuota ELSE q

UpTo(max, n) == IF n > max THEN max ELSE n

\* Mutant: whether there is a command is not looked at.
ExecutesAny(p, t) == Capped(p.quota + t) >= 0

\* A command is executed as long as the quota is not negative.
Executes(p, t) == p.input > 0 /\ Capped(p.quota + t) >= 0

WithQuota(p, t) ==
    LET q == Capped(p.quota + t)
    IN  IF Executes(p, t) THEN [p EXCEPT !.quota = q - MsecPerCmd, !.input = @ - 1]
                          ELSE [p EXCEPT !.quota = q]

\* t milliseconds have passed since the last time.
queue_player_commands(t) ==
    /\ phase = "commands" /\ phase' = "queues"
    /\ players' = {WithQuota(p, t) : p \in players}
    /\ window' =
         LET runs == \E p \in players : p.fd = window.fd /\ Executes(p, t)
         IN  [window EXCEPT !.msec = UpTo(MaxRan * MsecPerCmd, @ + t),
                            !.ran = IF runs THEN UpTo(MaxRan, @ + 1) ELSE @]
    /\ told' = {} /\ UNCHANGED nfds

\* process_queues() is done, and select() returns.
EndQueues ==
    /\ phase = "queues" /\ phase' = "serve"
    /\ told' = {} /\ UNCHANGED <<players, nfds, window>>

\* init_fdsets() waits for new players only then.
Listening == nfds < TotFds

\* player_input(): all lines there are are read.
Read(p) == [p EXCEPT !.input = @ + p.sock, !.sock = 0]

\* Mutant: only connections of players are looked at.
DeadOfPlayer(p) == p.sock = 0 /\ p.eof /\ p.input = 0 /\ p.connected

\* The connection has died, and no command of it is left to execute.
Dead(p) == p.sock = 0 /\ p.eof /\ p.input = 0

\* Mutant: the object is told of connections others made only.
ReportedIn(p) == Dead(p) /\ p.connected /\ ~p.outbound

Reported(p) == Dead(p) /\ p.connected

\* The loop of process_fdsets() over the players.  W: outbound connections that the
\* system reports as writable, which is taken for a success.
Served(W) ==
    {IF p.fd \in W THEN [p EXCEPT !.connected = TRUE] ELSE p : p \in players}

InProgress == {p.fd : p \in {q \in players : q.outbound /\ ~q.connected}}

\* Nobody has logged in on the connection that is accepted.
new_player(fd) == init_player(fd, Sys, FALSE, FALSE)

\* new: somebody connects, and the loop skips the new connection this time.
process_fdsets(W, new) ==
    LET left == {Read(p) : p \in {q \in Served(W) : ~Dead(q)}}
    IN  /\ phase = "serve" /\ phase' = "commands"
        /\ told' = {p.id : p \in {q \in Served(W) : Reported(q)}}
        /\ IF new
           THEN /\ Listening
                /\ \E fd \in Free :
                      /\ Lowest(fd)
                      /\ players' = left \cup {new_player(fd)}
                      /\ nfds' = NfdsFor(fd)
                      /\ window' = Fresh(fd)
           ELSE players' = left /\ UNCHANGED <<nfds, window>>

-----------------------------------------------------------------------------
(* What programs do, in process_queues().                                  *)

Program == phase = "queues"

\* set_parse(fd, id): the connection is that of player id from now on, and another
\* connection of the player is closed.
set_parse(fd, id) ==
    LET others == {p \in players : p.id = id /\ p.fd # fd}
    IN  /\ Program
        /\ Switches \/ \A p \in players : p.fd = fd => p.id \in {Sys, id}
        /\ players' = {IF p.fd = fd THEN [p EXCEPT !.connected = TRUE, !.id = id] ELSE p
                         : p \in Without(others)}
        /\ told' = {p.id : p \in others}
        /\ UNCHANGED <<nfds, phase, window>>

\* disconnect(id) and disconnect_fd(fd): the loop goes on from the cell it has just
\* freed.  What it finds there is what was there, or the server is lost.
Close(gone) ==
    /\ Program
    /\ \/ /\ players' = Without(gone)
          /\ told' = {p.id : p \in gone}
          /\ UNCHANGED phase
       \/ /\ gone # {}
          /\ phase' = "crashed" /\ players' = {} /\ told' = {}
    /\ UNCHANGED <<nfds, window>>

disconnect(id) == Close({p \in players : p.id = id})

disconnect_fd(fd) == Close({p \in players : p.fd = fd})

\* Mutant: the player's other connection stays.
OldOfNone(p, id) == FALSE

OldOf(p, id) == p.id = id

\* net_open_connect(): the host is found, the connections the object has are closed,
\* and a new one is made, if there is a descriptor.  It is in progress, or has failed
\* and is on the list all the same, or (ok) it succeeds at once.
net_open_connect(id, ok) ==
    LET old == {p \in players : OldOf(p, id)}
        used == {p.fd : p \in Without(old)}
    IN  /\ Program
        /\ told' = {p.id : p \in old}
        /\ \/ \E fd \in Fds \ used :
                 /\ \A g \in Fds \ used : fd <= g
                 /\ players' = Without(old) \cup {init_player(fd, id, TRUE, ok)}
                 /\ nfds' = NfdsFor(fd)
                 /\ window' = Fresh(fd)
           \/ Fds = used /\ players' = Without(old) /\ UNCHANGED <<nfds, window>>
        /\ UNCHANGED phase

\* shutdown() ends the loop, and close_sockets() all connections.
shutdown ==
    /\ Program
    /\ phase' = "stopped" /\ players' = {}
    /\ told' = {} /\ UNCHANGED <<nfds, window>>

-----------------------------------------------------------------------------
Init ==
    /\ players = {} /\ nfds = 0 /\ phase = "commands"
    /\ told = {} /\ window \in {WindowOn(fd) : fd \in Fds}

MainLoop ==
    \/ \E t \in Ticks : queue_player_commands(t)
    \/ EndQueues
    \/ \E W \in SUBSET InProgress, new \in BOOLEAN : process_fdsets(W, new)

Programs ==
    \/ \E id \in Ids \cup {Sys} : disconnect(id)
    \/ \E id \in Ids, ok \in BOOLEAN : net_open_connect(id, ok)
    \/ \E fd \in Fds : disconnect_fd(fd) \/ \E id \in Ids : set_parse(fd, id)
    \/ shutdown

Next ==
    \/ \E p \in players : Types(p) \/ HangsUp(p) \/ Watch(p)
    \/ MainLoop \/ Programs

Spec == Init /\ [][Next]_vars

\* The main loop goes on, and time passes; programs and players need do nothing.
FairSpec ==
    /\ Spec /\ WF_vars(MainLoop)
    /\ SF_vars(\E t \in Ticks \ {0} : queue_player_commands(t))

-----------------------------------------------------------------------------
TypeOK ==
    /\ players \subseteq Player
    /\ nfds \in Nat /\ phase \in {"commands", "queues", "serve", "crashed", "stopped"}
    /\ told \subseteq Ids \cup {Sys} /\ window \in Window

\* An object has one connection, whether it was connected by set_parse(), which may
\* come while an outbound connection of the object is in progress, or made its
\* own (playerio.c 169-183, netio.c 597-625); descriptors are not shared, and select()
\* looks at all of them.
OneConnection ==
    /\ \A p \in players : p.fd < nfds
    /\ \A p, q \in players : p # q => p.fd # q.fd /\ (p.id = q.id => p.id = Sys)

Online == {p.id : p \in {q \in players : q.connected}}

\* An object that was connected and is not any more was sent its disconnect message
\* in the same step, on each of the paths by which a connection ends.
Notified == [][phase' \notin {"crashed", "stopped"} => Online \ (Online' \cup {Sys}) \subseteq told']_vars

\* In any window of time, the commands of a connection are limited to a burst and one
\* in MsecPerCmd, however the iterations of the main loop fall (playerio.c 139-166).
RateLimited == (window.ran - MaxCmds - 1) * MsecPerCmd <= window.msec

\* Every connection the other end has closed leaves the list.
DeadLeave ==
    \A fd \in Fds :
        LET DeadOn == \E p \in players : p.fd = fd /\ p.eof
        IN  DeadOn ~> ~DeadOn
=============================================================================
