------------------------------ MODULE YoProofs ------------------------------
(***************************************************************************)
(* Theorems about the protocol between servers, for any servers, times and *)
(* bounds: its state is well typed; and if the servers that call others do *)
(* not start again, remote calls are those of RemoteCalls.  A caller that  *)
(* starts again counts its ids from 0, and an answer to a call of its      *)
(* former life ends one of the new (serverio.c 147, a hazard): TLC finds   *)
(* that the second theorem is false then.                                  *)
(*                                                                         *)
(* What carries the proof is that an id says which call is meant, and that *)
(* last_msgid bounds the ids of the calls run in a connection.             *)
(***************************************************************************)
EXTENDS Yo, TLAPS

\* The callers that the theorem is about.
Lasting == Callers \cap Restarting = {}

History ==
    [sent: SUBSET Call, back: SUBSET Call, ran: SUBSET Call, ever: SUBSET Call, runs: Nat]

\* No timer of a method that waits is at 0: it is then resumed, or starts again.
TypeInv ==
    TypeOK /\ hist \in History /\ \A e \in events : e.t > 0 /\ e.r > 0 /\ e.iv > 0

\* A caller runs since it has made its first call, and counts on.
SentInv == \A c \in hist.sent : c.from \in Callers \cap up /\ c.id < next_msgid[c.from]

\* An id says which call is meant.
IdsInv == \A c, d \in hist.sent : c.from = d.from /\ c.id = d.id => c = d

\* What is on its way, waited for or run was called, and what is answered was run.
KnownInv ==
    /\ Waits \subseteq hist.sent
    /\ \A d \in net : /\ d.kind = "call" => d.call \in hist.sent
                      /\ d.kind = "return" => d.call \in hist.ever
    /\ running \subseteq hist.ever /\ hist.ran \subseteq hist.ever
    /\ hist.ever \subseteq hist.sent

\* The calls run in a connection are not later than the last one.
LastInv == \A c \in hist.ran : c.to \in up /\ c.id <= tab[c.to][c.from].last_msgid

\* A call has one timer.
TimerInv == \A e, f \in events : e.call = f.call => e = f

IInv == SentInv /\ IdsInv /\ KnownInv /\ LastInv /\ TimerInv

-----------------------------------------------------------------------------
(* Types.                                                                  *)

\* A datagram has the fields of its kind.
LEMMA DatagramType ==
  ASSUME NEW d \in Meta \cup Message
  PROVE  /\ d.kind \in {"call", "return"} => d \in Message /\ d.call \in Call
         /\ d.kind \in {"connect", "connectok", "disconnect"} =>
               d \in Meta /\ d.from \in Servers /\ d.to \in Servers
  BY DEF Meta, Message

LEMMA CallType ==
  ASSUME NEW c \in Call
  PROVE  /\ c.from \in Servers /\ c.to \in Servers /\ c.start \in Nat /\ c.id \in Nat
         /\ \A k \in {"call", "return"} : [kind |-> k, call |-> c] \in Message
  BY DEF Call, Message

\* One entry of one server's table changes.
LEMMA TableType ==
  ASSUME tab \in [Servers -> [Servers -> Entry]],
         NEW s \in Servers, NEW p \in Servers, NEW e \in Entry,
         tab' = [tab EXCEPT ![s][p] = e]
  PROVE  /\ tab' \in [Servers -> [Servers -> Entry]] /\ tab'[s][p] = e
         /\ \A t, q \in Servers : ~(t = s /\ q = p) => tab'[t][q] = tab[t][q]
  OBVIOUS

LEMMA LaterType ==
  ASSUME NEW e \in Event, e.t - 1 \in Nat, e.r - 1 \in Nat
  PROVE  Later(e) \in Event /\ Later(e).call = e.call /\ Later(e).iv = e.iv
  BY DEF Event, Later

\* The timer l after a retry.
Doubled(l) == [l EXCEPT !.iv = 2 * @, !.r = 2 * l.iv]

LEMMA DoubledType ==
  ASSUME NEW l \in Event, 2 * l.iv \in Nat
  PROVE  /\ Doubled(l) \in Event /\ Doubled(l).call = l.call /\ Doubled(l).t = l.t
         /\ Doubled(l).iv = 2 * l.iv /\ Doubled(l).r = 2 * l.iv
  BY DEF Event, Doubled

LEMMA InitType ==
  ASSUME Init
  PROVE  TypeInv
  BY DEF Init, TypeInv, TypeOK, History, NewEntry, Entry

LEMMA StartType ==
  ASSUME TypeInv, NEW s \in Servers, Start(s)
  PROVE  TypeInv'
  <1> USE DEF TypeInv, TypeOK
  <1>1. NewEntry \in Entry
    BY DEF NewEntry, Entry
  <1>2. {[kind |-> "connect", from |-> s, to |-> p] : p \in Peers(s)} \subseteq Meta
    BY DEF Peers, Meta
  <1>3. starts' \in [Servers -> Nat] /\ up' \subseteq Servers /\ next_msgid' \in [Servers -> Nat]
    BY DEF Start
  <1>4. tab' \in [Servers -> [Servers -> Entry]]
    BY <1>1 DEF Start
  <1>5. net' \subseteq Meta \cup Message
    BY <1>2 DEF Start, Sends
  <1>6. QED
    BY <1>3, <1>4, <1>5 DEF Start

\* What Stop() leaves of the history.
LEMMA StopStep ==
  ASSUME TypeInv, NEW s \in Servers, NEW quiet \in BOOLEAN, Stop(s, quiet)
  PROVE  /\ TypeInv' /\ s \in Restarting /\ up' = up \ {s}
         /\ hist'.ran = {c \in hist.ran : c.to # s}
         /\ hist'.sent = hist.sent /\ hist'.back = hist.back /\ hist'.ever = hist.ever
         /\ hist'.runs = hist.runs
         /\ \A d \in net' \ net : d \in Meta /\ d.kind = "disconnect"
  <1> USE DEF TypeInv, TypeOK
  <1>1. /\ hist' \in History /\ hist'.ran = {c \in hist.ran : c.to # s}
        /\ hist'.sent = hist.sent /\ hist'.back = hist.back /\ hist'.ever = hist.ever
        /\ hist'.runs = hist.runs
    BY DEF Stop, History
  <1>2. \A d \in net' \ net : d \in Meta /\ d.kind = "disconnect"
    <2> DEFINE D == {[kind |-> "disconnect", from |-> s, to |-> p] :
                       p \in {q \in Peers(s) : tab[s][q].connected}}
    <2>1. \A d \in D : d \in Meta /\ d.kind = "disconnect"
      BY DEF Peers, Meta
    <2>2. net' = net \/ net' = net \cup D
      BY DEF Stop, Sends
    <2>3. QED
      BY <2>1, <2>2
  <1>3. net' \subseteq Meta \cup Message
    BY <1>2
  <1>4. QED
    BY <1>1, <1>2, <1>3 DEF Stop

LEMMA NewCallType ==
  ASSUME TypeInv, NEW s \in Servers, NEW p \in Servers
  PROVE  NewCall(s, p) \in Call
  BY DEF TypeInv, TypeOK, NewCall, Call

\* A call is made, or its id is lost.
LEMMA SendStep ==
  ASSUME TypeInv, NEW s \in Servers, NEW p \in Servers, send_message(s, p),
         NEW c, c = NewCall(s, p)
  PROVE  /\ TypeInv' /\ c \in Call /\ c.from = s /\ c.id = next_msgid[s]
         /\ s \in Callers \cap up
         /\ next_msgid'[s] = next_msgid[s] + 1
         /\ \A q \in Servers : q # s => next_msgid'[q] = next_msgid[q]
         /\ UNCHANGED <<up, tab, running>>
         /\ \/ UNCHANGED <<net, events, hist>>
            \/ /\ net' = net \cup {[kind |-> "call", call |-> c]}
               /\ \E e \in Event : e.call = c /\ events' = events \cup {e}
               /\ hist'.sent = hist.sent \cup {c} /\ hist'.back = hist.back
               /\ hist'.ran = hist.ran /\ hist'.ever = hist.ever /\ hist'.runs = hist.runs
  <1> USE DEF TypeInv, TypeOK
  <1> DEFINE e == [call |-> c, t |-> Timeout, r |-> Retry, iv |-> Retry]
  <1>1. c \in Call
    BY NewCallType
  <1>2. c.from = s /\ c.id = next_msgid[s]
    BY DEF NewCall
  <1>3. e \in Event /\ e.call = c /\ e.t > 0 /\ e.r > 0 /\ e.iv > 0
    BY <1>1, YoAssumption DEF Event
  <1>4. /\ next_msgid' \in [Servers -> Nat] /\ next_msgid'[s] = next_msgid[s] + 1
        /\ \A q \in Servers : q # s => next_msgid'[q] = next_msgid[q]
    BY DEF send_message
  <1>5. s \in Callers \cap up /\ UNCHANGED <<starts, up, tab, running>>
    BY DEF send_message
  <1> HIDE DEF e
  <1>6. CASE yo(s, p)
    <2>1. /\ net' = net \cup {[kind |-> "call", call |-> c]} /\ events' = events \cup {e}
          /\ hist' = [hist EXCEPT !.sent = @ \cup {c}]
      BY <1>6 DEF send_message, Sends, e
    <2>2. /\ hist' \in History /\ hist'.sent = hist.sent \cup {c} /\ hist'.back = hist.back
          /\ hist'.ran = hist.ran /\ hist'.ever = hist.ever /\ hist'.runs = hist.runs
      BY <1>1, <2>1 DEF History
    <2>3. net' \subseteq Meta \cup Message
      BY <1>1, <2>1, CallType
    <2>4. events' \subseteq Event /\ \A f \in events' : f.t > 0 /\ f.r > 0 /\ f.iv > 0
      BY <1>3, <2>1
    <2>5. QED
      BY <1>1, <1>2, <1>3, <1>4, <1>5, <2>1, <2>2, <2>3, <2>4
  <1>7. CASE ~yo(s, p)
    <2>1. UNCHANGED <<net, events, hist>>
      BY <1>7 DEF send_message
    <2>2. QED
      BY <1>1, <1>2, <1>4, <1>5, <2>1
  <1>8. QED
    BY <1>6, <1>7

\* A timer goes on, or ends; its call may be sent again.
LEMMA TimerStep ==
  ASSUME TypeInv, NEW e \in events, process_message_event(e)
  PROVE  /\ TypeInv' /\ UNCHANGED <<up, tab, next_msgid, running, hist>>
         /\ net' = net \/ net' = net \cup {[kind |-> "call", call |-> e.call]}
         /\ \/ events' = events \ {e}
            \/ \E f \in Event : f.call = e.call /\ events' = (events \ {e}) \cup {f}
  <1> USE DEF TypeInv, TypeOK
  <1> DEFINE l == Later(e)
             m == [l EXCEPT !.iv = 2 * @, !.r = 2 * l.iv]
  <1>1. /\ e \in Event /\ e.t \in Nat /\ e.r \in Nat /\ e.iv \in Nat /\ e.call \in Call
        /\ e.t > 0 /\ e.r > 0 /\ e.iv > 0
    BY DEF Event
  <1>2. /\ l \in Event /\ l.call = e.call /\ l.iv = e.iv
    <2>1. e.t - 1 \in Nat /\ e.r - 1 \in Nat
      BY <1>1
    <2>2. QED
      BY <1>1, <2>1, LaterType
  <1> HIDE DEF l
  <1>3. m \in Event /\ m.call = e.call /\ m.t = l.t /\ m.iv > 0 /\ m.r > 0
    <2>1. 2 * l.iv \in Nat /\ 2 * l.iv > 0
      BY <1>1, <1>2
    <2>2. m = Doubled(l)
      BY DEF Doubled
    <2>3. QED
      BY <1>2, <2>1, <2>2, DoubledType
  <1> HIDE DEF m
  <1>4. UNCHANGED <<starts, up, tab, next_msgid, running, hist>>
    BY DEF process_message_event
  <1>5. \/ events' = events \ {e} /\ UNCHANGED net
        \/ /\ l.t > 0 /\ events' = (events \ {e}) \cup {m}
           /\ net' = net \cup {[kind |-> "call", call |-> e.call]}
        \/ l.t > 0 /\ l.r > 0 /\ events' = (events \ {e}) \cup {l} /\ UNCHANGED net
    BY DEF process_message_event, Sends, l, m
  <1>6. [kind |-> "call", call |-> e.call] \in Message
    BY <1>1, CallType
  <1>7. CASE events' = events \ {e} /\ UNCHANGED net
    BY <1>4, <1>7
  <1>8. CASE /\ l.t > 0 /\ events' = (events \ {e}) \cup {m}
             /\ net' = net \cup {[kind |-> "call", call |-> e.call]}
    BY <1>3, <1>4, <1>6, <1>8
  <1>9. CASE l.t > 0 /\ l.r > 0 /\ events' = (events \ {e}) \cup {l} /\ UNCHANGED net
    <2>1. l.iv > 0
      BY <1>1, <1>2
    <2>2. QED
      BY <1>2, <1>4, <1>9, <2>1
  <1>10. QED
    BY <1>5, <1>7, <1>8, <1>9

LEMMA AnswerType ==
  ASSUME TypeInv, NEW c \in running, Answer(c)
  PROVE  TypeInv'
  <1> USE DEF TypeInv, TypeOK
  <1>1. [kind |-> "return", call |-> c] \in Message
    BY CallType
  <1>2. net' = net \/ net' = net \cup {[kind |-> "return", call |-> c]}
    BY DEF Answer, Sends
  <1>3. QED
    BY <1>1, <1>2 DEF Answer


\* What a connection changes.
LEMMA ConnectedStep ==
  ASSUME TypeInv, NEW s \in Servers, NEW p \in Servers, Connected(s, p)
  PROVE  /\ tab' \in [Servers -> [Servers -> Entry]] /\ hist' \in History
         /\ \A t, q \in Servers : ~(t = s /\ q = p) => tab'[t][q] = tab[t][q]
         /\ hist'.ran = {c \in hist.ran : ~(c.from = p /\ c.to = s)}
         /\ hist'.sent = hist.sent /\ hist'.back = hist.back /\ hist'.ever = hist.ever
         /\ hist'.runs = hist.runs
  <1> DEFINE e == [connected |-> TRUE, last_msgid |-> -1]
  <1>1. e \in Entry
    BY DEF Entry
  <1>2. tab' = [tab EXCEPT ![s][p] = e]
    BY DEF Connected
  <1> HIDE DEF e
  <1>3. /\ tab' \in [Servers -> [Servers -> Entry]]
        /\ \A t, q \in Servers : ~(t = s /\ q = p) => tab'[t][q] = tab[t][q]
    BY <1>1, <1>2, TableType DEF TypeInv, TypeOK
  <1>4. QED
    BY <1>3 DEF Connected, TypeInv, History

\* A connection is made, or ended: what the entry says of messages stays then.
LEMMA MetaStep ==
  ASSUME TypeInv, NEW d \in net, meta_command(d)
  PROVE  /\ TypeInv' /\ UNCHANGED <<up, next_msgid, events, running>>
         /\ d \in Meta /\ d.from \in Servers /\ d.to \in Servers
         /\ \A x \in net' \ net : x \in Meta
         /\ \/ Connected(d.to, d.from)
            \/ /\ UNCHANGED hist
               /\ \A t, q \in Servers : tab'[t][q].last_msgid = tab[t][q].last_msgid
  <1> USE DEF TypeInv, TypeOK
  <1>1. d \in Meta /\ d.from \in Servers /\ d.to \in Servers
    BY DatagramType DEF meta_command
  <1>2. UNCHANGED <<starts, up, next_msgid, events, running>>
    BY DEF meta_command
  <1>3. CASE Connected(d.to, d.from)
    <2>1. tab' \in [Servers -> [Servers -> Entry]] /\ hist' \in History
      BY <1>1, <1>3, ConnectedStep
    <2>2. [kind |-> "connectok", from |-> d.to, to |-> d.from] \in Meta
      BY <1>1 DEF Meta
    <2>3. \A x \in net' \ net : x \in Meta
      <3>1. \/ net' = net \cup {[kind |-> "connectok", from |-> d.to, to |-> d.from]}
            \/ net' = net
        BY DEF meta_command, Sends
      <3>2. QED
        BY <2>2, <3>1
    <2>4. net' \subseteq Meta \cup Message
      BY <2>3
    <2>5. QED
      BY <1>1, <1>2, <1>3, <2>1, <2>3, <2>4
  <1>4. CASE /\ tab' = [tab EXCEPT ![d.to][d.from].connected = FALSE]
             /\ UNCHANGED <<net, hist>>
    <2> DEFINE e == [tab[d.to][d.from] EXCEPT !.connected = FALSE]
    <2>1. tab[d.to][d.from] \in Entry
      BY <1>1
    <2>2. e \in Entry /\ e.last_msgid = tab[d.to][d.from].last_msgid
      BY <2>1 DEF Entry
    <2>3. tab' = [tab EXCEPT ![d.to][d.from] = e]
      BY <1>4
    <2> HIDE DEF e
    <2>4. /\ tab' \in [Servers -> [Servers -> Entry]] /\ tab'[d.to][d.from] = e
          /\ \A t, q \in Servers : ~(t = d.to /\ q = d.from) => tab'[t][q] = tab[t][q]
      BY <1>1, <2>2, <2>3, TableType
    <2>5. \A t, q \in Servers : tab'[t][q].last_msgid = tab[t][q].last_msgid
      BY <2>2, <2>4
    <2>6. QED
      BY <1>1, <1>2, <1>4, <2>4, <2>5
  <1>5. QED
    BY <1>3, <1>4 DEF meta_command

\* The history once c is run.
Ran(c) == [hist EXCEPT !.ran = @ \cup {c}, !.ever = @ \cup {c}, !.runs = @ + 1]

LEMMA RanType ==
  ASSUME hist \in History, NEW c \in Call
  PROVE  /\ Ran(c) \in History /\ Ran(c).ran = hist.ran \cup {c}
         /\ Ran(c).ever = hist.ever \cup {c} /\ Ran(c).runs = hist.runs + 1
         /\ Ran(c).sent = hist.sent /\ Ran(c).back = hist.back
  <1> DEFINE R == hist.ran \cup {c}
             E == hist.ever \cup {c}
             n == hist.runs + 1
  <1>1. R \in SUBSET Call /\ E \in SUBSET Call /\ n \in Nat
    BY DEF History
  <1>2. Ran(c) = [hist EXCEPT !.ran = R, !.ever = E, !.runs = n]
    BY DEF Ran
  <1> HIDE DEF R, E, n
  <1>3. /\ Ran(c) \in History /\ Ran(c).ran = R /\ Ran(c).ever = E /\ Ran(c).runs = n
        /\ Ran(c).sent = hist.sent /\ Ran(c).back = hist.back
    BY <1>1, <1>2 DEF History
  <1>4. QED
    BY <1>3 DEF R, E, n

LEMMA ReceiveCallStep ==
  ASSUME TypeInv, NEW d \in net, ReceiveCall(d), NEW c, c = d.call
  PROVE  /\ TypeInv' /\ UNCHANGED <<up, next_msgid, events, net>>
         /\ d.kind = "call" /\ c \in Call /\ c.to \in up
         /\ running' = running \cup {c}
         /\ c.id > tab[c.to][c.from].last_msgid
         /\ tab'[c.to][c.from].last_msgid = c.id
         /\ \A t, q \in Servers : ~(t = c.to /\ q = c.from) => tab'[t][q] = tab[t][q]
         /\ hist'.ran = hist.ran \cup {c} /\ hist'.ever = hist.ever \cup {c}
         /\ hist'.runs = hist.runs + 1
         /\ hist'.sent = hist.sent /\ hist'.back = hist.back
  <1> USE DEF TypeInv, TypeOK
  <1> DEFINE e == [tab[c.to][c.from] EXCEPT !.last_msgid = c.id]
  <1>1. d.kind = "call" /\ c \in Call
    BY DatagramType DEF ReceiveCall
  <1>2. c.from \in Servers /\ c.to \in Servers /\ c.id \in Nat
    BY <1>1, CallType
  <1>3. tab[c.to][c.from] \in Entry
    BY <1>2
  <1>4. e \in Entry /\ e.last_msgid = c.id
    BY <1>2, <1>3 DEF Entry
  <1>5. tab' = [tab EXCEPT ![c.to][c.from] = e]
    BY DEF ReceiveCall
  <1> HIDE DEF e
  <1>6. /\ tab' \in [Servers -> [Servers -> Entry]] /\ tab'[c.to][c.from].last_msgid = c.id
        /\ \A t, q \in Servers : ~(t = c.to /\ q = c.from) => tab'[t][q] = tab[t][q]
    BY <1>2, <1>4, <1>5, TableType
  <1>7. /\ hist' \in History /\ hist'.ran = hist.ran \cup {c}
        /\ hist'.ever = hist.ever \cup {c} /\ hist'.runs = hist.runs + 1
        /\ hist'.sent = hist.sent /\ hist'.back = hist.back
    <2>1. hist' = Ran(c)
      BY DEF ReceiveCall, Ran
    <2>2. QED
      BY <1>1, <2>1, RanType
  <1>8. /\ UNCHANGED <<starts, up, next_msgid, events, net>> /\ running' = running \cup {c}
        /\ c.to \in up
    BY DEF ReceiveCall
  <1>9. c.id > tab[c.to][c.from].last_msgid
    <2>1. ~(c.id <= tab[c.to][c.from].last_msgid)
      BY DEF ReceiveCall, serv_discardmsg
    <2>2. tab[c.to][c.from].last_msgid \in Int
      BY <1>3 DEF Entry
    <2>3. QED
      BY <1>2, <2>1, <2>2
  <1>10. running' \subseteq Call
    BY <1>1, <1>8
  <1>11. QED
    BY <1>1, <1>6, <1>7, <1>8, <1>9, <1>10

LEMMA ReceiveReturnStep ==
  ASSUME TypeInv, NEW d \in net, ReceiveReturn(d)
  PROVE  /\ TypeInv' /\ UNCHANGED <<up, tab, next_msgid, running, net>>
         /\ d.kind = "return" /\ d.call \in Call
         /\ \E e \in events :
               /\ e.call.from = d.call.from /\ e.call.id = d.call.id
               /\ events' = events \ {e}
               /\ hist'.back = hist.back \cup {e.call}
               /\ hist'.sent = hist.sent /\ hist'.ran = hist.ran /\ hist'.ever = hist.ever
               /\ hist'.runs = hist.runs
  <1> USE DEF TypeInv, TypeOK
  <1>1. d.kind = "return" /\ d.call \in Call
    BY DatagramType DEF ReceiveReturn
  <1>2. UNCHANGED <<starts, up, tab, next_msgid, running, net>>
    BY DEF ReceiveReturn
  <1>3. PICK e \in events :
          /\ e.call.from = d.call.from /\ e.call.id = d.call.id
          /\ events' = events \ {e}
          /\ hist' = [hist EXCEPT !.back = @ \cup {e.call}]
    BY DEF ReceiveReturn, find_reply
  <1>4. e.call \in Call
    BY DEF Event
  <1>5. /\ hist' \in History /\ hist'.back = hist.back \cup {e.call}
        /\ hist'.sent = hist.sent /\ hist'.ran = hist.ran /\ hist'.ever = hist.ever
        /\ hist'.runs = hist.runs
    BY <1>3, <1>4 DEF History
  <1>6. TypeInv'
    BY <1>2, <1>3, <1>5
  <1>7. QED
    BY <1>1, <1>2, <1>3, <1>5, <1>6

LEMMA NextType ==
  ASSUME TypeInv, [Next]_vars
  PROVE  TypeInv'
  <1>1. CASE \E s \in Servers : Start(s) \/ \E quiet \in BOOLEAN : Stop(s, quiet)
    BY <1>1, StartType, StopStep
  <1>2. CASE \E s, p \in Servers : send_message(s, p)
    BY <1>2, SendStep
  <1>3. CASE \E e \in events : process_message_event(e)
    BY <1>3, TimerStep
  <1>4. CASE \E c \in running : Answer(c)
    BY <1>4, AnswerType
  <1>5. CASE \E d \in net : meta_command(d)
    BY <1>5, MetaStep
  <1>6. CASE \E d \in net : ReceiveCall(d)
    BY <1>6, ReceiveCallStep
  <1>7. CASE \E d \in net : ReceiveReturn(d)
    BY <1>7, ReceiveReturnStep
  <1>8. CASE UNCHANGED vars
    BY <1>8 DEF vars, TypeInv, TypeOK
  <1>9. QED
    BY <1>1, <1>2, <1>3, <1>4, <1>5, <1>6, <1>7, <1>8 DEF Next, Timer

\* The table of servers, the timers and the messages are those the code declares
\* (servers.h, message.h), whatever is lost and whoever starts again.
THEOREM MessagesTyped == Spec => []TypeOK
  <1>1. Init => TypeInv
    BY InitType
  <1>2. TypeInv /\ [Next]_vars => TypeInv'
    BY NextType
  <1>3. TypeInv => TypeOK
    BY DEF TypeInv
  <1>4. QED
    BY <1>1, <1>2, <1>3, PTL DEF Spec


-----------------------------------------------------------------------------
(* Timers, and what the history holds.                                     *)

LEMMA HistoryType ==
  ASSUME TypeInv
  PROVE  /\ hist.sent \subseteq Call /\ hist.back \subseteq Call /\ hist.ran \subseteq Call
         /\ hist.ever \subseteq Call /\ hist.runs \in Nat
         /\ up \subseteq Servers /\ next_msgid \in [Servers -> Nat] /\ running \subseteq Call
         /\ \A s, p \in Servers : tab[s][p].last_msgid \in Int
  BY DEF TypeInv, TypeOK, History, Entry

\* A wait ends.
LEMMA TimerEnds ==
  ASSUME TimerInv, NEW e \in events, events' = events \ {e}
  PROVE  e.call \in Waits /\ Waits' = Waits \ {e.call} /\ TimerInv'
  BY DEF TimerInv, Waits

\* A wait goes on.
LEMMA TimerStays ==
  ASSUME TimerInv, NEW e \in events, NEW f, f.call = e.call, events' = (events \ {e}) \cup {f}
  PROVE  e.call \in Waits /\ Waits' = Waits /\ TimerInv'
  <1>1. \A x \in events : x.call = f.call => x = e
    BY DEF TimerInv
  <1>2. TimerInv'
    BY <1>1 DEF TimerInv
  <1>3. Waits' = Waits
    BY DEF Waits
  <1>4. QED
    BY <1>2, <1>3 DEF Waits

\* A call that was not made before is waited for.
LEMMA TimerBegins ==
  ASSUME TimerInv, NEW e, e.call \notin Waits, events' = events \cup {e}
  PROVE  Waits' = Waits \cup {e.call} /\ TimerInv'
  BY DEF TimerInv, Waits

-----------------------------------------------------------------------------
(* Each action keeps the invariant.                                        *)

LEMMA InitInv ==
  ASSUME Init
  PROVE  IInv
  BY DEF Init, IInv, SentInv, IdsInv, KnownInv, LastInv, TimerInv, Waits

LEMMA StartKeeps ==
  ASSUME TypeInv, IInv, NEW s \in Servers, Start(s)
  PROVE  IInv' /\ UNCHANGED Calls!vars
  <1>1. /\ s \notin up /\ up' = up \cup {s} /\ UNCHANGED <<events, running, hist>>
        /\ \A q \in Servers : q # s => next_msgid'[q] = next_msgid[q] /\ tab'[q] = tab[q]
    BY HistoryType DEF Start, TypeInv, TypeOK
  <1>2. \A d \in net' \ net : d.kind = "connect"
    BY DEF Start, Sends
  <1>3. SentInv' /\ IdsInv'
    BY <1>1, HistoryType, CallType DEF IInv, SentInv, IdsInv
  <1>4. KnownInv'
    BY <1>1, <1>2 DEF IInv, KnownInv, Waits
  <1>5. LastInv'
    BY <1>1, HistoryType, CallType DEF IInv, LastInv
  <1>6. TimerInv' /\ UNCHANGED Calls!vars
    BY <1>1 DEF IInv, TimerInv, Calls!vars, Waits
  <1>7. QED
    BY <1>3, <1>4, <1>5, <1>6 DEF IInv

LEMMA StopKeeps ==
  ASSUME Lasting, TypeInv, IInv, NEW s \in Servers, NEW quiet \in BOOLEAN, Stop(s, quiet)
  PROVE  IInv' /\ (Calls!Stop \/ UNCHANGED Calls!vars)
  <1>1. /\ s \in Restarting /\ up' = up \ {s}
        /\ hist'.ran = {c \in hist.ran : c.to # s}
        /\ hist'.sent = hist.sent /\ hist'.back = hist.back /\ hist'.ever = hist.ever
        /\ hist'.runs = hist.runs
        /\ \A d \in net' \ net : d \in Meta /\ d.kind = "disconnect"
    BY StopStep
  <1>2. /\ UNCHANGED <<tab, next_msgid>> /\ events' = {e \in events : e.call.from # s}
        /\ running' \subseteq running
    BY DEF Stop
  <1>3. s \notin Callers
    BY <1>1 DEF Lasting
  <1>4. SentInv' /\ IdsInv'
    BY <1>1, <1>2, <1>3 DEF IInv, SentInv, IdsInv
  <1>5. Waits' = {c \in Waits : c.from # s}
    BY <1>2 DEF Waits
  <1>6. KnownInv'
    BY <1>1, <1>2, <1>5 DEF IInv, KnownInv
  <1>7. LastInv'
    BY <1>1, <1>2 DEF IInv, LastInv
  <1>8. TimerInv'
    BY <1>2 DEF IInv, TimerInv
  <1>9. Calls!Stop \/ UNCHANGED Calls!vars
    <2>1. CASE s \in {c.from : c \in hist.sent} \cup {c.to : c \in hist.sent}
      BY <1>1, <1>5, <2>1 DEF Calls!Stop
    <2>2. CASE s \notin {c.from : c \in hist.sent} \cup {c.to : c \in hist.sent}
      <3>1. \A c \in hist.sent : c.from # s /\ c.to # s
        BY <2>2
      <3>2. Waits' = Waits /\ hist'.ran = hist.ran
        BY <1>1, <1>5, <3>1 DEF IInv, KnownInv
      <3>3. QED
        BY <1>1, <3>2 DEF Calls!vars
    <2>3. QED
      BY <2>1, <2>2
  <1>10. QED
    BY <1>4, <1>6, <1>7, <1>8, <1>9 DEF IInv

\* The id of a new call is later than those of its caller's other calls.
LEMMA SendKeeps ==
  ASSUME TypeInv, IInv, NEW s \in Servers, NEW p \in Servers, send_message(s, p)
  PROVE  IInv' /\ (Calls!Send \/ UNCHANGED Calls!vars)
  <1> DEFINE c == NewCall(s, p)
  <1>1. /\ c \in Call /\ c.from = s /\ c.id = next_msgid[s]
        /\ s \in Callers \cap up
        /\ next_msgid'[s] = next_msgid[s] + 1
        /\ \A q \in Servers : q # s => next_msgid'[q] = next_msgid[q]
        /\ UNCHANGED <<up, tab, running>>
    BY SendStep
  <1>2. \/ UNCHANGED <<net, events, hist>>
        \/ /\ net' = net \cup {[kind |-> "call", call |-> c]}
           /\ \E e \in Event : e.call = c /\ events' = events \cup {e}
           /\ hist'.sent = hist.sent \cup {c} /\ hist'.back = hist.back
           /\ hist'.ran = hist.ran /\ hist'.ever = hist.ever /\ hist'.runs = hist.runs
    BY SendStep
  <1> HIDE DEF c
  <1>3. \A x \in hist.sent : x.from \in Callers \cap up /\ x.id < next_msgid'[x.from]
    <2> SUFFICES ASSUME NEW x \in hist.sent
                 PROVE  x.from \in Callers \cap up /\ x.id < next_msgid'[x.from]
      OBVIOUS
    <2>1. /\ x.from \in Servers /\ x.id \in Nat /\ x.from \in Callers \cap up
          /\ x.id < next_msgid[x.from] /\ next_msgid[x.from] \in Nat
      BY HistoryType, CallType DEF IInv, SentInv
    <2>2. QED
      BY <1>1, <2>1
  <1>4. CASE UNCHANGED <<net, events, hist>>
    <2>1. SentInv'
      BY <1>1, <1>3, <1>4 DEF SentInv
    <2>2. IdsInv' /\ KnownInv' /\ LastInv' /\ TimerInv' /\ UNCHANGED Calls!vars
      BY <1>1, <1>4 DEF IInv, IdsInv, KnownInv, LastInv, TimerInv, Waits, Calls!vars
    <2>3. QED
      BY <2>1, <2>2 DEF IInv
  <1>5. CASE /\ net' = net \cup {[kind |-> "call", call |-> c]}
             /\ \E e \in Event : e.call = c /\ events' = events \cup {e}
             /\ hist'.sent = hist.sent \cup {c} /\ hist'.back = hist.back
             /\ hist'.ran = hist.ran /\ hist'.ever = hist.ever /\ hist'.runs = hist.runs
    <2>1. \A x \in hist.sent : ~(x.from = s /\ x.id = c.id)
      <3> SUFFICES ASSUME NEW x \in hist.sent, x.from = s, x.id = c.id
                   PROVE  FALSE
        OBVIOUS
      <3>1. x.id \in Nat /\ x.id < next_msgid[s]
        BY HistoryType, CallType DEF IInv, SentInv
      <3>2. QED
        BY <1>1, <3>1
    <2>2. c \notin hist.sent
      BY <1>1, <2>1
    <2>3. c.id < next_msgid'[s]
      BY <1>1, HistoryType
    <2>4. SentInv'
      BY <1>1, <1>3, <1>5, <2>3 DEF SentInv
    <2>5. IdsInv'
      BY <1>1, <1>5, <2>1 DEF IInv, IdsInv
    <2>6. c \notin Waits
      BY <2>2 DEF IInv, KnownInv
    <2>7. Waits' = Waits \cup {c} /\ TimerInv'
      <3>1. PICK e \in Event : e.call = c /\ events' = events \cup {e}
        BY <1>5
      <3>2. QED
        BY <2>6, <3>1, TimerBegins DEF IInv
    <2>8. KnownInv'
      BY <1>1, <1>5, <2>7 DEF IInv, KnownInv
    <2>9. LastInv'
      BY <1>1, <1>5 DEF IInv, LastInv
    <2>10. Calls!Send
      BY <1>5, <2>2, <2>7 DEF Calls!Send
    <2>11. QED
      BY <2>4, <2>5, <2>7, <2>8, <2>9, <2>10 DEF IInv
  <1>6. QED
    BY <1>2, <1>4, <1>5

LEMMA TimerKeeps ==
  ASSUME TypeInv, IInv, NEW e \in events, process_message_event(e)
  PROVE  IInv' /\ (Calls!Fail \/ UNCHANGED Calls!vars)
  <1>1. /\ UNCHANGED <<up, tab, next_msgid, running, hist>>
        /\ net' = net \/ net' = net \cup {[kind |-> "call", call |-> e.call]}
        /\ \/ events' = events \ {e}
           \/ \E f \in Event : f.call = e.call /\ events' = (events \ {e}) \cup {f}
    BY TimerStep
  <1>2. e.call \in hist.sent
    BY DEF IInv, KnownInv, Waits
  <1>3. /\ e.call \in Waits /\ TimerInv'
        /\ Waits' = Waits \ {e.call} \/ Waits' = Waits
    BY <1>1, TimerEnds, TimerStays DEF IInv
  <1>4. SentInv' /\ IdsInv' /\ LastInv'
    BY <1>1 DEF IInv, SentInv, IdsInv, LastInv
  <1>5. KnownInv'
    BY <1>1, <1>2, <1>3 DEF IInv, KnownInv
  <1>6. Calls!Fail \/ UNCHANGED Calls!vars
    BY <1>1, <1>3 DEF Calls!Fail, Calls!vars
  <1>7. QED
    BY <1>3, <1>4, <1>5, <1>6 DEF IInv

LEMMA AnswerKeeps ==
  ASSUME TypeInv, IInv, NEW c \in running, Answer(c)
  PROVE  IInv' /\ UNCHANGED Calls!vars
  <1>1. /\ UNCHANGED <<up, tab, next_msgid, events, hist>> /\ running' \subseteq running
        /\ net' = net \/ net' = net \cup {[kind |-> "return", call |-> c]}
    BY DEF Answer, Sends
  <1>2. c \in hist.ever
    BY DEF IInv, KnownInv
  <1>3. KnownInv'
    BY <1>1, <1>2 DEF IInv, KnownInv, Waits
  <1>4. QED
    BY <1>1, <1>3 DEF IInv, SentInv, IdsInv, LastInv, TimerInv, Calls!vars, Waits


\* A connection forgets the calls that were run in the one before.
LEMMA MetaKeeps ==
  ASSUME TypeInv, IInv, NEW d \in net, meta_command(d)
  PROVE  IInv' /\ (Calls!Connect \/ UNCHANGED Calls!vars)
  <1>1. /\ UNCHANGED <<up, next_msgid, events, running>>
        /\ d.from \in Servers /\ d.to \in Servers
        /\ \A x \in net' \ net : x \in Meta
    BY MetaStep
  <1>2. \A x \in net' \ net : x.kind # "call" /\ x.kind # "return"
    BY <1>1 DEF Meta
  <1>3. CASE /\ UNCHANGED hist
             /\ \A t, q \in Servers : tab'[t][q].last_msgid = tab[t][q].last_msgid
    <2>1. LastInv'
      BY <1>1, <1>3, HistoryType, CallType DEF IInv, LastInv
    <2>2. KnownInv'
      BY <1>1, <1>2, <1>3 DEF IInv, KnownInv, Waits
    <2>3. QED
      BY <1>1, <1>3, <2>1, <2>2 DEF IInv, SentInv, IdsInv, TimerInv, Calls!vars, Waits
  <1>4. CASE Connected(d.to, d.from)
    <2>1. /\ \A t, q \in Servers : ~(t = d.to /\ q = d.from) => tab'[t][q] = tab[t][q]
          /\ hist'.ran = {c \in hist.ran : ~(c.from = d.from /\ c.to = d.to)}
          /\ hist'.sent = hist.sent /\ hist'.back = hist.back /\ hist'.ever = hist.ever
          /\ hist'.runs = hist.runs
      BY <1>1, <1>4, ConnectedStep
    <2>2. LastInv'
      <3>1. \A c \in hist'.ran : c \in hist.ran /\ tab'[c.to][c.from] = tab[c.to][c.from]
        BY <2>1, HistoryType, CallType
      <3>2. QED
        BY <1>1, <3>1 DEF IInv, LastInv
    <2>3. KnownInv'
      BY <1>1, <1>2, <2>1 DEF IInv, KnownInv, Waits
    <2>4. SentInv' /\ IdsInv' /\ TimerInv'
      BY <1>1, <2>1 DEF IInv, SentInv, IdsInv, TimerInv
    <2>5. Waits' = Waits
      BY <1>1 DEF Waits
    <2>6. CASE \E c \in hist.ran : c.from = d.from /\ c.to = d.to
      <3>1. /\ d.from \in {c.from : c \in hist.ran} \cup {c.to : c \in hist.ran}
            /\ d.to \in {c.from : c \in hist.ran} \cup {c.to : c \in hist.ran}
        BY <2>6
      <3>2. Calls!Connect
        BY <2>1, <2>5, <3>1 DEF Calls!Connect
      <3>3. QED
        BY <2>2, <2>3, <2>4, <3>2 DEF IInv
    <2>7. CASE ~\E c \in hist.ran : c.from = d.from /\ c.to = d.to
      <3>1. hist'.ran = hist.ran
        BY <2>1, <2>7
      <3>2. QED
        BY <2>1, <2>2, <2>3, <2>4, <2>5, <3>1 DEF IInv, Calls!vars
    <2>8. QED
      BY <2>6, <2>7
  <1>5. QED
    BY <1>3, <1>4, MetaStep

\* What is not discarded is later than what was run in this connection.
LEMMA ReceiveCallKeeps ==
  ASSUME TypeInv, IInv, NEW d \in net, ReceiveCall(d)
  PROVE  IInv' /\ Calls!Run
  <1> DEFINE c == d.call
  <1>1. /\ UNCHANGED <<up, next_msgid, events, net>>
        /\ d.kind = "call" /\ c \in Call /\ c.to \in up
        /\ running' = running \cup {c}
        /\ c.id > tab[c.to][c.from].last_msgid
        /\ tab'[c.to][c.from].last_msgid = c.id
        /\ \A t, q \in Servers : ~(t = c.to /\ q = c.from) => tab'[t][q] = tab[t][q]
        /\ hist'.ran = hist.ran \cup {c} /\ hist'.ever = hist.ever \cup {c}
        /\ hist'.runs = hist.runs + 1
        /\ hist'.sent = hist.sent /\ hist'.back = hist.back
    BY ReceiveCallStep
  <1>2. c \in hist.sent
    BY <1>1 DEF IInv, KnownInv
  <1> HIDE DEF c
  <1>3. c.to \in Servers /\ c.from \in Servers /\ c.id \in Nat
        /\ tab[c.to][c.from].last_msgid \in Int
    BY <1>1, HistoryType, CallType
  <1>4. \A x \in hist.ran : /\ x.to \in up /\ x.from \in Servers /\ x.to \in Servers
                            /\ x.id \in Nat /\ x.id <= tab[x.to][x.from].last_msgid
    BY HistoryType, CallType DEF IInv, LastInv
  <1>5. c \notin hist.ran
    <2>1. ~(c.id <= tab[c.to][c.from].last_msgid)
      BY <1>1, <1>3
    <2>2. QED
      BY <1>4, <2>1
  <1>6. LastInv'
    <2> SUFFICES ASSUME NEW x \in hist.ran \cup {c}
                 PROVE  x.to \in up /\ x.id <= tab'[x.to][x.from].last_msgid
      BY <1>1 DEF LastInv
    <2>1. CASE x.to = c.to /\ x.from = c.from
      <3>1. x = c \/ (x.id \in Nat /\ x.id <= tab[c.to][c.from].last_msgid)
        BY <1>4, <2>1
      <3>2. x.id <= c.id
        BY <1>1, <1>3, <3>1
      <3>3. QED
        BY <1>1, <2>1, <3>2
    <2>2. CASE ~(x.to = c.to /\ x.from = c.from)
      <3>1. x \in hist.ran
        BY <2>2
      <3>2. tab'[x.to][x.from] = tab[x.to][x.from]
        BY <1>1, <1>4, <2>2, <3>1
      <3>3. QED
        BY <1>4, <3>1, <3>2
    <2>3. QED
      BY <2>1, <2>2
  <1>7. KnownInv'
    BY <1>1, <1>2 DEF IInv, KnownInv, Waits
  <1>8. SentInv' /\ IdsInv' /\ TimerInv'
    BY <1>1 DEF IInv, SentInv, IdsInv, TimerInv
  <1>9. Calls!Run
    BY <1>1, <1>2, <1>5 DEF Calls!Run, Waits
  <1>10. QED
    BY <1>6, <1>7, <1>8, <1>9 DEF IInv

\* The event with the id of the answer is that of the call that was run.
LEMMA ReceiveReturnKeeps ==
  ASSUME TypeInv, IInv, NEW d \in net, ReceiveReturn(d)
  PROVE  IInv' /\ Calls!Return
  <1>1. /\ UNCHANGED <<up, tab, next_msgid, running, net>>
        /\ d.kind = "return" /\ d.call \in Call
    BY ReceiveReturnStep
  <1>2. PICK e \in events :
          /\ e.call.from = d.call.from /\ e.call.id = d.call.id
          /\ events' = events \ {e}
          /\ hist'.back = hist.back \cup {e.call}
          /\ hist'.sent = hist.sent /\ hist'.ran = hist.ran /\ hist'.ever = hist.ever
          /\ hist'.runs = hist.runs
    BY ReceiveReturnStep
  <1>3. d.call \in hist.ever /\ d.call \in hist.sent
    BY <1>1 DEF IInv, KnownInv
  <1>4. e.call \in Waits /\ Waits' = Waits \ {e.call} /\ TimerInv'
    BY <1>2, TimerEnds DEF IInv
  <1>5. e.call = d.call
    BY <1>2, <1>3, <1>4 DEF IInv, KnownInv, IdsInv
  <1>6. Calls!Return
    BY <1>2, <1>3, <1>4, <1>5 DEF Calls!Return
  <1>7. SentInv' /\ IdsInv' /\ LastInv' /\ KnownInv'
    BY <1>1, <1>2, <1>4 DEF IInv, SentInv, IdsInv, LastInv, KnownInv
  <1>8. QED
    BY <1>4, <1>6, <1>7 DEF IInv

-----------------------------------------------------------------------------
(* The theorems.                                                           *)

LEMMA NextKeeps ==
  ASSUME Lasting, TypeInv, IInv, [Next]_vars
  PROVE  IInv' /\ [Calls!Next]_(Calls!vars)
  <1> USE DEF Calls!Next
  <1>1. CASE \E s \in Servers : Start(s)
    BY <1>1, StartKeeps
  <1>2. CASE \E s \in Servers, quiet \in BOOLEAN : Stop(s, quiet)
    BY <1>2, StopKeeps
  <1>3. CASE \E s, p \in Servers : send_message(s, p)
    BY <1>3, SendKeeps
  <1>4. CASE \E e \in events : process_message_event(e)
    BY <1>4, TimerKeeps
  <1>5. CASE \E c \in running : Answer(c)
    BY <1>5, AnswerKeeps
  <1>6. CASE \E d \in net : meta_command(d)
    BY <1>6, MetaKeeps
  <1>7. CASE \E d \in net : ReceiveCall(d)
    BY <1>7, ReceiveCallKeeps
  <1>8. CASE \E d \in net : ReceiveReturn(d)
    BY <1>8, ReceiveReturnKeeps
  <1>9. CASE UNCHANGED vars
    BY <1>9 DEF vars, IInv, SentInv, IdsInv, KnownInv, LastInv, TimerInv, Calls!vars, Waits
  <1>10. QED
    BY <1>1, <1>2, <1>3, <1>4, <1>5, <1>6, <1>7, <1>8, <1>9 DEF Next, Timer

\* An id belongs to one call, last_msgid bounds the ids of the calls run in this
\* connection, and a call has one timer (message.c 159-200, servers.c 386-407).
THEOREM MessageInvariant ==
  ASSUME Lasting
  PROVE  Spec => []IInv
  <1>1. Init => TypeInv /\ IInv
    BY InitType, InitInv
  <1>2. TypeInv /\ IInv /\ [Next]_vars => (TypeInv /\ IInv)'
    BY NextType, NextKeeps
  <1>3. QED
    BY <1>1, <1>2, PTL DEF Spec

\* Remote calls are those of RemoteCalls: whatever datagrams are lost, repeated and
\* reordered and however often a call is sent again, it is run at most once in a
\* connection, and only an answer to a call that was run resumes its caller
\* (servers.c 386-407, message.c 159-200, 484-507).
THEOREM RemoteCallsKept ==
  ASSUME Lasting
  PROVE  Spec => CallsSpec
  <1>1. Init => TypeInv /\ IInv /\ Calls!Init
    BY InitType, InitInv DEF Init, Calls!Init, Waits
  <1>2. TypeInv /\ IInv /\ [Next]_vars =>
           (TypeInv /\ IInv)' /\ [Calls!Next]_(Calls!vars)
    BY NextType, NextKeeps
  <1>3. QED
    BY <1>1, <1>2, PTL DEF Spec, CallsSpec, Calls!Spec

=============================================================================
