---------------------------- MODULE PlayersProofs ----------------------------
(***************************************************************************)
(* Theorems about the connections of players, for any number of players    *)
(* and descriptors and every value of the limits.                          *)
(*                                                                         *)
(* The list is only ever changed cell by cell, and gets a new cell under a *)
(* descriptor that none of its cells has.  The quota of a connection and   *)
(* the commands it has executed make up a sum that grows with time alone.  *)
(***************************************************************************)
EXTENDS Players, TLAPS

\* The cell has kept what the invariants are about.
SameCell(q, p) == q.fd = p.fd /\ q.id = p.id /\ q.quota = p.quota

\* Each cell is one of the list, changed; no two of them are the same one.
CellsOf(S) ==
    /\ \A q \in S : \E p \in players : SameCell(q, p)
    /\ \A p, q \in S : p.fd = q.fd => p = q

\* What a connection has executed and what it may still execute, in milliseconds.
RateInv ==
    /\ \A p \in players : p.quota <= FullQuota
    /\ window.ran <= MaxRan
    /\ \/ window.msec = MaxRan * MsecPerCmd
       \/ /\ window.ran * MsecPerCmd <= FullQuota + MsecPerCmd + window.msec
          /\ \A p \in players : p.fd = window.fd =>
                window.ran * MsecPerCmd + p.quota <= FullQuota + window.msec

IInv == TypeOK /\ OneConnection /\ RateInv

LEMMA FullQuotaType == FullQuota \in Nat
  BY PlayersAssumption DEF FullQuota

LEMMA CapType == MaxRan * MsecPerCmd \in Nat
  BY PlayersAssumption

LEMMA WindowType == \A fd \in Fds : WindowOn(fd) \in Window
  BY DEF WindowOn, Window

LEMMA NewCell ==
  ASSUME NEW fd \in Fds, NEW id \in Ids \cup {Sys}, NEW out \in BOOLEAN, NEW conn \in BOOLEAN
  PROVE  /\ init_player(fd, id, out, conn) \in Player
         /\ init_player(fd, id, out, conn).fd = fd
         /\ init_player(fd, id, out, conn).id = id
         /\ init_player(fd, id, out, conn).quota = FullQuota
  BY FullQuotaType DEF init_player, Player

LEMMA InitInv == Init => IInv
  <1> SUFFICES ASSUME Init PROVE IInv
    OBVIOUS
  <1>1. PICK fd \in Fds : window = WindowOn(fd)
    BY DEF Init
  <1>2. window \in Window /\ window.ran = 0 /\ window.msec = 0
    BY <1>1, WindowType DEF WindowOn
  <1>3. 0 * MsecPerCmd = 0 /\ MsecPerCmd \in Nat /\ MaxRan \in Nat
    BY PlayersAssumption
  <1>4. QED
    BY <1>2, <1>3, FullQuotaType DEF Init, IInv, TypeOK, OneConnection, RateInv

\* The cells are changed, or leave.
LEMMA CellsKept ==
  ASSUME IInv, NEW S, players' = S, CellsOf(S), UNCHANGED <<nfds, window>>
  PROVE  OneConnection' /\ RateInv'
  <1>1. OneConnection'
    <2> SUFFICES ASSUME NEW p \in S, NEW q \in S
                 PROVE  p.fd < nfds /\ (p # q => p.fd # q.fd /\ (p.id = q.id => p.id = Sys))
      BY DEF OneConnection
    <2>1. PICK x \in players : SameCell(p, x)
      BY DEF CellsOf
    <2>2. PICK y \in players : SameCell(q, y)
      BY DEF CellsOf
    <2>3. p # q => p.fd # q.fd
      BY DEF CellsOf
    <2>4. QED
      BY <2>1, <2>2, <2>3 DEF SameCell, IInv, OneConnection
  <1>2. RateInv'
    <2>1. \A q \in S : \E p \in players : SameCell(q, p)
      BY DEF CellsOf
    <2>2. QED
      BY <2>1 DEF IInv, RateInv, SameCell
  <1>3. QED
    BY <1>1, <1>2

\* And there is one more.
LEMMA CellAdded ==
  ASSUME IInv, NEW S, CellsOf(S), NEW p, players' = S \cup {p}, p.fd \in Fds,
         p.quota = FullQuota,
         \A q \in S : q.fd # p.fd /\ (q.id = p.id => p.id = Sys),
         nfds' = NfdsFor(p.fd), window' = Fresh(p.fd)
  PROVE  OneConnection' /\ RateInv' /\ nfds' \in Nat /\ window' \in Window
  <1>1. /\ nfds \in Nat /\ p.fd \in Nat /\ players \subseteq Player
        /\ \A q \in players : q.fd \in Nat /\ q.quota \in Int
    BY PlayersAssumption DEF IInv, TypeOK, Player
  <1>2. nfds' \in Nat /\ p.fd < nfds' /\ nfds <= nfds'
    BY <1>1 DEF NfdsFor
  <1>3. window' \in Window
    BY WindowType DEF Fresh, IInv, TypeOK
  <1>4. OneConnection'
    <2>1. \A q \in S : \E x \in players : SameCell(q, x)
      BY DEF CellsOf
    <2>2. \A q \in S : q.fd < nfds'
      BY <1>1, <1>2, <2>1 DEF SameCell, IInv, OneConnection
    <2>3. \A q, r \in S : q # r => q.fd # r.fd /\ (q.id = r.id => q.id = Sys)
      <3> SUFFICES ASSUME NEW q \in S, NEW r \in S, q # r
                   PROVE  q.fd # r.fd /\ (q.id = r.id => q.id = Sys)
        OBVIOUS
      <3>1. PICK x \in players : SameCell(q, x)
        BY <2>1
      <3>2. PICK y \in players : SameCell(r, y)
        BY <2>1
      <3>3. q.fd # r.fd
        BY DEF CellsOf
      <3>4. QED
        BY <3>1, <3>2, <3>3 DEF SameCell, IInv, OneConnection
    <2>4. QED
      BY <1>2, <2>2, <2>3 DEF OneConnection
  <1>5. RateInv'
    <2>1. \A q \in S : \E x \in players : SameCell(q, x)
      BY DEF CellsOf
    <2>2. CASE p.fd = window.fd
      <3>1. window'.ran = 0 /\ window'.msec = 0
        BY <2>2 DEF Fresh, WindowOn
      <3>2. 0 * MsecPerCmd = 0 /\ MsecPerCmd \in Nat /\ MaxRan \in Nat
        BY PlayersAssumption
      <3>3. \A q \in players' : q.quota \in Int /\ q.quota <= FullQuota
        BY <1>1, <2>1, FullQuotaType DEF SameCell, IInv, RateInv
      <3>4. QED
        BY <3>1, <3>2, <3>3, FullQuotaType DEF RateInv
    <2>3. CASE p.fd # window.fd
      <3>1. UNCHANGED window
        BY <2>3 DEF Fresh
      <3>2. \A q \in players' : q = p \/ \E x \in players : SameCell(q, x)
        BY <2>1
      <3>3. QED
        BY <2>3, <3>1, <3>2, FullQuotaType DEF IInv, RateInv, SameCell
    <2>4. QED
      BY <2>2, <2>3
  <1>6. QED
    BY <1>2, <1>3, <1>4, <1>5


-----------------------------------------------------------------------------
(* The commands of players.                                                *)

\* What a turn does to a connection.
LEMMA TurnFacts ==
  ASSUME NEW p \in Player, NEW t \in Nat
  PROVE  /\ WithQuota(p, t) \in Player
         /\ WithQuota(p, t).fd = p.fd /\ WithQuota(p, t).id = p.id
         /\ WithQuota(p, t).connected = p.connected
         /\ WithQuota(p, t).quota <= FullQuota
         /\ WithQuota(p, t).quota <= p.quota + t
         /\ Executes(p, t) => /\ WithQuota(p, t).quota <= p.quota + t - MsecPerCmd
                              /\ WithQuota(p, t).quota >= -MsecPerCmd
  <1>1. /\ p.quota \in Int /\ p.input \in Nat /\ MsecPerCmd \in Nat /\ FullQuota \in Nat
        /\ p.fd \in Fds
    BY PlayersAssumption, FullQuotaType DEF Player
  <1>2. PICK q : q = Capped(p.quota + t)
    OBVIOUS
  <1>3. q \in Int /\ q <= FullQuota /\ q <= p.quota + t
    BY <1>1, <1>2 DEF Capped
  <1>4. CASE Executes(p, t)
    <2>1. PICK i \in Nat, k \in Int : i = p.input - 1 /\ k = q - MsecPerCmd
      BY <1>1, <1>3, <1>4 DEF Executes
    <2>2. WithQuota(p, t) = [p EXCEPT !.quota = k, !.input = i]
      BY <1>2, <1>4, <2>1 DEF WithQuota
    <2>3. /\ WithQuota(p, t) \in Player /\ WithQuota(p, t).quota = k
          /\ WithQuota(p, t).fd = p.fd /\ WithQuota(p, t).id = p.id
          /\ WithQuota(p, t).connected = p.connected
      BY <2>1, <2>2 DEF Player
    <2>4. q >= 0
      BY <1>2, <1>4 DEF Executes
    <2>5. QED
      BY <1>1, <1>3, <2>1, <2>3, <2>4
  <1>5. CASE ~Executes(p, t)
    <2>1. WithQuota(p, t) = [p EXCEPT !.quota = q]
      BY <1>2, <1>5 DEF WithQuota
    <2>2. /\ WithQuota(p, t) \in Player /\ WithQuota(p, t).quota = q
          /\ WithQuota(p, t).fd = p.fd /\ WithQuota(p, t).id = p.id
          /\ WithQuota(p, t).connected = p.connected
      BY <1>3, <2>1 DEF Player
    <2>3. QED
      BY <1>1, <1>3, <1>5, <2>2
  <1>6. QED
    BY <1>4, <1>5

\* The step of the window: time passes up to its bound, and one command at most is
\* counted.
LEMMA WindowFacts ==
  ASSUME TypeOK, window.ran <= MaxRan, NEW t \in Nat, queue_player_commands(t)
  PROVE  /\ window' \in Window /\ window'.fd = window.fd
         /\ \/ window'.msec = MaxRan * MsecPerCmd
            \/ window'.msec = window.msec + t /\ window.msec # MaxRan * MsecPerCmd
         /\ window'.ran <= MaxRan /\ window'.ran <= window.ran + 1
         /\ window'.ran = window.ran
            \/ \E p \in players : p.fd = window.fd /\ Executes(p, t)
  <1>1. /\ window \in Window /\ window.msec \in Nat /\ window.ran \in Nat
        /\ MaxRan \in Nat /\ MaxRan * MsecPerCmd \in Nat
    BY PlayersAssumption, CapType DEF TypeOK, Window
  <1>2. PICK ms : ms = UpTo(MaxRan * MsecPerCmd, window.msec + t)
    OBVIOUS
  <1>3. PICK rn : rn = IF \E p \in players : p.fd = window.fd /\ Executes(p, t)
                       THEN UpTo(MaxRan, window.ran + 1) ELSE window.ran
    OBVIOUS
  <1>4. window' = [window EXCEPT !.msec = ms, !.ran = rn]
    BY <1>2, <1>3 DEF queue_player_commands
  <1>5. window' \in Window /\ window'.fd = window.fd /\ window'.msec = ms /\ window'.ran = rn
    <2>1. ms \in Nat /\ rn \in Nat
      BY <1>1, <1>2, <1>3 DEF UpTo
    <2>2. QED
      BY <1>1, <1>4, <2>1 DEF Window
  <1>6. QED
    BY <1>1, <1>2, <1>3, <1>5 DEF UpTo


LEMMA Products == \A i, j, k \in Nat : (i + 1) * k = i * k + k /\ (i <= j => i * k <= j * k)
  OBVIOUS

LEMMA QueueKeeps ==
  ASSUME IInv, NEW t \in Ticks, queue_player_commands(t)
  PROVE  IInv'
  <1>1. /\ t \in Nat /\ players' = {WithQuota(p, t) : p \in players}
        /\ players \subseteq Player /\ UNCHANGED nfds /\ phase' = "queues" /\ told' = {}
    BY PlayersAssumption DEF queue_player_commands, IInv, TypeOK
  <1>2. /\ window' \in Window /\ window'.fd = window.fd
        /\ \/ window'.msec = MaxRan * MsecPerCmd
           \/ window'.msec = window.msec + t /\ window.msec # MaxRan * MsecPerCmd
        /\ window'.ran <= MaxRan /\ window'.ran <= window.ran + 1
        /\ window'.ran = window.ran
           \/ \E p \in players : p.fd = window.fd /\ Executes(p, t)
    BY <1>1, WindowFacts DEF IInv, RateInv
  <1>3. TypeOK'
    BY <1>1, <1>2, TurnFacts DEF IInv, TypeOK
  <1>4. OneConnection'
    <2> SUFFICES ASSUME NEW x \in players', NEW y \in players'
                 PROVE  x.fd < nfds /\ (x # y => x.fd # y.fd /\ (x.id = y.id => x.id = Sys))
      BY <1>1 DEF OneConnection
    <2>1. PICK p, q \in players : x = WithQuota(p, t) /\ y = WithQuota(q, t)
      BY <1>1
    <2>2. x.fd = p.fd /\ x.id = p.id /\ y.fd = q.fd /\ y.id = q.id
      BY <1>1, <2>1, TurnFacts
    <2>3. QED
      BY <2>1, <2>2 DEF IInv, OneConnection
  <1>5. RateInv'
    <2> DEFINE M == MsecPerCmd
    <2>1. \A x \in players' : x.quota <= FullQuota
      BY <1>1, TurnFacts
    <2>2. CASE window'.msec = MaxRan * MsecPerCmd
      BY <1>2, <2>1, <2>2 DEF RateInv
    <2>3. CASE window'.msec = window.msec + t /\ window.msec # MaxRan * MsecPerCmd
      <3>1. /\ window.ran \in Nat /\ window'.ran \in Nat /\ window.msec \in Nat /\ M \in Nat
            /\ FullQuota \in Nat
        BY <1>2, FullQuotaType, PlayersAssumption DEF IInv, TypeOK, Window
      <3>2. PICK r, s \in Int : r = window.ran * M /\ s = window'.ran * M
        BY <3>1
      <3>3. s <= r + M /\ (window'.ran = window.ran => s = r)
        BY <1>2, <3>1, <3>2, Products
      <3>4. /\ r <= FullQuota + M + window.msec
            /\ \A p \in players : p.fd = window.fd => r + p.quota <= FullQuota + window.msec
        BY <2>3, <3>2 DEF IInv, RateInv
      <3>5. s <= FullQuota + M + window'.msec
        <4>1. CASE window'.ran = window.ran
          BY <1>1, <2>3, <3>1, <3>2, <3>3, <3>4, <4>1
        <4>2. ASSUME NEW p \in players, p.fd = window.fd, Executes(p, t)
              PROVE  s <= FullQuota + M + window'.msec
          <5>1. PICK q \in Int : q = WithQuota(p, t).quota
            BY <1>1, TurnFacts DEF Player
          <5>2. q <= p.quota + t - M /\ q >= -M /\ p.quota \in Int
            BY <1>1, <4>2, <5>1, TurnFacts DEF Player
          <5>3. r + p.quota <= FullQuota + window.msec
            BY <3>4, <4>2
          <5>4. QED
            BY <1>1, <2>3, <3>1, <3>2, <3>3, <5>2, <5>3
        <4>3. QED
          BY <1>2, <4>1, <4>2
      <3>6. ASSUME NEW x \in players', x.fd = window'.fd
            PROVE  s + x.quota <= FullQuota + window'.msec
        <4>1. PICK p \in players : x = WithQuota(p, t)
          BY <1>1
        <4>2. /\ p.fd = window.fd /\ p.quota \in Int /\ x.quota \in Int
              /\ x.quota <= p.quota + t
              /\ Executes(p, t) => x.quota <= p.quota + t - M
          BY <1>1, <1>2, <3>6, <4>1, TurnFacts DEF Player
        <4>3. r + p.quota <= FullQuota + window.msec
          BY <3>4, <4>2
        <4>4. window'.ran = window.ran \/ Executes(p, t)
          BY <1>2, <4>2 DEF IInv, OneConnection
        <4>5. QED
          BY <1>1, <2>3, <3>1, <3>2, <3>3, <4>2, <4>3, <4>4
      <3>7. QED
        BY <1>2, <2>1, <3>2, <3>5, <3>6 DEF RateInv
    <2>4. QED
      BY <1>2, <2>2, <2>3
  <1>6. QED
    BY <1>3, <1>4, <1>5 DEF IInv


-----------------------------------------------------------------------------
(* The connections.                                                        *)

\* One cell is changed in what the invariants do not look at.
LEMMA BecomesKept ==
  ASSUME IInv, NEW p \in players, NEW q \in Player, SameCell(q, p), Becomes(p, q),
         UNCHANGED <<nfds, phase, window>>, told' = {}
  PROVE  IInv'
  <1>1. PICK S : S = (players \ {p}) \cup {q}
    OBVIOUS
  <1>2. players' = S
    BY <1>1 DEF Becomes
  <1>3. CellsOf(S)
    BY <1>1 DEF CellsOf, SameCell, IInv, OneConnection
  <1>4. TypeOK'
    BY <1>1, <1>2 DEF IInv, TypeOK
  <1>5. QED
    BY <1>2, <1>3, <1>4, CellsKept DEF IInv

LEMMA OtherEnds ==
  ASSUME IInv, NEW p \in players, Types(p) \/ HangsUp(p) \/ Watch(p)
  PROVE  IInv'
  <1>1. p \in Player
    BY DEF IInv, TypeOK
  <1>2. CASE Types(p)
    <2>1. PICK n \in Nat : n = p.sock + 1
      BY <1>1 DEF Player
    <2>2. PICK q : q = [p EXCEPT !.sock = n]
      OBVIOUS
    <2>3. q \in Player /\ SameCell(q, p)
      BY <1>1, <2>2 DEF Player, SameCell
    <2>4. Becomes(p, q)
      BY <1>2, <2>1, <2>2 DEF Types
    <2>5. QED
      BY <1>2, <2>3, <2>4, BecomesKept DEF Types
  <1>3. CASE HangsUp(p)
    <2>1. PICK q : q = [p EXCEPT !.eof = TRUE]
      OBVIOUS
    <2>2. q \in Player /\ SameCell(q, p)
      BY <1>1, <2>1 DEF Player, SameCell
    <2>3. QED
      BY <1>3, <2>1, <2>2, BecomesKept DEF HangsUp
  <1>4. CASE Watch(p)
    <2>1. p.fd \in Fds /\ p.fd \in Nat /\ p.quota \in Int
      BY <1>1, PlayersAssumption DEF Player
    <2>2. /\ window' \in Window /\ window'.ran = 0 /\ window'.msec = 0
          /\ UNCHANGED <<players, nfds, phase>> /\ told' = {}
      BY <1>4, <2>1, WindowType DEF Watch, WindowOn
    <2>3. 0 * MsecPerCmd = 0 /\ MsecPerCmd \in Nat /\ MaxRan \in Nat
      BY PlayersAssumption
    <2>4. \A x \in players : x.quota \in Int
      BY DEF IInv, TypeOK, Player
    <2>5. QED
      BY <2>2, <2>3, <2>4, FullQuotaType DEF IInv, TypeOK, OneConnection, RateInv
  <1>5. QED
    BY <1>2, <1>3, <1>4

\* Some cells leave.
LEMMA SomeLeave ==
  ASSUME NEW S \in SUBSET players, OneConnection
  PROVE  CellsOf(S)
  BY DEF CellsOf, SameCell, OneConnection

LEMMA CloseKeeps ==
  ASSUME IInv, NEW gone \in SUBSET players, Close(gone)
  PROVE  IInv'
  <1>1. PICK S \in SUBSET players : players' = S
    BY DEF Close, Without
  <1>2. CellsOf(S)
    BY SomeLeave DEF IInv
  <1>3. OneConnection' /\ RateInv'
    BY <1>1, <1>2, CellsKept DEF Close
  <1>4. TypeOK'
    BY <1>1 DEF IInv, TypeOK, Close, Player
  <1>5. QED
    BY <1>3, <1>4 DEF IInv

LEMMA shutdownKeeps ==
  ASSUME IInv, shutdown
  PROVE  IInv'
  <1>1. CellsOf({})
    BY DEF CellsOf
  <1>2. OneConnection' /\ RateInv'
    BY <1>1, CellsKept DEF shutdown
  <1>3. TypeOK'
    BY DEF IInv, TypeOK, shutdown
  <1>4. QED
    BY <1>2, <1>3 DEF IInv

LEMMA OpenKeeps ==
  ASSUME IInv, NEW id \in Ids, NEW ok \in BOOLEAN, net_open_connect(id, ok)
  PROVE  IInv'
  <1> PICK old \in SUBSET players : old = {p \in players : OldOf(p, id)}
    OBVIOUS
  <1> PICK S \in SUBSET players : S = Without(old)
    BY DEF Without
  <1>1. CellsOf(S)
    BY SomeLeave DEF IInv
  <1>2. told' \subseteq Ids \cup {Sys} /\ UNCHANGED phase
    BY DEF net_open_connect, IInv, TypeOK, Player
  <1>3. CASE players' = S /\ UNCHANGED <<nfds, window>>
    BY <1>1, <1>2, <1>3, CellsKept DEF IInv, TypeOK
  <1>4. CASE ~(players' = S /\ UNCHANGED <<nfds, window>>)
    <2>1. PICK fd \in Fds \ {p.fd : p \in S} :
                 /\ players' = S \cup {init_player(fd, id, TRUE, ok)}
                 /\ nfds' = NfdsFor(fd)
                 /\ window' = Fresh(fd)
      BY <1>4 DEF net_open_connect
    <2>2. PICK p : p = init_player(fd, id, TRUE, ok)
      OBVIOUS
    <2>3. p \in Player /\ p.fd = fd /\ p.id = id /\ p.quota = FullQuota
      <3>1. fd \in Fds /\ id \in Ids \cup {Sys}
        OBVIOUS
      <3>2. QED
        BY <2>2, <3>1, FullQuotaType DEF init_player, Player
    <2>4. \A q \in S : q.fd # p.fd /\ q.id # p.id
      BY <2>1, <2>3 DEF Without, OldOf
    <2>5. /\ players' = S \cup {p} /\ p.fd \in Fds
          /\ nfds' = NfdsFor(p.fd) /\ window' = Fresh(p.fd)
      BY <2>1, <2>2, <2>3
    <2>6. OneConnection' /\ RateInv' /\ nfds' \in Nat /\ window' \in Window
      BY <1>1, <2>3, <2>4, <2>5, CellAdded
    <2>7. TypeOK'
      BY <1>2, <2>3, <2>5, <2>6 DEF IInv, TypeOK
    <2>8. QED
      BY <2>6, <2>7 DEF IInv
  <1>5. QED
    BY <1>3, <1>4


\* The cells of other connections of the player leave, and the cell of fd gets the id.
LEMMA set_parseKeeps ==
  ASSUME IInv, NEW fd \in Fds, NEW id \in Ids, set_parse(fd, id)
  PROVE  IInv'
  <1> PICK F : F = [p \in players |-> IF p.fd = fd THEN [p EXCEPT !.connected = TRUE, !.id = id]
                                                    ELSE p]
    OBVIOUS
  <1>1. \A p \in players :
           /\ F[p] \in Player /\ F[p].fd = p.fd /\ F[p].quota = p.quota
           /\ F[p].id = IF p.fd = fd THEN id ELSE p.id
    BY DEF IInv, TypeOK, Player
  <1>2. /\ players' = {F[p] : p \in {q \in players : ~(q.id = id /\ q.fd # fd)}}
        /\ UNCHANGED <<nfds, phase, window>>
    BY DEF set_parse, Without
  <1>3. TypeOK'
    <2>1. told' \subseteq Ids \cup {Sys}
      BY DEF set_parse, IInv, TypeOK, Player
    <2>2. QED
      BY <1>1, <1>2, <2>1 DEF IInv, TypeOK
  <1>4. OneConnection'
    <2> SUFFICES ASSUME NEW x \in players', NEW y \in players'
                 PROVE  x.fd < nfds /\ (x # y => x.fd # y.fd /\ (x.id = y.id => x.id = Sys))
      BY <1>2 DEF OneConnection
    <2>1. PICK p \in players : x = F[p] /\ ~(p.id = id /\ p.fd # fd)
      BY <1>2
    <2>2. PICK q \in players : y = F[q] /\ ~(q.id = id /\ q.fd # fd)
      BY <1>2
    <2>3. p # q => p.fd # q.fd /\ (p.id = q.id => p.id = Sys)
      BY DEF IInv, OneConnection
    <2>4. p.fd < nfds
      BY DEF IInv, OneConnection
    <2>5. QED
      BY <1>1, <2>1, <2>2, <2>3, <2>4
  <1>5. RateInv'
    <2>1. \A x \in players' : \E p \in players : x.fd = p.fd /\ x.quota = p.quota
      BY <1>1, <1>2
    <2>2. QED
      BY <1>2, <2>1 DEF IInv, RateInv
  <1>6. QED
    BY <1>3, <1>4, <1>5 DEF IInv

\* What the loop of process_fdsets() does to a connection that stays.
LEMMA ServedFacts ==
  ASSUME TypeOK, NEW W, NEW q \in Served(W)
  PROVE  \E p \in players : /\ q \in Player /\ Read(q) \in Player
                            /\ SameCell(q, p) /\ SameCell(Read(q), p)
                            /\ Read(q).connected = q.connected
                            /\ q = IF p.fd \in W THEN [p EXCEPT !.connected = TRUE] ELSE p
  <1>1. PICK p \in players : q = IF p.fd \in W THEN [p EXCEPT !.connected = TRUE] ELSE p
    BY DEF Served
  <1>2. q \in Player /\ SameCell(q, p)
    BY <1>1 DEF TypeOK, Player, SameCell
  <1>3. PICK n \in Nat : n = q.input + q.sock
    BY <1>2 DEF Player
  <1>4. PICK r : r = [q EXCEPT !.input = n, !.sock = 0]
    OBVIOUS
  <1>5. Read(q) = r
    BY <1>3, <1>4 DEF Read
  <1>6. r \in Player /\ SameCell(r, p) /\ r.connected = q.connected
    BY <1>2, <1>3, <1>4 DEF Player, SameCell
  <1>7. QED
    BY <1>1, <1>2, <1>5, <1>6

LEMMA fdsetsKeeps ==
  ASSUME IInv, NEW W, NEW new \in BOOLEAN, process_fdsets(W, new)
  PROVE  IInv'
  <1>0. TypeOK
    BY DEF IInv
  <1> PICK S : S = {Read(p) : p \in {q \in Served(W) : ~Dead(q)}}
    OBVIOUS
  <1>1. S \subseteq Player /\ CellsOf(S)
    <2>1. \A r \in S : r \in Player /\ \E p \in players : SameCell(r, p)
      BY <1>0, ServedFacts
    <2>2. ASSUME NEW r \in S, NEW s \in S, r.fd = s.fd PROVE r = s
      <3>1. PICK x \in Served(W) : r = Read(x)
        OBVIOUS
      <3>2. PICK y \in Served(W) : s = Read(y)
        OBVIOUS
      <3>3. PICK p \in players :
               /\ SameCell(r, p)
               /\ x = IF p.fd \in W THEN [p EXCEPT !.connected = TRUE] ELSE p
        BY <1>0, <3>1, ServedFacts
      <3>4. PICK q \in players :
               /\ SameCell(s, q)
               /\ y = IF q.fd \in W THEN [q EXCEPT !.connected = TRUE] ELSE q
        BY <1>0, <3>2, ServedFacts
      <3>5. p = q
        BY <2>2, <3>3, <3>4 DEF SameCell, IInv, OneConnection
      <3>6. x = y
        BY <3>3, <3>4, <3>5
      <3>7. QED
        BY <3>1, <3>2, <3>6
    <2>3. QED
      BY <2>1, <2>2 DEF CellsOf
  <1>2. told' \subseteq Ids \cup {Sys}
    <2>1. \A q \in Served(W) : q.id \in Ids \cup {Sys}
      BY <1>0, ServedFacts DEF Player
    <2>2. told' = {p.id : p \in {q \in Served(W) : Reported(q)}}
      BY DEF process_fdsets
    <2>3. QED
      BY <2>1, <2>2
  <1>3. phase' = "commands"
    BY DEF process_fdsets
  <1>4. CASE ~new
    <2>1. players' = S /\ UNCHANGED <<nfds, window>>
      BY <1>4 DEF process_fdsets
    <2>2. OneConnection' /\ RateInv'
      BY <1>1, <2>1, CellsKept
    <2>3. QED
      BY <1>1, <1>2, <1>3, <2>1, <2>2 DEF IInv, TypeOK
  <1>5. CASE new
    <2>1. PICK fd \in Free : /\ players' = S \cup {new_player(fd)}
                             /\ nfds' = NfdsFor(fd) /\ window' = Fresh(fd)
      BY <1>5 DEF process_fdsets
    <2>2. PICK p : p = init_player(fd, Sys, FALSE, FALSE)
      OBVIOUS
    <2>3. p \in Player /\ p.fd = fd /\ p.id = Sys /\ p.quota = FullQuota /\ fd \in Fds
      <3>1. fd \in Fds /\ Sys \in Ids \cup {Sys} /\ FALSE \in BOOLEAN
        BY DEF Free
      <3>2. QED
        BY <2>2, <3>1, NewCell
    <2>4. \A q \in S : q.fd # p.fd
      BY <1>1, <2>3 DEF CellsOf, SameCell, Free, InUse
    <2>5. /\ players' = S \cup {p} /\ p.fd \in Fds
          /\ nfds' = NfdsFor(p.fd) /\ window' = Fresh(p.fd)
      BY <2>1, <2>2, <2>3 DEF new_player
    <2>6. OneConnection' /\ RateInv' /\ nfds' \in Nat /\ window' \in Window
      BY <1>1, <2>3, <2>4, <2>5, CellAdded
    <2>7. TypeOK'
      BY <1>1, <1>2, <1>3, <2>3, <2>5, <2>6 DEF TypeOK
    <2>8. QED
      BY <2>6, <2>7 DEF IInv
  <1>6. QED
    BY <1>4, <1>5

LEMMA NextInv == IInv /\ [Next]_vars => IInv'
  <1> SUFFICES ASSUME IInv, [Next]_vars PROVE IInv'
    OBVIOUS
  <1>1. CASE \E p \in players : Types(p) \/ HangsUp(p) \/ Watch(p)
    BY <1>1, OtherEnds
  <1>2. CASE MainLoop
    <2>1. CASE EndQueues
      BY <2>1 DEF EndQueues, IInv, TypeOK, OneConnection, RateInv
    <2>2. CASE \E t \in Ticks : queue_player_commands(t)
      BY <2>2, QueueKeeps
    <2>3. CASE \E W \in SUBSET InProgress, new \in BOOLEAN : process_fdsets(W, new)
      BY <2>3, fdsetsKeeps
    <2>4. QED
      BY <1>2, <2>1, <2>2, <2>3 DEF MainLoop
  <1>3. CASE Programs
    BY <1>3, CloseKeeps, OpenKeeps, set_parseKeeps, shutdownKeeps
       DEF Programs, disconnect, disconnect_fd
  <1>4. CASE UNCHANGED vars
    BY <1>4 DEF vars, IInv, TypeOK, OneConnection, RateInv
  <1>5. QED
    BY <1>1, <1>2, <1>3, <1>4 DEF Next


-----------------------------------------------------------------------------
\* Every reachable state is well typed; in particular the count of commands that
\* wait to be executed never drops below zero.
THEOREM ConnectionsTyped == Spec => []TypeOK
  <1>1. IInv => TypeOK
    BY DEF IInv
  <1>2. QED
    BY <1>1, InitInv, NextInv, PTL DEF Spec

\* An object has one connection on each of the paths by which it may get another
\* one, descriptors are not shared, and select() looks at all of them (playerio.c
\* 169-183, netio.c 597-625).
THEOREM OneEach == Spec => []OneConnection
  <1>1. IInv => OneConnection
    BY DEF IInv
  <1>2. QED
    BY <1>1, InitInv, NextInv, PTL DEF Spec

\* In any window of time, the commands of a connection are limited to a burst and one
\* in MsecPerCmd (playerio.c 139-166).
THEOREM CommandsLimited == Spec => []RateLimited
  <1>1. IInv => RateLimited
    <2> SUFFICES ASSUME IInv PROVE (window.ran - MaxCmds - 1) * MsecPerCmd <= window.msec
      BY DEF RateLimited
    <2>1. /\ window.ran \in Nat /\ window.msec \in Nat /\ MaxCmds \in Nat /\ MaxRan \in Nat
          /\ MsecPerCmd \in Nat
      BY PlayersAssumption DEF IInv, TypeOK, Window
    <2>2. PICK r, f, c \in Nat : /\ r = window.ran * MsecPerCmd /\ f = MaxCmds * MsecPerCmd
                                 /\ c = MaxRan * MsecPerCmd
      BY <2>1
    <2>3. (window.ran - MaxCmds - 1) * MsecPerCmd = r - f - MsecPerCmd
      BY <2>1, <2>2
    <2>4. r <= c
      BY <2>1, <2>2, Products DEF IInv, RateInv
    <2>5. window.msec = c \/ r <= f + MsecPerCmd + window.msec
      BY <2>2 DEF IInv, RateInv, FullQuota
    <2>6. QED
      BY <2>1, <2>2, <2>3, <2>4, <2>5
  <1>2. QED
    BY <1>1, InitInv, NextInv, PTL DEF Spec

\* An object that was connected and is not any more was sent its disconnect message
\* in the same step, on each of the paths by which a connection ends (netio.c
\* 307-313 and 609-615, playerio.c 58-89 and 167-183).  A program that gives the
\* connection of one player to another one is left out: set_parse() tells nobody.
THEOREM EndsReported ==
  ASSUME ~Switches
  PROVE  Spec => Notified
  <1> DEFINE Reports == phase' \notin {"crashed", "stopped"} =>
                           Online \ (Online' \cup {Sys}) \subseteq told'
  <1>1. IInv /\ [Next]_vars => [Reports]_vars
    <2> SUFFICES ASSUME IInv, Next, phase' \notin {"crashed", "stopped"},
                        NEW p \in players, p.connected, p.id # Sys
                 PROVE  p.id \in told' \/ \E q \in players' : q.id = p.id /\ q.connected
      BY DEF Online
    <2>0. TypeOK /\ p \in Player
      BY DEF IInv, TypeOK
    <2>1. ASSUME NEW x \in players, NEW y, Becomes(x, y), y.id = x.id,
                 y.connected = x.connected
          PROVE  \E q \in players' : q.id = p.id /\ q.connected
      BY <2>1 DEF Becomes
    <2>2. ASSUME NEW x \in players, Types(x) \/ HangsUp(x) \/ Watch(x)
          PROVE  \E q \in players' : q.id = p.id /\ q.connected
      <3>1. x \in Player
        BY <2>0 DEF TypeOK
      <3>2. CASE Types(x)
        <4>1. PICK y : y = [x EXCEPT !.sock = x.sock + 1]
          OBVIOUS
        <4>2. y.id = x.id /\ y.connected = x.connected
          BY <3>1, <4>1 DEF Player
        <4>3. QED
          BY <2>1, <3>2, <4>1, <4>2 DEF Types
      <3>3. CASE HangsUp(x)
        <4>1. PICK y : y = [x EXCEPT !.eof = TRUE]
          OBVIOUS
        <4>2. y.id = x.id /\ y.connected = x.connected
          BY <3>1, <4>1 DEF Player
        <4>3. QED
          BY <2>1, <3>3, <4>1, <4>2 DEF HangsUp
      <3>4. CASE Watch(x)
        BY <3>4 DEF Watch
      <3>5. QED
        BY <2>2, <3>2, <3>3, <3>4
    <2>3. ASSUME NEW t \in Ticks, queue_player_commands(t)
          PROVE  \E q \in players' : q.id = p.id /\ q.connected
      <3>1. t \in Nat /\ WithQuota(p, t) \in players'
        BY <2>3, PlayersAssumption DEF queue_player_commands
      <3>2. QED
        BY <2>0, <3>1, TurnFacts
    <2>4. CASE EndQueues
      BY <2>4 DEF EndQueues
    <2>5. ASSUME NEW W, NEW new \in BOOLEAN, process_fdsets(W, new)
          PROVE  p.id \in told' \/ \E q \in players' : q.id = p.id /\ q.connected
      <3>1. PICK x : x = IF p.fd \in W THEN [p EXCEPT !.connected = TRUE] ELSE p
        OBVIOUS
      <3>2. x \in Served(W) /\ x.connected /\ x.id = p.id
        BY <2>0, <3>1 DEF Served, Player
      <3>3. CASE Dead(x)
        BY <2>5, <3>2, <3>3 DEF process_fdsets, Reported
      <3>4. CASE ~Dead(x)
        <4>1. Read(x) \in players'
          BY <2>5, <3>2, <3>4 DEF process_fdsets
        <4>2. PICK y \in players : /\ SameCell(x, y) /\ SameCell(Read(x), y)
                                   /\ Read(x).connected = x.connected
          BY <2>0, <3>2, ServedFacts, Zenon
        <4>3. Read(x).id = x.id /\ Read(x).connected = x.connected
          BY <4>2 DEF SameCell
        <4>4. QED
          BY <3>2, <4>1, <4>3
      <3>5. QED
        BY <3>3, <3>4
    <2>6. ASSUME NEW gone, Close(gone)
          PROVE  p.id \in told' \/ p \in players'
      BY <2>6 DEF Close, Without
    <2>7. ASSUME NEW id, NEW ok, net_open_connect(id, ok)
          PROVE  p.id \in told' \/ p \in players'
      BY <2>7 DEF net_open_connect, Without
    <2>8. ASSUME NEW fd, NEW id, set_parse(fd, id)
          PROVE  p.id \in told' \/ \E q \in players' : q.id = p.id /\ q.connected
      <3>1. CASE p.id = id /\ p.fd # fd
        BY <2>8, <3>1 DEF set_parse
      <3>2. CASE p.fd = fd
        <4>1. PICK x : x = [p EXCEPT !.connected = TRUE, !.id = id]
          OBVIOUS
        <4>2. p.id = id
          BY <2>8, <3>2 DEF set_parse
        <4>3. x \in players'
          BY <2>8, <3>2, <4>1 DEF set_parse, Without
        <4>4. x.id = p.id /\ x.connected
          BY <2>0, <4>1, <4>2 DEF Player
        <4>5. QED
          BY <4>3, <4>4
      <3>3. CASE p.id # id /\ p.fd # fd
        BY <2>8, <3>3 DEF set_parse, Without
      <3>4. QED
        BY <3>1, <3>2, <3>3
    <2>9. CASE shutdown
      BY <2>9 DEF shutdown
    <2>10. QED
      BY <2>2, <2>3, <2>4, <2>5, <2>6, <2>7, <2>8, <2>9
         DEF Next, MainLoop, Programs, disconnect, disconnect_fd
  <1>2. QED
    BY <1>1, InitInv, NextInv, PTL DEF Spec, Notified

=============================================================================
