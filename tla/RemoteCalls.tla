---------------------------- MODULE RemoteCalls ----------------------------
(***************************************************************************)
(* What the protocol between servers promises to a method that calls an    *)
(* object of another server: the call returns only if the other server has *)
(* run it, and while the two stay connected it is run at most once.        *)
(***************************************************************************)
EXTENDS Naturals

VARIABLES sent,      \* the calls made so far
          waiting,   \* those whose callers wait
          back,      \* those that returned a value
          ran,       \* those the called server has run since it last connected
          ever,      \* those it has ever run
          runs       \* how often a call was run

vars == <<sent, waiting, back, ran, ever, runs>>

Init == sent = {} /\ waiting = {} /\ back = {} /\ ran = {} /\ ever = {} /\ runs = 0

\* The caller starts to wait.
Send ==
    /\ \E c \in sent' : c \notin sent /\ sent' = sent \cup {c} /\ waiting' = waiting \cup {c}
    /\ UNCHANGED <<back, ran, ever, runs>>

Run ==
    /\ \E c \in sent : c \notin ran /\ ran' = ran \cup {c} /\ ever' = ever \cup {c}
    /\ runs' = runs + 1
    /\ UNCHANGED <<sent, waiting, back>>

\* The answer has come.
Return ==
    /\ \E c \in waiting :
          c \in ever /\ waiting' = waiting \ {c} /\ back' = back \cup {c}
    /\ UNCHANGED <<sent, ran, ever, runs>>

\* A new connection between two servers.
Connect ==
    /\ \E s, p \in {c.from : c \in ran} \cup {c.to : c \in ran} :
          ran' = {c \in ran : ~(c.from = s /\ c.to = p)}
    /\ UNCHANGED <<sent, waiting, back, ever, runs>>

\* The wait ends with an error, which says nothing of the call.
Fail ==
    /\ \E c \in waiting : waiting' = waiting \ {c}
    /\ UNCHANGED <<sent, back, ran, ever, runs>>

\* A server stops, and with it its callers and what it remembers.
Stop ==
    /\ \E s \in {c.from : c \in sent} \cup {c.to : c \in sent} :
          /\ waiting' = {c \in waiting : c.from # s}
          /\ ran' = {c \in ran : c.to # s}
    /\ UNCHANGED <<sent, back, ever, runs>>

Next == Send \/ Run \/ Return \/ Connect \/ Fail \/ Stop

Spec == Init /\ [][Next]_vars
=============================================================================
