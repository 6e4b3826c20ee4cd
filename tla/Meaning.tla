------------------------------ MODULE Meaning -------------------------------
(***************************************************************************)
(* What a method means, by its structure: cooldocs.txt, "Statements",      *)
(* "Errors" and "Executing statements at a later time".  No addresses and  *)
(* no stack; the machine of Execute is to give the same outcome.           *)
(***************************************************************************)
EXTENDS Execute

Fails(v) == v[1] = "RAISE"
Kept(v) == IF Fails(v) /\ v[2] \in prog.ignored THEN ERR(v[2]) ELSE v

(***************************************************************************)
(* The value of an expression, or RAISE(e) of the first error that is not  *)
(* ignored.  An error that is ignored is the value of what failed.         *)
(***************************************************************************)
RECURSIVE Value(_, _)
RECURSIVE Elements(_, _, _)
Elements(es, env, so) ==
    IF es = <<>> THEN LIST(so)
    ELSE LET sp == Head(es)[1] = W.SPLICE
             v == Value(IF sp THEN Head(es)[2] ELSE Head(es), env)
             x == IF sp /\ ~Fails(v) /\ v[1] # "LIST" THEN Kept(RAISE(E_TYPE)) ELSE v
         IN IF Fails(x) THEN x
            ELSE Elements(Tail(es), env, IF sp /\ x[1] = "LIST" THEN so \o x[2] ELSE Append(so, x))
Value(e, env) ==
    LET op == e[1]
        a == Value(e[2], env)
        b == Value(e[3], env)
        c == Value(e[4], env)
    IN CASE op = W.GETLVAR -> env[e[2] + 1]
         [] op \in Leaf -> Constant(op, e[2])
         [] op = W.LISTPUSH -> Elements(e[2], env, <<>>)
         [] Fails(a) -> a
         [] op = W.NEGATE -> Kept(op_negate(a))
         [] op = W.NOT -> op_not(a)
         [] op = W.ENDAND -> IF ISTRUE(a) THEN b ELSE NUM(0)
         [] op = W.ENDOR -> IF ISTRUE(a) THEN NUM(1) ELSE b
         [] Fails(b) -> b
         [] op = W.T_SUBSET -> IF Fails(c) THEN c ELSE Kept(op_subset(a, b, c))
         [] OTHER -> Kept(Operation2(op, a, b))

(***************************************************************************)
(* What statements come to: the variables, the tasks they leave for later, *)
(* and how they end: "next", or the n-th "break" or "continue" from        *)
(* within, or the end of the method.                                       *)
(***************************************************************************)
St(env, at) == [how |-> "next", env |-> env, at |-> at, n |-> 0, value |-> NUM(0)]
Ends_(s, how, n, v) == [s EXCEPT !.how = how, !.n = n, !.value = v]
Raised(s, v) == Ends_(s, "raised", 0, ERR(v[2]))
Assign(s, v, x) == [s EXCEPT !.env[v + 1] = x]

\* A statement that fails with an ignored error is skipped.
Skipped(s, e) == IF e \in prog.ignored THEN s ELSE Raised(s, RAISE(e))

\* After the body of a loop: does the loop go on?
GoesOn(s) == s.how = "next" \/ (s.how = "continue" /\ s.n = 1)
LeftLoop(s) == IF s.how \notin {"break", "continue"} THEN s
               ELSE IF s.n = 1 THEN Ends_(s, "next", 0, NUM(0)) ELSE [s EXCEPT !.n = @ - 1]

RECURSIVE Effect(_, _)
RECURSIVE Effects(_, _)
RECURSIVE Through(_, _, _, _)
RECURSIVE While(_, _, _)
RECURSIVE If(_, _, _, _)
Effects(ss, s) == IF ss = <<>> \/ s.how # "next" THEN s
                  ELSE Effects(Tail(ss), Effect(Head(ss), s))
Through(values, v, body, s) ==
    IF values = <<>> THEN s
    ELSE LET r == Effects(body, Assign(s, v, Head(values)))
         IN IF GoesOn(r) THEN Through(Tail(values), v, body, LeftLoop(r)) ELSE LeftLoop(r)
\* The condition is read before each round; do reads it after.
While(e, body, s) ==
    LET c == Value(e, s.env)
        r == Effects(body, s)
    IN IF Fails(c) THEN Raised(s, c)
       ELSE IF ~ISTRUE(c) THEN s
       ELSE IF GoesOn(r) THEN While(e, body, LeftLoop(r)) ELSE LeftLoop(r)
If(conds, bodies, el, s) ==
    IF conds = <<>> THEN Effects(el, s)
    ELSE LET c == Value(Head(conds), s.env)
         IN IF Fails(c) THEN Raised(s, c)
            ELSE IF ISTRUE(c) THEN Effects(Head(bodies), s)
            ELSE If(Tail(conds), Tail(bodies), el, s)
For(v, list, body, s) ==
    IF Fails(list) THEN Raised(s, list)
    ELSE IF Iterated(list)[1] # "LIST" THEN Skipped(s, E_FOR)
    ELSE Through(Iterated(list)[2], v, body, s)
ForRange(v, from, to, body, s) ==
    IF Fails(from) THEN Raised(s, from)
    ELSE IF Fails(to) THEN Raised(s, to)
    ELSE IF from[1] # "NUM" \/ to[1] # "NUM" THEN Skipped(s, E_TYPE)
    ELSE Through([k \in 1..(IF to[2] < from[2] THEN 0 ELSE to[2] - from[2] + 1)
                    |-> NUM(from[2] + k - 1)], v, body, s)
AssignIndex(v, i, x, s) ==
    LET r == Assigned(s.env[v + 1], i, x)
    IN IF Fails(i) THEN Raised(s, i)
       ELSE IF Fails(x) THEN Raised(s, x)
       ELSE IF Fails(r) THEN Skipped(s, r[2])
       ELSE Assign(s, v, r)
Effect(st, s) ==
    LET op == st[1]
        V(e) == Value(e, s.env)
        e == V(st[2])
    IN CASE op = W.POP -> IF Fails(e) THEN Raised(s, e) ELSE s
         [] op = W.ASGNLVAR ->
              LET x == V(st[3]) IN IF Fails(x) THEN Raised(s, x) ELSE Assign(s, st[2], x)
         [] op = W.ASGNLVARINDEX -> AssignIndex(st[2], V(st[3]), V(st[4]), s)
         [] op = W.T_RETURN -> IF Fails(e) THEN Raised(s, e) ELSE Ends_(s, "stopped", 0, e)
         [] op = W.T_RAISE -> IF Fails(e) THEN Raised(s, e)
                              ELSE IF e[1] = "ERR" THEN Raised(s, e) ELSE Skipped(s, E_ARGTYPE)
         [] op = W.BREAK -> Ends_(s, "break", st[2], NUM(0))
         [] op = W.CONTINUE -> Ends_(s, "continue", st[2], NUM(0))
         [] op = W.T_IF ->
              If(<<st[2]>> \o [k \in DOMAIN st[4] |-> st[4][k][1]],
                 <<st[3]>> \o [k \in DOMAIN st[4] |-> st[4][k][2]],
                 IF st[5] = <<>> THEN <<>> ELSE st[5][1], s)
         [] op = W.FOR -> For(st[2], V(st[3]), st[4], s)
         [] op = W.FORRNG -> ForRange(st[2], V(st[3]), V(st[4]), st[5], s)
         [] op = W.WHILE -> While(st[2], st[3], s)
         [] op = W.DO -> LET r == Effects(st[2], s)
                         IN IF GoesOn(r) THEN While(st[3], st[2], LeftLoop(r)) ELSE LeftLoop(r)
         [] op = W.AT -> IF Fails(e) THEN Raised(s, e)
                         ELSE IF e[1] # "NUM" THEN Skipped(s, E_ARGTYPE)
                         ELSE [s EXCEPT !.at = Append(@, [body |-> st[3], env |-> s.env])]

(***************************************************************************)
(* These outcomes are what the tasks mean, in the order in which they are  *)
(* put on the queue: each task adds the tasks it leaves for later.         *)
(***************************************************************************)
RECURSIVE Means(_, _)
Means(tasks, outcomes) ==
    IF tasks = <<>> THEN outcomes = <<>>
    ELSE \A r \in {Effects(Head(tasks).body, St(Head(tasks).env, <<>>))} :
           /\ outcomes # <<>>
           /\ Head(outcomes) = [how |-> IF r.how = "next" THEN "stopped" ELSE r.how,
                                value |-> r.value, vars |-> r.env]
           /\ Means(Tail(tasks) \o r.at, Tail(outcomes))

(***************************************************************************)
(* When a method and its tasks are over, each ended as its text says, with *)
(* those values of the variables and that result; unless the stack was too *)
(* small for one of them.  It is about the addresses that the compiler     *)
(* fills in and the values that op_for(), op_break() and the others leave  *)
(* on the stack for each other.                                            *)
(***************************************************************************)
AsWritten ==
    frame.ex_state = "idle" =>
        \/ \E k \in DOMAIN done : done[k].how = "raised" /\ done[k].value = ERR(E_STACKOVR)
        \/ Means(<<[body |-> prog.body, env |-> [k \in 1..NVars |-> NUM(0)]]>>, done)

=============================================================================
