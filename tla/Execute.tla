------------------------------ MODULE Execute -------------------------------
(***************************************************************************)
(* The machine that runs a compiled method: execute() of execute.c and the *)
(* opcodes of opcodes1.c.                                                  *)
(*                                                                         *)
(* The stack holds the local variables, a terminator (the number -1) and   *)
(* what the statements under way need: the end address of an if, the       *)
(* values of a for and the address of each loop.  STOP, which closes every *)
(* body, pops an address and goes on there; break and continue look for    *)
(* the address of a loop, which is the value of a type of its own, PC.     *)
(*                                                                         *)
(* Ticks, locks, messages and the events that suspend a method are those   *)
(* of Tasks; of the event queue there is here what "at" puts on it.        *)
(* Numbers are small: 32-bit overflow is not reached.                      *)
(***************************************************************************)
EXTENDS Lang

CONSTANTS
    STACK_SIZE,     \* entries of the stack
    NVars           \* local variables of a method

ASSUME ExecuteAssumption == STACK_SIZE \in Nat /\ NVars \in Nat /\ NVars < STACK_SIZE

VARIABLES
    prog,           \* the method: its tree and the errors it ignores
    code,           \* its words
    frame,          \* the frame that runs: pc, stack, ex_state, ex_retval
    later,          \* the events of "at": frames that wait for their time
    done            \* how the frames that have ended ended

vars == <<prog, code, frame, later, done>>

E_TYPE == 1     E_RANGE == 2     E_DIV == 4      E_FOR == 9
E_STACKUND == 16    E_STACKOVR == 17    E_INTERNAL == 18    E_ARGTYPE == 20

NUM(n) == <<"NUM", n>>
STR(s) == <<"STR", s>>
LIST(s) == <<"LIST", s>>
ERR(e) == <<"ERR", e>>
PC(a) == <<"PC", a>>
RAISE(e) == <<"RAISE", e>>
Bool(b) == NUM(IF b THEN 1 ELSE 0)

ISTRUE(v) == \/ v[1] = "NUM" /\ v[2] # 0
             \/ v[1] \in {"STR", "LIST"} /\ v[2] # <<>>

-----------------------------------------------------------------------------
(***************************************************************************)
(* The operators on values.  An error is a value RAISE(e).                 *)
(***************************************************************************)
Ismember(v, s) == LET at == {k \in DOMAIN s : s[k] = v}
                  IN IF at = {} THEN 0 ELSE CHOOSE k \in at : \A j \in at : k <= j
SetAdd(s, v) == IF Ismember(v, s) # 0 THEN s ELSE Append(s, v)
SetRemove(s, v) == LET k == Ismember(v, s)
                   IN IF k = 0 THEN s ELSE SubSeq(s, 1, k - 1) \o SubSeq(s, k + 1, Len(s))
Abs(n) == IF n < 0 THEN -n ELSE n
CDiv(l, r) == LET q == Abs(l) \div Abs(r) IN IF (l < 0) # (r < 0) THEN -q ELSE q

op_add(l, r) ==
    CASE l[1] = "LIST" -> LIST(SetAdd(l[2], r))
      [] l[1] = "NUM" /\ r[1] = "NUM" -> NUM(l[2] + r[2])
      [] l[1] = "STR" /\ r[1] = "STR" -> STR(l[2] \o r[2])
      [] OTHER -> RAISE(E_TYPE)
op_sub(l, r) ==
    CASE l[1] = "LIST" -> LIST(SetRemove(l[2], r))
      [] l[1] # r[1] -> RAISE(E_TYPE)
      [] l[1] = "NUM" -> NUM(l[2] - r[2])
      [] OTHER -> RAISE(E_ARGTYPE)
op_mul(l, r) == IF l[1] # "NUM" \/ r[1] # "NUM" THEN RAISE(E_TYPE) ELSE NUM(l[2] * r[2])
op_div(l, r) == IF l[1] # "NUM" \/ r[1] # "NUM" THEN RAISE(E_TYPE)
                ELSE IF r[2] = 0 THEN RAISE(E_DIV) ELSE NUM(CDiv(l[2], r[2]))
op_mod(l, r) == IF l[1] # "NUM" \/ r[1] # "NUM" THEN RAISE(E_TYPE)
                ELSE IF r[2] = 0 THEN RAISE(E_DIV)
                ELSE NUM(l[2] - r[2] * CDiv(l[2], r[2]))

\* Strings compare by their first difference; a character is a number here.
RECURSIVE Compare(_, _)
Compare(l, r) ==
    IF l = <<>> \/ r = <<>> THEN Len(l) - Len(r)
    ELSE IF l[1] # r[1] THEN l[1] - r[1] ELSE Compare(Tail(l), Tail(r))
REL(op, l, r) ==
    IF l[1] # r[1] \/ l[1] \notin {"STR", "NUM"} THEN RAISE(E_TYPE)
    ELSE LET c == IF l[1] = "NUM" THEN l[2] - r[2] ELSE Compare(l[2], r[2])
         IN Bool(CASE op = W.LT -> c < 0 [] op = W.LE -> c <= 0
                   [] op = W.GT -> c > 0 [] op = W.GE -> c >= 0)

op_index(base, i) ==
    IF base[1] \notin {"STR", "LIST"} \/ i[1] # "NUM" THEN RAISE(E_TYPE)
    ELSE IF i[2] \notin DOMAIN base[2] THEN RAISE(E_RANGE)
    ELSE IF base[1] = "STR" THEN STR(<<base[2][i[2]]>>) ELSE base[2][i[2]]
op_subset(base, left, right) ==
    LET len == IF base[1] \in {"STR", "LIST"} THEN Len(base[2]) ELSE 0
        to == IF right[2] < 1 THEN len ELSE right[2]
    IN IF left[1] # "NUM" \/ right[1] # "NUM" THEN RAISE(E_TYPE)
       ELSE IF left[2] > to \/ left[2] \notin 1..len \/ to \notin 1..len THEN RAISE(E_RANGE)
       ELSE <<base[1], SubSeq(base[2], left[2], to)>>
\* The first occurrence of a string in another, from 1; 0 if there is none.
StrIn(l, r) == LET at == {k \in 1..(Len(r) - Len(l) + 1) : SubSeq(r, k, k + Len(l) - 1) = l}
               IN IF at = {} THEN 0 ELSE CHOOSE k \in at : \A j \in at : k <= j
op_in(l, r) ==
    CASE r[1] = "LIST" -> NUM(Ismember(l, r[2]))
      [] r[1] = "STR" /\ l[1] = "STR" -> NUM(StrIn(l[2], r[2]))
      [] OTHER -> RAISE(E_TYPE)
op_negate(v) == IF v[1] = "NUM" THEN NUM(-v[2]) ELSE RAISE(E_TYPE)
op_not(v) == Bool(~ISTRUE(v))

Operation2(op, l, r) ==
    CASE op = W.ADD -> op_add(l, r) [] op = W.SUB -> op_sub(l, r)
      [] op = W.MUL -> op_mul(l, r) [] op = W.DIV -> op_div(l, r)
      [] op = W.MOD -> op_mod(l, r) [] op = W.EQ -> Bool(l = r) [] op = W.NE -> Bool(l # r)
      [] op \in {W.LT, W.LE, W.GT, W.GE} -> REL(op, l, r)
      [] op = W.T_IN -> op_in(l, r) [] op = W.INDEX -> op_index(l, r)
      [] op = W.LSUBSET -> op_subset(l, NUM(1), r)
      [] op = W.RSUBSET -> op_subset(l, r, NUM(-1))
\* The strings of the symbol table: two characters each.
sym_get(n) == <<n + 1, n + 2>>
Constant(op, n) == CASE op = W.NUMPUSH -> NUM(n) [] op = W.ERRPUSH -> ERR(n)
                     [] op = W.STRPUSH -> STR(sym_get(n))
Assigned(v, i, x) ==
    IF v[1] # "LIST" \/ i[1] # "NUM" THEN RAISE(E_TYPE)
    ELSE IF i[2] \notin DOMAIN v[2] THEN RAISE(E_RANGE)
    ELSE LIST([v[2] EXCEPT ![i[2]] = x])
\* What a for goes through: a string is taken apart.
Iterated(v) == IF v[1] = "STR" THEN LIST([k \in DOMAIN v[2] |-> STR(<<v[2][k]>>)]) ELSE v

-----------------------------------------------------------------------------
(***************************************************************************)
(* The stack, and raise(): the error is pushed as the value of what failed,*)
(* and the method ends unless it ignores the error.                        *)
(***************************************************************************)
Ended(f, how, v) == [f EXCEPT !.ex_state = how, !.ex_retval = v]
push(f, v) == IF Len(f.stack) >= STACK_SIZE THEN Ended(f, "raised", ERR(E_STACKOVR))
              ELSE [f EXCEPT !.stack = Append(@, v)]
raise(f, e) == LET g == push(f, ERR(e))
               IN IF e \in prog.ignored THEN g ELSE Ended(g, "raised", ERR(e))
pop(f) == IF f.stack = <<>> THEN raise(f, E_STACKUND)
          ELSE [f EXCEPT !.stack = SubSeq(@, 1, Len(@) - 1)]
top(f) == IF f.stack = <<>> THEN NUM(0) ELSE f.stack[Len(f.stack)]
under(f) == top(pop(f))
pop2(f) == pop(pop(f))
Give(f, v) == IF v[1] = "RAISE" THEN raise(f, v[2]) ELSE push(f, v)
Goto(f, a) == [f EXCEPT !.pc = a]
Operand1(f) == code[f.pc + 1]
Operand2(f) == code[f.pc + 2]
Skip(f, n) == Goto(f, f.pc + n)
SetVar(f, v, x) == [f EXCEPT !.stack[v + 1] = x]

(***************************************************************************)
(* The opcodes.  f.pc is the address after the opcode.                     *)
(***************************************************************************)
op_and(f) == IF ISTRUE(top(f)) THEN Skip(pop(f), 1)
             ELSE Goto(push(pop(f), NUM(0)), Operand1(f))
\* Mutant: the operand of the opcode is not skipped.
op_or_no_skip(f) == IF ~ISTRUE(top(f)) THEN pop(f)
                    ELSE Goto(push(pop(f), NUM(1)), Operand1(f))

op_or(f) == IF ~ISTRUE(top(f)) THEN Skip(pop(f), 1)
            ELSE Goto(push(pop(f), NUM(1)), Operand1(f))

\* The elements above the last ARGSTART, which goes.
count_args(f) == LET marks == {k \in DOMAIN f.stack : f.stack[k] = PC(-W.ARGSTART)}
                 IN Len(f.stack) - CHOOSE k \in marks : \A j \in marks : j <= k
op_listpush(f) ==
    LET m == Len(f.stack) - count_args(f)
    IN push([f EXCEPT !.stack = SubSeq(@, 1, m - 1)],
            LIST(SubSeq(f.stack, m + 1, Len(f.stack))))
RECURSIVE PushAll(_, _)
PushAll(f, s) == IF s = <<>> THEN f ELSE PushAll(push(f, Head(s)), Tail(s))
op_splice(f) == IF top(f)[1] # "LIST" THEN raise(pop(f), E_TYPE)
                ELSE PushAll(pop(f), top(f)[2])

op_if(f) == IF ISTRUE(top(f)) THEN Skip(push(pop(f), NUM(Operand2(f))), 2)
            ELSE IF Operand1(f) # 0 THEN Goto(push(pop(f), NUM(Operand2(f))), Operand1(f))
            ELSE Goto(pop(f), Operand2(f))
op_elseif(f) == IF ISTRUE(top(f)) THEN Skip(pop(f), 1) ELSE Goto(pop(f), Operand1(f))

\* FOR again reads the list and the index that it pushed.
op_for(f) ==
    LET idx == top(f)[2]
        list == Iterated(under(f))
        g == pop2(f)
    IN IF list[1] # "LIST" THEN raise(g, E_FOR)
       ELSE IF idx >= Len(list[2]) THEN Goto(g, Operand2(f))
       ELSE Skip(push(push(push(SetVar(g, Operand1(f), list[2][idx + 1]), list),
                           NUM(idx + 1)), PC(f.pc - 1)), 2)
\* Mutant: the upper bound is left out.
op_forrng_short(f) ==
    LET upper == top(f)
        v == under(f)
        g == pop2(f)
    IN IF v[1] # "NUM" \/ upper[1] # "NUM" THEN raise(g, E_TYPE)
       ELSE IF v[2] >= upper[2] THEN Goto(g, Operand2(f))
       ELSE Skip(push(push(push(SetVar(g, Operand1(f), v), NUM(v[2] + 1)), upper),
                      PC(f.pc - 1)), 2)

op_forrng(f) ==
    LET upper == top(f)
        v == under(f)
        g == pop2(f)
    IN IF v[1] # "NUM" \/ upper[1] # "NUM" THEN raise(g, E_TYPE)
       ELSE IF v[2] > upper[2] THEN Goto(g, Operand2(f))
       ELSE Skip(push(push(push(SetVar(g, Operand1(f), v), NUM(v[2] + 1)), upper),
                      PC(f.pc - 1)), 2)

op_pushpc(f) == push(f, PC(f.pc - 1))
op_while(f) == IF ISTRUE(top(f)) THEN Skip(pop(f), 1) ELSE Goto(pop2(f), Operand1(f))
op_do(f) == Skip(push(f, PC(Operand1(f))), 1)
op_dowhile(f) == IF ISTRUE(top(f)) THEN Goto(pop(f), Operand1(f)) ELSE Skip(pop2(f), 2)

(***************************************************************************)
(* break and continue take everything from the stack down to the address   *)
(* of the n-th loop from within; if there is none they never end.          *)
(***************************************************************************)
IsLoop(v) == v[1] = "PC" /\ v[2] >= 0
RECURSIVE Unwound(_, _)
Unwound(s, n) ==
    IF s = <<>> \/ (n = 1 /\ IsLoop(s[Len(s)])) THEN s
    ELSE Unwound(SubSeq(s, 1, Len(s) - 1), IF IsLoop(s[Len(s)]) THEN n - 1 ELSE n)

(***************************************************************************)
(* For a list, op_break() pops the list into the variable that held the    *)
(* address of the FOR, and takes the end address from where a list points. *)
(* A while is found by looking for the first word equal to WHILE.          *)
(***************************************************************************)
op_break(f) ==
    LET g == [f EXCEPT !.stack = Unwound(@, Operand1(f))]
        a == top(g)[2]
        h == pop(g)
        whiles == {k \in a..(Len(code) - 1) : code[k + 1] = W.WHILE}
    IN IF g.stack = <<>> THEN {Ended(g, "hung", NUM(0))}
       ELSE CASE code[a + 1] = W.FOR ->
                   {Goto(pop2(h), k) : k \in 0..(Len(code) - 1)}
                     \cup {Ended(pop2(h), "crashed", NUM(0))}
              [] code[a + 1] = W.FORRNG -> {Goto(pop2(h), code[a + 3])}
              [] code[a + 1] = W.DOWHILE -> {Goto(h, a + 3)}
              [] OTHER -> {Goto(h, code[(CHOOSE k \in whiles : \A j \in whiles : k <= j) + 2])}
op_continue(f) ==
    LET g == [f EXCEPT !.stack = Unwound(@, Operand1(f))]
        a == top(g)[2]
    IN IF g.stack = <<>> THEN Ended(g, "hung", NUM(0))
       ELSE IF code[a + 1] = W.DOWHILE THEN Goto(push(pop(g), PC(a)), code[a + 3])
       ELSE Goto(pop(g), a)

op_asgnlvar(f) == SetVar(Skip(pop(f), 1), Operand1(f), top(f))
op_asgnlvarindex(f) ==
    LET g == Skip(pop2(f), 1)
        v == Assigned(f.stack[Operand1(f) + 1], under(f), top(f))
    IN IF v[1] = "RAISE" THEN raise(g, v[2]) ELSE SetVar(g, Operand1(f), v)
op_return(f) == Ended(pop(f), "stopped", top(f))
op_raise(f) == IF top(f)[1] # "ERR" THEN pop(raise(pop(f), E_ARGTYPE))
               ELSE Ended(pop(f), "raised", top(f))
op_stop(f) ==
    LET newpc == top(f)
    IN IF newpc[1] \notin {"PC", "NUM"} THEN raise(pop(f), E_INTERNAL)
       ELSE IF newpc[2] < 0 /\ newpc[2] # -W.ARGSTART THEN Ended(pop(f), "stopped", NUM(0))
       ELSE Goto(pop(f), newpc[2])

(***************************************************************************)
(* "at" puts a copy of the frame on the event queue, with the local        *)
(* variables and a new terminator for its stack, and goes on after endat.  *)
(***************************************************************************)
op_at(f) == Goto(IF top(f)[1] = "NUM" THEN pop(f) ELSE pop(raise(pop(f), E_ARGTYPE)),
                 Operand1(f))
AtFrame(f) == [Skip(f, 1) EXCEPT !.stack = Append(SubSeq(@, 1, NVars), NUM(-1))]

\* The table of opcodes.
Operation(op, f) ==
    CASE op \in {W.NUMPUSH, W.STRPUSH, W.ERRPUSH} -> Skip(push(f, Constant(op, Operand1(f))), 1)
      [] op = W.GETLVAR -> Skip(push(f, f.stack[Operand1(f) + 1]), 1)
      [] op = W.ARGSTART -> push(f, PC(-W.ARGSTART))
      [] op = W.LISTPUSH -> op_listpush(f) [] op = W.SPLICE -> op_splice(f)
      [] op = W.T_SUBSET -> Give(pop(pop2(f)), op_subset(top(pop2(f)), under(f), top(f)))
      [] op = W.NEGATE -> Give(pop(f), op_negate(top(f)))
      [] op = W.NOT -> push(pop(f), op_not(top(f)))
      [] op \in Binary -> Give(pop2(f), Operation2(op, under(f), top(f)))
      [] op = W.AND -> op_and(f) [] op = W.OR -> op_or(f)
      [] op \in {W.ENDAND, W.ENDOR, W.T_ELSE} -> f
      [] op = W.POP -> pop(f) [] op = W.T_IF -> op_if(f) [] op = W.ELSEIF -> op_elseif(f)
      [] op = W.FOR -> op_for(f) [] op = W.FORRNG -> op_forrng(f)
      [] op = W.PUSHPC -> op_pushpc(f) [] op = W.WHILE -> op_while(f)
      [] op = W.DO -> op_do(f) [] op = W.DOWHILE -> op_dowhile(f)
      [] op = W.CONTINUE -> op_continue(f) [] op = W.ASGNLVAR -> op_asgnlvar(f)
      [] op = W.ASGNLVARINDEX -> op_asgnlvarindex(f)
      [] op = W.T_RETURN -> op_return(f) [] op = W.T_RAISE -> op_raise(f)
      [] op = W.STOP -> op_stop(f) [] op = W.AT -> op_at(f)
      [] OTHER -> raise(f, E_INTERNAL)

-----------------------------------------------------------------------------
(***************************************************************************)
(* do_method() starts a method: local variables 0, then the terminator.    *)
(* execute() runs an opcode at a time.  When a frame has ended, the time   *)
(* of one that waits may come.                                             *)
(***************************************************************************)
Started == [pc |-> 0, stack |-> [k \in 1..NVars |-> NUM(0)] \o <<NUM(-1)>>,
            ex_state |-> "running", ex_retval |-> NUM(0)]

Execute ==
    /\ frame.ex_state = "running"
    /\ LET op == code[frame.pc + 1]
           f == Skip(frame, 1)
       IN /\ frame' \in (IF op = W.BREAK THEN op_break(f) ELSE {Operation(op, f)})
          /\ later' = IF op = W.AT /\ top(f)[1] = "NUM" THEN Append(later, AtFrame(f)) ELSE later
    /\ UNCHANGED <<prog, code, done>>

\* The values of the variables and how the frame ended, as its caller and the
\* next frame could tell.
Outcome(f) == [how |-> f.ex_state, value |-> f.ex_retval, vars |-> SubSeq(f.stack, 1, NVars)]

End ==
    /\ frame.ex_state \in {"stopped", "raised", "hung", "crashed"}
    /\ done' = Append(done, Outcome(frame))
    /\ IF later = <<>> THEN frame' = [frame EXCEPT !.ex_state = "idle"] /\ UNCHANGED later
       ELSE frame' = Head(later) /\ later' = Tail(later)
    /\ UNCHANGED <<prog, code>>

Next == Execute \/ End

InitOf(Programs) ==
    /\ prog \in Programs
    /\ code = Method(prog.body)
    /\ frame = Started
    /\ later = <<>>
    /\ done = <<>>

(***************************************************************************)
(* An opcode is only ever taken from an address where the compiler wrote   *)
(* one, never from an operand, and the stack of a frame that runs keeps    *)
(* its local variables and its terminator.                                 *)
(***************************************************************************)
Operands(w) == CASE w \in {W.T_IF, W.FOR, W.FORRNG, W.DOWHILE} -> 2
                 [] w \in Leaf \cup {W.AND, W.OR, W.ELSEIF, W.ASGNLVAR, W.ASGNLVARINDEX,
                                     W.WHILE, W.DO, W.AT, W.BREAK, W.CONTINUE} -> 1
                 [] OTHER -> 0
RECURSIVE StartsFrom(_)
StartsFrom(a) == IF a >= Len(code) THEN {}
                 ELSE {a} \cup StartsFrom(a + 1 + Operands(code[a + 1]))
Runs(f) == /\ f.pc \in StartsFrom(0)
           /\ Len(f.stack) \in (NVars + 1)..STACK_SIZE
           /\ f.stack[NVars + 1] = NUM(-1)
TypeOK == /\ frame.ex_state \in {"running", "stopped", "raised", "idle"}
          /\ frame.ex_state = "running" => Runs(frame)
          /\ \A k \in DOMAIN later : Runs(later[k])

=============================================================================
