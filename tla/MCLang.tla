------------------------------- MODULE MCLang -------------------------------
(***************************************************************************)
(* Methods for TLC, and beside them the hierarchy in which methods and     *)
(* variables are looked up.  The two share no state, so the hierarchy      *)
(* moves beside the method without statements only.                        *)
(*                                                                         *)
(* Three families of methods.  Control: a compound statement in another,   *)
(* an exit (break, continue, return, an error) in the inner one, in the    *)
(* inner one under a condition, and after it in the outer one; and three   *)
(* in each other with an exit of two or three loops.  Depth: two operators *)
(* in each other, in all ways.  OfKinds: an operator between all kinds of  *)
(* values, with errors ignored and not.  Variable 1 collects which         *)
(* statements were executed in which rounds.                               *)
(***************************************************************************)
EXTENDS Meaning, Decode, MCInherit

N(n) == <<W.NUMPUSH, n>>
V(v) == <<W.GETLVAR, v>>
L(es) == <<W.LISTPUSH, es>>
Text0 == <<W.STRPUSH, 0>>
Set(v, e) == <<W.ASGNLVAR, v, e>>
Trace == Set(1, <<W.ADD, <<W.MUL, V(1), N(2)>>, <<W.ADD, V(0), V(2)>>>>)
Count(v) == Set(v, <<W.ADD, V(v), N(1)>>)
Pair == L(<<N(1), N(2)>>)

Compound(v, b) ==
    { <<W.T_IF, V(0), b, <<>>, <<<<Trace>>>>>>,
      <<W.T_IF, N(0), <<Trace>>, <<<<<<W.LT, V(v), N(2)>>, b>>, <<N(1), <<Count(v)>>>>>>, <<>>>>,
      <<W.FOR, v, Pair, b>>,
      <<W.FORRNG, v, N(1), N(2), b>>,
      <<W.WHILE, <<W.LT, V(v), N(2)>>, <<Count(v)>> \o b>>,
      <<W.DO, <<Count(v)>> \o b, <<W.LT, V(v), N(2)>>>>,
      <<W.AT, N(1), b>> }
Exit == {Trace, <<W.BREAK, 1>>, <<W.BREAK, 2>>, <<W.CONTINUE, 1>>, <<W.CONTINUE, 2>>,
         <<W.T_RETURN, V(1)>>, <<W.T_RAISE, <<W.ERRPUSH, E_TYPE>>>>,
         Set(1, <<W.DIV, V(1), N(0)>>)}
Under(x) == {<<x>>, <<<<W.T_IF, <<W.EQ, V(2), N(1)>>, <<x>>, <<>>, <<>>>>, Trace>>}
Control ==
    UNION {UNION {{<<outer, Trace>> : outer \in Compound(0, <<inner, y>>)}
                    : inner \in UNION {Compound(2, b) : b \in Under(x)}}
             : x \in Exit, y \in {Trace, <<W.BREAK, 1>>, <<W.CONTINUE, 1>>}}
Exits3 == {<<W.BREAK, 2>>, <<W.BREAK, 3>>, <<W.CONTINUE, 2>>, <<W.CONTINUE, 3>>}
Control3 ==
    UNION {UNION {UNION {{<<outer, Trace>> : outer \in Compound(0, <<middle>>)}
                           : middle \in Compound(3, <<inner, Trace>>)}
                    : inner \in UNION {Compound(2, b) : b \in Under(x)}}
             : x \in Exits3}

(***************************************************************************)
(* What the machine does otherwise than the text says, and the families    *)
(* leave out: a break out of a for over a list; a break or continue that   *)
(* leaves an "at"; a "for" and an assignment to an element that fail with  *)
(* an error that is ignored.  And an operator for the base of an index.    *)
(***************************************************************************)
RECURSIVE Sound(_, _)
Sound(ss, around) ==
    \A k \in DOMAIN ss :
        LET s == ss[k]
            into == IF s[1] = W.AT THEN [j \in DOMAIN around |-> W.AT]
                    ELSE IF s[1] \in Loops THEN <<s[1]>> \o around ELSE around
        IN /\ s[1] = W.BREAK => around[s[2]] \notin {W.AT, W.FOR}
           /\ s[1] = W.CONTINUE => around[s[2]] # W.AT
           /\ \A b \in Bodies(s) : Sound(b, into)

Nested ==
    LET ops == Infix \cup ShortCut
        inner == {<<op, N(3), N(2)>> : op \in ops} \cup {<<op, N(2)>> : op \in {W.NEGATE, W.NOT}}
    IN {<<op, e, N(1)>> : op \in ops, e \in inner} \cup {<<op, N(1), e>> : op \in ops, e \in inner}
         \cup {<<op, e>> : op \in {W.NEGATE, W.NOT}, e \in inner}
         \cup {<<op, Pair, e>> : op \in Binary, e \in inner}
         \cup {<<W.T_SUBSET, Pair, e, N(2)>> : e \in inner}
         \cup {L(<<e, <<W.SPLICE, Pair>>, <<W.INDEX, Pair, N(1)>>>>) : e \in inner}
RECURSIVE Chain(_)
Chain(n) == IF n = 0 THEN N(1) ELSE <<W.SUB, N(1), Chain(n - 1)>>
RECURSIVE Row(_)
Row(n) == IF n = 0 THEN N(1) ELSE <<W.SUB, Row(n - 1), N(1)>>
Depth == Nested \cup {Chain(n) : n \in 1..7} \cup {Row(n) : n \in 1..7}
           \cup {L([k \in 1..n |-> N(1)]) : n \in 1..14}

Kind == {N(0), <<W.NEGATE, N(1)>>, N(2), Text0, <<W.ERRPUSH, E_RANGE>>, Pair, L(<<>>)}
Base == Kind \ {<<W.NEGATE, N(1)>>}
OfKinds == {<<op, a, b>> : op \in Infix \cup ShortCut, a \in Kind, b \in Kind}
           \cup {<<op, a, b>> : op \in Binary \ Infix, a \in Base, b \in Kind}
           \cup {<<op, a>> : op \in {W.NEGATE, W.NOT}, a \in Kind}
           \cup {L(<<<<W.SPLICE, a>>>>) : a \in Kind}
           \cup {<<W.T_SUBSET, a, b, N(1)>> : a \in Base, b \in Kind}

Uses(e) == {<<<<W.POP, e>>, <<W.T_RETURN, e>>>>, <<<<W.T_RAISE, e>>, Trace>>,
            <<<<W.FOR, 0, e, <<Trace>>>>, Trace>>,
            <<<<W.FORRNG, 2, N(1), e, <<Trace>>>>, Trace>>,
            <<<<W.AT, e, <<Trace>>>>, Set(0, e)>>,
            <<Set(0, Pair), <<W.ASGNLVARINDEX, 0, e, V(0)>>, <<W.ASGNLVARINDEX, 0, N(1), e>>>>}
Errors == {E_TYPE, E_RANGE, E_DIV, E_ARGTYPE}
Program(b, i) == [body |-> b, ignored |-> i]

Programs ==
    {Program(b, {}) : b \in {b \in Control \cup Control3 : Valid(b, 0) /\ Sound(b, <<>>)}}
      \cup {Program(<<<<W.T_RETURN, e>>>>, {}) : e \in Depth}
      \cup {Program(<<<<W.T_RETURN, e>>>>, i) : e \in OfKinds, i \in {{}, Errors}}
      \cup {Program(b, {}) : b \in UNION {Uses(e) : e \in Kind}}
      \cup {Program(<<<<W.T_RAISE, e>>, <<W.AT, e, <<Trace>>>>, Trace>>, Errors) : e \in Kind}

NoMethod == Program(<<>>, {})

Init == \/ InitOf(Programs) /\ HierarchyInit
        \/ InitOf({NoMethod}) /\ (HierarchyInit \/ BuiltInit)
LangNext == Next /\ UNCHANGED hvars
AboveNext == prog = NoMethod /\ frame.ex_state = "idle" /\ SmallNext /\ UNCHANGED vars
Spec == Init /\ [][LangNext \/ AboveNext]_<<vars, hvars>>

(***************************************************************************)
(* Every method that is run can be dumped and loaded: what decode.c prints *)
(* of its words compiles to the same words.                                *)
(***************************************************************************)
Reloads == frame = Started /\ done = <<>> => RoundTrip(prog.body)

=============================================================================
