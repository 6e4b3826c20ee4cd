-------------------------------- MODULE Lang --------------------------------
(***************************************************************************)
(* The language of methods: what the parser of cool.y makes of a method.   *)
(*                                                                         *)
(* A method is compiled to a sequence of words: opcodes, each followed by  *)
(* its operands.  Addresses count words from zero.  The yacc actions write *)
(* the words while they parse; here Parse gives the tree of a text and     *)
(* Method the words of a tree.  A node of a tree is a tuple that begins    *)
(* with the opcode the node ends in:                                       *)
(*                                                                         *)
(*   <<NUMPUSH, n>>  <<GETLVAR, v>>  ...       constants, variables        *)
(*   <<ADD, l, r>>  <<NOT, e>>  <<T_SUBSET, base, from, to>>               *)
(*   <<LISTPUSH, <<e1, e2, ...>>>>             an element may be a SPLICE  *)
(*   <<POP, e>>  <<T_RETURN, e>>  <<T_RAISE, e>>  <<BREAK, n>>             *)
(*   <<ASGNLVAR, v, e>>  <<ASGNLVARINDEX, v, index, e>>                    *)
(*   <<T_IF, e, body, elseifs, else>>   else is <<>> or <<body>>           *)
(*   <<FOR, v, e, body>>  <<FORRNG, v, from, to, body>>                    *)
(*   <<WHILE, e, body>>  <<DO, body, e>>  <<AT, e, body>>                  *)
(*                                                                         *)
(* Messages, global variables and the built-in functions are not part of   *)
(* it: a message is an operation of Tasks.                                 *)
(***************************************************************************)
EXTENDS Integers, Sequences, FiniteSets

(***************************************************************************)
(* The numbers of the tokens, which are also the opcodes.                  *)
(***************************************************************************)
W == [UPTO |-> 258, OR |-> 260, AND |-> 261, T_IN |-> 262, EQ |-> 263, NE |-> 264,
      LT |-> 265, LE |-> 266, GT |-> 267, GE |-> 268, NOT |-> 269, NEGATE |-> 270,
      T_IF |-> 276, T_ELSE |-> 277, ELSEIF |-> 278, ENDIF |-> 279, FOR |-> 280,
      ENDFOR |-> 281, AT |-> 282, ENDAT |-> 283, T_RETURN |-> 285,
      CONTINUE |-> 286, BREAK |-> 287, STOP |-> 305, ADD |-> 308, SUB |-> 309,
      MUL |-> 310, DIV |-> 311, MOD |-> 312, INDEX |-> 313, T_SUBSET |-> 314,
      LSUBSET |-> 315, RSUBSET |-> 316, GETLVAR |-> 321, ASGNLVAR |-> 324,
      POP |-> 327, ASGNLVARINDEX |-> 328, NUMPUSH |-> 332, STRPUSH |-> 333,
      LISTPUSH |-> 334, ERRPUSH |-> 336, T_RAISE |-> 390, ENDAND |-> 392,
      ENDOR |-> 393, FORRNG |-> 396, DO |-> 397, DOWHILE |-> 398, WHILE |-> 399,
      ENDWHILE |-> 400, PUSHPC |-> 401, SPLICE |-> 404, ARGSTART |-> 405]

Leaf == {W.NUMPUSH, W.STRPUSH, W.ERRPUSH, W.GETLVAR}
Unary == {W.NEGATE, W.NOT, W.SPLICE}
ShortCut == {W.ENDAND, W.ENDOR}
Infix == {W.ADD, W.SUB, W.MUL, W.DIV, W.MOD, W.EQ, W.NE, W.LT, W.LE, W.GT, W.GE, W.T_IN}
Binary == Infix \cup {W.INDEX, W.LSUBSET, W.RSUBSET}

(***************************************************************************)
(* The words of an expression that begins at address a, and of several in  *)
(* a row.  && and || jump to their last word when the left operand decides. *)
(***************************************************************************)
RECURSIVE CodeExpr(_, _)
RECURSIVE CodeExprs(_, _)
CodeExpr(e, a) ==
    LET op == e[1]
    IN CASE op \in Leaf -> e
         [] op = W.LISTPUSH -> <<W.ARGSTART>> \o CodeExprs(e[2], a + 1) \o <<op>>
         [] op \in ShortCut ->
              LET l == CodeExpr(e[2], a)
                  r == CodeExpr(e[3], a + Len(l) + 2)
              IN l \o <<IF op = W.ENDAND THEN W.AND ELSE W.OR, a + Len(l) + 2 + Len(r)>>
                   \o r \o <<op>>
         [] OTHER -> CodeExprs(Tail(e), a) \o <<op>>
CodeExprs(es, a) ==
    IF es = <<>> THEN <<>>
    ELSE LET h == CodeExpr(Head(es), a) IN h \o CodeExprs(Tail(es), a + Len(h))

(***************************************************************************)
(* The words of a statement, of a sequence of statements, and of a         *)
(* sequence that a STOP closes.  Enclosed is the shape of for, while and   *)
(* at: the address after the closing STOP is the last operand of the       *)
(* opcode before the body.                                                 *)
(***************************************************************************)
RECURSIVE Code(_, _)
RECURSIVE Codes(_, _)
Block(ss, a) == Codes(ss, a) \o <<W.STOP>>
Enclosed(before, body, a) ==
    LET from == a + Len(before) + 1
        b == Block(body, from)
    IN before \o <<from + Len(b)>> \o b
RECURSIVE CodeElseIfs(_, _)
CodeElseIfs(eis, a) ==
    IF eis = <<>> THEN <<>>
    ELSE LET h == Enclosed(CodeExpr(eis[1][1], a) \o <<W.ELSEIF>>, eis[1][2], a)
         IN h \o CodeElseIfs(Tail(eis), a + Len(h))
CodeIf(s, a) ==
    LET c == CodeExpr(s[2], a)
        b == Block(s[3], a + Len(c) + 3)
        next == a + Len(c) + 3 + Len(b)
        ei == CodeElseIfs(s[4], next)
        el == IF s[5] = <<>> THEN <<>>
              ELSE <<W.T_ELSE>> \o Block(s[5][1], next + Len(ei) + 1)
    IN c \o <<W.T_IF, next, next + Len(ei) + Len(el) + 1>> \o b \o ei \o el \o <<W.STOP>>
CodeDo(s, a) ==
    LET b == Codes(s[2], a + 2)
        cond == a + 2 + Len(b)
        c == CodeExpr(s[3], cond)
    IN <<W.DO, cond + Len(c)>> \o b \o c \o <<W.DOWHILE, a + 2, cond>>
Code(s, a) ==
    LET op == s[1]
    IN CASE op \in {W.POP, W.T_RETURN, W.T_RAISE} -> CodeExpr(s[2], a) \o <<op>>
         [] op \in {W.ASGNLVAR, W.ASGNLVARINDEX} ->
              CodeExprs(SubSeq(s, 3, Len(s)), a) \o <<op, s[2]>>
         [] op \in {W.BREAK, W.CONTINUE} -> s
         [] op = W.T_IF -> CodeIf(s, a)
         [] op = W.FOR ->
              Enclosed(CodeExpr(s[3], a) \o <<W.NUMPUSH, 0, W.FOR, s[2]>>, s[4], a)
         [] op = W.FORRNG ->
              Enclosed(CodeExprs(<<s[3], s[4]>>, a) \o <<W.FORRNG, s[2]>>, s[5], a)
         [] op = W.WHILE ->
              Enclosed(<<W.PUSHPC>> \o CodeExpr(s[2], a + 1) \o <<W.WHILE>>, s[3], a)
         [] op = W.AT -> Enclosed(CodeExpr(s[2], a) \o <<W.AT>>, s[3], a)
         [] op = W.DO -> CodeDo(s, a)
Codes(ss, a) ==
    IF ss = <<>> THEN <<>>
    ELSE LET h == Code(Head(ss), a) IN h \o Codes(Tail(ss), a + Len(h))

\* A whole method, with the STOP of end_method().
Method(p) == Block(p, 0)

(***************************************************************************)
(* What the parser refuses: a break or continue of more loops than there   *)
(* are around it.  A while directly in the body of a do is not a sentence: *)
(* the shift of "(" wins over the empty action of the while rule, and the  *)
(* while ends the do.                                                      *)
(***************************************************************************)
Loops == {W.FOR, W.FORRNG, W.WHILE, W.DO}
Bodies(s) ==
    CASE s[1] = W.T_IF -> {s[3]} \cup {s[4][k][2] : k \in DOMAIN s[4]}
                            \cup {s[5][k] : k \in DOMAIN s[5]}
      [] s[1] = W.FOR -> {s[4]}
      [] s[1] = W.FORRNG -> {s[5]}
      [] s[1] \in {W.WHILE, W.AT} -> {s[3]}
      [] s[1] = W.DO -> {s[2]}
      [] OTHER -> {}
RECURSIVE Valid(_, _)
Valid(ss, loop_depth) ==
    \A k \in DOMAIN ss :
        /\ ss[k][1] \in {W.BREAK, W.CONTINUE} => ss[k][2] \in 1..loop_depth
        /\ ss[k][1] = W.DO => \A j \in DOMAIN ss[k][2] : ss[k][2][j][1] # W.WHILE
        /\ \A b \in Bodies(ss[k]) :
              Valid(b, IF ss[k][1] \in Loops THEN loop_depth + 1 ELSE loop_depth)

-----------------------------------------------------------------------------
(***************************************************************************)
(* The text of a method is a sequence of tokens.  A constant or a variable *)
(* is its node, an operator the number of its token, a character its code. *)
(***************************************************************************)
Char == [LPAR |-> <<40>>, RPAR |-> <<41>>, COMMA |-> <<44>>, SEMI |-> <<59>>,
         IS |-> <<61>>, LBRK |-> <<91>>, RBRK |-> <<93>>, LBRC |-> <<123>>,
         RBRC |-> <<125>>]
Token(op) == <<CASE op = W.ENDAND -> W.AND [] op = W.ENDOR -> W.OR
                 [] op = W.NEGATE -> W.SUB [] OTHER -> op>>
Nothing == <<0>>
At(t, i) == IF i \in DOMAIN t THEN t[i] ELSE Nothing

(***************************************************************************)
(* The precedences the grammar declares: a later level binds tighter.      *)
(***************************************************************************)
Levels == <<{}, {W.UPTO}, {W.OR}, {W.AND}, {W.T_IN}, {W.EQ, W.NE},
            {W.LT, W.LE, W.GT, W.GE}, {W.ADD, W.SUB}, {W.MUL, W.DIV, W.MOD},
            {W.NOT, W.NEGATE, W.SPLICE}>>
Level(tok) == LET at == {k \in DOMAIN Levels : tok[1] \in Levels[k]}
              IN IF Len(tok) = 1 /\ at # {} THEN CHOOSE k \in at : TRUE ELSE 0
InfixNode(tok, l, r) == <<CASE tok[1] = W.AND -> W.ENDAND [] tok[1] = W.OR -> W.ENDOR
                            [] OTHER -> tok[1], l, r>>

(***************************************************************************)
(* Expr reads the longest expression from token i whose operators bind at  *)
(* least as tight as min, and gives its tree and the place after it.       *)
(* Inner reads statements up to a token that ends a body.  Each contains   *)
(* the other rules and itself: Read is where they meet.                    *)
(***************************************************************************)
RECURSIVE Read(_, _, _, _)
Expr(t, i, min) == Read("expr", t, i, min)
Inner(t, i, in_do) == Read("statements", t, i, in_do)

RECURSIVE Args(_, _, _)
Args(t, i, so) ==
    IF At(t, i) \in {Char.RBRC, Nothing} THEN [e |-> <<W.LISTPUSH, so>>, i |-> i + 1]
    ELSE LET sp == At(t, i) = <<W.SPLICE>>
             r == Expr(t, IF sp THEN i + 1 ELSE i, 0)
             a == Append(so, IF sp THEN <<W.SPLICE, r.e>> ELSE r.e)
         IN Args(t, IF At(t, r.i) = Char.COMMA THEN r.i + 1 ELSE r.i, a)
RECURSIVE Subscripts(_, _, _)
Subscripts(t, i, e) ==
    IF At(t, i) # Char.LBRK THEN [e |-> e, i |-> i]
    ELSE IF At(t, i + 1) = <<W.UPTO>>
      THEN LET r == Expr(t, i + 2, 0) IN Subscripts(t, r.i + 1, <<W.LSUBSET, e, r.e>>)
    ELSE LET l == Expr(t, i + 1, 0)
         IN IF At(t, l.i) # <<W.UPTO>> THEN Subscripts(t, l.i + 1, <<W.INDEX, e, l.e>>)
            ELSE IF At(t, l.i + 1) = Char.RBRK
              THEN Subscripts(t, l.i + 2, <<W.RSUBSET, e, l.e>>)
            ELSE LET r == Expr(t, l.i + 1, 0)
                 IN Subscripts(t, r.i + 1, <<W.T_SUBSET, e, l.e, r.e>>)
Operand(t, i) ==
    LET tok == At(t, i)
    IN IF tok \in {<<W.SUB>>, <<W.NOT>>}
         THEN LET op == IF tok = <<W.SUB>> THEN W.NEGATE ELSE W.NOT
                  r == Expr(t, i + 1, Level(<<op>>))
              IN [e |-> <<op, r.e>>, i |-> r.i]
       ELSE IF tok = Char.LPAR
         THEN LET r == Expr(t, i + 1, 0) IN Subscripts(t, r.i + 1, r.e)
       ELSE IF tok = Char.LBRC
         THEN LET r == Args(t, i + 1, <<>>) IN Subscripts(t, r.i, r.e)
       ELSE Subscripts(t, i + 1, tok)
RECURSIVE Climb(_, _, _)
Climb(t, l, min) ==
    LET tok == At(t, l.i)
        k == Level(tok)
    IN IF k \notin 3..9 \/ k < min THEN l
       ELSE LET r == Expr(t, l.i + 1, k + 1)
            IN Climb(t, [e |-> InfixNode(tok, l.e, r.e), i |-> r.i], min)

Ends == {Nothing, <<W.ENDIF>>, <<W.ENDFOR>>, <<W.ENDWHILE>>, <<W.ENDAT>>,
         <<W.T_ELSE>>, <<W.ELSEIF>>}
RECURSIVE ElseIfs(_, _, _)
ElseIfs(t, i, so) ==
    IF At(t, i) # <<W.ELSEIF>> THEN [s |-> so, i |-> i]
    ELSE LET c == Expr(t, i + 2, 0)
             b == Inner(t, c.i + 1, FALSE)
         IN ElseIfs(t, b.i, Append(so, <<c.e, b.s>>))
Statement(t, i) ==
    LET tok == At(t, i)
        Simple(op) == LET r == Expr(t, i + 1, 0) IN [s |-> <<op, r.e>>, i |-> r.i + 1]
        Around(op) == LET c == Expr(t, i + 2, 0)
                          b == Inner(t, c.i + 1, FALSE)
                      IN [s |-> <<op, c.e, b.s>>, i |-> b.i + 1]
    IN CASE tok = <<W.T_IF>> ->
              LET c == Expr(t, i + 2, 0)
                  b == Inner(t, c.i + 1, FALSE)
                  ei == ElseIfs(t, b.i, <<>>)
                  el == Inner(t, ei.i + 1, FALSE)
              IN IF At(t, ei.i) = <<W.T_ELSE>>
                 THEN [s |-> <<W.T_IF, c.e, b.s, ei.s, <<el.s>>>>, i |-> el.i + 1]
                 ELSE [s |-> <<W.T_IF, c.e, b.s, ei.s, <<>>>>, i |-> ei.i + 1]
         [] tok = <<W.FOR>> ->
              LET l == Expr(t, i + 4, 0)
                  r == Expr(t, l.i + 1, 0)
                  list == At(t, i + 3) = Char.LPAR
                  b == Inner(t, (IF list THEN l.i ELSE r.i) + 1, FALSE)
                  v == At(t, i + 1)[2]
              IN [s |-> IF list THEN <<W.FOR, v, l.e, b.s>>
                        ELSE <<W.FORRNG, v, l.e, r.e, b.s>>, i |-> b.i + 1]
         [] tok \in {<<W.WHILE>>, <<W.AT>>} -> Around(tok[1])
         [] tok = <<W.DO>> -> LET b == Inner(t, i + 1, TRUE)
                                  c == Expr(t, b.i + 2, 0)
                              IN [s |-> <<W.DO, b.s, c.e>>, i |-> c.i + 2]
         [] tok \in {<<W.T_RETURN>>, <<W.T_RAISE>>} -> Simple(tok[1])
         [] tok \in {<<W.BREAK>>, <<W.CONTINUE>>} ->
              IF At(t, i + 1) = Char.SEMI THEN [s |-> <<tok[1], 1>>, i |-> i + 2]
              ELSE [s |-> <<tok[1], At(t, i + 1)[2]>>, i |-> i + 3]
         [] OTHER ->
              LET l == Expr(t, i, 0)
                  r == Expr(t, l.i + 1, 0)
              IN IF At(t, l.i) = Char.IS
                 THEN [s |-> IF Len(l.e) = 2 THEN <<W.ASGNLVAR, l.e[2], r.e>>
                             ELSE <<W.ASGNLVARINDEX, l.e[2][2], l.e[3], r.e>>,
                       i |-> r.i + 1]
                 ELSE [s |-> <<W.POP, l.e>>, i |-> l.i + 1]
RECURSIVE Statements(_, _, _, _)
Statements(t, i, so, in_do) ==
    IF At(t, i) \in Ends \/ (in_do /\ At(t, i) = <<W.WHILE>>) THEN [s |-> so, i |-> i]
    ELSE LET r == Statement(t, i) IN Statements(t, r.i, Append(so, r.s), in_do)
Read(rule, t, i, x) == IF rule = "expr" THEN Climb(t, Operand(t, i), x)
                       ELSE Statements(t, i, <<>>, x)

\* The tree of a text, and nothing if a part of the text is left over.
Parse(t) == LET r == Inner(t, 1, FALSE)
            IN IF r.i = Len(t) + 1 THEN r.s ELSE <<Nothing>>

=============================================================================
