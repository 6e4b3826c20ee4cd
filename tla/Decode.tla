------------------------------- MODULE Decode -------------------------------
(***************************************************************************)
(* decode.c: the text of a compiled method.  The server keeps no source:   *)
(* listings, tracebacks and the dump of the whole database are decompiled, *)
(* and a database is loaded by compiling such a dump.                      *)
(*                                                                         *)
(* decompile_stmts() walks along the words.  The words of an expression    *)
(* build trees on a stack, the opcode a statement ends in prints them.     *)
(* The trees are kept in an array of MAX_TREE words, reset after each      *)
(* statement; a node there is no room for becomes the null tree, printed   *)
(* as "Expression too complex", and its operands stay on the stack.        *)
(* Numbering of lines, indentation and the option to bracket every         *)
(* expression are left out.                                                *)
(***************************************************************************)
EXTENDS Lang

CONSTANTS MAX_TREE, MAX_TSTACK
ASSUME DecodeAssumption == MAX_TREE \in Nat /\ MAX_TSTACK \in Nat

TooComplex == Nothing
Mark == <<W.ARGSTART>>

(***************************************************************************)
(* The stack of trees, st, and the words in use, ptr.  From MAX_TSTACK on  *)
(* a push and a pop only count.                                            *)
(***************************************************************************)
Empty == [st |-> <<>>, ptr |-> 0]
tpush(t, x) == [t EXCEPT !.st = Append(@, IF Len(@) + 1 >= MAX_TSTACK THEN TooComplex ELSE x)]
Popped(t, n) == [t EXCEPT !.st = SubSeq(@, 1, IF Len(@) > n THEN Len(@) - n ELSE 0)]
Top(t, n) == [k \in 1..n |-> IF Len(t.st) - n + k \in DOMAIN t.st
                              THEN t.st[Len(t.st) - n + k] ELSE TooComplex]

\* A node of n operands and so many words more, besides the opcode.
Node(t, op, n) ==
    IF t.ptr + n + 1 >= MAX_TREE THEN tpush(t, TooComplex)
    ELSE tpush([Popped(t, n) EXCEPT !.ptr = @ + n + 1], <<op>> \o Top(t, n))

(***************************************************************************)
(* The arguments of a list are what lies above the last ARGSTART, which    *)
(* tree_count_args() takes out of the stack, room or no room.              *)
(***************************************************************************)
tree_count_args(st) ==
    LET marks == {k \in DOMAIN st : st[k] = Mark}
    IN IF marks = {} THEN Len(st)
       ELSE Len(st) - CHOOSE k \in marks : \A j \in marks : j <= k
tree_list(t) ==
    LET n == tree_count_args(t.st)
        u == [t EXCEPT !.st = SubSeq(@, 1, Len(@) - n - 1) \o Top(t, n)]
    IN IF t.ptr + n + 2 >= MAX_TREE THEN tpush(u, TooComplex)
       ELSE tpush([Popped(u, n) EXCEPT !.ptr = @ + n + 2], <<W.LISTPUSH, Top(u, n)>>)

(***************************************************************************)
(* The table of precedences, for an operator outside it 0: an operand that *)
(* binds less tight than prec is put in brackets.  The base of an index    *)
(* or a subset is printed at precedence 0.                                 *)
(***************************************************************************)
expr_prec(op) ==
    CASE op = W.ENDOR -> 3 [] op = W.ENDAND -> 4 [] op = W.T_IN -> 5
      [] op \in {W.EQ, W.NE} -> 6 [] op \in {W.LT, W.LE, W.GT, W.GE} -> 7
      [] op \in {W.ADD, W.SUB} -> 8 [] op \in {W.MUL, W.DIV, W.MOD} -> 9
      [] op \in Unary -> 10 [] OTHER -> 0

\* All infix operators group to the left: the right operand needs brackets at
\* the same precedence.  Mutant: it does not.
RightLoose(tprec) == tprec

Right(tprec) == tprec + 1

RECURSIVE decompile_expr(_, _)
RECURSIVE decompile_args(_)
decompile_args(es) ==
    IF es = <<>> THEN <<>>
    ELSE decompile_expr(Head(es), 0)
           \o (IF Len(es) > 1 THEN <<Char.COMMA>> ELSE <<>>) \o decompile_args(Tail(es))
UNPARSE_OP(e, tprec) ==
    IF e[1] \in Unary THEN <<Token(e[1])>> \o decompile_expr(e[2], tprec)
    ELSE decompile_expr(e[2], tprec) \o <<Token(e[1])>> \o decompile_expr(e[3], Right(tprec))
Subscripted(e) ==
    LET Sub(k) == decompile_expr(e[k], 0)
        UPTO == <<W.UPTO>>
    IN Sub(2) \o <<Char.LBRK>>
         \o (CASE e[1] = W.INDEX -> Sub(3)
               [] e[1] = W.LSUBSET -> <<UPTO>> \o Sub(3)
               [] e[1] = W.RSUBSET -> Sub(3) \o <<UPTO>>
               [] e[1] = W.T_SUBSET -> Sub(3) \o <<UPTO>> \o Sub(4))
         \o <<Char.RBRK>>
decompile_expr(e, prec) ==
    LET op == e[1]
        tprec == expr_prec(op)
        text ==
          CASE op \in Leaf \cup {TooComplex[1]} -> <<e>>
            [] op = W.LISTPUSH -> <<Char.LBRC>> \o decompile_args(e[2]) \o <<Char.RBRC>>
            [] op \in Unary \cup Infix \cup ShortCut -> UNPARSE_OP(e, tprec)
            [] OTHER -> Subscripted(e)
    IN IF tprec # 0 /\ tprec < prec THEN <<Char.LPAR>> \o text \o <<Char.RPAR>> ELSE text

(***************************************************************************)
(* The words of an expression: the address after the opcode and the stack. *)
(***************************************************************************)
InTrees == Leaf \cup Unary \cup Binary \cup ShortCut
             \cup {W.ARGSTART, W.LISTPUSH, W.T_SUBSET, W.AND, W.OR, W.PUSHPC}
Treed(c, i, t) ==
    LET w == c[i + 1]
    IN CASE w \in Leaf -> [i |-> i + 2, t |-> tpush(t, <<w, c[i + 2]>>)]
         [] w \in {W.AND, W.OR} -> [i |-> i + 2, t |-> t]
         [] w = W.PUSHPC -> [i |-> i + 1, t |-> t]
         [] w = W.ARGSTART -> [i |-> i + 1, t |-> tpush(t, Mark)]
         [] w = W.LISTPUSH -> [i |-> i + 1, t |-> tree_list(t)]
         [] w = W.T_SUBSET -> [i |-> i + 1, t |-> Node(t, w, 3)]
         [] w \in Binary \cup ShortCut -> [i |-> i + 1, t |-> Node(t, w, 2)]
         [] w \in Unary -> [i |-> i + 1, t |-> Node(t, w, 1)]

\* The statement of n trees has been printed: they go, and the tree memory is free.
Printed(t, n) == [Popped(t, n) EXCEPT !.ptr = 0]
Tree(t, n, k) == decompile_expr(Top(t, n)[k], 0)
InBrackets(text) == <<Char.LPAR>> \o text \o <<Char.RPAR>>

(***************************************************************************)
(* The opcodes that end a line: the line, the address after, the stack.    *)
(***************************************************************************)
Line(c, i, t) ==
    LET w == c[i + 1]
        Arg == c[i + 2]
        Of(text, k, n) == [text |-> Append(text, Char.SEMI), i |-> k, t |-> Printed(t, n)]
    IN CASE w = W.POP -> Of(Tree(t, 1, 1), i + 1, 1)
         [] w \in {W.T_RETURN, W.T_RAISE} -> Of(<<<<w>>>> \o Tree(t, 1, 1), i + 1, 1)
         [] w = W.ASGNLVAR ->
              Of(<<<<W.GETLVAR, Arg>>, Char.IS>> \o Tree(t, 1, 1), i + 2, 1)
         [] w = W.ASGNLVARINDEX ->
              Of(<<<<W.GETLVAR, Arg>>, Char.LBRK>> \o Tree(t, 2, 1)
                   \o <<Char.RBRK, Char.IS>> \o Tree(t, 2, 2), i + 2, 2)
         [] w \in {W.BREAK, W.CONTINUE} ->
              [text |-> <<<<w>>>> \o (IF Arg > 1 THEN <<<<W.NUMPUSH, Arg>>>> ELSE <<>>)
                          \o <<Char.SEMI>>, i |-> i + 2, t |-> t]
         [] w = W.DOWHILE -> Of(<<<<W.WHILE>>>> \o InBrackets(Tree(t, 1, 1)), i + 3, 1)
         [] w \in {W.T_ELSE, W.DO} ->
              [text |-> <<<<w>>>>, i |-> i + (IF w = W.DO THEN 2 ELSE 1), t |-> t]

(***************************************************************************)
(* The text from address i on, up to a STOP, and the stack it leaves.  The *)
(* opcode before a body prints what is around it.                          *)
(***************************************************************************)
RECURSIVE decompile_stmts(_, _, _)
WithBody(c, i, t) ==
    LET w == c[i + 1]
        Arg(k) == c[i + 1 + k]
        More(text, r) == [text |-> text \o r.text, t |-> r.t]
        Body(n, k) == decompile_stmts(c, k, Printed(t, n))
        Opens(n, k) == <<<<w>>>> \o InBrackets(Tree(t, n, k))
        Around(head, b, last, k) ==
            More(head \o b.text \o <<<<last>>>>, decompile_stmts(c, k, b.t))
        ForVar == <<<<W.FOR>>, <<W.GETLVAR, Arg(1)>>, <<W.T_IN>>>>
    IN CASE w = W.T_IF ->
              LET b == Body(1, i + 3)
                  ei == IF c[Arg(1) + 1] = W.STOP THEN [text |-> <<>>, t |-> b.t]
                        ELSE decompile_stmts(c, Arg(1), b.t)
              IN Around(Opens(1, 1) \o b.text, ei, W.ENDIF, Arg(2))
         [] w = W.ELSEIF ->
              LET b == Body(1, i + 2)
              IN More(Opens(1, 1) \o b.text, decompile_stmts(c, Arg(1), b.t))
         [] w = W.FOR ->
              Around(ForVar \o InBrackets(Tree(t, 2, 1)), Body(2, i + 3), W.ENDFOR, Arg(2))
         [] w = W.FORRNG ->
              Around(ForVar \o <<Char.LBRK>> \o Tree(t, 2, 1) \o <<<<W.UPTO>>>>
                       \o Tree(t, 2, 2) \o <<Char.RBRK>>, Body(2, i + 3), W.ENDFOR, Arg(2))
         [] w = W.WHILE -> Around(Opens(1, 1), Body(1, i + 2), W.ENDWHILE, Arg(1))
         [] w = W.AT -> Around(Opens(1, 1), Body(1, i + 2), W.ENDAT, Arg(1))
decompile_stmts(c, i, t) ==
    LET w == c[i + 1]
        tree == Treed(c, i, t)
        line == Line(c, i, t)
        rest == decompile_stmts(c, line.i, line.t)
    IN CASE w = W.STOP -> [text |-> <<>>, t |-> t]
         [] w \in InTrees -> decompile_stmts(c, tree.i, tree.t)
         [] w \in {W.T_IF, W.ELSEIF, W.FOR, W.FORRNG, W.WHILE, W.AT} -> WithBody(c, i, t)
         [] OTHER -> [text |-> line.text \o rest.text, t |-> rest.t]

decompile_method(c) == decompile_stmts(c, 0, Empty).text

(***************************************************************************)
(* The two printings agree with the grammar: a method that is decompiled   *)
(* and compiled again is the same words, unless the text says that an      *)
(* expression is too complex.  So a dump of the database can be loaded.    *)
(***************************************************************************)
RoundTrip(p) ==
    \A c \in {Method(p)} : \A text \in {decompile_method(c)} :
        \/ \E k \in DOMAIN text : text[k] = TooComplex
        \/ \E q \in {Parse(text)} : q # <<Nothing>> /\ Method(q) = c

=============================================================================
