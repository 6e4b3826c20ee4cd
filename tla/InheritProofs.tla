--------------------------- MODULE InheritProofs ---------------------------
(***************************************************************************)
(* Theorems about the hierarchy, for any number of objects and parents:    *)
(* the one test that check_parents() lacks is enough to keep it free of    *)
(* loops; and where it has none, a search for a method finds what it       *)
(* should and calls itself no deeper than there are objects.  A search for *)
(* a variable that comes back is right even then.                          *)
(*                                                                         *)
(* What is above an object is a least set, so that something holds of all  *)
(* objects above o is shown by one set that has the parents of o and of    *)
(* its members.                                                            *)
(***************************************************************************)
EXTENDS Inherit, FiniteSetTheorems, TLAPS

-----------------------------------------------------------------------------
(* What is above an object.                                                *)

LEMMA AboveLeast ==
  ASSUME NEW o, NEW S, S \subseteq objects, Up({o} \cup S) \subseteq S
  PROVE  Ancestors(o) \subseteq S
  BY DEF Ancestors

LEMMA AboveClosed ==
  ASSUME NEW o
  PROVE  Up({o} \cup Ancestors(o)) \subseteq Ancestors(o) /\ Ancestors(o) \subseteq objects
  <1>1. Ancestors(o) \subseteq objects
    BY DEF Ancestors
  <1>2. ASSUME NEW p \in Up({o} \cup Ancestors(o))
        PROVE  p \in Ancestors(o)
    <2>1. p \in objects
      BY DEF Up
    <2>2. ASSUME NEW S \in SUBSET objects, Up({o} \cup S) \subseteq S
          PROVE  p \in S
      <3>1. Ancestors(o) \subseteq S
        BY <2>2, AboveLeast
      <3>2. p \in Up({o} \cup S)
        BY <3>1 DEF Up
      <3>3. QED
        BY <3>2, <2>2
    <2>3. QED
      BY <2>1, <2>2 DEF Ancestors
  <1>3. QED
    BY <1>1, <1>2

\* A parent that is there, and what is above it, is above.
LEMMA AboveStep ==
  ASSUME NEW o, NEW p, p \in objects, p \in ParentsOf(o)
  PROVE  p \in Ancestors(o) /\ Ancestors(p) \subseteq Ancestors(o)
  <1>1. p \in Up({o} \cup Ancestors(o))
    BY DEF Up
  <1>2. p \in Ancestors(o)
    BY <1>1, AboveClosed
  <1>3. Up({p} \cup Ancestors(o)) \subseteq Ancestors(o)
    <2>1. Up({p} \cup Ancestors(o)) \subseteq Up({o} \cup Ancestors(o))
      BY <1>2 DEF Up
    <2>2. QED
      BY <2>1, AboveClosed
  <1>4. QED
    BY <1>2, <1>3, AboveClosed, AboveLeast

LEMMA AboveAbove ==
  ASSUME NEW o, NEW p \in Ancestors(o)
  PROVE  Ancestors(p) \subseteq Ancestors(o)
  <1>1. Up({p} \cup Ancestors(o)) \subseteq Up({o} \cup Ancestors(o))
    BY DEF Up
  <1>2. QED
    BY <1>1, AboveClosed, AboveLeast

\* A set of objects that has the parents of its members has all above them.
LEMMA AboveWithin ==
  ASSUME NEW S, S \subseteq objects, Up(S) \subseteq S, NEW o \in S
  PROVE  Ancestors(o) \subseteq S
  <1>1. Up({o} \cup S) = Up(S)
    BY DEF Up
  <1>2. QED
    BY <1>1, AboveLeast

-----------------------------------------------------------------------------
(* Types.                                                                  *)

\* Nothing is left of a search that has ended; a method is searched from the last place down; a
\* number that is free has no parents.
TypeInv ==
    /\ HierarchyTypeOK
    /\ kind = "none" => start = 0 /\ stack = <<>> /\ searched = {} /\ found = 0
    /\ kind # "none" => start \in objects
    /\ kind = "method" => \A k \in DOMAIN stack : stack[k].at <= Len(parents[stack[k].on])
    /\ \A o \in Numbers \ objects : parents[o] = <<>>

Elements(ps) == {ps[k] : k \in DOMAIN ps}

LEMMA ListType ==
  ASSUME NEW ps \in Lists
  PROVE  ps \in Seq(Numbers) /\ Len(ps) \in Nat /\ DOMAIN ps = 1..Len(ps)
  <1>1. PICK n \in 0..MaxParents : ps \in [1..n -> Numbers]
    BY DEF Lists
  <1>2. ps \in Seq(Numbers)
    BY <1>1, InheritAssumption
  <1>3. QED
    BY <1>2

LEMMA NumberType == Numbers \subseteq Nat /\ ROOT_OBJ \in Numbers /\ MaxObj \in Nat
  BY InheritAssumption DEF Numbers, ROOT_OBJ

\* A list of parents is given to o.
LEMMA Rewired ==
  ASSUME TypeInv, NEW o \in Numbers, NEW ps \in Lists, parents' = [parents EXCEPT ![o] = ps]
  PROVE  /\ parents' \in [Numbers -> Lists] /\ ParentsOf(o)' = Elements(ps)
         /\ parents'[o] = ps /\ \A x \in Numbers : x # o => parents'[x] = parents[x]
         /\ \A x \in Numbers : x # o => ParentsOf(x)' = ParentsOf(x)
  BY DEF TypeInv, HierarchyTypeOK, ParentsOf, Elements

LEMMA OneParent ==
  ASSUME NEW o \in Numbers
  PROVE  <<o>> \in Lists /\ Elements(<<o>>) = {o}
  <1>1. <<o>> \in [1..1 -> Numbers] /\ 1 \in 0..MaxParents
    BY InheritAssumption
  <1>2. QED
    BY <1>1 DEF Lists, Elements

LEMMA NoParent == <<>> \in Lists /\ Elements(<<>>) = {}
  <1>1. <<>> \in [1..0 -> Numbers] /\ 0 \in 0..MaxParents
    BY InheritAssumption
  <1>2. QED
    BY <1>1 DEF Lists, Elements

LEMMA InitType == HierarchyInit => TypeInv
  <1>1. HierarchyInit => objects \subseteq 1..dbtop /\ dbtop \in Numbers
    BY InheritAssumption DEF HierarchyInit, ROOT_OBJ, Numbers
  <1>2. HierarchyInit => parents \in [Numbers -> Lists] /\ \A o \in Numbers : ParentsOf(o) = {}
    BY NoParent DEF HierarchyInit, ParentsOf, Elements
  <1>3. QED
    BY <1>1, <1>2 DEF HierarchyInit, TypeInv, HierarchyTypeOK

\* What a change does to the object it is about: it is given a list of parents.
Given(o, ps) ==
    /\ parents' = [parents EXCEPT ![o] = ps]
    /\ dbtop' \in Numbers /\ dbtop <= dbtop' /\ Elements(ps) \subseteq objects
    /\ \/ objects' = objects \cup {o} /\ o <= dbtop'
       \/ objects' = objects \ {o} /\ ps = <<>>
    /\ \/ dbtop < o
       \/ o \notin Elements(ps) /\ (Careful => \A k \in DOMAIN ps : ~hasparent(ps[k], o))

LEMMA ChangeStep ==
  ASSUME TypeInv, Changes
  PROVE  \/ UNCHANGED <<objects, parents, dbtop>>
         \/ \E o \in Numbers : \E ps \in Lists : Given(o, ps)
  <1>1. PICK o \in Numbers :
           clone(o) \/ destroy(o) \/ (\E ps \in Lists : op_chparents(o, ps) \/ compile(o, ps))
             \/ add_method(o) \/ rm_method(o) \/ var_assign_global(o) \/ var_rm_global(o)
    BY DEF Changes
  <1>2. /\ dbtop \in Nat /\ o \in Nat /\ MaxObj \in Nat
        /\ objects \subseteq 1..dbtop /\ dbtop \in Numbers
    BY NumberType DEF TypeInv, HierarchyTypeOK
  <1>3. CASE clone(o)
    <2>1. dbtop + 1 \in Numbers /\ dbtop < dbtop + 1 /\ dbtop <= dbtop + 1
      BY <1>2, <1>3 DEF clone, Numbers
    <2>2. <<o>> \in Lists /\ Elements(<<o>>) = {o}
      BY OneParent
    <2>3. Given(dbtop + 1, <<o>>)
      BY <2>1, <2>2, <1>3 DEF clone, Given
    <2>4. QED
      BY <2>1, <2>2, <2>3
  <1>4. CASE destroy(o)
    <2>1. dbtop' = dbtop /\ dbtop <= dbtop
      BY <1>2, <1>4 DEF destroy
    <2>2. DOMAIN <<>> = {}
      OBVIOUS
    <2>3. Given(o, <<>>)
      BY <2>1, <2>2, <1>2, <1>4, NoParent DEF destroy, Given
    <2>4. QED
      BY <2>3, NoParent
  <1>5. ASSUME NEW ps \in Lists, check_parents(o, ps), Asks(o, ps)
        PROVE  /\ Elements(ps) \subseteq objects /\ o \notin Elements(ps)
               /\ Careful => \A k \in DOMAIN ps : ~hasparent(ps[k], o)
    BY <1>5 DEF check_parents, Elements, Asks
  <1>6. ASSUME NEW ps \in Lists, op_chparents(o, ps)
        PROVE  Given(o, ps)
    <2>1. dbtop' = dbtop /\ dbtop <= dbtop /\ o <= dbtop /\ objects' = objects \cup {o}
      BY <1>2, <1>6 DEF op_chparents
    <2>2. QED
      BY <2>1, <1>2, <1>5, <1>6 DEF op_chparents, Given
  <1>7. ASSUME NEW ps \in Lists, compile(o, ps)
        PROVE  Given(o, ps)
    <2>1. dbtop' = IF o > dbtop THEN o ELSE dbtop
      BY <1>7 DEF compile, NewTop
    <2>2. o <= dbtop' /\ dbtop' \in Numbers /\ dbtop <= dbtop'
      BY <2>1, <1>2
    <2>3. QED
      BY <2>2, <1>5, <1>7 DEF compile, Given
  <1>8. CASE \E ps \in Lists : op_chparents(o, ps) \/ compile(o, ps)
    BY <1>6, <1>7, <1>8
  <1>9. CASE add_method(o) \/ rm_method(o) \/ var_assign_global(o) \/ var_rm_global(o)
    BY <1>9 DEF add_method, rm_method, var_assign_global, var_rm_global
  <1>10. QED
    BY <1>1, <1>3, <1>4, <1>8, <1>9

-----------------------------------------------------------------------------
(* What a step of a search does to the stack.                              *)

Popped ==
    /\ stack' \in Seq(Calls) /\ Len(stack') = Len(stack) - 1
    /\ \A i \in 1..Len(stack) - 1 : stack'[i] = stack[i]
Moved(k) ==
    /\ stack' \in Seq(Calls) /\ Len(stack') = Len(stack)
    /\ \A i \in 1..Len(stack) - 1 : stack'[i] = stack[i]
    /\ stack'[Len(stack)] = Call(Current.on, k)
Pushed(k, p, l) ==
    /\ stack' \in Seq(Calls) /\ Len(stack') = Len(stack) + 1
    /\ \A i \in 1..Len(stack) - 1 : stack'[i] = stack[i]
    /\ stack'[Len(stack)] = Call(Current.on, k) /\ stack'[Len(stack) + 1] = Call(p, l)

LEMMA StackType ==
  ASSUME TypeInv, stack # <<>>
  PROVE  /\ Len(stack) \in Nat \ {0} /\ DOMAIN stack = 1..Len(stack) /\ Len(stack) \in DOMAIN stack
         /\ Current = stack[Len(stack)] /\ Current \in Calls
         /\ Current.on \in objects /\ Current.on \in Numbers
         /\ Current.at \in Nat /\ Current.at <= Len(parents[Current.on]) + 1
         /\ Below \in Seq(Calls) /\ Len(Below) = Len(stack) - 1
         /\ \A i \in 1..Len(stack) - 1 : Below[i] = stack[i]
         /\ kind # "none" /\ start \in objects
  <1>1. stack \in Seq(Calls)
    BY DEF TypeInv, HierarchyTypeOK
  <1>2. Len(stack) \in Nat \ {0} /\ DOMAIN stack = 1..Len(stack) /\ Len(stack) \in DOMAIN stack
    BY <1>1
  <1>3. Current = stack[Len(stack)] /\ Current \in Calls
    BY <1>1, <1>2 DEF Current
  <1>4. Below \in Seq(Calls) /\ Len(Below) = Len(stack) - 1
          /\ \A i \in 1..Len(stack) - 1 : Below[i] = stack[i]
    BY <1>1, <1>2 DEF Below
  <1>5. Current.on \in objects /\ Current.at <= Len(parents[Current.on]) + 1
    BY <1>2, <1>3 DEF TypeInv, HierarchyTypeOK
  <1>6. Current.on \in Numbers /\ Current.at \in Nat
    BY <1>3 DEF Calls
  <1>7. QED
    BY <1>2, <1>3, <1>4, <1>5, <1>6 DEF TypeInv

LEMMA PopStack ==
  ASSUME TypeInv, stack # <<>>, stack' = Below
  PROVE  Popped
  BY StackType DEF Popped

LEMMA Appended ==
  ASSUME NEW s \in Seq(Calls), NEW e \in Calls
  PROVE  /\ Append(s, e) \in Seq(Calls) /\ Len(Append(s, e)) = Len(s) + 1
         /\ Append(s, e)[Len(s) + 1] = e /\ \A i \in 1..Len(s) : Append(s, e)[i] = s[i]
  OBVIOUS

LEMMA MoveStack ==
  ASSUME TypeInv, stack # <<>>, NEW k \in Nat, stack' = Append(Below, Call(Current.on, k))
  PROVE  Moved(k)
  <1>1. Call(Current.on, k) \in Calls
    BY StackType DEF Call, Calls
  <1>2. Len(stack) \in Nat /\ Below \in Seq(Calls) /\ Len(Below) = Len(stack) - 1
          /\ \A i \in 1..Len(stack) - 1 : Below[i] = stack[i]
    BY StackType
  <1>3. QED
    BY <1>1, <1>2, Appended DEF Moved

LEMMA PushStack ==
  ASSUME TypeInv, stack # <<>>, NEW k \in Nat, NEW p \in Numbers, NEW l \in Nat,
         stack' = Append(Append(Below, Call(Current.on, k)), Call(p, l))
  PROVE  Pushed(k, p, l)
  <1>1. Call(Current.on, k) \in Calls /\ Call(p, l) \in Calls
    BY StackType DEF Call, Calls
  <1> DEFINE s == Append(Below, Call(Current.on, k))
  <1>0. Len(stack) \in Nat \ {0} /\ Below \in Seq(Calls) /\ Len(Below) = Len(stack) - 1
          /\ \A i \in 1..Len(stack) - 1 : Below[i] = stack[i]
    BY StackType
  <1>2. /\ s \in Seq(Calls) /\ Len(s) = Len(stack) /\ s[Len(stack)] = Call(Current.on, k)
        /\ \A i \in 1..Len(stack) - 1 : s[i] = stack[i]
    BY <1>0, <1>1, Appended
  <1>3. stack' = Append(s, Call(p, l))
    OBVIOUS
  <1> HIDE DEF s
  <1>4. QED
    <2>1. /\ stack' \in Seq(Calls) /\ Len(stack') = Len(stack) + 1
          /\ stack'[Len(stack) + 1] = Call(p, l) /\ \A i \in 1..Len(stack) : stack'[i] = s[i]
      BY <1>1, <1>2, <1>3, Appended
    <2>2. QED
      BY <2>1, <1>0, <1>2 DEF Pushed

\* Each place that is looked at holds a number.
LEMMA PlaceType ==
  ASSUME TypeInv, NEW o \in Numbers
  PROVE  /\ parents[o] \in Lists
         /\ Len(parents[o]) \in Nat /\ DOMAIN parents[o] = 1..Len(parents[o])
         /\ \A j \in DOMAIN parents[o] : parents[o][j] \in Numbers /\ parents[o][j] \in ParentsOf(o)
  <1>1. parents[o] \in Lists
    BY DEF TypeInv, HierarchyTypeOK
  <1>2. QED
    BY <1>1, ListType DEF ParentsOf

\* What each action does to a stack, in these terms.
LEMMA FmrParentStep ==
  ASSUME TypeInv, do_fmr_parent
  PROVE  /\ kind = "method" /\ stack # <<>>
         /\ Current.at \in DOMAIN parents[Current.on]
         /\ Current.at - 1 \in 0..Len(parents[Current.on])
         /\ LET p == parents[Current.on][Current.at]
            IN \/ (p \notin objects \/ p \in searched) /\ Moved(Current.at - 1)
               \/ p \in objects /\ p \notin searched /\ Pushed(Current.at - 1, p, Len(parents[p]))
  <1>1. kind = "method" /\ stack # <<>> /\ Current.at > 0
    BY DEF do_fmr_parent
  <1>2. Current.at \in Nat /\ Current.at <= Len(parents[Current.on])
    BY <1>1, StackType DEF TypeInv
  <1>3. Current.at \in DOMAIN parents[Current.on] /\ Current.at - 1 \in 0..Len(parents[Current.on])
    BY <1>1, <1>2, StackType, PlaceType
  <1> DEFINE p == parents[Current.on][Current.at]
  <1>4. p \in Numbers
    BY <1>1, <1>3, StackType, PlaceType
  <1>5. Len(parents[p]) \in Nat
    BY <1>4, PlaceType
  <1>6. CASE p \notin objects \/ p \in searched
    <2>1. stack' = Append(Below, Call(Current.on, Current.at - 1))
      BY <1>6 DEF do_fmr_parent, Searched
    <2>2. QED
      BY <2>1, <1>1, <1>3, <1>6, MoveStack
  <1>7. CASE p \in objects /\ p \notin searched
    <2>1. stack' = Append(Append(Below, Call(Current.on, Current.at - 1)), Call(p, Len(parents[p])))
      BY <1>7 DEF do_fmr_parent, Searched
    <2>2. Pushed(Current.at - 1, p, Len(parents[p]))
      BY <2>1, <1>1, <1>3, <1>4, <1>5, PushStack
    <2>3. QED
      BY <2>2, <1>1, <1>3, <1>7
  <1>8. QED
    BY <1>6, <1>7

LEMMA VarLookStep ==
  ASSUME TypeInv, var_look
  PROVE  /\ kind = "variable" /\ stack # <<>> /\ Current.at = 0
         /\ \/ Current.on \in variable /\ found' = Current.on /\ stack' = <<>>
            \/ Current.on \notin variable /\ found' = found /\ Moved(1)
  BY MoveStack DEF var_look

LEMMA VarParentStep ==
  ASSUME TypeInv, var_parent
  PROVE  /\ kind = "variable" /\ stack # <<>> /\ Current.at > 0
         /\ \/ Current.at > Len(parents[Current.on]) /\ Popped
            \/ /\ Current.at \in DOMAIN parents[Current.on]
               /\ LET p == parents[Current.on][Current.at]
                  IN \/ p \notin objects /\ Moved(Current.at + 1)
                     \/ p \in objects /\ Pushed(Current.at + 1, p, 0)
  <1>1. kind = "variable" /\ stack # <<>> /\ Current.at > 0
    BY DEF var_parent
  <1>2. Current.at \in Nat /\ Current.at + 1 \in Nat /\ Len(parents[Current.on]) \in Nat
    BY <1>1, StackType, PlaceType
  <1>3. CASE Current.at > Len(parents[Current.on])
    BY <1>1, <1>3, PopStack DEF var_parent, LastParent
  <1>4. CASE ~(Current.at > Len(parents[Current.on]))
    <2> DEFINE p == parents[Current.on][Current.at]
    <2>1. Current.at \in DOMAIN parents[Current.on]
      BY <1>1, <1>2, <1>4, StackType, PlaceType
    <2>2. p \in Numbers
      BY <2>1, <1>1, StackType, PlaceType
    <2>3. CASE p \notin objects
      <3>1. stack' = Append(Below, Call(Current.on, Current.at + 1))
        BY <2>3, <1>4 DEF var_parent, LastParent
      <3>2. QED
        BY <3>1, <2>1, <2>3, <1>1, <1>2, MoveStack
    <2>4. CASE p \in objects
      <3>1. stack' = Append(Append(Below, Call(Current.on, Current.at + 1)), Call(p, 0))
        BY <2>4, <1>4 DEF var_parent, LastParent
      <3>2. Pushed(Current.at + 1, p, 0)
        BY <3>1, <2>2, <1>1, <1>2, PushStack
      <3>3. QED
        BY <3>2, <2>1, <2>4, <1>1
    <2>5. QED
      BY <2>3, <2>4
  <1>5. QED
    BY <1>3, <1>4

LEMMA LastOf ==
  ASSUME NEW n \in Nat, NEW i \in 1..n
  PROVE  i \in 1..n - 1 \/ i = n
  OBVIOUS

\* The calls that are left, place by place.
LEMMA PoppedAt ==
  ASSUME TypeInv, stack # <<>>, Popped, NEW i \in DOMAIN stack'
  PROVE  i \in DOMAIN stack /\ i < Len(stack) /\ stack'[i] = stack[i]
  <1>1. Len(stack) \in Nat /\ DOMAIN stack = 1..Len(stack)
    BY StackType
  <1>2. DOMAIN stack' = 1..Len(stack')
    BY DEF Popped
  <1>3. QED
    BY <1>1, <1>2 DEF Popped

LEMMA MovedAt ==
  ASSUME TypeInv, stack # <<>>, NEW k, Moved(k), NEW i \in DOMAIN stack'
  PROVE  /\ i \in DOMAIN stack
         /\ \/ i < Len(stack) /\ stack'[i] = stack[i]
            \/ i = Len(stack) /\ stack'[i] = Call(Current.on, k)
  <1>1. Len(stack) \in Nat /\ DOMAIN stack = 1..Len(stack)
    BY StackType
  <1>2. DOMAIN stack' = 1..Len(stack)
    BY DEF Moved
  <1>3. i \in 1..Len(stack) - 1 \/ i = Len(stack)
    BY <1>1, <1>2, LastOf
  <1>4. QED
    BY <1>1, <1>2, <1>3 DEF Moved

LEMMA PushedAt ==
  ASSUME TypeInv, stack # <<>>, NEW k, NEW p, NEW l, Pushed(k, p, l), NEW i \in DOMAIN stack'
  PROVE  \/ i \in DOMAIN stack /\ i < Len(stack) /\ stack'[i] = stack[i]
         \/ i \in DOMAIN stack /\ i = Len(stack) /\ stack'[i] = Call(Current.on, k)
         \/ i = Len(stack) + 1 /\ stack'[i] = Call(p, l)
  <1>1. Len(stack) \in Nat /\ DOMAIN stack = 1..Len(stack)
    BY StackType
  <1>2. DOMAIN stack' = 1..Len(stack) + 1
    BY DEF Pushed
  <1>3. i \in 1..Len(stack) \/ i = Len(stack) + 1
    BY <1>1, <1>2
  <1>4. i \in 1..Len(stack) => i \in 1..Len(stack) - 1 \/ i = Len(stack)
    BY <1>1, LastOf
  <1>5. QED
    BY <1>1, <1>3, <1>4 DEF Pushed

\* The places of a stack are in the lists of their objects.
Fit(c) ==
    /\ c.on \in objects /\ c.at <= Len(parents[c.on]) + 1
    /\ kind = "method" => c.at <= Len(parents[c.on])
Fits == stack \in Seq(Calls) /\ \A k \in DOMAIN stack : Fit(stack[k])

LEMMA FitsStep ==
  ASSUME TypeInv, UNCHANGED <<objects, parents>>, stack # <<>>, kind' = kind,
         \/ Popped
         \/ \E k \in Nat : /\ Fit(Call(Current.on, k))
                           /\ \/ Moved(k)
                              \/ \E p \in objects : \E l \in Nat : Fit(Call(p, l)) /\ Pushed(k, p, l)
  PROVE  Fits'
  <1>1. \A i \in DOMAIN stack : Fit(stack[i])
    BY DEF TypeInv, HierarchyTypeOK, Fit
  <1>2. \A c : Fit(c) => Fit(c)'
    BY DEF Fit
  <1>3. CASE Popped
    <2>1. \A i \in DOMAIN stack' : Fit(stack'[i])
      BY <1>1, <1>3, PoppedAt
    <2>2. stack' \in Seq(Calls)
      BY <1>3 DEF Popped
    <2>3. QED
      BY <2>1, <2>2, <1>2 DEF Fits
  <1>4. ASSUME NEW k \in Nat, Fit(Call(Current.on, k)), Moved(k)
        PROVE  Fits'
    <2>1. \A i \in DOMAIN stack' : Fit(stack'[i])
      BY <1>1, <1>4, MovedAt
    <2>2. stack' \in Seq(Calls)
      BY <1>4 DEF Moved
    <2>3. QED
      BY <2>1, <2>2, <1>2 DEF Fits
  <1>5. ASSUME NEW k \in Nat, Fit(Call(Current.on, k)), NEW p \in objects, NEW l \in Nat,
               Fit(Call(p, l)), Pushed(k, p, l)
        PROVE  Fits'
    <2>1. \A i \in DOMAIN stack' : Fit(stack'[i])
      BY <1>1, <1>5, PushedAt
    <2>2. stack' \in Seq(Calls)
      BY <1>5 DEF Pushed
    <2>3. QED
      BY <2>1, <2>2, <1>2 DEF Fits
  <1>6. QED
    BY <1>3, <1>4, <1>5

LEMMA ObjectType ==
  ASSUME TypeInv
  PROVE  objects \subseteq Numbers /\ 0 \notin objects /\ dbtop \in Nat /\ IsFiniteSet(objects)
         /\ \A o \in objects : o \in Numbers /\ Len(parents[o]) \in Nat
  <1>1. objects \subseteq 1..dbtop /\ dbtop \in Numbers
    BY DEF TypeInv, HierarchyTypeOK
  <1>2. objects \subseteq Numbers /\ 0 \notin objects /\ dbtop \in Nat
    BY <1>1, NumberType DEF Numbers
  <1>3. IsFiniteSet(objects)
    <2>1. IsFiniteSet(1..dbtop)
      BY <1>2, FS_Interval
    <2>2. QED
      BY <2>1, <1>1, FS_Subset
  <1>4. QED
    BY <1>2, <1>3, PlaceType

LEMMA SearchFits ==
  ASSUME TypeInv, Searches, UNCHANGED hierarchy
  PROVE  Fits'
  <1>1. UNCHANGED <<objects, parents>>
    BY DEF hierarchy
  <1>2. ASSUME NEW o \in Numbers, find_method_recursive(o)
        PROVE  Fits'
    <2>1. o \in objects /\ Len(parents[o]) \in Nat
      BY <1>2, ObjectType DEF find_method_recursive
    <2>2. stack' = <<Call(o, Len(parents[o]))>> /\ Call(o, Len(parents[o])) \in Calls
      BY <1>2, <2>1 DEF find_method_recursive, Call, Calls
    <2>3. Len(parents[o]) <= Len(parents[o]) + 1 /\ Len(parents[o]) <= Len(parents[o])
      BY <2>1
    <2>4. \A c : c = Call(o, Len(parents[o])) => Fit(c)'
      BY <1>1, <2>1, <2>3 DEF Fit, Call
    <2>5. QED
      BY <2>2, <2>4 DEF Fits
  <1>3. ASSUME NEW o \in Numbers, var_get_global(o)
        PROVE  Fits'
    <2>1. o \in objects /\ Len(parents[o]) \in Nat
      BY <1>3, ObjectType DEF var_get_global
    <2>2. stack' = <<Call(o, 0)>> /\ Call(o, 0) \in Calls /\ kind' = "variable"
      BY <1>3, <2>1 DEF var_get_global, Call, Calls
    <2>3. 0 <= Len(parents[o]) + 1
      BY <2>1
    <2>4. Fit(Call(o, 0))'
      BY <1>1, <2>1, <2>2, <2>3 DEF Fit, Call
    <2>5. QED
      BY <2>2, <2>4 DEF Fits
  <1>4. CASE do_fmr_parent
    <2>1. kind' = kind
      BY <1>4 DEF do_fmr_parent
    <2> DEFINE p == parents[Current.on][Current.at]
               k == Current.at - 1
    <2>2. /\ stack # <<>> /\ k \in 0..Len(parents[Current.on])
          /\ Moved(k) \/ (p \in objects /\ Pushed(k, p, Len(parents[p])))
      BY <1>4, FmrParentStep
    <2>3. Len(parents[Current.on]) \in Nat
      BY <2>2, StackType, PlaceType
    <2>4. k \in Nat /\ k <= Len(parents[Current.on]) + 1 /\ k <= Len(parents[Current.on])
      BY <2>2, <2>3
    <2>5. p \in objects => Len(parents[p]) \in Nat /\ Fit(Call(p, Len(parents[p])))
      BY ObjectType DEF Fit, Call
    <2>7. Fit(Call(Current.on, k))
      BY <2>2, <2>4, StackType DEF Fit, Call
    <2> HIDE DEF p, k
    <2>6. QED
      BY <2>1, <2>2, <2>4, <2>5, <2>7, <1>1, FitsStep
  <1>5. CASE do_fmr_object
    <2>1. stack # <<>> /\ kind' = kind /\ (stack' = <<>> \/ stack' = Below)
      BY <1>5 DEF do_fmr_object
    <2>2. stack' = <<>> => Fits'
      BY DEF Fits, Fit
    <2>3. stack' = Below => Fits'
      BY <2>1, <1>1, PopStack, FitsStep
    <2>4. QED
      BY <2>1, <2>2, <2>3
  <1>6. CASE var_look
    <2>1. stack # <<>> /\ kind' = kind /\ kind = "variable" /\ (stack' = <<>> \/ Moved(1))
      BY <1>6, VarLookStep DEF var_look
    <2>2. stack' = <<>> => Fits'
      BY DEF Fits, Fit
    <2>3. Fit(Call(Current.on, 1))
      <3>1. Current.on \in objects /\ Len(parents[Current.on]) \in Nat
        BY <2>1, StackType, PlaceType
      <3>2. 1 <= Len(parents[Current.on]) + 1
        BY <3>1
      <3>3. QED
        BY <3>1, <3>2, <2>1 DEF Fit, Call
    <2>4. Moved(1) => Fits'
      BY <2>1, <2>3, <1>1, FitsStep
    <2>5. QED
      BY <2>1, <2>2, <2>4
  <1>7. CASE var_parent
    <2>1. kind' = kind /\ stack # <<>> /\ kind = "variable"
      BY <1>7 DEF var_parent
    <2> DEFINE p == parents[Current.on][Current.at]
               k == Current.at + 1
    <2>2. \/ Popped
          \/ /\ Current.at \in DOMAIN parents[Current.on]
             /\ Moved(k) \/ (p \in objects /\ Pushed(k, p, 0))
      BY <1>7, VarParentStep
    <2>3. /\ Len(parents[Current.on]) \in Nat
          /\ DOMAIN parents[Current.on] = 1..Len(parents[Current.on])
      BY <2>1, StackType, PlaceType
    <2>4. Current.at \in DOMAIN parents[Current.on] =>
             k \in Nat /\ k <= Len(parents[Current.on]) + 1
      BY <2>3
    <2>5. p \in objects => Fit(Call(p, 0))
      BY <2>1, ObjectType DEF Fit, Call
    <2>7. Current.at \in DOMAIN parents[Current.on] => Fit(Call(Current.on, k))
      BY <2>1, <2>4, StackType DEF Fit, Call
    <2> HIDE DEF p, k
    <2>6. QED
      BY <2>1, <2>2, <2>4, <2>5, <2>7, <1>1, FitsStep
  <1>8. CASE Return
    BY <1>8 DEF Return, Fits, Fit
  <1>9. QED
    BY <1>2, <1>3, <1>4, <1>5, <1>6, <1>7, <1>8 DEF Searches

LEMMA SearchType ==
  ASSUME TypeInv, Searches, UNCHANGED hierarchy
  PROVE  TypeInv'
  <1>1. UNCHANGED <<objects, parents, method, variable, dbtop>>
    BY DEF hierarchy
  <1>2. /\ kind' \in {"none", "method", "variable"}
        /\ kind' = "none" => start' = 0 /\ stack' = <<>> /\ searched' = {} /\ found' = 0
        /\ kind' # "none" => start' \in objects
        /\ searched' \subseteq objects /\ found' \in objects \cup {0}
    <2>1. CASE kind = "none"
      BY <2>1 DEF TypeInv, HierarchyTypeOK, Searches, find_method_recursive, var_get_global,
                  do_fmr_parent, do_fmr_object, var_look, var_parent, Return
    <2>2. CASE kind # "none"
      <3>1. CASE do_fmr_object \/ var_look
        <4>1. stack # <<>>
          BY <3>1 DEF do_fmr_object, var_look
        <4>2. Current.on \in objects
          BY <4>1, StackType
        <4>3. QED
          BY <2>2, <3>1, <4>2 DEF TypeInv, HierarchyTypeOK, do_fmr_object, var_look
      <3>2. CASE do_fmr_parent \/ var_parent \/ Return
        BY <2>2, <3>2 DEF TypeInv, HierarchyTypeOK, do_fmr_parent, var_parent, Return
      <3>3. QED
        BY <2>2, <3>1, <3>2 DEF Searches, find_method_recursive, var_get_global
    <2>3. QED
      BY <2>1, <2>2
  <1>3. Fits'
    BY SearchFits
  <1>4. HierarchyTypeOK'
    BY <1>1, <1>2, <1>3 DEF TypeInv, HierarchyTypeOK, Fits, Fit, ParentsOf
  <1>5. QED
    BY <1>1, <1>2, <1>3, <1>4 DEF TypeInv, Fits, Fit

LEMMA GivenType ==
  ASSUME TypeInv, NEW o \in Numbers, NEW ps \in Lists, Given(o, ps)
  PROVE  /\ dbtop' \in Numbers /\ objects' \subseteq 1..dbtop' /\ parents' \in [Numbers -> Lists]
         /\ \A x \in Numbers : ParentsOf(x)' \subseteq 1..dbtop'
         /\ \A x \in Numbers \ objects' : parents'[x] = <<>>
  <1>1. dbtop' \in Nat /\ dbtop \in Nat /\ o \in Nat /\ dbtop <= dbtop' /\ dbtop' \in Numbers
    BY NumberType, ObjectType DEF Given
  <1>2. objects \subseteq 1..dbtop' /\ \A x \in Numbers : ParentsOf(x) \subseteq 1..dbtop'
    BY <1>1 DEF TypeInv, HierarchyTypeOK
  <1>3. objects' \subseteq 1..dbtop'
    <2>1. o <= dbtop' => o \in 1..dbtop'
      BY <1>1, NumberType DEF Numbers
    <2>2. QED
      BY <2>1, <1>2 DEF Given
  <1>4. /\ parents' \in [Numbers -> Lists] /\ ParentsOf(o)' = Elements(ps) /\ parents'[o] = ps
        /\ \A x \in Numbers : x # o => parents'[x] = parents[x] /\ ParentsOf(x)' = ParentsOf(x)
    BY Rewired DEF Given
  <1>5. Elements(ps) \subseteq 1..dbtop'
    BY <1>2 DEF Given
  <1>6. \A x \in Numbers \ objects' : parents'[x] = <<>>
    BY <1>4 DEF Given, TypeInv
  <1>7. QED
    BY <1>1, <1>2, <1>3, <1>4, <1>5, <1>6

LEMMA ChangeType ==
  ASSUME TypeInv, kind = "none", Changes, UNCHANGED search
  PROVE  TypeInv'
  <1>1. /\ dbtop' \in Numbers /\ objects' \subseteq 1..dbtop' /\ parents' \in [Numbers -> Lists]
        /\ \A x \in Numbers : ParentsOf(x)' \subseteq 1..dbtop'
        /\ \A x \in Numbers \ objects' : parents'[x] = <<>>
    <2>1. CASE UNCHANGED <<objects, parents, dbtop>>
      BY <2>1 DEF TypeInv, HierarchyTypeOK, ParentsOf
    <2>2. CASE \E o \in Numbers : \E ps \in Lists : Given(o, ps)
      BY <2>2, GivenType
    <2>3. QED
      BY <2>1, <2>2, ChangeStep
  <1>2. method' \in [Numbers -> {"none", "method", "blocked"}] /\ variable' \subseteq objects'
    <2>1. method \in [Numbers -> {"none", "method", "blocked"}] /\ variable \subseteq objects
      BY DEF TypeInv, HierarchyTypeOK
    <2>2. PICK o \in Numbers :
             clone(o) \/ destroy(o) \/ (\E ps \in Lists : op_chparents(o, ps) \/ compile(o, ps))
               \/ add_method(o) \/ rm_method(o) \/ var_assign_global(o) \/ var_rm_global(o)
      BY DEF Changes
    <2>3. CASE \E ps \in Lists : op_chparents(o, ps) \/ compile(o, ps)
      BY <2>1, <2>3 DEF op_chparents, compile, Methods
    <2>4. CASE clone(o) \/ destroy(o)
      BY <2>1, <2>4 DEF clone, destroy
    <2>5. CASE add_method(o) \/ rm_method(o) \/ var_assign_global(o) \/ var_rm_global(o)
      BY <2>1, <2>5 DEF add_method, rm_method, var_assign_global, var_rm_global
    <2>6. QED
      BY <2>2, <2>3, <2>4, <2>5
  <1>3. /\ kind' = "none" /\ start' = 0 /\ stack' = <<>> /\ searched' = {} /\ found' = 0
    BY DEF search, TypeInv
  <1>4. <<>> \in Seq(Calls)
    OBVIOUS
  <1>5. QED
    BY <1>1, <1>2, <1>3, <1>4 DEF TypeInv, HierarchyTypeOK

LEMMA NextType ==
  ASSUME TypeInv, [HierarchyNext]_hvars
  PROVE  TypeInv'
  <1>1. CASE HierarchyNext
    BY <1>1, ChangeType, SearchType DEF HierarchyNext, Change, Search
  <1>2. CASE UNCHANGED hvars
    BY <1>2 DEF hvars, hierarchy, search, TypeInv, HierarchyTypeOK, ParentsOf
  <1>3. QED
    BY <1>1, <1>2

LEMMA Typed == HierarchySpec => []TypeInv
  <1>1. TypeInv /\ [HierarchyNext]_hvars => TypeInv'
    BY NextType
  <1>2. QED
    BY InitType, <1>1, PTL DEF HierarchySpec

(***************************************************************************)
(* Every search looks at a place that is in the list of an object that is  *)
(* there, and finds one of them or none: do_fmr(), var_get_global().        *)
(***************************************************************************)
THEOREM HierarchyTyped == HierarchySpec => []HierarchyTypeOK
  <1>1. TypeInv => HierarchyTypeOK
    BY DEF TypeInv
  <1>2. QED
    BY Typed, <1>1, PTL

-----------------------------------------------------------------------------
(* Loops.                                                                  *)

LEMMA AboveLeastNext ==
  ASSUME NEW o, NEW S, S \subseteq objects',
         \A q \in {o} \cup S : \A p \in objects' : p \in ParentsOf(q)' => p \in S
  PROVE  Ancestors(o)' \subseteq S
  <1>1. Up({o} \cup S)' \subseteq S
    BY DEF Up
  <1>2. QED
    BY <1>1 DEF Ancestors

\* The objects that o is not above; none of them changes when o is given new parents.
NotUnder(o) == {x \in objects : x # o /\ ~hasparent(x, o)}

LEMMA NotUnderUp ==
  ASSUME NEW o, NEW x \in NotUnder(o), NEW p \in objects, p \in ParentsOf(x)
  PROVE  p \in NotUnder(o)
  <1>1. x \in objects /\ ~hasparent(x, o)
    BY DEF NotUnder
  <1>2. p # o
    BY <1>1 DEF hasparent
  <1>3. ~hasparent(p, o)
    BY <1>1, AboveStep DEF hasparent
  <1>4. QED
    BY <1>2, <1>3 DEF NotUnder

LEMMA NotUnderAbove ==
  ASSUME NEW o, NEW x \in NotUnder(o)
  PROVE  Ancestors(x) \subseteq NotUnder(o)
  <1>1. NotUnder(o) \subseteq objects
    BY DEF NotUnder
  <1>2. Up(NotUnder(o)) \subseteq NotUnder(o)
    BY NotUnderUp DEF Up
  <1>3. QED
    BY <1>1, <1>2, AboveWithin

LEMMA GivenAcyclic ==
  ASSUME TypeInv, Careful, Acyclic, NEW o \in Numbers, NEW ps \in Lists, Given(o, ps)
  PROVE  Acyclic'
  <1> DEFINE N == NotUnder(o)
  <1>1. /\ objects' \subseteq objects \cup {o} /\ N \subseteq objects' /\ N \subseteq objects
        /\ o \notin N
    BY DEF Given, NotUnder
  <1>2. ParentsOf(o)' = Elements(ps) /\ \A x \in Numbers : x # o => ParentsOf(x)' = ParentsOf(x)
    BY Rewired DEF Given
  <1>3. objects \subseteq Numbers
    BY ObjectType
  <1>4. \A x \in N : o \notin ParentsOf(x)
    BY DEF NotUnder, hasparent
  <1>5. Elements(ps) \subseteq N
    <2>1. Elements(ps) \subseteq objects
      BY DEF Given
    <2>2. CASE dbtop < o
      <3>1. o \notin 1..dbtop
        BY <2>2, ObjectType, NumberType
      <3>2. o \notin objects /\ \A q \in Numbers : o \notin ParentsOf(q)
        BY <3>1 DEF TypeInv, HierarchyTypeOK
      <3>3. \A x \in objects : ~hasparent(x, o)
        BY <3>2, <1>3, AboveClosed DEF hasparent
      <3>4. QED
        BY <2>1, <3>2, <3>3 DEF NotUnder
    <2>3. CASE o \notin Elements(ps) /\ \A k \in DOMAIN ps : ~hasparent(ps[k], o)
      BY <2>1, <2>3 DEF NotUnder, Elements
    <2>4. QED
      BY <2>2, <2>3 DEF Given
  <1>6. \A x \in N : \A p \in objects' : p \in ParentsOf(x)' => p \in N /\ p \in ParentsOf(x)
    <2>1. SUFFICES ASSUME NEW x \in N, NEW p \in objects', p \in ParentsOf(x)'
                   PROVE  p \in N /\ p \in ParentsOf(x)
      OBVIOUS
    <2>2. p \in ParentsOf(x)
      BY <2>1, <1>1, <1>2, <1>3
    <2>3. p \in objects
      BY <2>2, <1>1, <1>4
    <2>4. QED
      BY <2>2, <2>3, NotUnderUp
  <1>7. \A x \in N : x \notin Ancestors(x)'
    <2>1. SUFFICES ASSUME NEW x \in N
                   PROVE  x \notin Ancestors(x)'
      OBVIOUS
    <2>2. Ancestors(x) \subseteq N
      BY NotUnderAbove
    <2>3. \A q \in {x} \cup Ancestors(x) :
             \A p \in objects' : p \in ParentsOf(q)' => p \in Ancestors(x)
      <3>1. SUFFICES ASSUME NEW p \in objects', NEW q \in {x} \cup Ancestors(x), p \in ParentsOf(q)'
                     PROVE  p \in Ancestors(x)
        OBVIOUS
      <3>2. q \in N
        BY <2>2
      <3>3. p \in N /\ p \in ParentsOf(q)
        BY <3>1, <3>2, <1>6
      <3>4. p \in Up({x} \cup Ancestors(x))
        BY <3>3, <1>1 DEF Up
      <3>5. QED
        BY <3>4, AboveClosed
    <2>4. Ancestors(x) \subseteq objects'
      BY <2>2, <1>1
    <2>6. Ancestors(x)' \subseteq Ancestors(x)
      BY <2>3, <2>4, AboveLeastNext
    <2>5. QED
      BY <2>6, <1>1 DEF Acyclic
  <1>8. o \notin Ancestors(o)'
    <2>1. \A q \in {o} \cup N : \A p \in objects' : p \in ParentsOf(q)' => p \in N
      BY <1>2, <1>5, <1>6
    <2>2. Ancestors(o)' \subseteq N
      BY <2>1, <1>1, AboveLeastNext
    <2>3. QED
      BY <2>2, <1>1
  <1>9. ASSUME NEW x \in objects', x \notin N, x # o
        PROVE  x \notin Ancestors(x)'
    <2> DEFINE S == (({o} \cup Ancestors(x)) \cap objects') \cup N
    <2>1. x \in objects /\ x \notin Ancestors(x)
      BY <1>1, <1>9 DEF Acyclic
    <2>2. \A q \in {x} \cup S : \A p \in objects' : p \in ParentsOf(q)' => p \in S
      <3>1. SUFFICES ASSUME NEW p \in objects', NEW q \in {x} \cup S, p \in ParentsOf(q)'
                     PROVE  p \in S
        OBVIOUS
      <3>2. CASE q \in N
        BY <3>1, <3>2, <1>6
      <3>3. CASE q = o
        BY <3>1, <3>3, <1>2, <1>5
      <3>4. CASE q # o /\ (q = x \/ q \in Ancestors(x))
        <4>1. q \in objects
          BY <2>1, <3>4, AboveClosed
        <4>2. p \in ParentsOf(q)
          BY <3>1, <3>4, <4>1, <1>2, <1>3
        <4>3. CASE p = o
          BY <4>3
        <4>4. CASE p \in objects
          <5>1. p \in Up({x} \cup Ancestors(x))
            BY <4>2, <4>4, <3>4 DEF Up
          <5>2. QED
            BY <5>1, AboveClosed
        <4>5. QED
          BY <4>3, <4>4, <1>1
      <3>5. QED
        BY <3>2, <3>3, <3>4
    <2>3. S \subseteq objects' /\ x \notin S
      BY <2>1, <1>1, <1>9
    <2> HIDE DEF S
    <2>4. Ancestors(x)' \subseteq S
      BY <2>2, <2>3, AboveLeastNext
    <2>5. QED
      BY <2>3, <2>4
  <1>10. QED
    BY <1>7, <1>8, <1>9 DEF Acyclic

LEMMA SameAbove ==
  ASSUME UNCHANGED <<objects, parents>>
  PROVE  /\ \A o : Ancestors(o)' = Ancestors(o) /\ ParentsOf(o)' = ParentsOf(o)
         /\ \A S : Up(S)' = Up(S)
  BY DEF Ancestors, Up, ParentsOf

LEMMA NextAcyclic ==
  ASSUME TypeInv, Careful, Acyclic, [HierarchyNext]_hvars
  PROVE  Acyclic'
  <1>1. UNCHANGED <<objects, parents>> => Acyclic'
    BY SameAbove DEF Acyclic
  <1>2. CASE UNCHANGED <<objects, parents>>
    BY <1>1, <1>2
  <1>3. CASE Changes
    BY <1>1, <1>3, ChangeStep, GivenAcyclic
  <1>4. QED
    BY <1>2, <1>3 DEF HierarchyNext, Change, Search, hvars, hierarchy

LEMMA InitAcyclic == HierarchyInit => Acyclic
  <1>1. SUFFICES ASSUME HierarchyInit
                 PROVE  Acyclic
    OBVIOUS
  <1>2. objects = {ROOT_OBJ} /\ ParentsOf(ROOT_OBJ) = {}
    BY <1>1, NumberType DEF HierarchyInit, ParentsOf
  <1>3. Ancestors(ROOT_OBJ) \subseteq {}
    <2>1. Up({ROOT_OBJ} \cup {}) \subseteq {}
      BY <1>2 DEF Up
    <2>2. QED
      BY <2>1, AboveLeast
  <1>4. QED
    BY <1>2, <1>3 DEF Acyclic

(***************************************************************************)
(* chparents() and the compilation of an object, with the one test that    *)
(* check_parents() leaves out (that the object is not above a new parent), *)
(* never make an object its own ancestor: cloning, destroying objects and  *)
(* giving out their numbers do not either, whatever the lists of parents.  *)
(***************************************************************************)
THEOREM NoLoops == Careful => (HierarchySpec => []Acyclic)
  <1>1. SUFFICES ASSUME Careful
                 PROVE  HierarchySpec => []Acyclic
    OBVIOUS
  <1>2. HierarchyInit => TypeInv /\ Acyclic
    BY InitType, InitAcyclic
  <1>3. TypeInv /\ Acyclic /\ [HierarchyNext]_hvars => (TypeInv /\ Acyclic)'
    BY <1>1, NextType, NextAcyclic
  <1>4. QED
    BY <1>2, <1>3, PTL DEF HierarchySpec

-----------------------------------------------------------------------------
(* The calls on the stack.                                                 *)

\* They lead up from the object the search began with, each above those before it.
Reach(o) == {o} \cup Ancestors(o)
Path ==
    /\ stack # <<>> => stack[1].on = start
    /\ \A k \in DOMAIN stack : stack[k].on \in Reach(start)
    /\ \A i, j \in DOMAIN stack : i < j => stack[j].on \in Ancestors(stack[i].on)

\* A call returns, goes on, or calls itself for a parent.
Returned == Popped \/ \E k : Moved(k)
Called(p) == \E k, l : Pushed(k, p, l)

LEMMA ReturnedAt ==
  ASSUME TypeInv, stack # <<>>, Returned, NEW i \in DOMAIN stack'
  PROVE  i \in DOMAIN stack /\ stack'[i].on = stack[i].on
  <1>1. CASE Popped
    BY <1>1, PoppedAt
  <1>2. ASSUME NEW k, Moved(k)
        PROVE  i \in DOMAIN stack /\ stack'[i].on = stack[i].on
    BY <1>2, MovedAt, StackType DEF Call
  <1>3. QED
    BY <1>1, <1>2 DEF Returned

LEMMA CalledAt ==
  ASSUME TypeInv, stack # <<>>, NEW p, Called(p), NEW i \in DOMAIN stack'
  PROVE  \/ i \in DOMAIN stack /\ stack'[i].on = stack[i].on
         \/ i = Len(stack) + 1 /\ stack'[i].on = p
  <1>1. PICK k, l : Pushed(k, p, l)
    BY DEF Called
  <1>2. QED
    BY <1>1, PushedAt, StackType DEF Call

LEMMA PathStep ==
  ASSUME TypeInv, Path, UNCHANGED <<objects, parents, start>>, stack # <<>>,
         Returned \/ \E p \in objects : p \in ParentsOf(Current.on) /\ Called(p)
  PROVE  Path'
  <1>1. /\ Len(stack) \in Nat \ {0} /\ DOMAIN stack = 1..Len(stack) /\ Current = stack[Len(stack)]
        /\ Len(stack) \in DOMAIN stack /\ 1 \in DOMAIN stack
    BY StackType
  <1>2. \A o : Ancestors(o)' = Ancestors(o) /\ Reach(o)' = Reach(o)
    BY SameAbove DEF Reach
  <1>3. CASE Returned
    <2>1. \A i \in DOMAIN stack' : i \in DOMAIN stack /\ stack'[i].on = stack[i].on
      BY <1>3, ReturnedAt
    <2>2. stack' # <<>> => 1 \in DOMAIN stack'
      <3>1. stack' \in Seq(Calls)
        BY <1>3 DEF Returned, Popped, Moved
      <3>2. QED
        BY <3>1
    <2>3. QED
      BY <2>1, <2>2, <1>1, <1>2 DEF Path
  <1>4. ASSUME NEW p \in objects, p \in ParentsOf(Current.on), Called(p)
        PROVE  Path'
    <2>1. \A i \in DOMAIN stack' : \/ i \in DOMAIN stack /\ stack'[i].on = stack[i].on
                                   \/ i = Len(stack) + 1 /\ stack'[i].on = p
      BY <1>4, CalledAt
    <2>2. DOMAIN stack' = 1..Len(stack) + 1
      BY <1>1, <1>4 DEF Called, Pushed
    <2>3. p \in Ancestors(Current.on)
      BY <1>4, AboveStep
    <2>4. \A i \in DOMAIN stack : p \in Ancestors(stack[i].on)
      <3>1. SUFFICES ASSUME NEW i \in DOMAIN stack
                     PROVE  p \in Ancestors(stack[i].on)
        OBVIOUS
      <3>2. i < Len(stack) \/ i = Len(stack)
        BY <1>1
      <3>3. QED
        BY <3>2, <2>3, <1>1, AboveAbove DEF Path
    <2>5. stack'[1].on = start
      BY <2>1, <2>2, <1>1 DEF Path
    <2>6. p \in Reach(start)
      BY <2>4, <1>1 DEF Path, Reach
    <2>7. \A i \in DOMAIN stack' : stack'[i].on \in Reach(start)
      BY <2>1, <2>6 DEF Path
    <2>8. ASSUME NEW i \in DOMAIN stack', NEW j \in DOMAIN stack', i < j
          PROVE  stack'[j].on \in Ancestors(stack'[i].on)
      <3>1. i \in DOMAIN stack /\ stack'[i].on = stack[i].on
        BY <2>1, <2>2, <2>8, <1>1
      <3>2. QED
        BY <3>1, <2>1, <2>4, <2>8 DEF Path
    <2>9. QED
      BY <2>5, <2>7, <2>8, <1>2 DEF Path
  <1>5. QED
    BY <1>3, <1>4

LEMMA FmrParentPath ==
  ASSUME TypeInv, do_fmr_parent
  PROVE  Returned \/ \E p \in objects : p \in ParentsOf(Current.on) /\ Called(p)
  <1> DEFINE p == parents[Current.on][Current.at]
  <1>1. /\ stack # <<>> /\ Current.at \in DOMAIN parents[Current.on]
        /\ Moved(Current.at - 1) \/ (p \in objects /\ Pushed(Current.at - 1, p, Len(parents[p])))
    BY FmrParentStep
  <1>2. p \in ParentsOf(Current.on)
    BY <1>1 DEF ParentsOf
  <1> HIDE DEF p
  <1>3. QED
    BY <1>1, <1>2 DEF Returned, Called

LEMMA VarParentPath ==
  ASSUME TypeInv, var_parent
  PROVE  Returned \/ \E p \in objects : p \in ParentsOf(Current.on) /\ Called(p)
  <1> DEFINE p == parents[Current.on][Current.at]
  <1>1. \/ Popped
        \/ /\ Current.at \in DOMAIN parents[Current.on]
           /\ Moved(Current.at + 1) \/ (p \in objects /\ Pushed(Current.at + 1, p, 0))
    BY VarParentStep
  <1>2. Current.at \in DOMAIN parents[Current.on] => p \in ParentsOf(Current.on)
    BY DEF ParentsOf
  <1> HIDE DEF p
  <1>3. QED
    BY <1>1, <1>2 DEF Returned, Called

LEMMA NextPath ==
  ASSUME TypeInv, Path, [HierarchyNext]_hvars
  PROVE  Path'
  <1>1. stack' = <<>> => Path'
    BY DEF Path
  <1>2. CASE UNCHANGED hvars
    BY <1>2 DEF hvars, hierarchy, search, Path, Reach, Ancestors, Up, ParentsOf
  <1>3. CASE kind = "none" /\ UNCHANGED search
    BY <1>1, <1>3 DEF search, TypeInv
  <1>4. ASSUME Searches, UNCHANGED hierarchy
        PROVE  Path'
    <2>1. UNCHANGED <<objects, parents>>
      BY <1>4 DEF hierarchy
    <2>2. ASSUME NEW o \in Numbers, find_method_recursive(o) \/ var_get_global(o)
          PROVE  Path'
      <3>1. PICK k : stack' = <<Call(o, k)>> /\ start' = o
        BY <2>2 DEF find_method_recursive, var_get_global
      <3>2. stack'[1].on = o /\ DOMAIN stack' = {1} /\ Len(stack') = 1
        BY <3>1 DEF Call
      <3>3. QED
        BY <3>1, <3>2 DEF Path, Reach
    <2>3. CASE do_fmr_parent
      BY <2>1, <2>3, FmrParentPath, PathStep DEF do_fmr_parent
    <2>4. CASE do_fmr_object
      <3>1. start' = start /\ stack # <<>> /\ (stack' = <<>> \/ stack' = Below)
        BY <2>4 DEF do_fmr_object
      <3>2. stack' = Below => Path'
        BY <3>1, <2>1, PopStack, PathStep DEF Returned
      <3>3. QED
        BY <3>1, <3>2, <1>1
    <2>5. CASE var_look
      <3>1. start' = start /\ stack # <<>> /\ (stack' = <<>> \/ Moved(1))
        BY <2>5, VarLookStep DEF var_look
      <3>2. Moved(1) => Path'
        BY <3>1, <2>1, PathStep DEF Returned
      <3>3. QED
        BY <3>1, <3>2, <1>1
    <2>6. CASE var_parent
      BY <2>1, <2>6, VarParentPath, PathStep DEF var_parent
    <2>7. CASE Return
      BY <2>7, <1>1 DEF Return
    <2>8. QED
      BY <1>4, <2>2, <2>3, <2>4, <2>5, <2>6, <2>7 DEF Searches
  <1>5. QED
    BY <1>2, <1>3, <1>4 DEF HierarchyNext, Change, Search

\* On a path that does not close no object is twice.
LEMMA PathBounded ==
  ASSUME TypeInv, Path, Acyclic
  PROVE  StackBounded
  <1> DEFINE n == Len(stack)
             f == [k \in 1..n |-> stack[k].on]
  <1>1. n \in Nat /\ DOMAIN stack = 1..n
    BY DEF TypeInv, HierarchyTypeOK
  <1>2. f \in [1..n -> objects]
    BY <1>1 DEF TypeInv, HierarchyTypeOK
  <1>3. IsFiniteSet(objects) /\ IsFiniteSet(1..n) /\ Cardinality(1..n) = n
    <2> HIDE DEF n
    <2>1. IsFiniteSet(1..n) /\ Cardinality(1..n) = IF 1 > n THEN 0 ELSE n - 1 + 1
      BY <1>1, FS_Interval
    <2>2. QED
      BY <2>1, <1>1, ObjectType
  <1>4. Cardinality(objects) \in Nat
    BY <1>3, FS_CardinalityType
  <1>5. SUFFICES ASSUME n > Cardinality(objects)
                 PROVE  FALSE
    BY <1>1, <1>4 DEF StackBounded
  <1>6. PICK i, j \in 1..n : i # j /\ f[i] = f[j]
    <2>1. Cardinality(objects) < Cardinality(1..n)
      BY <1>1, <1>3, <1>4, <1>5
    <2> HIDE DEF n, f
    <2>2. QED
      BY <2>1, <1>2, <1>3, FS_PigeonHole
  <1>7. stack[i].on = stack[j].on /\ (i < j \/ j < i)
    BY <1>6, <1>1
  <1>8. stack[i].on \in objects /\ stack[i].on \notin Ancestors(stack[i].on)
    BY <1>1, <1>6 DEF TypeInv, HierarchyTypeOK, Acyclic
  <1>9. QED
    BY <1>1, <1>6, <1>7, <1>8 DEF Path

LEMMA Paths == HierarchySpec => [](TypeInv /\ Path)
  <1>1. HierarchyInit => Path
    BY DEF HierarchyInit, Path
  <1>2. TypeInv /\ Path /\ [HierarchyNext]_hvars => (TypeInv /\ Path)'
    BY NextType, NextPath
  <1>3. QED
    BY InitType, <1>1, <1>2, PTL DEF HierarchySpec

(***************************************************************************)
(* While there is no loop a search calls itself no deeper than there are   *)
(* objects, however often their lists of parents meet (do_fmr() and        *)
(* var_get_global() have no other limit); with the test that               *)
(* check_parents() leaves out there never is one.                          *)
(***************************************************************************)
THEOREM SearchesBounded ==
    /\ HierarchySpec => [](Acyclic => StackBounded)
    /\ Careful => (HierarchySpec => []StackBounded)
  <1>1. TypeInv /\ Path => (Acyclic => StackBounded)
    BY PathBounded
  <1>2. HierarchySpec => [](Acyclic => StackBounded)
    BY <1>1, Paths, PTL
  <1>3. ASSUME Careful
        PROVE  HierarchySpec => []StackBounded
    <2>1. HierarchySpec => []Acyclic
      BY <1>3, NoLoops
    <2>2. QED
      BY <2>1, <1>2, PTL
  <1>4. QED
    BY <1>2, <1>3

-----------------------------------------------------------------------------
(* The search for a method.                                                *)

\* A parent is gone, or has been searched, or is the one the next call is for.
Handled(k, p) ==
    p \notin objects \/ p \in searched \/ (k < Len(stack) /\ p = stack[k + 1].on)
Done ==
    \A k \in DOMAIN stack : \A j \in DOMAIN parents[stack[k].on] :
        j > stack[k].at => Handled(k, parents[stack[k].on][j])

\* With an object all above it has been searched, and no object that is being searched is marked.
Marked ==
    /\ searched \subseteq Reach(start) /\ Up(searched) \subseteq searched
    /\ \A k \in DOMAIN stack : stack[k].on \notin searched

\* A blocked definition with no other above it; or, with none searched that is blocked, one that
\* no object searched redefines.
Blocked ==
    /\ stack = <<>> /\ found \in Reach(start) /\ method[found] = "blocked"
    /\ \A p \in Ancestors(found) : method[p] # "blocked"
Nearest ==
    /\ stack = <<>> => start \in searched
    /\ \A p \in searched : method[p] # "blocked"
    /\ \/ found = 0 /\ \A p \in searched : method[p] = "none"
       \/ /\ found \in searched /\ method[found] # "none"
          /\ \A d \in searched : method[d] # "none" => found \notin Ancestors(d)

MethodInv == kind = "method" => Done /\ Marked /\ (Blocked \/ Nearest)

LEMMA SearchedAbove ==
  ASSUME TypeInv, Marked, NEW o \in searched
  PROVE  Ancestors(o) \subseteq searched
  <1>1. searched \subseteq objects
    BY DEF TypeInv, HierarchyTypeOK
  <1>2. QED
    BY <1>1, AboveWithin DEF Marked

\* A call to search starts with nothing done.
LEMMA StartMethod ==
  ASSUME TypeInv, NEW o \in Numbers, find_method_recursive(o), UNCHANGED hierarchy
  PROVE  MethodInv'
  <1>1. /\ stack' = <<Call(o, Len(parents[o]))>> /\ searched' = {} /\ found' = 0 /\ start' = o
        /\ UNCHANGED <<objects, parents, method>>
    BY DEF find_method_recursive, TypeInv, hierarchy
  <1>2. stack' # <<>> /\ DOMAIN stack' = {1} /\ stack'[1].on = o /\ stack'[1].at = Len(parents[o])
    BY <1>1 DEF Call
  <1>3. DOMAIN parents[o] = 1..Len(parents[o]) /\ Len(parents[o]) \in Nat
    BY PlaceType
  <1>4. Done'
    BY <1>1, <1>2, <1>3 DEF Done
  <1>5. Marked' /\ Nearest'
    BY <1>1, <1>2 DEF Marked, Nearest, Up
  <1>6. QED
    BY <1>4, <1>5 DEF MethodInv

\* What was handled at a place of a call that has another above it still is.
LEMMA ParentDone ==
  ASSUME TypeInv, MethodInv, do_fmr_parent, UNCHANGED hierarchy
  PROVE  Done'
  <1> DEFINE p == parents[Current.on][Current.at]
             n == Len(stack)
  <1>1. /\ kind = "method" /\ stack # <<>> /\ Current.at \in Nat /\ Current.on \in Numbers
        /\ n \in Nat \ {0} /\ DOMAIN stack = 1..n /\ Current = stack[n] /\ n \in DOMAIN stack
    BY FmrParentStep, StackType
  <1>2. UNCHANGED <<objects, parents, searched>>
    BY DEF do_fmr_parent, hierarchy
  <1>3. DOMAIN parents[Current.on] = 1..Len(parents[Current.on]) /\ Len(parents[Current.on]) \in Nat
    BY <1>1, PlaceType
  <1>4. \A j \in DOMAIN parents[Current.on] :
           j > Current.at => LET q == parents[Current.on][j] IN q \notin objects \/ q \in searched
    BY <1>1 DEF MethodInv, Done, Handled
  <1>5. \A j \in DOMAIN parents[Current.on] : j > Current.at - 1 => j = Current.at \/ j > Current.at
    BY <1>1, <1>3
  <1>6. ASSUME NEW i \in DOMAIN stack, i < n, n <= Len(stack'),
               \A k \in 1..n : stack'[k].on = stack[k].on, stack'[i].at = stack[i].at
        PROVE  \A j \in DOMAIN parents'[stack'[i].on] :
                  j > stack'[i].at => Handled(i, parents[stack[i].on][j])'
    <2>1. i + 1 \in 1..n /\ i \in 1..n
      BY <1>1, <1>6
    <2>2. stack'[i].on = stack[i].on /\ stack'[i + 1].on = stack[i + 1].on
      BY <2>1, <1>6
    <2>3. Len(stack') \in Nat
      BY SearchFits DEF Searches, Fits
    <2>4. i < Len(stack')
      BY <2>1, <2>3, <1>1, <1>6
    <2>5. QED
      BY <2>2, <2>4, <1>1, <1>2, <1>6 DEF MethodInv, Done, Handled
  <1>7. CASE (p \notin objects \/ p \in searched) /\ Moved(Current.at - 1)
    <2>1. Len(stack') = n /\ \A k \in 1..n : stack'[k].on = stack[k].on
      BY <1>1, <1>7, LastOf DEF Moved, Call
    <2>2. ASSUME NEW i \in DOMAIN stack'
          PROVE  \A j \in DOMAIN parents'[stack'[i].on] :
                    j > stack'[i].at => Handled(i, parents[stack[i].on][j])'
      <3>1. i \in DOMAIN stack
        BY <1>1, <1>7, MovedAt
      <3>2. CASE i < n /\ stack'[i] = stack[i]
        BY <3>1, <3>2, <2>1, <1>1, <1>6
      <3>3. CASE i = n /\ stack'[i] = Call(Current.on, Current.at - 1)
        BY <3>3, <1>1, <1>2, <1>4, <1>5, <1>7 DEF Handled, Call
      <3>4. QED
        BY <3>2, <3>3, <1>1, <1>7, MovedAt
    <2>3. QED
      BY <2>2 DEF Done
  <1>8. CASE p \in objects /\ p \notin searched /\ Pushed(Current.at - 1, p, Len(parents[p]))
    <2>1. Len(stack') = n + 1 /\ \A k \in 1..n : stack'[k].on = stack[k].on
      BY <1>1, <1>8, LastOf DEF Pushed, Call
    <2>2. stack'[n + 1].on = p /\ stack'[n + 1].at = Len(parents[p])
      BY <1>8 DEF Pushed, Call
    <2>3. ASSUME NEW i \in DOMAIN stack'
          PROVE  \A j \in DOMAIN parents'[stack'[i].on] :
                    j > stack'[i].at => Handled(i, parents[stack[i].on][j])'
      <3>1. CASE i \in DOMAIN stack /\ i < n /\ stack'[i] = stack[i]
        BY <3>1, <2>1, <1>1, <1>6
      <3>2. CASE i \in DOMAIN stack /\ i = n /\ stack'[i] = Call(Current.on, Current.at - 1)
        BY <3>2, <2>1, <2>2, <1>1, <1>2, <1>4, <1>5 DEF Handled, Call
      <3>3. CASE i = n + 1
        <4>1. DOMAIN parents[p] = 1..Len(parents[p])
          BY <1>8, ObjectType, PlaceType
        <4>2. QED
          BY <3>3, <4>1, <2>2, <1>2, ObjectType, <1>8
      <3>4. QED
        BY <3>1, <3>2, <3>3, <1>1, <1>8, PushedAt
    <2>4. QED
      BY <2>3 DEF Done
  <1>9. QED
    BY <1>7, <1>8, FmrParentStep

LEMMA ParentMarked ==
  ASSUME TypeInv, MethodInv, do_fmr_parent, UNCHANGED hierarchy
  PROVE  Marked' /\ Nearest'
  <1> DEFINE p == parents[Current.on][Current.at]
  <1>1. kind = "method" /\ stack # <<>> /\ Len(stack) \in Nat \ {0}
    BY FmrParentStep, StackType
  <1>2. UNCHANGED <<objects, parents, method, searched, found, start>>
    BY DEF do_fmr_parent, hierarchy
  <1>3. \/ Moved(Current.at - 1)
        \/ p \notin searched /\ Pushed(Current.at - 1, p, Len(parents[p]))
    BY FmrParentStep
  <1>4. stack' # <<>>
    BY <1>1, <1>3 DEF Moved, Pushed
  <1>5. \A i \in DOMAIN stack' : stack'[i].on \notin searched
    <2>1. \A i \in DOMAIN stack : stack[i].on \notin searched
      BY <1>1 DEF MethodInv, Marked
    <2>2. CASE Moved(Current.at - 1)
      BY <2>1, <2>2, <1>1, ReturnedAt DEF Returned
    <2>3. CASE p \notin searched /\ Pushed(Current.at - 1, p, Len(parents[p]))
      <3>1. Called(p)
        BY <2>3 DEF Called
      <3>2. QED
        BY <2>1, <2>3, <3>1, <1>1, CalledAt
    <2>4. QED
      BY <1>3, <2>2, <2>3
  <1>6. /\ \A o : Ancestors(o)' = Ancestors(o) /\ Reach(o)' = Reach(o)
        /\ \A S : Up(S)' = Up(S)
    BY <1>2, SameAbove DEF Reach
  <1>7. Marked /\ Nearest
    BY <1>1 DEF MethodInv, Blocked
  <1>8. Marked'
    BY <1>2, <1>5, <1>6, <1>7 DEF Marked
  <1>9. Nearest'
    BY <1>2, <1>4, <1>6, <1>7 DEF Nearest
  <1>10. QED
    BY <1>8, <1>9

\* The object itself, when all its parents have been handled.
LEMMA ObjectSearched ==
  ASSUME TypeInv, Path, Acyclic, MethodInv, do_fmr_object, UNCHANGED hierarchy
  PROVE  MethodInv'
  <1> DEFINE t == Current.on
             n == Len(stack)
  <1>1. /\ kind = "method" /\ stack # <<>> /\ Current.at = 0 /\ searched' = searched \cup {t}
        /\ UNCHANGED <<objects, parents, method, start, kind>>
    BY DEF do_fmr_object, hierarchy
  <1>2. /\ n \in Nat \ {0} /\ DOMAIN stack = 1..n /\ Current = stack[n] /\ n \in DOMAIN stack
        /\ 1 \in DOMAIN stack /\ t \in objects /\ t \in Numbers
    BY <1>1, StackType
  <1>3. Done /\ Marked /\ Nearest
    BY <1>1 DEF MethodInv, Blocked
  <1>4. /\ \A o : Ancestors(o)' = Ancestors(o) /\ Reach(o)' = Reach(o)
        /\ \A S : Up(S)' = Up(S)
    BY <1>1, SameAbove DEF Reach
  <1>5. t \notin searched /\ t \in Reach(start) /\ t \notin Ancestors(t)
    BY <1>2, <1>3 DEF Marked, Path, Acyclic
  <1>6. \A q \in objects : q \in ParentsOf(t) => q \in searched
    <2>1. DOMAIN parents[t] = 1..Len(parents[t]) /\ Len(parents[t]) \in Nat
      BY <1>2, PlaceType
    <2>2. \A j \in DOMAIN parents[t] : j > 0
      BY <2>1
    <2>3. \A j \in DOMAIN parents[t] : Handled(n, parents[t][j])
      BY <2>2, <1>1, <1>2, <1>3 DEF Done
    <2>4. QED
      BY <2>3, <1>2 DEF Handled, ParentsOf
  <1>7. Up(searched \cup {t}) \subseteq searched
    BY <1>3, <1>6 DEF Up, Marked
  <1>8. Ancestors(t) \subseteq searched
    <2>1. searched \subseteq objects /\ {t} \cup searched = searched \cup {t}
      BY DEF TypeInv, HierarchyTypeOK
    <2>2. QED
      BY <2>1, <1>7, AboveLeast
  <1>9. stack' = <<>> \/ Popped
    BY <1>1, PopStack DEF do_fmr_object
  <1>10. \A i \in DOMAIN stack' : i \in DOMAIN stack /\ i < n /\ stack'[i] = stack[i]
    BY <1>1, <1>9, PoppedAt
  <1>11. Done'
    <2>1. ASSUME NEW i \in DOMAIN stack', NEW q, Handled(i, q)
          PROVE  Handled(i, q)'
      <3>1. CASE q \notin objects \/ q \in searched
        BY <3>1, <1>1 DEF Handled
      <3>2. CASE i < n /\ q = stack[i + 1].on
        <4>1. CASE i + 1 = n
          BY <4>1, <3>2, <1>1, <1>2 DEF Handled
        <4>2. CASE i + 1 # n
          <5>1. Popped
            BY <1>9, <2>1
          <5>2. i + 1 \in 1..n - 1 /\ i < n - 1
            BY <4>2, <1>2, <1>10, <2>1
          <5>3. QED
            BY <5>1, <5>2, <3>2 DEF Popped, Handled
        <4>3. QED
          BY <4>1, <4>2
      <3>3. QED
        BY <3>1, <3>2, <2>1 DEF Handled
    <2>2. ASSUME NEW i \in DOMAIN stack', NEW j \in DOMAIN parents[stack[i].on], j > stack[i].at
          PROVE  Handled(i, parents[stack[i].on][j])
      BY <2>2, <1>3, <1>10 DEF Done
    <2>3. ASSUME NEW i \in DOMAIN stack', NEW j \in DOMAIN parents'[stack'[i].on],
                 j > stack'[i].at
          PROVE  Handled(i, parents[stack[i].on][j])'
      <3>1. stack'[i] = stack[i] /\ parents' = parents
        BY <1>1, <1>10
      <3>2. \E q : q = parents[stack[i].on][j] /\ Handled(i, q)
        BY <3>1, <2>2, <2>3
      <3>3. \E q : q = parents[stack[i].on][j] /\ Handled(i, q)'
        BY <3>2, <2>1
      <3>4. QED
        BY <3>1, <3>3
    <2>4. QED
      BY <2>3 DEF Done
  <1>12. Marked'
    <2>1. \A i \in DOMAIN stack' : stack'[i].on \notin searched'
      <3>1. SUFFICES ASSUME NEW i \in DOMAIN stack'
                     PROVE  stack[i].on \notin searched /\ stack[i].on # t
        BY <1>1, <1>10
      <3>2. i \in DOMAIN stack /\ i < n
        BY <1>10
      <3>3. t \in Ancestors(stack[i].on)
        BY <3>2, <1>2 DEF Path
      <3>4. QED
        BY <3>2, <3>3, <1>3, <1>5 DEF Marked
    <2>2. Up(searched)' \subseteq searched'
      BY <1>1, <1>4, <1>7
    <2>3. QED
      BY <2>1, <1>1, <1>3, <1>4, <1>5, <1>7 DEF Marked
  <1>13. CASE method[t] = "blocked"
    <2>1. stack' = <<>> /\ found' = t
      BY <1>13, <1>1 DEF do_fmr_object
    <2>2. \A p \in Ancestors(t) : method[p] # "blocked"
      BY <1>3, <1>8 DEF Nearest
    <2>3. Blocked'
      BY <2>1, <2>2, <1>1, <1>4, <1>5, <1>13 DEF Blocked
    <2>4. QED
      BY <2>3, <1>11, <1>12 DEF MethodInv
  <1>14. CASE method[t] # "blocked"
    <2>1. stack' = <<>> => start \in searched'
      <3>1. Popped
        BY <1>1, <1>14, PopStack DEF do_fmr_object
      <3>2. stack' = <<>> => n = 1
        BY <3>1, <1>2 DEF Popped
      <3>3. QED
        BY <3>2, <1>1, <1>2 DEF Path
    <2>2. \A p \in searched' : method[p] # "blocked"
      BY <1>1, <1>3, <1>14 DEF Nearest
    <2>3. \/ found' = 0 /\ \A p \in searched' : method[p] = "none"
          \/ /\ found' \in searched' /\ method[found'] # "none"
             /\ \A d \in searched' : method[d] # "none" => found' \notin Ancestors(d)
      <3>1. CASE method[t] = "none"
        BY <3>1, <1>1, <1>3 DEF do_fmr_object, Nearest
      <3>2. CASE method[t] # "none"
        <4>1. found' = t
          BY <3>2 DEF do_fmr_object
        <4>2. \A d \in searched : t \notin Ancestors(d)
          BY <1>3, <1>5, SearchedAbove
        <4>3. QED
          BY <4>1, <4>2, <3>2, <1>1, <1>5
      <3>3. QED
        BY <3>1, <3>2
    <2>4. Nearest'
      BY <2>1, <2>2, <2>3, <1>1, <1>4 DEF Nearest
    <2>5. QED
      BY <2>4, <1>11, <1>12 DEF MethodInv
  <1>15. QED
    BY <1>13, <1>14

LEMMA NextMethod ==
  ASSUME TypeInv, Path, Acyclic => MethodInv, [HierarchyNext]_hvars
  PROVE  Acyclic' => MethodInv'
  <1>1. SUFFICES ASSUME Acyclic'
                 PROVE  MethodInv'
    OBVIOUS
  <1>2. kind' # "method" => MethodInv'
    BY DEF MethodInv
  <1>3. CASE kind = "none" /\ UNCHANGED search
    BY <1>2, <1>3 DEF search
  <1>4. UNCHANGED hierarchy => Acyclic
    BY <1>1, SameAbove DEF hierarchy, Acyclic
  <1>5. CASE UNCHANGED hvars
    <2>1. MethodInv /\ UNCHANGED <<objects, parents, method, kind, start, stack, searched, found>>
      BY <1>4, <1>5 DEF hvars, hierarchy, search
    <2>2. /\ \A o : Ancestors(o)' = Ancestors(o) /\ Reach(o)' = Reach(o)
          /\ \A S : Up(S)' = Up(S)
      BY <2>1, SameAbove DEF Reach
    <2>3. Done => Done'
      BY <2>1 DEF Done, Handled
    <2>4. (Marked => Marked') /\ (Blocked => Blocked') /\ (Nearest => Nearest')
      BY <2>1, <2>2 DEF Marked, Blocked, Nearest
    <2>5. QED
      BY <2>1, <2>3, <2>4 DEF MethodInv
  <1>6. CASE Searches /\ UNCHANGED hierarchy
    <2>1. Acyclic /\ MethodInv
      BY <1>4, <1>6
    <2>2. ASSUME NEW o \in Numbers, find_method_recursive(o)
          PROVE  MethodInv'
      BY <2>2, <1>6, StartMethod
    <2>3. CASE do_fmr_parent
      BY <2>1, <2>3, <1>6, ParentDone, ParentMarked DEF MethodInv
    <2>4. CASE do_fmr_object
      BY <2>1, <2>4, <1>6, ObjectSearched
    <2>5. CASE Return \/ var_look \/ var_parent \/ \E o \in Numbers : var_get_global(o)
      BY <2>5, <1>2 DEF Return, var_look, var_parent, var_get_global
    <2>6. QED
      BY <1>6, <2>2, <2>3, <2>4, <2>5 DEF Searches
  <1>7. QED
    BY <1>3, <1>5, <1>6 DEF HierarchyNext, Change, Search

\* When it ends it has searched the object and all above it, or met what is blocked.
LEMMA MethodEnd ==
  ASSUME TypeInv, MethodInv
  PROVE  MethodFound
  <1>1. SUFFICES ASSUME kind = "method", stack = <<>>
                 PROVE  MethodFound
    BY DEF MethodFound
  <1> DEFINE all == {start} \cup Ancestors(start)
             defined == {p \in all : method[p] # "none"}
             blocked == {p \in all : method[p] = "blocked"}
  <1>2. CASE Blocked
    <2>1. found \in blocked /\ found \in defined /\ blocked \cap Ancestors(found) = {}
      BY <1>2 DEF Blocked, Reach
    <2>2. QED
      BY <2>1 DEF MethodFound
  <1>3. CASE Nearest
    <2>1. searched = all
      <3>1. start \in searched /\ Marked
        BY <1>1, <1>3 DEF Nearest, MethodInv
      <3>2. QED
        BY <3>1, SearchedAbove DEF Marked, Reach
    <2>2. blocked = {}
      BY <2>1, <1>3 DEF Nearest
    <2>3. CASE found = 0 /\ \A p \in searched : method[p] = "none"
      <3>1. defined = {}
        BY <2>1, <2>3
      <3>2. QED
        BY <3>1, <2>3 DEF MethodFound
    <2>4. CASE /\ found \in searched /\ method[found] # "none"
               /\ \A d \in searched : method[d] # "none" => found \notin Ancestors(d)
      <3>1. found \in defined /\ \A d \in defined : found \notin Ancestors(d)
        BY <2>1, <2>4
      <3>2. QED
        BY <3>1, <2>2 DEF MethodFound
    <2>5. QED
      BY <2>3, <2>4, <1>3 DEF Nearest
  <1>4. QED
    BY <1>1, <1>2, <1>3 DEF MethodInv

(***************************************************************************)
(* Where there is no loop, do_fmr() finds the definition that no heir      *)
(* redefines, or a blocked one with none above it, whichever objects have  *)
(* been destroyed and however the lists of parents meet: marking objects   *)
(* with search_gen neither hides one nor finds one twice.  With the test   *)
(* that check_parents() leaves out, every search does.                     *)
(***************************************************************************)
THEOREM MethodsFound ==
    /\ HierarchySpec => [](Acyclic => MethodFound)
    /\ Careful => (HierarchySpec => []MethodFound)
  <1>1. HierarchyInit => (Acyclic => MethodInv)
    BY DEF HierarchyInit, MethodInv
  <1>2. (TypeInv /\ Path) /\ (Acyclic => MethodInv) /\ [HierarchyNext]_hvars
          => (Acyclic => MethodInv)'
    BY NextMethod
  <1>3. HierarchySpec => [](Acyclic => MethodInv)
    BY <1>1, <1>2, Paths, PTL DEF HierarchySpec
  <1>4. TypeInv /\ Path /\ (Acyclic => MethodInv) => (Acyclic => MethodFound)
    BY MethodEnd
  <1>5. HierarchySpec => [](Acyclic => MethodFound)
    BY <1>3, <1>4, Paths, PTL
  <1>6. ASSUME Careful
        PROVE  HierarchySpec => []MethodFound
    <2>1. HierarchySpec => []Acyclic
      BY <1>6, NoLoops
    <2>2. QED
      BY <2>1, <1>5, PTL
  <1>7. QED
    BY <1>5, <1>6

-----------------------------------------------------------------------------
(* The search for a variable.                                              *)

LEMMA PlainSelf ==
  ASSUME NEW o \in objects
  PROVE  o \in Plain(o)
  BY DEF Plain

LEMMA PlainUp ==
  ASSUME NEW o, NEW q \in Plain(o), q \notin variable, NEW p \in objects, p \in ParentsOf(q)
  PROVE  p \in Plain(o)
  <1>1. ASSUME NEW S \in SUBSET objects, o \in S, Up(S \ variable) \subseteq S
        PROVE  p \in S
    <2>1. q \in S
      BY <1>1 DEF Plain
    <2>2. p \in Up(S \ variable)
      BY <2>1 DEF Up
    <2>3. QED
      BY <2>2, <1>1
  <1>2. QED
    BY <1>1 DEF Plain

\* None is found from o.
Barren(o) == Plain(o) \cap variable = {}

LEMMA BarrenParents ==
  ASSUME NEW o \in objects, o \notin variable,
         \A p \in objects : p \in ParentsOf(o) => Barren(p)
  PROVE  Barren(o)
  <1> DEFINE S == {o} \cup {x \in objects : \E p \in objects : p \in ParentsOf(o) /\ x \in Plain(p)}
  <1>1. S \subseteq objects /\ o \in S
    OBVIOUS
  <1>2. Up(S \ variable) \subseteq S
    <2>1. SUFFICES ASSUME NEW x \in S, x \notin variable, NEW p \in objects, p \in ParentsOf(x)
                   PROVE  p \in S
      BY DEF Up
    <2>2. CASE x = o
      BY <2>1, <2>2, PlainSelf
    <2>3. CASE x # o
      <3>1. PICK r \in objects : r \in ParentsOf(o) /\ x \in Plain(r)
        BY <2>3
      <3>2. p \in Plain(r)
        BY <2>1, <3>1, PlainUp
      <3>3. QED
        BY <3>1, <3>2
    <2>4. QED
      BY <2>2, <2>3
  <1>3. S \cap variable = {}
    BY DEF Barren
  <1>4. Plain(o) \subseteq S
    <2> HIDE DEF S
    <2>1. QED
      BY <1>1, <1>2 DEF Plain
  <1>5. QED
    BY <1>3, <1>4 DEF Barren

\* A parent is gone, or none was found from it, or it is the one the next call is for.
Passed(k, p) ==
    p \notin objects \/ Barren(p) \/ (k < Len(stack) /\ p = stack[k + 1].on)
CallAsked(k) ==
    /\ k < Len(stack) => stack[k].at > 0
    /\ stack[k].at > 0 => stack[k].on \notin variable
    /\ \A j \in DOMAIN parents[stack[k].on] :
          j < stack[k].at => Passed(k, parents[stack[k].on][j])
    /\ stack[k].on \in Plain(start)
Asked == \A k \in DOMAIN stack : CallAsked(k)
Result ==
    \/ stack = <<>> /\ found \in variable \cap Plain(start)
    \/ found = 0 /\ (stack = <<>> => Barren(start))

VarInv == kind = "variable" => Asked /\ Result

LEMMA SamePlain ==
  ASSUME UNCHANGED <<objects, parents, variable>>
  PROVE  \A o : Plain(o)' = Plain(o) /\ Barren(o)' = Barren(o)
  BY DEF Plain, Barren, Up, ParentsOf

\* A call whose place has not changed, and that has the same one above it or one that has failed.
LEMMA StillAsked ==
  ASSUME TypeInv, VarInv, kind = "variable", stack # <<>>,
         UNCHANGED <<objects, parents, variable, start>>,
         NEW i \in DOMAIN stack, i < Len(stack), stack'[i] = stack[i], Len(stack') \in Nat,
         \/ i < Len(stack') /\ stack'[i + 1].on = stack[i + 1].on
         \/ i + 1 = Len(stack) /\ i = Len(stack') /\ Barren(Current.on)
  PROVE  CallAsked(i)'
  <1>1. CallAsked(i)
    BY DEF VarInv, Asked
  <1>2. \A o : Plain(o)' = Plain(o) /\ Barren(o)' = Barren(o)
    BY SamePlain
  <1>3. ASSUME NEW q, Passed(i, q)
        PROVE  Passed(i, q)'
    <2>1. CASE q \notin objects \/ Barren(q)
      BY <2>1, <1>2 DEF Passed
    <2>2. CASE q = stack[i + 1].on
      BY <2>2, <1>2, StackType DEF Passed
    <2>3. QED
      BY <1>3, <2>1, <2>2 DEF Passed
  <1>4. ASSUME NEW j \in DOMAIN parents'[stack'[i].on], j < stack'[i].at
        PROVE  Passed(i, parents[stack[i].on][j])'
    <2>1. \E q : q = parents[stack[i].on][j] /\ Passed(i, q)
      BY <1>1, <1>4 DEF CallAsked
    <2>2. \E q : q = parents[stack[i].on][j] /\ Passed(i, q)'
      BY <2>1, <1>3
    <2>3. QED
      BY <2>2
  <1>5. QED
    BY <1>1, <1>2, <1>4 DEF CallAsked

LEMMA StartVariable ==
  ASSUME TypeInv, NEW o \in Numbers, var_get_global(o), UNCHANGED hierarchy
  PROVE  VarInv'
  <1>1. /\ stack' = <<Call(o, 0)>> /\ found' = 0 /\ start' = o /\ o \in objects
        /\ UNCHANGED <<objects, parents, variable>>
    BY DEF var_get_global, TypeInv, hierarchy
  <1>2. /\ stack' # <<>> /\ DOMAIN stack' = {1} /\ Len(stack') = 1
        /\ stack'[1].on = o /\ stack'[1].at = 0
    BY <1>1 DEF Call
  <1>3. DOMAIN parents[o] = 1..Len(parents[o]) /\ Len(parents[o]) \in Nat
    BY PlaceType
  <1>4. o \in Plain(o)'
    BY <1>1, PlainSelf, SamePlain
  <1>5. CallAsked(1)'
    BY <1>1, <1>2, <1>3, <1>4 DEF CallAsked
  <1>6. QED
    BY <1>1, <1>2, <1>5 DEF VarInv, Asked, Result

LEMMA LookAsked ==
  ASSUME TypeInv, VarInv, var_look, UNCHANGED hierarchy
  PROVE  VarInv'
  <1> DEFINE t == Current.on
             n == Len(stack)
  <1>1. kind = "variable" /\ stack # <<>> /\ UNCHANGED <<objects, parents, variable, start, kind>>
    BY DEF var_look, hierarchy
  <1>2. /\ n \in Nat \ {0} /\ DOMAIN stack = 1..n /\ Current = stack[n] /\ n \in DOMAIN stack
        /\ t \in objects /\ t \in Numbers
    BY <1>1, StackType
  <1>3. CallAsked(n) /\ found = 0
    BY <1>1, <1>2 DEF VarInv, Asked, Result
  <1>4. \A o : Plain(o)' = Plain(o) /\ Barren(o)' = Barren(o)
    BY <1>1, SamePlain
  <1>5. CASE t \in variable /\ found' = t /\ stack' = <<>>
    BY <1>1, <1>2, <1>3, <1>4, <1>5 DEF VarInv, Asked, Result, CallAsked
  <1>6. CASE t \notin variable /\ found' = found /\ Moved(1)
    <2>1. Len(stack') = n /\ \A k \in 1..n : stack'[k].on = stack[k].on
      BY <1>1, <1>2, <1>6, LastOf DEF Moved, Call
    <2>2. DOMAIN parents[t] = 1..Len(parents[t]) /\ Len(parents[t]) \in Nat
      BY <1>2, PlaceType
    <2>3. ASSUME NEW i \in DOMAIN stack'
          PROVE  CallAsked(i)'
      <3>1. i \in DOMAIN stack
        BY <1>1, <1>6, MovedAt
      <3>2. CASE i < n /\ stack'[i] = stack[i]
        <4>1. i + 1 \in 1..n /\ i < Len(stack') /\ Len(stack') \in Nat
          BY <3>1, <3>2, <2>1, <1>2
        <4>2. stack'[i + 1].on = stack[i + 1].on
          BY <4>1, <2>1
        <4>3. QED
          BY <4>1, <4>2, <3>1, <3>2, <1>1, StillAsked
      <3>3. CASE i = n /\ stack'[i] = Call(t, 1)
        <4>1. stack'[i].on = t /\ stack'[i].at = 1 /\ ~(i < Len(stack'))
          BY <3>3, <2>1, <1>2 DEF Call
        <4>2. \A j \in DOMAIN parents[t] : ~(j < 1)
          BY <2>2
        <4>3. t \in Plain(start)
          BY <1>2, <1>3 DEF CallAsked
        <4>4. QED
          BY <4>1, <4>2, <4>3, <1>1, <1>4, <1>6 DEF CallAsked
      <3>4. QED
        BY <3>2, <3>3, <1>1, <1>6, MovedAt
    <2>4. stack' # <<>>
      BY <2>1, <1>2
    <2>5. QED
      BY <2>3, <2>4, <1>3, <1>6 DEF VarInv, Asked, Result
  <1>7. QED
    BY <1>5, <1>6, VarLookStep

LEMMA ParentAsked ==
  ASSUME TypeInv, Path, VarInv, var_parent, UNCHANGED hierarchy
  PROVE  VarInv'
  <1> DEFINE t == Current.on
             n == Len(stack)
             p == parents[Current.on][Current.at]
  <1>1. /\ kind = "variable" /\ stack # <<>> /\ Current.at > 0
        /\ UNCHANGED <<objects, parents, variable, start, kind, found>>
    BY DEF var_parent, hierarchy
  <1>2. /\ n \in Nat \ {0} /\ DOMAIN stack = 1..n /\ Current = stack[n] /\ n \in DOMAIN stack
        /\ t \in objects /\ t \in Numbers /\ Current.at \in Nat
    BY <1>1, StackType
  <1>3. found' = 0 /\ t \notin variable /\ t \in Plain(start)
    BY <1>1, <1>2 DEF VarInv, Asked, Result, CallAsked
  <1>4. \A o : Plain(o)' = Plain(o) /\ Barren(o)' = Barren(o)
    BY <1>1, SamePlain
  <1>5. DOMAIN parents[t] = 1..Len(parents[t]) /\ Len(parents[t]) \in Nat
    BY <1>2, PlaceType
  <1>6. \A j \in DOMAIN parents[t] :
           j < Current.at => LET q == parents[t][j] IN q \notin objects \/ Barren(q)
    BY <1>1, <1>2 DEF VarInv, Asked, CallAsked, Passed
  <1>7. \A j \in DOMAIN parents[t] : j < Current.at + 1 => j = Current.at \/ j < Current.at
    BY <1>2, <1>5
  <1>8. CASE Current.at > Len(parents[t]) /\ Popped
    <2>1. Barren(t)
      <3>1. \A j \in DOMAIN parents[t] : j < Current.at
        BY <1>2, <1>5, <1>8
      <3>2. \A q \in objects : q \in ParentsOf(t) => Barren(q)
        BY <3>1, <1>6 DEF ParentsOf
      <3>3. QED
        BY <3>2, <1>2, <1>3, BarrenParents
    <2>2. Len(stack') = n - 1 /\ stack' \in Seq(Calls)
      BY <1>8 DEF Popped
    <2>3. ASSUME NEW i \in DOMAIN stack'
          PROVE  CallAsked(i)'
      <3>1. i \in DOMAIN stack /\ i < n /\ stack'[i] = stack[i]
        BY <1>1, <1>8, PoppedAt
      <3>2. Len(stack') \in Nat
        BY <2>2
      <3>3. CASE i + 1 = n
        <4>1. i = Len(stack')
          BY <3>1, <3>3, <2>2, <1>2
        <4>2. QED
          BY <4>1, <3>1, <3>2, <3>3, <2>1, <1>1, StillAsked
      <3>4. CASE i + 1 # n
        <4>1. i < Len(stack') /\ i + 1 \in 1..n - 1
          BY <3>1, <3>4, <2>2, <1>2
        <4>2. stack'[i + 1].on = stack[i + 1].on
          BY <4>1, <1>8 DEF Popped
        <4>3. QED
          BY <4>1, <4>2, <3>1, <3>2, <1>1, StillAsked
      <3>5. QED
        BY <3>3, <3>4
    <2>4. stack' = <<>> => Barren(start)'
      <3>1. stack' = <<>> => n = 1
        BY <2>2, <1>2
      <3>2. stack' = <<>> => t = start
        BY <3>1, <1>1, <1>2 DEF Path
      <3>3. QED
        BY <3>2, <2>1, <1>1, <1>4
    <2>5. QED
      BY <2>3, <2>4, <1>3 DEF VarInv, Asked, Result
  <1>9. ASSUME Current.at \in DOMAIN parents[t], n <= Len(stack'), Len(stack') \in Nat,
               \A k \in 1..n : stack'[k].on = stack[k].on,
               p \notin objects \/ (n < Len(stack') /\ stack'[n + 1].on = p),
               NEW i \in DOMAIN stack', i \in DOMAIN stack,
               \/ i < n /\ stack'[i] = stack[i]
               \/ i = n /\ stack'[i] = Call(t, Current.at + 1)
        PROVE  CallAsked(i)'
    <2>1. CASE i < n /\ stack'[i] = stack[i]
      <3>1. i + 1 \in 1..n /\ i < Len(stack')
        BY <2>1, <1>2, <1>9
      <3>2. stack'[i + 1].on = stack[i + 1].on
        BY <3>1, <1>9
      <3>3. QED
        BY <3>1, <3>2, <2>1, <1>1, <1>9, StillAsked
    <2>2. CASE i = n /\ stack'[i] = Call(t, Current.at + 1)
      <3>1. stack'[i].on = t /\ stack'[i].at = Current.at + 1 /\ Current.at + 1 > 0
        BY <2>2, <1>2 DEF Call
      <3>2. ASSUME NEW j \in DOMAIN parents[t], j < Current.at + 1
            PROVE  LET q == parents[t][j]
                   IN q \notin objects \/ Barren(q) \/ (n < Len(stack') /\ stack'[n + 1].on = q)
        BY <3>2, <1>6, <1>7, <1>9
      <3>3. \A j \in DOMAIN parents'[stack'[i].on] :
               j < stack'[i].at => Passed(i, parents[stack[i].on][j])'
        BY <3>1, <3>2, <2>2, <1>1, <1>4 DEF Passed
      <3>4. QED
        BY <3>1, <3>3, <1>1, <1>3, <1>4 DEF CallAsked
    <2>3. QED
      BY <2>1, <2>2, <1>9
  <1>10. CASE Current.at \in DOMAIN parents[t] /\ p \notin objects /\ Moved(Current.at + 1)
    <2>1. Len(stack') = n /\ n <= Len(stack') /\ Len(stack') \in Nat
      BY <1>2, <1>10 DEF Moved
    <2>2. \A k \in 1..n : stack'[k].on = stack[k].on
      BY <1>1, <1>2, <1>10, LastOf DEF Moved, Call
    <2>3. ASSUME NEW i \in DOMAIN stack'
          PROVE  CallAsked(i)'
      <3>1. /\ i \in DOMAIN stack
            /\ \/ i < n /\ stack'[i] = stack[i]
               \/ i = n /\ stack'[i] = Call(t, Current.at + 1)
        BY <1>1, <1>10, MovedAt
      <3> HIDE DEF t, n, p
      <3>2. QED
        BY <3>1, <2>1, <2>2, <1>9, <1>10
    <2>4. stack' # <<>>
      BY <2>1, <1>2
    <2>5. QED
      BY <2>3, <2>4, <1>3 DEF VarInv, Asked, Result
  <1>11. CASE Current.at \in DOMAIN parents[t] /\ p \in objects /\ Pushed(Current.at + 1, p, 0)
    <2>1. Len(stack') = n + 1 /\ n <= Len(stack') /\ Len(stack') \in Nat /\ n < Len(stack')
      BY <1>2, <1>11 DEF Pushed
    <2>2. \A k \in 1..n : stack'[k].on = stack[k].on
      BY <1>1, <1>2, <1>11, LastOf DEF Pushed, Call
    <2>3. stack'[n + 1].on = p /\ stack'[n + 1].at = 0
      BY <1>11 DEF Pushed, Call
    <2>4. ASSUME NEW i \in DOMAIN stack'
          PROVE  CallAsked(i)'
      <3>1. CASE /\ i \in DOMAIN stack
                 /\ \/ i < n /\ stack'[i] = stack[i]
                    \/ i = n /\ stack'[i] = Call(t, Current.at + 1)
        <4> HIDE DEF t, n, p
        <4>1. QED
          BY <3>1, <2>1, <2>2, <2>3, <1>9, <1>11
      <3>2. CASE i = n + 1
        <4>1. p \in Plain(start)
          <5>1. p \in ParentsOf(t)
            BY <1>11 DEF ParentsOf
          <5>2. QED
            BY <5>1, <1>3, <1>11, PlainUp
        <4>2. DOMAIN parents[p] = 1..Len(parents[p]) /\ Len(parents[p]) \in Nat
          BY <1>11, ObjectType, PlaceType
        <4>3. \A j \in DOMAIN parents[p] : ~(j < 0)
          BY <4>2
        <4>4. QED
          BY <4>1, <4>3, <3>2, <2>1, <2>3, <1>1, <1>4 DEF CallAsked
      <3>3. QED
        BY <3>1, <3>2, <1>1, <1>11, PushedAt
    <2>5. stack' # <<>>
      BY <2>1, <1>2
    <2>6. QED
      BY <2>4, <2>5, <1>3 DEF VarInv, Asked, Result
  <1>12. QED
    BY <1>8, <1>10, <1>11, VarParentStep

LEMMA NextVariable ==
  ASSUME TypeInv, Path, VarInv, [HierarchyNext]_hvars
  PROVE  VarInv'
  <1>1. kind' # "variable" => VarInv'
    BY DEF VarInv
  <1>2. CASE kind = "none" /\ UNCHANGED search
    BY <1>1, <1>2 DEF search
  <1>3. CASE UNCHANGED hvars
    <2>1. UNCHANGED <<objects, parents, variable, kind, start, stack, found>>
      BY <1>3 DEF hvars, hierarchy, search
    <2>2. \A o : Plain(o)' = Plain(o) /\ Barren(o)' = Barren(o)
      BY <2>1, SamePlain
    <2>3. Asked => Asked'
      BY <2>1, <2>2 DEF Asked, CallAsked, Passed
    <2>4. QED
      BY <2>1, <2>2, <2>3 DEF VarInv, Result
  <1>4. CASE Searches /\ UNCHANGED hierarchy
    <2>1. CASE \E o \in Numbers : var_get_global(o)
      BY <2>1, <1>4, StartVariable
    <2>2. CASE var_look
      BY <2>2, <1>4, LookAsked
    <2>3. CASE var_parent
      BY <2>3, <1>4, ParentAsked
    <2>4. CASE \/ Return \/ do_fmr_parent \/ do_fmr_object
               \/ \E o \in Numbers : find_method_recursive(o)
      BY <2>4, <1>1 DEF Return, do_fmr_parent, do_fmr_object, find_method_recursive
    <2>5. QED
      BY <1>4, <2>1, <2>2, <2>3, <2>4 DEF Searches
  <1>5. QED
    BY <1>2, <1>3, <1>4 DEF HierarchyNext, Change, Search

LEMMA VarEnd ==
  ASSUME TypeInv, VarInv
  PROVE  VarFound
  <1>1. SUFFICES ASSUME kind = "variable", stack = <<>>
                 PROVE  VarFound
    BY DEF VarFound
  <1>2. Result
    BY <1>1 DEF VarInv
  <1>3. CASE found \in variable \cap Plain(start)
    BY <1>3 DEF VarFound
  <1>4. CASE found = 0 /\ Barren(start)
    BY <1>4 DEF VarFound, Barren
  <1>5. QED
    BY <1>1, <1>2, <1>3, <1>4 DEF Result

(***************************************************************************)
(* A search for a variable that comes back has found one to which a way    *)
(* leads up along objects without it, and none only if there is none: a    *)
(* parent that was destroyed or does not have it does not end the search.  *)
(* That needs no condition on the hierarchy.                               *)
(***************************************************************************)
THEOREM VariablesFound == HierarchySpec => []VarFound
  <1>1. HierarchyInit => VarInv
    BY DEF HierarchyInit, VarInv
  <1>2. (TypeInv /\ Path) /\ VarInv /\ [HierarchyNext]_hvars => VarInv'
    BY NextVariable
  <1>3. HierarchySpec => []VarInv
    BY <1>1, <1>2, Paths, PTL DEF HierarchySpec
  <1>4. TypeInv /\ Path /\ VarInv => VarFound
    BY VarEnd
  <1>5. QED
    BY <1>3, <1>4, Paths, PTL

=============================================================================
