------------------------------ MODULE Inherit -------------------------------
(***************************************************************************)
(* The hierarchy of objects: who has whom for a parent, who defines one    *)
(* method and one global variable, and the searches that go up it.         *)
(*                                                                         *)
(* An object is its number, 1 the root.  What a search finds is the object *)
(* the definition is on, 0 if there is none.  Parents are numbers: when an *)
(* object is destroyed they stay in its children, where retrieve() gives   *)
(* the null pointer and the searches go by.                                *)
(*                                                                         *)
(* A search is a machine with a stack, that of the C function which calls  *)
(* itself.  Nothing else moves while it runs.                              *)
(***************************************************************************)
EXTENDS Naturals, Sequences, FiniteSets

CONSTANTS
    MaxObj,         \* the highest number given out
    MaxParents,     \* the longest list of parents
    Kinds,          \* "method", "variable": what objects define and programs look up
    Careful         \* TRUE: programmers test with hasparent() what check_parents() does not

ASSUME InheritAssumption ==
    /\ MaxObj \in Nat \ {0} /\ MaxParents \in Nat \ {0}
    /\ Kinds \subseteq {"method", "variable"} /\ Careful \in BOOLEAN

VARIABLES
    objects,        \* the numbers of the objects there are
    parents,        \* the list of parents of each
    method,         \* "none", "method" or "blocked": the method's definition on each
    variable,       \* the objects that have a variable of their own
    dbtop,          \* the highest number so far
    kind,           \* what is searched for; "none" if no search is under way
    start,          \* the object it began with
    stack,          \* the calls that have not returned: an object and a place in its list
    searched,       \* objects whose last_search is search_gen
    found           \* the object the last definition was found on, or 0

hierarchy == <<objects, parents, method, variable, dbtop>>
search == <<kind, start, stack, searched, found>>
hvars == <<hierarchy, search>>

ROOT_OBJ == 1
Numbers == 1..MaxObj
Lists == UNION {[1..n -> Numbers] : n \in 0..MaxParents}
Methods == IF "method" \in Kinds THEN {"none", "method", "blocked"} ELSE {"none"}

ParentsOf(o) == {parents[o][k] : k \in DOMAIN parents[o]}

-----------------------------------------------------------------------------
(***************************************************************************)
(* The objects above o: reached in one or more steps through objects that  *)
(* are there.  They are the least set that has the parents of o and of all *)
(* its members.                                                            *)
(***************************************************************************)
Up(S) == {p \in objects : \E o \in S : p \in ParentsOf(o)}
Ancestors(o) ==
    LET closed == {S \in SUBSET objects : Up({o} \cup S) \subseteq S}
    IN {p \in objects : \A S \in closed : p \in S}

(***************************************************************************)
(* hasparent(): is pid above o?  It looks at numbers, so a parent that is  *)
(* no more is one still; on a loop it need not come back.                  *)
(***************************************************************************)
\* Mutant: it does not look above the parents.
hasparent_near(o, pid) == pid \in ParentsOf(o)

hasparent(o, pid) == \E p \in {o} \cup Ancestors(o) : pid \in ParentsOf(p)

(***************************************************************************)
(* check_parents(): may o have this list of parents?  Each new parent is   *)
(* compared with o and with what is above the others.                      *)
(***************************************************************************)
\* Mutant: an object may be its own parent.
check_parents_others(o, ps) ==
    /\ ps = <<>> => o = ROOT_OBJ
    /\ \A i \in DOMAIN ps :
          ps[i] \in objects /\ \A j \in DOMAIN ps : ~hasparent(ps[i], ps[j])

check_parents(o, ps) ==
    /\ ps = <<>> => o = ROOT_OBJ
    /\ \A i \in DOMAIN ps :
          /\ ps[i] \in objects
          /\ ps[i] # o
          /\ \A j \in DOMAIN ps : ~hasparent(ps[i], ps[j])

-----------------------------------------------------------------------------
\* What a programmer asks for.
Asks(o, ps) == Careful => \A k \in DOMAIN ps : ps[k] \in objects => ~hasparent(ps[k], o)

\* The new object has the one it was cloned from for its only parent.
clone(o) ==
    /\ o \in objects
    /\ dbtop < MaxObj
    /\ dbtop' = dbtop + 1
    /\ objects' = objects \cup {dbtop + 1}
    /\ parents' = [parents EXCEPT ![dbtop + 1] = <<o>>]
    /\ UNCHANGED <<method, variable>>

destroy(o) ==
    /\ o \in objects
    /\ objects' = objects \ {o}
    /\ parents' = [parents EXCEPT ![o] = <<>>]
    /\ method' = [method EXCEPT ![o] = "none"]
    /\ variable' = variable \ {o}
    /\ UNCHANGED dbtop

op_chparents(o, ps) ==
    /\ o \in objects
    /\ check_parents(o, ps)
    /\ Asks(o, ps)
    /\ parents' = [parents EXCEPT ![o] = ps]
    /\ UNCHANGED <<objects, method, variable, dbtop>>

(***************************************************************************)
(* A whole object is compiled: a new one, or in place of the one of that   *)
(* number, whose variables it keeps.  The grammar takes a parent once.     *)
(* Giving it a variable of its own and a method is part of its text.       *)
(***************************************************************************)
\* Mutant: a number in the text of an object does not count.
NewTopOnly(o) == dbtop

NewTop(o) == IF o > dbtop THEN o ELSE dbtop

add_parent(ps) == \A i, j \in DOMAIN ps : i # j => ps[i] # ps[j]
compile(o, ps) ==
    /\ add_parent(ps)
    /\ check_parents(o, ps)
    /\ Asks(o, ps)
    /\ objects' = objects \cup {o}
    /\ parents' = [parents EXCEPT ![o] = ps]
    /\ \E m \in Methods : method' = [method EXCEPT ![o] = m]
    /\ \E own \in SUBSET (IF "variable" \in Kinds THEN {o} ELSE {}) : variable' = variable \cup own
    /\ dbtop' = NewTop(o)

\* program(): one method is added, or replaced by one that is not blocked.
add_method(o) ==
    /\ "method" \in Kinds /\ o \in objects
    /\ method' = [method EXCEPT ![o] = "method"]
    /\ UNCHANGED <<objects, parents, variable, dbtop>>

rm_method(o) ==
    /\ o \in objects
    /\ method[o] # "none"
    /\ method' = [method EXCEPT ![o] = "none"]
    /\ UNCHANGED <<objects, parents, variable, dbtop>>

\* Assigning gives an object its own copy of what it inherits.
var_assign_global(o) ==
    /\ "variable" \in Kinds /\ o \in objects
    /\ variable' = variable \cup {o}
    /\ UNCHANGED <<objects, parents, method, dbtop>>

var_rm_global(o) ==
    /\ o \in objects \cap variable
    /\ variable' = variable \ {o}
    /\ UNCHANGED <<objects, parents, method, dbtop>>

HierarchyInit ==
    /\ objects = {ROOT_OBJ}
    /\ parents = [o \in Numbers |-> <<>>]
    /\ method = [o \in Numbers |-> "none"]
    /\ variable = {}
    /\ dbtop = ROOT_OBJ
    /\ kind = "none" /\ start = 0 /\ stack = <<>> /\ searched = {} /\ found = 0

Changes ==
    \E o \in Numbers :
        \/ clone(o)
        \/ destroy(o)
        \/ \E ps \in Lists : op_chparents(o, ps) \/ compile(o, ps)
        \/ add_method(o)
        \/ rm_method(o)
        \/ var_assign_global(o)
        \/ var_rm_global(o)

-----------------------------------------------------------------------------
(***************************************************************************)
(* The searches, one call or return of the C function at a time.           *)
(***************************************************************************)
Current == stack[Len(stack)]
Below == SubSeq(stack, 1, Len(stack) - 1)
Call(o, k) == [on |-> o, at |-> k]

(***************************************************************************)
(* find_method_recursive(): the parents before the object, the last parent *)
(* first, each object once; the last definition found is the one, but a    *)
(* blocked one ends the search.                                            *)
(***************************************************************************)
find_method_recursive(o) ==
    /\ "method" \in Kinds /\ kind = "none" /\ o \in objects
    /\ kind' = "method" /\ start' = o
    /\ stack' = <<Call(o, Len(parents[o]))>>
    /\ UNCHANGED <<searched, found>>

\* Mutant: objects are not marked.
SearchedNever(o) == FALSE

Searched(o) == o \in searched

do_fmr_parent ==
    /\ kind = "method" /\ stack # <<>> /\ Current.at > 0
    /\ LET p == parents[Current.on][Current.at]
           next == Append(Below, Call(Current.on, Current.at - 1))
       IN stack' = IF p \notin objects \/ Searched(p) THEN next
                   ELSE Append(next, Call(p, Len(parents[p])))
    /\ UNCHANGED <<kind, start, searched, found>>

do_fmr_object ==
    /\ kind = "method" /\ stack # <<>> /\ Current.at = 0
    /\ searched' = searched \cup {Current.on}
    /\ found' = IF method[Current.on] # "none" THEN Current.on ELSE found
    /\ stack' = IF method[Current.on] = "blocked" THEN <<>> ELSE Below
    /\ UNCHANGED <<kind, start>>

(***************************************************************************)
(* var_get_global(): the object itself, then each parent and all above it, *)
(* the first parent first.  Place 0 is the object's own table.             *)
(***************************************************************************)
var_get_global(o) ==
    /\ "variable" \in Kinds /\ kind = "none" /\ o \in objects
    /\ kind' = "variable" /\ start' = o
    /\ stack' = <<Call(o, 0)>>
    /\ UNCHANGED <<searched, found>>

var_look ==
    /\ kind = "variable" /\ stack # <<>> /\ Current.at = 0
    /\ IF Current.on \in variable THEN found' = Current.on /\ stack' = <<>>
       ELSE stack' = Append(Below, Call(Current.on, 1)) /\ UNCHANGED found
    /\ UNCHANGED <<kind, start, searched>>

\* Mutant: only the first parent is asked.
LastParentFirst(o) == IF parents[o] = <<>> THEN 0 ELSE 1

LastParent(o) == Len(parents[o])

var_parent ==
    /\ kind = "variable" /\ stack # <<>> /\ Current.at > 0
    /\ IF Current.at > LastParent(Current.on) THEN stack' = Below
       ELSE LET p == parents[Current.on][Current.at]
                next == Append(Below, Call(Current.on, Current.at + 1))
            IN stack' = IF p \in objects THEN Append(next, Call(p, 0)) ELSE next
    /\ UNCHANGED <<kind, start, searched, found>>

\* The caller has the result; the next search has a search_gen of its own.
Return ==
    /\ kind # "none" /\ stack = <<>>
    /\ kind' = "none" /\ start' = 0 /\ stack' = <<>> /\ searched' = {} /\ found' = 0

Searches ==
    \/ \E o \in Numbers : find_method_recursive(o) \/ var_get_global(o)
    \/ do_fmr_parent \/ do_fmr_object \/ var_look \/ var_parent
    \/ Return

Change == kind = "none" /\ Changes /\ UNCHANGED search
Search == Searches /\ UNCHANGED hierarchy

HierarchyNext == Change \/ Search

HierarchySpec == HierarchyInit /\ [][HierarchyNext]_hvars

-----------------------------------------------------------------------------
Calls == [on: Numbers, at: Nat]
HierarchyTypeOK ==
    /\ dbtop \in Numbers /\ objects \subseteq 1..dbtop
    /\ parents \in [Numbers -> Lists]
    /\ \A o \in Numbers : ParentsOf(o) \subseteq 1..dbtop
    /\ method \in [Numbers -> {"none", "method", "blocked"}]
    /\ variable \subseteq objects
    /\ kind \in {"none", "method", "variable"}
    /\ start \in objects \cup {0} /\ searched \subseteq objects
    /\ found \in objects \cup {0} /\ stack \in Seq(Calls)
    /\ \A k \in DOMAIN stack :
          stack[k].on \in objects /\ stack[k].at <= Len(parents[stack[k].on]) + 1

(***************************************************************************)
(* No object is above itself.  The comments say that check_parents()       *)
(* refuses a list for which "parents form a loop"; all searches depend on  *)
(* it, each would go round such a loop until the C stack is used up.       *)
(***************************************************************************)
Acyclic == \A o \in objects : o \notin Ancestors(o)

(***************************************************************************)
(* A search calls itself no deeper than there are objects, so it cannot    *)
(* use up the C stack (method.c 91, var.c 332): no object is searched      *)
(* within a search of itself.                                              *)
(***************************************************************************)
StackBounded == Len(stack) <= Cardinality(objects)

(***************************************************************************)
(* A message finds a method if the object or one above it has one.  If one *)
(* of those is blocked, it is a blocked one and none above it is blocked;  *)
(* otherwise none that is found has an heir, between it and the object,    *)
(* that redefines it.                                                      *)
(***************************************************************************)
MethodFound ==
    kind = "method" /\ stack = <<>> =>
        LET all == {start} \cup Ancestors(start)
            defined == {p \in all : method[p] # "none"}
            blocked == {p \in all : method[p] = "blocked"}
        IN IF defined = {} THEN found = 0
           ELSE IF blocked # {} THEN found \in blocked /\ blocked \cap Ancestors(found) = {}
           ELSE found \in defined /\ \A d \in defined : found \notin Ancestors(d)

(***************************************************************************)
(* A variable is found if the object or one above it has one, and there is *)
(* a way up to the one found along which no other has it.                  *)
(***************************************************************************)
Plain(o) ==
    {p \in objects : \A S \in SUBSET objects :
        o \in S /\ Up(S \ variable) \subseteq S => p \in S}
VarFound ==
    kind = "variable" /\ stack = <<>> =>
        LET seen == variable \cap Plain(start)
        IN IF seen = {} THEN found = 0 ELSE found \in seen

=============================================================================
