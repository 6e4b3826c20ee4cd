----------------------------- MODULE MCInherit -----------------------------
(***************************************************************************)
(* The searches in every hierarchy that can be built with parents of lower *)
(* numbers, and with any of its objects destroyed: by clone() or a         *)
(* compilation of each object in turn.  No search looks at both methods    *)
(* and variables, so it has one of them.  And the changes of every         *)
(* hierarchy of one object less.                                           *)
(***************************************************************************)
EXTENDS Inherit

Lower(o) == IF o = ROOT_OBJ THEN {<<>>}
            ELSE {ps \in Lists : ps # <<>> /\ add_parent(ps) /\ \A k \in DOMAIN ps : ps[k] < o}

BuiltInit ==
    /\ dbtop = MaxObj
    /\ objects \in SUBSET Numbers
    /\ parents \in [Numbers -> Lists]
    /\ \A o \in Numbers : parents[o] \in IF o \in objects THEN Lower(o) ELSE {<<>>}
    /\ method \in [Numbers -> Methods]
    /\ \A o \in Numbers \ objects : method[o] = "none"
    /\ variable \in IF "variable" \in Kinds THEN SUBSET objects ELSE {{}}
    /\ variable = {} \/ \A o \in Numbers : method[o] = "none"
    /\ kind = "none" /\ start = 0 /\ stack = <<>> /\ searched = {} /\ found = 0

\* Hierarchies of fewer objects do change.
SmallNext == (dbtop < MaxObj /\ Change /\ dbtop' < MaxObj) \/ Search

=========================
