----------------------------- MODULE Placement ------------------------------
(***************************************************************************)
(* What signing in promises about families, whatever statements, requests  *)
(* and replicas it is built from: a member is placed once, in one step, in *)
(* the family of the household if there is one and in a new one otherwise. *)
(* Of a household Crew does not name nobody knows whether it has a family: *)
(* such a member founds one of no household, which takes the household's   *)
(* name later unless another family has it by then.                        *)
(***************************************************************************)
CONSTANTS
    Members,      \* people with a Crew account
    Households,   \* Crew's families
    HouseholdOf,  \* [Members -> Households]
    Unknown,      \* no household
    Families,     \* ids of families
    NoFamily

VARIABLES
    existing,     \* the families there are
    household,    \* [Families -> the household whose family it is, or Unknown]
    memberOf      \* [Members -> the family the member is in, or NoFamily]

vars == <<existing, household, memberOf>>

Init ==
    /\ existing = {}
    /\ household = [f \in Families |-> Unknown]
    /\ memberOf = [m \in Members |-> NoFamily]

\* No family is the family of h.
Free(h) == \A f \in existing : household[f] # h

\* m founds a family.  Who was placed in the meantime leaves it empty.
Found(m, f, h) ==
    /\ f \in Families \ existing
    /\ h = Unknown \/ (h = HouseholdOf[m] /\ Free(h))
    /\ existing' = existing \cup {f}
    /\ household' = [household EXCEPT ![f] = h]
    /\ memberOf' = IF memberOf[m] = NoFamily THEN [memberOf EXCEPT ![m] = f] ELSE memberOf

Join(m, f) ==
    /\ f \in existing
    /\ household[f] = HouseholdOf[m]
    /\ memberOf[m] = NoFamily
    /\ memberOf' = [memberOf EXCEPT ![m] = f]
    /\ UNCHANGED <<existing, household>>

\* The family of m gets the household of m.
Adopt(m, f) ==
    /\ f \in existing /\ memberOf[m] = f
    /\ household[f] = Unknown
    /\ Free(HouseholdOf[m])
    /\ household' = [household EXCEPT ![f] = HouseholdOf[m]]
    /\ UNCHANGED <<existing, memberOf>>

Next ==
    \E m \in Members, f \in Families :
        \/ \E h \in Households \cup {Unknown} : Found(m, f, h)
        \/ Join(m, f)
        \/ Adopt(m, f)

Spec == Init /\ [][Next]_vars
=============================================================================
