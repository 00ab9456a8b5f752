------------------------------ MODULE MCSignIn ------------------------------
(* Instances of SignIn for TLC.                                            *)
EXTENDS SignIn, TLC

OneHousehold == [m \in Members |-> "h"]
Symmetry == Permutations(Members) \cup Permutations(Requests)
            \cup Permutations(Logins) \cup Permutations(Families)

VARIABLE mode  \* which of three kinds of behaviour this is

Asked  == {l \in Logins : pending[l].at # "new"}
Prompt == \A l \in Logins : wrong[l] = 0 /\ ~pending[l].expired /\ pending[l].at # "email"

\* Requests try the codes of one member's logins; nobody gets further.
Codes ==
    /\ users = {}
    /\ \A q \in Requests : req[q].at # "profile"
    /\ Cardinality({pending[l].who : l \in Asked}) <= 1

\* Everybody has a code, knows it and signs in at the same time.
Together ==
    /\ Prompt
    /\ Asked # Logins => \A q \in Requests : req[q].at \in {"idle", "send"}
    /\ \A s \in Sessions : session[s].at # "gone" /\ session[s].seen = "now"

\* One request at a time, and time goes by.
OneByOne ==
    /\ Prompt
    /\ Cardinality({q \in Requests : req[q].at # "idle"}) <= 1

SafetyInit == Init /\ mode \in {"codes", "together", "one by one"}
SafetyNext ==
    /\ Next
    /\ mode' = mode
    /\ mode = "codes" => Codes'
    /\ mode = "together" => Together' /\ connected \subseteq connected'
    /\ mode = "one by one" => OneByOne'
    /\ mode # "codes" /\ rate' # rate => req' # req

SafetySpec == SafetyInit /\ [][SafetyNext]_<<vars, mode>>
=============================================================================
