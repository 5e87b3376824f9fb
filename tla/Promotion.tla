------------------------------ MODULE Promotion ------------------------------
(***************************************************************************)
(* What the registry, its gate and the servers promise together, with no   *)
(* trainers, retries or aliases that are read twice: a version enters the  *)
(* registry once, with the score it keeps; one version at a time is the    *)
(* champion, and a version takes over from it only by beating it; a server *)
(* serves nothing but what has been champion by then.                      *)
(***************************************************************************)
EXTENDS Integers

CONSTANTS
    Versions,   \* what may be registered; 0 is no version
    Scores,     \* what a version may score
    Margin,     \* by how much a version must beat the champion
    Servers

VARIABLES
    scores,     \* the score of each version in the registry
    champion,   \* the version to serve, 0 while there is none
    crowned,    \* the versions that have been champion
    served      \* served[s]: the version server s serves, 0 for none

vars == <<scores, champion, crowned, served>>

Registered == DOMAIN scores

Init ==
    /\ scores = [v \in {} |-> 0]
    /\ champion = 0
    /\ crowned = {}
    /\ served = [s \in Servers |-> 0]

Register(v, x) ==
    /\ v \notin Registered
    /\ scores' = [u \in Registered \cup {v} |-> IF u = v THEN x ELSE scores[u]]
    /\ UNCHANGED <<champion, crowned, served>>

TakeOver(v) ==
    /\ v \in Registered
    /\ champion # 0 => scores[v] - scores[champion] >= Margin
    /\ champion' = v
    /\ crowned' = crowned \cup {v}
    /\ UNCHANGED <<scores, served>>

Serve(s, v) ==
    /\ v \in crowned \cup {0}
    /\ served' = [served EXCEPT ![s] = v]
    /\ UNCHANGED <<scores, champion, crowned>>

Next ==
    \/ \E v \in Versions, x \in Scores : Register(v, x)
    \/ \E v \in Versions : TakeOver(v)
    \/ \E s \in Servers, v \in Versions \cup {0} : Serve(s, v)

Spec == Init /\ [][Next]_vars

=============================================================================
