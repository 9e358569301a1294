----------------------------- MODULE MCHlsMerge -----------------------------
EXTENDS HlsMerge, TLC

CONSTANTS N, K, L, A, B

\* A tag holds until the next one; so does a map.  The first key is K, the first
\* init section A.
Runs(none, first, values) ==
  {f \in [1..N -> {none} \cup values] :
     \A k \in 1..N : /\ f[k] = none => \A j \in 1..k : f[j] = none
                     /\ f[k] \in values \ first => \E j \in 1..k : f[j] \in first}

\* At most one of the N segments is filtered.
AllPlaylists ==
  {[k \in 1..N |-> [wanted |-> w[k], discontinuity |-> d[k], init_section |-> m[k], keys |-> t[k]]] :
     w \in {[j \in 1..N |-> j # k] : k \in 0..N}, d \in {e \in [1..N -> BOOLEAN] : ~e[1]},
     m \in Runs(Nothing, {A}, {A, B}), t \in Runs(Nothing, {K, "none"}, {K, L, "none"})}
=============================================================================
