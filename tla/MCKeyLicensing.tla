--------------------------- MODULE MCKeyLicensing ---------------------------
EXTENDS KeyLicensing

CONSTANTS v1, v2, wrong

\* A vault holds one key of the KID or none.  The remote vaults are alike: of two
\* stores that differ only in which of them holds what, one is enough.
Store(l, a, b) == [v \in Vaults |-> CASE v = Local -> l [] v = v1 -> a [] v = v2 -> b]
R == {Right}
W == {wrong}
Pairs == {<<{}, {}>>, <<W, {}>>, <<W, W>>, <<R, {}>>, <<R, W>>, <<R, R>>}
AnyStore == {Store(l, p[1], p[2]) : l \in {{}, R, W}, p \in Pairs}
Poisoned == {Store(W, R, {}), Store({}, W, R), Store(R, {}, {}), Store(W, {}, {})}

Plain == [downloads |-> 1, remotes |-> Remotes, licence |-> TRUE, in_place |-> FALSE,
          replaces |-> FALSE, doubtful |-> FALSE]
Odd   == {[Plain EXCEPT !.doubtful = TRUE], [Plain EXCEPT !.licence = FALSE], [Plain EXCEPT !.in_place = TRUE],
          [Plain EXCEPT !.doubtful = TRUE, !.replaces = TRUE]}
Both  == [Plain EXCEPT !.downloads = 2, !.remotes = {v1}]

AnyStart == [option : {Plain}, rows : AnyStore] \cup [option : Odd, rows : Poisoned]
              \cup [option : {Both}, rows : {Store(W, R, {}), Store({}, W, {})}]
RaceStart == [option : {Both}, rows : Poisoned]
=============================================================================
