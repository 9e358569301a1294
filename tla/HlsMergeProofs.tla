---------------------------- MODULE HlsMergeProofs ----------------------------
(***************************************************************************)
(* The merge of an HLS track keeps every wanted segment once, in order,    *)
(* decrypted with its own key and behind its own init section: for every   *)
(* playlist, of any length and with any keys, init sections and filter.    *)
(*                                                                         *)
(* Three numbers describe the loop between two of its steps: the segments  *)
(* 1..s are merged, those of s+1..D lie in the first d files of the        *)
(* directory, and each of the rest is still a file of its own (Directory). *)
(* decrypt() moves D, merge_discontinuity() moves s.  What may be said of  *)
(* keys and init sections (Contents) is said of the same three parts; in   *)
(* particular the segments after D that the loop has come to are those     *)
(* that the DRM in use decrypts (Pending).                                 *)
(***************************************************************************)
EXTENDS HlsMerge, TLAPS, FiniteSetTheorems, WellFoundedInduction, NaturalsInduction

IsSeq(f) == f \in Seq({f[k] : k \in DOMAIN f})

\* The keys that a segment file comes with.
By == IF ByItself THEN <<session_drm>> ELSE <<>>

\* A downloaded segment file.
Single(k, by) ==
  [raw |-> TRUE, last |-> k, map_data |-> Nothing, segments |-> <<[of |-> k, by |-> by]>>]

\* The first m files of fs hold the segments from s + 1 to e, once and in order.
Covers(fs, m, s, e) ==
  /\ \A c \in 1..m : \A k \in DOMAIN fs[c].segments :
       k \in Nat /\ fs[c].segments[k].of \in (s + 1)..e
  /\ \A c \in 1..m : \A k, l \in DOMAIN fs[c].segments :
       k < l => fs[c].segments[k].of < fs[c].segments[l].of
  /\ \A b, c \in 1..m : b < c =>
       \A k \in DOMAIN fs[b].segments : \A l \in DOMAIN fs[c].segments :
         fs[b].segments[k].of < fs[c].segments[l].of
  /\ \A j \in (s + 1)..e : \E c \in 1..m : \E k \in DOMAIN fs[c].segments : fs[c].segments[k].of = j

\* The segment directory: d files of several segments, up to D, and then a file
\* for each that is left of n.
Directory(n, by, fs, s, d, D) ==
  /\ IsSeq(fs) /\ n \in Nat /\ s \in Nat /\ d \in Nat /\ D \in s..n
  /\ Len(fs) = d + (n - D)
  /\ \A c \in 1..(n - D) : fs[d + c] = Single(D + c, by)
  /\ \A c \in 1..d : fs[c].raw = FALSE /\ fs[c].last \in (s + 1)..D
  /\ IF d = 0 THEN D = s ELSE fs[d].last = D
  /\ Covers(fs, d, s, D)

\* The last segment of a file of the output.
End(mg, f) == IF f = 0 THEN 0 ELSE mg[f].via[Len(mg[f].via)].last

\* A file of the output: the segments from s + 1 to e, without a discontinuity.
File(w, g, s, e) ==
  /\ Len(g.via) \in Nat \ {0} /\ DOMAIN g.via = 1..Len(g.via)
  /\ s \in Nat /\ e \in Nat /\ s < e
  /\ Covers(g.via, Len(g.via), s, e)
  /\ \A j \in (s + 2)..e : ~w[j].discontinuity

\* The output so far: the segments up to s, in files that discontinuities begin.
Output(w, mg, s) ==
  /\ IsSeq(mg) /\ s \in 0..Len(w) /\ End(mg, Len(mg)) = s
  /\ \A f \in DOMAIN mg : File(w, mg[f], End(mg, f - 1), End(mg, f))
  /\ \A f, g \in 0..Len(mg) : f <= g => End(mg, f) <= End(mg, g)
  /\ \A j \in 1..s : \E f \in DOMAIN mg : End(mg, f - 1) < j /\ j <= End(mg, f)
  /\ \A f \in 1..(Len(mg) - 1) : w[End(mg, f) + 1].discontinuity

-----------------------------------------------------------------------------
\* A segment as OwnKeyOwnInit wants it.
Own(w, scheme, segment) ==
  /\ ~Plain(w[segment.of]) => segment.by = <<w[segment.of].keys>>
  /\ Plain(w[segment.of]) /\ scheme = "aes" => segment.by = <<>>

\* A file behind the init section m.
Behind(w, scheme, m, file) ==
  /\ file.map_data = m
  /\ \A k \in DOMAIN file.segments : Own(w, scheme, file.segments[k])

\* A file of the output whose segments have the init section m.
AllBehind(w, scheme, m, g) ==
  /\ g.map_data \in {Nothing, m}
  /\ \A c \in DOMAIN g.via :
       /\ g.via[c].map_data \in {Nothing, m}
       /\ \A k \in DOMAIN g.via[c].segments :
            /\ Own(w, scheme, g.via[c].segments[k])
            /\ w[g.via[c].segments[k].of].init_section = m
  /\ m # Nothing => g.map_data = m \/ g.via[1].map_data = m

OutputGood(w, scheme, mg) == \A f \in DOMAIN mg : \E m : AllBehind(w, scheme, m, mg[f])

\* The DRM in use is that of segment s, whether it will decrypt it or not.
Pending(scheme, enc, s) ==
  IF enc = Nothing THEN Plain(s)
  ELSE (~Plain(s) => s.keys = enc.drm) /\ (scheme = "aes" => ~Plain(s))

-----------------------------------------------------------------------------
\* The loop has come to segment i, and with the keys to seen.
Layout(w, by, n, seen, fs, mg, s, d, D) ==
  /\ n \in 0..Len(w) /\ seen \in 0..n /\ n - 1 <= seen
  /\ Directory(Len(w), by, fs, s, d, D) /\ Output(w, mg, s)
  /\ D <= seen
  /\ n > 0 => s < n
  /\ s > 0 => w[s + 1].discontinuity
  /\ \A k \in (s + 2)..n : ~w[k].discontinuity

Contents(w, scheme, loop, n, seen, enc, md, fs, mg, s, d, D) ==
  /\ n > 0 => \A j \in (s + 1)..n : w[j].init_section = md
  /\ n = 0 => md = Nothing \/ (Len(w) > 0 /\ md = w[1].init_section)
  /\ \A c \in 1..d : Behind(w, scheme, md, fs[c])
  /\ OutputGood(w, scheme, mg)
  /\ loop => \A j \in (D + 1)..seen : Pending(scheme, enc, w[j])

\* The key in use and the DRM that it was licensed with.
KeyOfDrm(enc) ==
  enc # Nothing => /\ enc \in [key : Keys \cup {Nothing}, drm : Keys \cup {Session}]
                   /\ enc.drm = enc.key \/ (enc.key = Nothing /\ enc.drm = Session)

Good == MapsAtDiscontinuities /\ PlainApart
seen == IF pc = "key" /\ This.wanted THEN i - 1 ELSE i

Static ==
  /\ playlist \in Playlists
  /\ drm \in [scheme : {"cenc", "aes"}, cdm : BOOLEAN, session : BOOLEAN]
  /\ drm.session => drm.scheme = "cenc"
  /\ way \in Ways

Looping ==
  /\ pc \in {"cut", "key", "last"} /\ way \in {"loop", "segment"}
  /\ real_i \in 1..(Len(playlist) + 1) /\ (pc # "cut" => real_i <= Len(playlist))
  /\ i = Count(playlist, IF pc = "cut" THEN real_i - 1 ELSE real_i)
  /\ KeyOfDrm(encryption)
  /\ drm.scheme = "aes" /\ encryption # Nothing /\ initial_drm_key = Nothing =>
       \E r \in DOMAIN playlist : r <= real_i /\ playlist[r].keys # Nothing
  /\ \E s, D \in 0..Len(wanted_segments), d \in 0..Len(files) :
       /\ Layout(wanted_segments, By, i, seen, files, merged, s, d, D)
       /\ Good => Contents(wanted_segments, drm.scheme, way = "loop", i, seen, encryption,
                           map_data, files, merged, s, d, D)

Rolling ==
  /\ pc = "rolling" /\ way \in {"rolling", "both"}
  /\ files = [k \in DOMAIN wanted_segments |-> Single(k, By)]
  /\ merged = <<>> /\ map_data = wanted_segments[1].init_section

Finished ==
  /\ pc = "done"
  /\ Output(wanted_segments, merged, Len(wanted_segments))
  /\ Good => OutputGood(wanted_segments, drm.scheme, merged)

HInv == Static /\ (Looping \/ Rolling \/ Finished)

-----------------------------------------------------------------------------
(* Sequences, and the least and the largest of a set of numbers.           *)

LEMMA IsSeqFacts ==
  ASSUME NEW f, IsSeq(f)
  PROVE  Len(f) \in Nat /\ DOMAIN f = 1..Len(f)
BY DEF IsSeq

LEMMA IsSeqOf == ASSUME NEW S, NEW f \in Seq(S) PROVE IsSeq(f)
<1> DEFINE R == {f[k] : k \in DOMAIN f}
<1>1. Len(f) \in Nat /\ f \in [1..Len(f) -> S]  OBVIOUS
<1>2. f \in [1..Len(f) -> R]  BY <1>1
<1>3. f \in Seq(R)  BY <1>1, <1>2
<1> QED  BY <1>3 DEF IsSeq

LEMMA IsSeqFunction ==
  ASSUME NEW n \in Nat, NEW f, f = [k \in 1..n |-> f[k]]
  PROVE  IsSeq(f) /\ Len(f) = n
<1> DEFINE R == {f[k] : k \in DOMAIN f}
<1>1. f \in [1..n -> R]  OBVIOUS
<1>2. f \in Seq(R) /\ Len(f) = n  BY <1>1
<1> QED  BY <1>2 DEF IsSeq

LEMMA SubSeqFacts ==
  ASSUME NEW f, IsSeq(f), NEW a \in Nat \ {0}, NEW b \in Nat, a <= b + 1, b <= Len(f)
  PROVE  /\ IsSeq(SubSeq(f, a, b)) /\ Len(SubSeq(f, a, b)) = b + 1 - a
         /\ \A k \in 1..(b + 1 - a) : SubSeq(f, a, b)[k] = f[a + k - 1]
<1> DEFINE R == {f[k] : k \in DOMAIN f}
<1>1. f \in Seq(R)  BY DEF IsSeq
<1> HIDE DEF R
<1>2. SubSeq(f, a, b) \in Seq(R) /\ Len(SubSeq(f, a, b)) = b + 1 - a  BY <1>1
<1>3. \A k \in 1..(b + 1 - a) : SubSeq(f, a, b)[k] = f[a + k - 1]  BY <1>1
<1> QED  BY <1>2, <1>3, IsSeqOf

\* Files d + 1 to u make way for g.
Replaced(f, d, u, g) == SubSeq(f, 1, d) \o <<g>> \o SubSeq(f, u + 1, Len(f))

LEMMA ReplacedFacts ==
  ASSUME NEW f, IsSeq(f), NEW d \in Nat, NEW u \in Nat, d <= u, u <= Len(f), NEW g
  PROVE  /\ IsSeq(Replaced(f, d, u, g)) /\ Len(Replaced(f, d, u, g)) = d + 1 + Len(f) - u
         /\ \A k \in 1..d : Replaced(f, d, u, g)[k] = f[k]
         /\ Replaced(f, d, u, g)[d + 1] = g
         /\ \A k \in 1..(Len(f) - u) : Replaced(f, d, u, g)[d + 1 + k] = f[u + k]
<1> DEFINE R == {f[k] : k \in DOMAIN f} \cup {g}
           a == SubSeq(f, 1, d)
           b == SubSeq(f, u + 1, Len(f))
<1>1. Len(f) \in Nat  BY IsSeqFacts
<1>2. IsSeq(a) /\ Len(a) = d /\ \A k \in 1..d : a[k] = f[k]
  <2>1. 1 \in Nat \ {0} /\ 1 <= d + 1 /\ d <= Len(f) /\ d + 1 - 1 = d  BY <1>1
  <2>2. \A k \in 1..d : 1 + k - 1 = k  OBVIOUS
  <2> QED  BY <2>1, <2>2, SubSeqFacts
<1>3. IsSeq(b) /\ Len(b) = Len(f) - u /\ \A k \in 1..(Len(f) - u) : b[k] = f[u + k]
  <2>1. u + 1 \in Nat \ {0} /\ u + 1 <= Len(f) + 1 /\ Len(f) <= Len(f) /\ Len(f) + 1 - (u + 1) = Len(f) - u  BY <1>1
  <2>2. \A k \in 1..(Len(f) - u) : (u + 1) + k - 1 = u + k  BY <1>1
  <2> QED  BY <2>1, <2>2, <1>1, SubSeqFacts
<1>5. Replaced(f, d, u, g) = a \o <<g>> \o b  BY DEF Replaced
<1> HIDE DEF a, b
<1> DEFINE A == {a[k] : k \in DOMAIN a}
           B == {b[k] : k \in DOMAIN b}
           S == A \cup {g} \cup B
<1>4. a \in Seq(S) /\ b \in Seq(S) /\ <<g>> \in Seq(S)
  <2>1. a \in Seq(A) /\ b \in Seq(B)  BY <1>2, <1>3 DEF IsSeq
  <2> HIDE DEF A, B
  <2> QED  BY <2>1
<1> HIDE DEF S
<1>6. a \o <<g>> \in Seq(S) /\ Len(a \o <<g>>) = d + 1
  BY <1>2, <1>4
<1>7. (\A k \in 1..d : (a \o <<g>>)[k] = a[k]) /\ (a \o <<g>>)[d + 1] = g
  BY <1>2, <1>4
<1>8. a \o <<g>> \o b \in Seq(S) /\ Len(a \o <<g>> \o b) = d + 1 + (Len(f) - u)
  <2>1. Len(b) = Len(f) - u /\ Len(f) - u \in Nat  BY <1>1, <1>3
  <2> QED  BY <1>6, <1>4, <2>1
<1>9. \A k \in 1..(d + 1) : (a \o <<g>> \o b)[k] = (a \o <<g>>)[k]
  BY <1>6, <1>4, <1>3, <1>1
<1>10. \A k \in 1..(Len(f) - u) : (a \o <<g>> \o b)[d + 1 + k] = b[k]
  BY <1>6, <1>4, <1>3, <1>1
<1>11. IsSeq(Replaced(f, d, u, g))  BY <1>5, <1>8, IsSeqOf
<1>12. Len(Replaced(f, d, u, g)) = d + 1 + Len(f) - u
  <2>1. d + 1 + (Len(f) - u) = d + 1 + Len(f) - u  BY <1>1
  <2> QED  BY <1>5, <1>8, <2>1
<1>13. \A k \in 1..d : Replaced(f, d, u, g)[k] = f[k]
  <2>1. \A k \in 1..d : k \in 1..(d + 1)  OBVIOUS
  <2> QED  BY <1>2, <1>5, <1>7, <1>9, <2>1
<1>14. Replaced(f, d, u, g)[d + 1] = g
  <2>1. d + 1 \in 1..(d + 1)  OBVIOUS
  <2> QED  BY <1>5, <1>7, <1>9, <2>1
<1>15. \A k \in 1..(Len(f) - u) : Replaced(f, d, u, g)[d + 1 + k] = f[u + k]
  BY <1>3, <1>5, <1>10
<1> QED  BY <1>11, <1>12, <1>13, <1>14, <1>15

LEMMA Least ==
  ASSUME NEW T \in SUBSET Nat, T # {}
  PROVE  \E n \in T : \A m \in T : n <= m
<1>1. IsWellFoundedOn(OpToRel(<, Nat), Nat)  BY NatLessThanWellFounded
<1>2. PICK n \in T : \A m \in T : ~(<<m, n>> \in OpToRel(<, Nat))  BY <1>1, WFMin
<1>3. ASSUME NEW m \in T PROVE n <= m
  <2>1. ~(<<m, n>> \in OpToRel(<, Nat))  BY <1>2
  <2>2. m \in Nat /\ n \in Nat  OBVIOUS
  <2>3. ~(m < n)  BY <2>1, <2>2, Zenon DEF OpToRel
  <2> QED  BY <2>2, <2>3
<1> QED  BY <1>3

LEMMA Largest ==
  ASSUME NEW c \in Nat, NEW T \in SUBSET (1..c), T # {}
  PROVE  \E k \in T : \A l \in T : l <= k
<1> DEFINE Under == {n \in Nat : c - n \in T}
<1>1. PICK k0 \in T : TRUE  OBVIOUS
<1>2. c - k0 \in Under  BY <1>1
<1>3. PICK n \in Under : \A m \in Under : n <= m
  <2>1. Under \in SUBSET Nat /\ Under # {}  BY <1>2
  <2> HIDE DEF Under
  <2> QED  BY <2>1, Least
<1>4. \A l \in T : l <= c - n
  <2> SUFFICES ASSUME NEW l \in T PROVE l <= c - n  OBVIOUS
  <2>1. c - l \in Under  BY DEF Under
  <2>2. l \in Nat /\ n \in Nat /\ n <= c - l  BY <1>3, <2>1
  <2> QED  BY <2>2
<1> QED  BY <1>3, <1>4

-----------------------------------------------------------------------------
(* The numbers of the wanted segments.                                     *)

LEMMA CountFacts ==
  ASSUME NEW p, NEW k \in Nat
  PROVE  /\ Count(p, k) \in Nat /\ Count(p, 0) = 0
         /\ p[k + 1].wanted => Count(p, k + 1) = Count(p, k) + 1
         /\ ~p[k + 1].wanted => Count(p, k + 1) = Count(p, k)
<1> DEFINE S(m) == {j \in 1..m : p[j].wanted}
<1>1. \A m \in Nat : IsFiniteSet(S(m))
  <2> SUFFICES ASSUME NEW m \in Nat PROVE IsFiniteSet(S(m))  OBVIOUS
  <2>1. IsFiniteSet(1..m)  BY FS_Interval
  <2>2. S(m) \in SUBSET (1..m)  OBVIOUS
  <2> HIDE DEF S
  <2> QED  BY <2>1, <2>2, FS_Subset
<1>2. Count(p, k) \in Nat /\ Count(p, k) = Cardinality(S(k)) /\ Count(p, k + 1) = Cardinality(S(k + 1))
  BY <1>1, FS_CardinalityType DEF Count
<1>3. S(0) = {}  OBVIOUS
<1>4. Count(p, 0) = 0  BY <1>3, FS_EmptySet DEF Count
<1>5. ASSUME p[k + 1].wanted PROVE Count(p, k + 1) = Count(p, k) + 1
  <2>1. S(k + 1) = S(k) \cup {k + 1} /\ k + 1 \notin S(k)  BY <1>5
  <2> HIDE DEF S
  <2> QED  BY <1>1, <1>2, <2>1, FS_AddElement
<1>6. ASSUME ~p[k + 1].wanted PROVE Count(p, k + 1) = Count(p, k)
  <2>1. S(k + 1) = S(k)  BY <1>6
  <2> QED  BY <1>2, <2>1
<1> QED  BY <1>2, <1>4, <1>5, <1>6

LEMMA CountMonotone ==
  ASSUME NEW p, NEW k \in Nat, NEW l \in Nat, k <= l
  PROVE  /\ Count(p, k) <= Count(p, l)
         /\ k < l /\ p[l].wanted => Count(p, k) < Count(p, l)
<1> DEFINE S(m) == {j \in 1..m : p[j].wanted}
<1>1. IsFiniteSet(S(l))
  <2>1. IsFiniteSet(1..l)  BY FS_Interval
  <2>2. S(l) \in SUBSET (1..l)  OBVIOUS
  <2> HIDE DEF S
  <2> QED  BY <2>1, <2>2, FS_Subset
<1>2. S(k) \in SUBSET S(l)  OBVIOUS
<1>3. k < l /\ p[l].wanted => S(k) # S(l)
  <2>1. k < l /\ p[l].wanted => l \in S(l) /\ l \notin S(k)  OBVIOUS
  <2> QED  BY <2>1
<1>4. Count(p, k) = Cardinality(S(k)) /\ Count(p, l) = Cardinality(S(l))  BY DEF Count
<1>5. Count(p, k) \in Nat /\ Count(p, l) \in Nat  BY CountFacts
<1> HIDE DEF S
<1>6. Cardinality(S(k)) <= Cardinality(S(l)) /\ (Cardinality(S(l)) = Cardinality(S(k)) => S(l) = S(k))
  BY <1>1, <1>2, FS_Subset
<1> QED  BY <1>3, <1>4, <1>5, <1>6

\* The segment that the loop is at is the one with its number.
LEMMA WantedIsThere ==
  ASSUME NEW p \in Seq(Segment)
  PROVE  /\ Len(Wanted(p)) = Count(p, Len(p)) /\ Len(Wanted(p)) \in Nat /\ IsSeq(Wanted(p))
         /\ DOMAIN Wanted(p) = 1..Len(Wanted(p))
         /\ \A r \in DOMAIN p : p[r].wanted => /\ Count(p, r) \in 1..Len(Wanted(p))
                                               /\ Wanted(p)[Count(p, r)] = p[r]
<1> DEFINE n == Count(p, Len(p))
<1>1. n \in Nat /\ Len(p) \in Nat  BY CountFacts
<1>2. Wanted(p) = [m \in 1..n |-> p[CHOOSE k \in DOMAIN p : p[k].wanted /\ Count(p, k) = m]]
  BY DEF Wanted
<1>3. Wanted(p) = [m \in 1..n |-> Wanted(p)[m]]
  <2> HIDE DEF n
  <2> QED  BY <1>2
<1>4. IsSeq(Wanted(p)) /\ Len(Wanted(p)) = n  BY <1>1, <1>3, IsSeqFunction
<1>5. ASSUME NEW r \in DOMAIN p, p[r].wanted
      PROVE  Count(p, r) \in 1..n /\ Wanted(p)[Count(p, r)] = p[r]
  <2>1. r \in Nat /\ 0 < r /\ r <= Len(p) /\ 0 \in Nat  BY <1>1
  <2>2. Count(p, r) <= n  BY <1>1, <2>1, CountMonotone
  <2>3. Count(p, 0) < Count(p, r)  BY <1>5, <2>1, CountMonotone
  <2>4. Count(p, 0) = 0 /\ Count(p, r) \in Nat  BY <2>1, CountFacts
  <2>5. Count(p, r) \in 1..n  BY <1>1, <2>2, <2>3, <2>4
  <2> DEFINE k == CHOOSE m \in DOMAIN p : p[m].wanted /\ Count(p, m) = Count(p, r)
  <2>6. k \in DOMAIN p /\ p[k].wanted /\ Count(p, k) = Count(p, r)  BY <1>5, Zenon
  <2>7. Wanted(p)[Count(p, r)] = p[k]  BY <1>2, <2>5
  <2> HIDE DEF k
  <2>8. k \in Nat  BY <2>6, <1>1
  <2>9. ~(k < r)  BY <2>1, <2>4, <2>6, <2>8, <1>5, CountMonotone
  <2>10. ~(r < k)  BY <2>1, <2>4, <2>6, <2>8, CountMonotone
  <2>11. k = r  BY <2>1, <2>8, <2>9, <2>10
  <2> QED  BY <2>5, <2>7, <2>11
<1> QED  BY <1>1, <1>3, <1>4, <1>5

-----------------------------------------------------------------------------
(* Files that cover a range of segments.                                   *)

LEMMA CoversSame ==
  ASSUME NEW fs, NEW gs, NEW m \in Nat, NEW s \in Nat, NEW e \in Nat, Covers(fs, m, s, e),
         \A c \in 1..m : gs[c].segments = fs[c].segments
  PROVE  Covers(gs, m, s, e)
BY DEF Covers

\* A file more, of the segments e + 1 to l.
LEMMA CoversFile ==
  ASSUME NEW fs, NEW m \in Nat, NEW s \in Nat, NEW e \in Nat, NEW l \in Nat, s <= e, e < l,
         Covers(fs, m, s, e),
         DOMAIN fs[m + 1].segments = 1..(l - e),
         \A k \in 1..(l - e) : fs[m + 1].segments[k].of = e + k
  PROVE  Covers(fs, m + 1, s, l)
<1> DEFINE Seg(c) == DOMAIN fs[c].segments
           Of(c, k) == fs[c].segments[k].of
<1>1. /\ \A c \in 1..m : \A k \in Seg(c) : k \in Nat /\ Of(c, k) \in (s + 1)..e
      /\ \A c \in 1..m : \A k, j \in Seg(c) : k < j => Of(c, k) < Of(c, j)
      /\ \A b, c \in 1..m : b < c => \A k \in Seg(b) : \A j \in Seg(c) : Of(b, k) < Of(c, j)
      /\ \A j \in (s + 1)..e : \E c \in 1..m : \E k \in Seg(c) : Of(c, k) = j
  BY DEF Covers
<1>2. Seg(m + 1) = 1..(l - e) /\ \A k \in Seg(m + 1) : Of(m + 1, k) = e + k  OBVIOUS
<1>3. Covers(fs, m + 1, s, l) <=>
        /\ \A c \in 1..(m + 1) : \A k \in Seg(c) : k \in Nat /\ Of(c, k) \in (s + 1)..l
        /\ \A c \in 1..(m + 1) : \A k, j \in Seg(c) : k < j => Of(c, k) < Of(c, j)
        /\ \A b, c \in 1..(m + 1) : b < c => \A k \in Seg(b) : \A j \in Seg(c) : Of(b, k) < Of(c, j)
        /\ \A j \in (s + 1)..l : \E c \in 1..(m + 1) : \E k \in Seg(c) : Of(c, k) = j
  BY DEF Covers
<1>4. \A c \in 1..(m + 1) : c \in 1..m \/ c = m + 1  OBVIOUS
<1> HIDE DEF Seg, Of
<1>5. \A c \in 1..(m + 1) : \A k \in Seg(c) : k \in Nat /\ Of(c, k) \in (s + 1)..l
  BY <1>1, <1>2, <1>4
<1>6. \A c \in 1..(m + 1) : \A k, j \in Seg(c) : k < j => Of(c, k) < Of(c, j)
  BY <1>1, <1>2, <1>4
<1>7. \A b, c \in 1..(m + 1) : b < c => \A k \in Seg(b) : \A j \in Seg(c) : Of(b, k) < Of(c, j)
  <2> SUFFICES ASSUME NEW b \in 1..(m + 1), NEW c \in 1..(m + 1), b < c, NEW k \in Seg(b), NEW j \in Seg(c)
               PROVE  Of(b, k) < Of(c, j)
    OBVIOUS
  <2>1. b \in 1..m  OBVIOUS
  <2>2. CASE c \in 1..m  BY <1>1, <2>1, <2>2
  <2>3. CASE c = m + 1
    <3>1. Of(b, k) \in (s + 1)..e  BY <1>1, <2>1
    <3>2. j \in 1..(l - e) /\ Of(c, j) = e + j  BY <1>2, <2>3
    <3> QED  BY <3>1, <3>2
  <2> QED  BY <1>4, <2>2, <2>3
<1>8. \A j \in (s + 1)..l : \E c \in 1..(m + 1) : \E k \in Seg(c) : Of(c, k) = j
  <2> SUFFICES ASSUME NEW j \in (s + 1)..l PROVE \E c \in 1..(m + 1) : \E k \in Seg(c) : Of(c, k) = j
    OBVIOUS
  <2>1. CASE j <= e
    <3>1. j \in (s + 1)..e  BY <2>1
    <3>2. \E c \in 1..m : \E k \in Seg(c) : Of(c, k) = j  BY <1>1, <3>1
    <3>3. 1..m \subseteq 1..(m + 1)  OBVIOUS
    <3> QED  BY <3>2, <3>3
  <2>2. CASE ~(j <= e)
    <3>1. j - e \in 1..(l - e) /\ e + (j - e) = j /\ m + 1 \in 1..(m + 1)  BY <2>2
    <3> QED  BY <1>2, <3>1
  <2> QED  BY <2>1, <2>2
<1> QED  BY <1>3, <1>5, <1>6, <1>7, <1>8

\* Files of a single segment more, up to l.
LEMMA CoversSingles ==
  ASSUME NEW fs, NEW m \in Nat, NEW s \in Nat, NEW e \in Nat, NEW l \in Nat, s <= e, e <= l,
         Covers(fs, m, s, e),
         \A c \in 1..(l - e) : DOMAIN fs[m + c].segments = {1} /\ fs[m + c].segments[1].of = e + c
  PROVE  Covers(fs, m + (l - e), s, l)
<1> DEFINE Seg(c) == DOMAIN fs[c].segments
           Of(c, k) == fs[c].segments[k].of
           u == m + (l - e)
<1>1. /\ \A c \in 1..m : \A k \in Seg(c) : k \in Nat /\ Of(c, k) \in (s + 1)..e
      /\ \A c \in 1..m : \A k, j \in Seg(c) : k < j => Of(c, k) < Of(c, j)
      /\ \A b, c \in 1..m : b < c => \A k \in Seg(b) : \A j \in Seg(c) : Of(b, k) < Of(c, j)
      /\ \A j \in (s + 1)..e : \E c \in 1..m : \E k \in Seg(c) : Of(c, k) = j
  BY DEF Covers
<1>2. \A c \in 1..(l - e) : Seg(m + c) = {1} /\ Of(m + c, 1) = e + c  OBVIOUS
<1>3. Covers(fs, u, s, l) <=>
        /\ \A c \in 1..u : \A k \in Seg(c) : k \in Nat /\ Of(c, k) \in (s + 1)..l
        /\ \A c \in 1..u : \A k, j \in Seg(c) : k < j => Of(c, k) < Of(c, j)
        /\ \A b, c \in 1..u : b < c => \A k \in Seg(b) : \A j \in Seg(c) : Of(b, k) < Of(c, j)
        /\ \A j \in (s + 1)..l : \E c \in 1..u : \E k \in Seg(c) : Of(c, k) = j
  BY DEF Covers
<1>4. u \in Nat /\ u = m + (l - e)  OBVIOUS
<1> HIDE DEF Seg, Of, u
<1>5. \A c \in 1..u : c \notin 1..m => c - m \in 1..(l - e) /\ Seg(c) = {1} /\ Of(c, 1) = e + (c - m)
  <2> SUFFICES ASSUME NEW c \in 1..u, c \notin 1..m
               PROVE  c - m \in 1..(l - e) /\ Seg(c) = {1} /\ Of(c, 1) = e + (c - m)
    OBVIOUS
  <2>1. c - m \in 1..(l - e) /\ m + (c - m) = c  BY <1>4
  <2> QED  BY <1>2, <2>1
<1>6. \A c \in 1..u : \A k \in Seg(c) : k \in Nat /\ Of(c, k) \in (s + 1)..l
  <2> SUFFICES ASSUME NEW c \in 1..u, NEW k \in Seg(c) PROVE k \in Nat /\ Of(c, k) \in (s + 1)..l
    OBVIOUS
  <2>1. CASE c \in 1..m  BY <1>1, <2>1
  <2>2. CASE c \notin 1..m  BY <1>5, <2>2
  <2> QED  BY <2>1, <2>2
<1>7. \A c \in 1..u : \A k, j \in Seg(c) : k < j => Of(c, k) < Of(c, j)
  BY <1>1, <1>5
<1>8. \A b, c \in 1..u : b < c => \A k \in Seg(b) : \A j \in Seg(c) : Of(b, k) < Of(c, j)
  <2> SUFFICES ASSUME NEW b \in 1..u, NEW c \in 1..u, b < c, NEW k \in Seg(b), NEW j \in Seg(c)
               PROVE  Of(b, k) < Of(c, j)
    OBVIOUS
  <2>1. CASE c \in 1..m
    <3>1. b \in 1..m  BY <2>1
    <3> QED  BY <1>1, <2>1, <3>1
  <2>2. CASE c \notin 1..m /\ b \in 1..m
    <3>1. Of(b, k) \in (s + 1)..e  BY <1>1, <2>2
    <3>2. c - m \in 1..(l - e) /\ Of(c, j) = e + (c - m)  BY <1>5, <2>2
    <3> QED  BY <3>1, <3>2
  <2>3. CASE c \notin 1..m /\ b \notin 1..m
    <3>1. Of(b, k) = e + (b - m) /\ Of(c, j) = e + (c - m)  BY <1>5, <2>3
    <3> QED  BY <3>1
  <2> QED  BY <2>1, <2>2, <2>3
<1>9. \A j \in (s + 1)..l : \E c \in 1..u : \E k \in Seg(c) : Of(c, k) = j
  <2> SUFFICES ASSUME NEW j \in (s + 1)..l PROVE \E c \in 1..u : \E k \in Seg(c) : Of(c, k) = j
    OBVIOUS
  <2>1. CASE j <= e
    <3>1. j \in (s + 1)..e  BY <2>1
    <3>2. \E c \in 1..m : \E k \in Seg(c) : Of(c, k) = j  BY <1>1, <3>1
    <3>3. 1..m \subseteq 1..u  BY <1>4
    <3> QED  BY <3>2, <3>3
  <2>2. CASE ~(j <= e)
    <3>1. j - e \in 1..(l - e) /\ e + (j - e) = j /\ m + (j - e) \in 1..u  BY <1>4, <2>2
    <3> QED  BY <1>2, <3>1
  <2> QED  BY <2>1, <2>2
<1> QED  BY <1>3, <1>4, <1>6, <1>7, <1>8, <1>9 DEF u

-----------------------------------------------------------------------------
(* The directory.                                                          *)

LEMMA UpToIs ==
  ASSUME NEW fs, IsSeq(fs), NEW l, NEW u \in 0..Len(fs), \A k \in DOMAIN fs : fs[k].last <= l <=> k <= u
  PROVE  UpTo(fs, l) = u
<1>1. DOMAIN fs = 1..Len(fs) /\ Len(fs) \in Nat  BY IsSeqFacts
<1> DEFINE v == UpTo(fs, l)
<1>2. v \in 0..Len(fs) /\ \A k \in DOMAIN fs : fs[k].last <= l <=> k <= v
  BY Zenon DEF UpTo
<1> HIDE DEF v
<1>3. \A k \in 1..Len(fs) : k <= u <=> k <= v  BY <1>1, <1>2
<1>4. ~(u < v)
  <2> SUFFICES ASSUME u < v PROVE FALSE  OBVIOUS
  <2>1. v \in 1..Len(fs)  BY <1>1, <1>2
  <2> QED  BY <1>1, <1>2, <1>3, <2>1
<1>5. ~(v < u)
  <2> SUFFICES ASSUME v < u PROVE FALSE  OBVIOUS
  <2>1. u \in 1..Len(fs)  BY <1>1, <1>2
  <2> QED  BY <1>1, <1>2, <1>3, <2>1
<1> QED  BY <1>1, <1>2, <1>4, <1>5 DEF v

LEMMA DoneIs ==
  ASSUME NEW fs, IsSeq(fs), NEW d \in 0..Len(fs), \A k \in DOMAIN fs : fs[k].raw <=> d < k
  PROVE  Done(fs) = d
<1>1. DOMAIN fs = 1..Len(fs) /\ Len(fs) \in Nat  BY IsSeqFacts
<1> DEFINE v == Done(fs)
<1>2. v \in 0..Len(fs) /\ \A k \in DOMAIN fs : fs[k].raw <=> v < k
  BY Zenon DEF Done
<1> HIDE DEF v
<1>3. \A k \in 1..Len(fs) : d < k <=> v < k  BY <1>1, <1>2, Zenon
<1>4. ~(d < v)
  <2> SUFFICES ASSUME d < v PROVE FALSE  OBVIOUS
  <2>1. v \in 1..Len(fs)  BY <1>1, <1>2
  <2> QED  BY <1>1, <1>2, <1>3, <2>1
<1>5. ~(v < d)
  <2> SUFFICES ASSUME v < d PROVE FALSE  OBVIOUS
  <2>1. d \in 1..Len(fs)  BY <1>1, <1>2
  <2> QED  BY <1>1, <1>2, <1>3, <2>1
<1> QED  BY <1>1, <1>2, <1>4, <1>5 DEF v

\* Where the segments up to l end.
LEMMA DirectoryPlaces ==
  ASSUME NEW n, NEW by, NEW fs, NEW s, NEW d, NEW D, Directory(n, by, fs, s, d, D), NEW l \in D..n
  PROVE  /\ UpTo(fs, l) = d + (l - D) /\ Done(fs) = d
         /\ d + (l - D) \in 0..Len(fs) /\ Len(fs) \in Nat /\ DOMAIN fs = 1..Len(fs)
         /\ n \in Nat /\ s \in Nat /\ d \in Nat /\ D \in Nat /\ l \in Nat
<1>1. IsSeq(fs) /\ n \in Nat /\ s \in Nat /\ d \in Nat /\ D \in s..n /\ Len(fs) = d + (n - D)
  BY DEF Directory
<1>2. DOMAIN fs = 1..Len(fs) /\ Len(fs) \in Nat /\ D \in Nat /\ l \in Nat /\ d + (l - D) \in 0..Len(fs)
  BY <1>1, IsSeqFacts
<1>3. \A c \in 1..d : fs[c].raw = FALSE /\ fs[c].last \in (s + 1)..D  BY DEF Directory
<1>4. \A c \in 1..(n - D) : fs[d + c].raw = TRUE /\ fs[d + c].last = D + c
  <2> SUFFICES ASSUME NEW c \in 1..(n - D) PROVE fs[d + c].raw = TRUE /\ fs[d + c].last = D + c
    OBVIOUS
  <2>1. fs[d + c] = Single(D + c, by)  BY DEF Directory
  <2> QED  BY <2>1 DEF Single
<1>5. ASSUME NEW k \in DOMAIN fs PROVE (fs[k].last <= l <=> k <= d + (l - D)) /\ (fs[k].raw <=> d < k)
  <2>1. CASE k \in 1..d
    <3>1. fs[k].raw = FALSE /\ fs[k].last \in (s + 1)..D  BY <1>3, <2>1
    <3>2. fs[k].last <= l /\ k <= d + (l - D)  BY <3>1, <1>1, <1>2, <2>1
    <3>3. ~(d < k)  BY <1>1, <2>1
    <3> QED  BY <3>1, <3>2, <3>3
  <2>2. CASE k \notin 1..d
    <3>1. k - d \in 1..(n - D) /\ d + (k - d) = k  BY <1>1, <1>2, <2>2
    <3>2. fs[k].raw = TRUE /\ fs[k].last = D + (k - d)  BY <1>4, <3>1
    <3>3. (D + (k - d) <= l <=> k <= d + (l - D)) /\ d < k  BY <1>1, <1>2, <3>1
    <3> QED  BY <3>2, <3>3
  <2> QED  BY <2>1, <2>2
<1>6. UpTo(fs, l) = d + (l - D)  BY <1>1, <1>2, <1>5, UpToIs
<1>7. d \in 0..Len(fs)  BY <1>1, <1>2
<1>8. Done(fs) = d  BY <1>1, <1>5, <1>7, DoneIs
<1> QED  BY <1>1, <1>2, <1>6, <1>8

\* The files after those of several segments.
LEMMA Singles ==
  ASSUME NEW n, NEW by, NEW fs, NEW s, NEW d, NEW D, Directory(n, by, fs, s, d, D), NEW c \in 1..(n - D)
  PROVE  /\ fs[d + c].last = D + c /\ fs[d + c].map_data = Nothing
         /\ DOMAIN fs[d + c].segments = {1} /\ fs[d + c].segments[1] = [of |-> D + c, by |-> by]
<1>1. fs[d + c] = Single(D + c, by)  BY DEF Directory
<1>2. fs[d + c].segments = <<[of |-> D + c, by |-> by]>>  BY <1>1 DEF Single
<1>3. fs[d + c].last = D + c /\ fs[d + c].map_data = Nothing  BY <1>1 DEF Single
<1> QED  BY <1>2, <1>3

\* The files of the segments s + 1 to l.
LEMMA DirectoryCovers ==
  ASSUME NEW n, NEW by, NEW fs, NEW s, NEW d, NEW D, Directory(n, by, fs, s, d, D), NEW l \in D..n
  PROVE  /\ Covers(fs, d + (l - D), s, l)
         /\ s < l => d + (l - D) > 0 /\ fs[d + (l - D)].last = l
<1>1. n \in Nat /\ s \in Nat /\ d \in Nat /\ D \in Nat /\ l \in Nat  BY DirectoryPlaces
<1>2. s <= D /\ D <= l /\ l <= n /\ Covers(fs, d, s, D) /\ (IF d = 0 THEN D = s ELSE fs[d].last = D)
  BY <1>1 DEF Directory
<1>3. \A c \in 1..(l - D) : /\ DOMAIN fs[d + c].segments = {1} /\ fs[d + c].segments[1].of = D + c
                            /\ fs[d + c].last = D + c
  <2> SUFFICES ASSUME NEW c \in 1..(l - D)
               PROVE  /\ DOMAIN fs[d + c].segments = {1} /\ fs[d + c].segments[1].of = D + c
                      /\ fs[d + c].last = D + c
    OBVIOUS
  <2>1. c \in 1..(n - D)  BY <1>1, <1>2
  <2>2. /\ fs[d + c].last = D + c
        /\ DOMAIN fs[d + c].segments = {1} /\ fs[d + c].segments[1] = [of |-> D + c, by |-> by]
    BY <2>1, Singles
  <2> QED  BY <2>2
<1>4. Covers(fs, d + (l - D), s, l)  BY <1>1, <1>2, <1>3, CoversSingles
<1>5. ASSUME s < l PROVE d + (l - D) > 0 /\ fs[d + (l - D)].last = l
  <2>1. CASE l = D
    <3>1. d # 0 /\ d + (l - D) = d  BY <1>1, <1>2, <1>5, <2>1
    <3> QED  BY <1>1, <1>2, <2>1, <3>1
  <2>2. CASE l # D
    <3>1. l - D \in 1..(l - D) /\ D + (l - D) = l /\ d + (l - D) > 0  BY <1>1, <1>2, <2>2
    <3> QED  BY <1>3, <3>1
  <2> QED  BY <2>1, <2>2
<1> QED  BY <1>4, <1>5

\* The first d + (l - D) files go to the output.
LEMMA MergedFiles ==
  ASSUME NEW n, NEW by, NEW fs, NEW s, NEW d, NEW D, Directory(n, by, fs, s, d, D), NEW l \in D..n,
         NEW u, u = d + (l - D)
  PROVE  /\ Directory(n, by, SubSeq(fs, u + 1, Len(fs)), l, 0, l)
         /\ IsSeq(SubSeq(fs, 1, u)) /\ Len(SubSeq(fs, 1, u)) = u
         /\ \A c \in 1..u : SubSeq(fs, 1, u)[c] = fs[c]
         /\ Covers(SubSeq(fs, 1, u), u, s, l)
<1>1. /\ u \in 0..Len(fs) /\ Len(fs) \in Nat
      /\ n \in Nat /\ s \in Nat /\ d \in Nat /\ D \in Nat /\ l \in Nat
  BY DirectoryPlaces
<1>2. IsSeq(fs) /\ Len(fs) = d + (n - D) /\ \A c \in 1..(n - D) : fs[d + c] = Single(D + c, by)
  BY DEF Directory
<1> DEFINE a == SubSeq(fs, 1, u)
           b == SubSeq(fs, u + 1, Len(fs))
<1>3. IsSeq(a) /\ Len(a) = u /\ \A c \in 1..u : a[c] = fs[c]
  <2>1. u \in Nat /\ 1 \in Nat \ {0} /\ 1 <= u + 1 /\ u <= Len(fs) /\ u + 1 - 1 = u  BY <1>1
  <2>2. \A c \in 1..u : 1 + c - 1 = c  BY <1>1
  <2> QED  BY <1>2, <2>1, <2>2, SubSeqFacts
<1>4. IsSeq(b) /\ Len(b) = n - l /\ \A c \in 1..(n - l) : b[c] = fs[u + c]
  <2>1. /\ u + 1 \in Nat \ {0} /\ Len(fs) <= Len(fs) /\ u + 1 <= Len(fs) + 1
        /\ Len(fs) + 1 - (u + 1) = n - l
    BY <1>1, <1>2
  <2>2. \A c \in 1..(n - l) : (u + 1) + c - 1 = u + c  BY <1>1
  <2> QED  BY <1>1, <1>2, <2>1, <2>2, SubSeqFacts
<1> HIDE DEF a, b
<1>5. \A c \in 1..(n - l) : b[0 + c] = Single(l + c, by)
  <2> SUFFICES ASSUME NEW c \in 1..(n - l) PROVE b[0 + c] = Single(l + c, by)  OBVIOUS
  <2>1. /\ (l - D) + c \in 1..(n - D) /\ u + c = d + ((l - D) + c) /\ D + ((l - D) + c) = l + c
        /\ 0 + c = c
    BY <1>1
  <2>2. fs[d + ((l - D) + c)] = Single(D + ((l - D) + c), by)  BY <1>2, <2>1
  <2> QED  BY <1>4, <2>1, <2>2
<1>6. Covers(b, 0, l, l)  BY <1>1 DEF Covers
<1>7. Directory(n, by, b, l, 0, l)
  <2>1. l \in l..n /\ Len(b) = 0 + (n - l)  BY <1>1, <1>4
  <2> QED  BY <1>1, <1>4, <1>5, <1>6, <2>1 DEF Directory
<1>8. Covers(a, u, s, l)
  <2>1. Covers(fs, u, s, l)  BY DirectoryCovers
  <2>2. \A c \in 1..u : a[c].segments = fs[c].segments  BY <1>3
  <2>3. u \in Nat  BY <1>1
  <2> QED  BY <1>1, <2>1, <2>2, <2>3, CoversSame
<1> QED  BY <1>3, <1>7, <1>8 DEF a, b

\* A file of the segments D + 1 to l.
Joint(g, D, l) ==
  /\ g.raw = FALSE /\ g.last = l /\ DOMAIN g.segments = 1..(l - D)
  /\ \A k \in 1..(l - D) : g.segments[k].of = D + k

\* The single files up to l become one, g.
LEMMA JoinedFiles ==
  ASSUME NEW n, NEW by, NEW fs, NEW s, NEW d, NEW D, Directory(n, by, fs, s, d, D), NEW l \in D..n, D < l,
         NEW g, Joint(g, D, l)
  PROVE  /\ Directory(n, by, Replaced(fs, d, d + (l - D), g), s, d + 1, l)
         /\ Replaced(fs, d, d + (l - D), g)[d + 1] = g
         /\ \A c \in 1..d : Replaced(fs, d, d + (l - D), g)[c] = fs[c]
<1> DEFINE u == d + (l - D)
           r == Replaced(fs, d, u, g)
<1>1. /\ u \in 0..Len(fs) /\ Len(fs) \in Nat
      /\ n \in Nat /\ s \in Nat /\ d \in Nat /\ D \in Nat /\ l \in Nat
  BY DirectoryPlaces
<1>2. /\ IsSeq(fs) /\ Len(fs) = d + (n - D) /\ D \in s..n /\ Covers(fs, d, s, D)
      /\ \A c \in 1..(n - D) : fs[d + c] = Single(D + c, by)
      /\ \A c \in 1..d : fs[c].raw = FALSE /\ fs[c].last \in (s + 1)..D
  BY DEF Directory
<1>3. u \in Nat /\ d <= u /\ u <= Len(fs)  BY <1>1
<1> HIDE DEF u
<1>4. /\ IsSeq(r) /\ Len(r) = d + 1 + Len(fs) - u
      /\ \A k \in 1..d : r[k] = fs[k]
      /\ r[d + 1] = g
      /\ \A k \in 1..(Len(fs) - u) : r[d + 1 + k] = fs[u + k]
  <2>1. IsSeq(fs)  BY <1>2
  <2>2. d \in Nat /\ u \in Nat /\ d <= u /\ u <= Len(fs)  BY <1>1, <1>3
  <2> HIDE DEF r
  <2>3. r = Replaced(fs, d, u, g)  BY DEF r
  <2>4. IsSeq(r)  BY <2>1, <2>2, <2>3, ReplacedFacts
  <2>5. Len(r) = d + 1 + Len(fs) - u  BY <2>1, <2>2, <2>3, ReplacedFacts
  <2>6. \A k \in 1..d : r[k] = fs[k]  BY <2>1, <2>2, <2>3, ReplacedFacts
  <2>7. r[d + 1] = g  BY <2>1, <2>2, <2>3, ReplacedFacts
  <2>8. ASSUME NEW k \in 1..(Len(fs) - u) PROVE r[d + 1 + k] = fs[u + k]
    <3>1. \A j \in 1..(Len(fs) - u) : Replaced(fs, d, u, g)[d + 1 + j] = fs[u + j]
      BY <2>1, <2>2, ReplacedFacts
    <3> QED  BY <2>3, <3>1, Zenon
  <2> QED  BY <2>4, <2>5, <2>6, <2>7, <2>8
<1> HIDE DEF r
<1>5. Len(r) = (d + 1) + (n - l) /\ l \in s..n /\ d + 1 \in Nat /\ Len(fs) - u = n - l
  <2>1. Len(fs) = d + (n - D) /\ s <= D /\ D <= l /\ l <= n  BY <1>1, <1>2
  <2>2. Len(r) = d + 1 + Len(fs) - u  BY <1>4
  <2> QED  BY <1>1, <2>1, <2>2 DEF u
<1>6. \A c \in 1..(n - l) : r[(d + 1) + c] = Single(l + c, by)
  <2> SUFFICES ASSUME NEW c \in 1..(n - l) PROVE r[(d + 1) + c] = Single(l + c, by)  OBVIOUS
  <2>1. /\ (l - D) + c \in 1..(n - D) /\ u + c = d + ((l - D) + c) /\ D + ((l - D) + c) = l + c
    BY <1>1 DEF u
  <2>2. fs[d + ((l - D) + c)] = Single(D + ((l - D) + c), by)  BY <1>2, <2>1
  <2>3. r[d + 1 + c] = fs[u + c]  BY <1>4, <1>5
  <2> QED  BY <2>1, <2>2, <2>3
<1>7. \A c \in 1..(d + 1) : r[c].raw = FALSE /\ r[c].last \in (s + 1)..l
  <2> SUFFICES ASSUME NEW c \in 1..(d + 1) PROVE r[c].raw = FALSE /\ r[c].last \in (s + 1)..l
    OBVIOUS
  <2>1. CASE c = d + 1
    <3>1. l \in (s + 1)..l  BY <1>1, <1>2
    <3> QED  BY <1>4, <2>1, <3>1 DEF Joint
  <2>2. CASE c # d + 1
    <3>1. c \in 1..d  BY <1>1, <2>2
    <3>2. r[c] = fs[c] /\ fs[c].raw = FALSE /\ fs[c].last \in (s + 1)..D  BY <1>2, <1>4, <3>1
    <3>3. \A x \in (s + 1)..D : x \in (s + 1)..l  BY <1>1
    <3> QED  BY <3>2, <3>3
  <2> QED  BY <2>1, <2>2
<1>8. Covers(r, d + 1, s, l)
  <2>1. Covers(r, d, s, D)
    <3>1. \A c \in 1..d : r[c].segments = fs[c].segments  BY <1>4
    <3>2. Covers(fs, d, s, D)  BY <1>2
    <3> QED  BY <1>1, <3>1, <3>2, CoversSame
  <2>2. DOMAIN r[d + 1].segments = 1..(l - D) /\ \A k \in 1..(l - D) : r[d + 1].segments[k].of = D + k
    BY <1>4 DEF Joint
  <2>3. s <= D  BY <1>1, <1>2
  <2>4. D < l  OBVIOUS
  <2> QED  BY <1>1, <2>1, <2>2, <2>3, <2>4, CoversFile
<1>9. IF d + 1 = 0 THEN l = s ELSE r[d + 1].last = l
  <2>1. r[d + 1].last = l /\ d + 1 # 0  BY <1>1, <1>4 DEF Joint
  <2> QED  BY <2>1
<1>10. Directory(n, by, r, s, d + 1, l)
  BY <1>1, <1>4, <1>5, <1>6, <1>7, <1>8, <1>9 DEF Directory
<1>11. r = Replaced(fs, d, d + (l - D), g)  BY DEF r, u
<1> QED  BY <1>4, <1>10, <1>11

\* The output, one file longer.
LEMMA OutputGrows ==
  ASSUME NEW w, NEW mg, NEW s, Output(w, mg, s), NEW g, NEW l \in 0..Len(w), File(w, g, s, l),
         g.via[Len(g.via)].last = l, Len(w) \in Nat, s > 0 => w[s + 1].discontinuity
  PROVE  Output(w, Append(mg, g), l)
<1> DEFINE m == Len(mg)
           mh == Append(mg, g)
<1>1. IsSeq(mg) /\ m \in Nat /\ DOMAIN mg = 1..m  BY IsSeqFacts DEF Output
<1>2. IsSeq(mh) /\ Len(mh) = m + 1 /\ mh[m + 1] = g /\ \A f \in 1..m : mh[f] = mg[f]
  <2> DEFINE S == {mg[f] : f \in DOMAIN mg} \cup {g}
             R == {mg[f] : f \in DOMAIN mg}
  <2>1. mg \in Seq(R)  BY <1>1 DEF IsSeq
  <2>2. R \subseteq S /\ g \in S  OBVIOUS
  <2> HIDE DEF R, S
  <2>3. mg \in Seq(S)  BY <2>1, <2>2
  <2>4. mh \in Seq(S) /\ Len(mh) = m + 1 /\ mh[m + 1] = g /\ \A f \in 1..m : mh[f] = mg[f]  BY <2>2, <2>3
  <2> QED  BY <2>4, IsSeqOf
<1>3. DOMAIN mh = 1..(m + 1)  BY <1>2, IsSeqFacts
<1>4. /\ s \in 0..Len(w) /\ End(mg, m) = s
      /\ \A f \in 1..m : File(w, mg[f], End(mg, f - 1), End(mg, f))
      /\ \A f, h \in 0..m : f <= h => End(mg, f) <= End(mg, h)
      /\ \A j \in 1..s : \E f \in 1..m : End(mg, f - 1) < j /\ j <= End(mg, f)
      /\ \A f \in 1..(m - 1) : w[End(mg, f) + 1].discontinuity
  BY <1>1 DEF Output
<1> HIDE DEF m, mh
<1>5. (\A f \in 0..m : End(mh, f) = End(mg, f)) /\ End(mh, m + 1) = l
  <2>1. \A f \in 0..m : f = 0 \/ f \in 1..m  BY <1>1
  <2>2. m + 1 # 0  BY <1>1
  <2> QED  BY <1>2, <2>1, <2>2 DEF End
<1>6. s < l /\ s \in Nat /\ l \in Nat  BY DEF File
<1>7. \A f \in DOMAIN mh : File(w, mh[f], End(mh, f - 1), End(mh, f))
  <2> SUFFICES ASSUME NEW f \in 1..(m + 1) PROVE File(w, mh[f], End(mh, f - 1), End(mh, f))
    BY <1>3
  <2>1. CASE f = m + 1
    <3>1. f - 1 = m /\ m \in 0..m  BY <1>1, <2>1
    <3>2. End(mh, f - 1) = s /\ End(mh, f) = l /\ mh[f] = g  BY <1>2, <1>4, <1>5, <2>1, <3>1
    <3> QED  BY <3>2
  <2>2. CASE f # m + 1
    <3>1. f \in 1..m /\ f \in 0..m /\ f - 1 \in 0..m  BY <1>1, <2>2
    <3>2. End(mh, f - 1) = End(mg, f - 1) /\ End(mh, f) = End(mg, f) /\ mh[f] = mg[f]
      BY <1>2, <1>5, <3>1
    <3>3. File(w, mg[f], End(mg, f - 1), End(mg, f))  BY <1>4, <3>1
    <3> QED  BY <3>2, <3>3
  <2> QED  BY <2>1, <2>2
<1>8. \A f, h \in 0..(m + 1) : f <= h => End(mh, f) <= End(mh, h)
  <2> SUFFICES ASSUME NEW f \in 0..(m + 1), NEW h \in 0..(m + 1), f <= h PROVE End(mh, f) <= End(mh, h)
    OBVIOUS
  <2>1. CASE h # m + 1
    <3>1. f \in 0..m /\ h \in 0..m  BY <1>1, <2>1
    <3> QED  BY <1>4, <1>5, <3>1
  <2>2. CASE h = m + 1 /\ f # m + 1
    <3>1. f \in 0..m /\ m \in 0..m /\ f <= m  BY <1>1, <2>2
    <3>2. End(mh, f) = End(mg, f) /\ End(mg, f) <= s /\ End(mh, h) = l  BY <1>4, <1>5, <2>2, <3>1
    <3>3. End(mg, f) \in Nat
      <4>1. CASE f = 0  BY <4>1 DEF End
      <4>2. CASE f # 0
        <5>1. f \in 1..m  BY <3>1, <4>2
        <5> QED  BY <1>4, <5>1 DEF File
      <4> QED  BY <4>1, <4>2
    <3> QED  BY <1>6, <3>2, <3>3
  <2>3. CASE h = m + 1 /\ f = m + 1  BY <1>5, <1>6, <2>3
  <2> QED  BY <2>1, <2>2, <2>3
<1>9. \A j \in 1..l : \E f \in DOMAIN mh : End(mh, f - 1) < j /\ j <= End(mh, f)
  <2> SUFFICES ASSUME NEW j \in 1..l PROVE \E f \in 1..(m + 1) : End(mh, f - 1) < j /\ j <= End(mh, f)
    BY <1>3
  <2>1. CASE j <= s
    <3>1. j \in 1..s  BY <1>6, <2>1
    <3>2. PICK f \in 1..m : End(mg, f - 1) < j /\ j <= End(mg, f)  BY <1>4, <3>1
    <3>3. f \in 1..(m + 1) /\ f \in 0..m /\ f - 1 \in 0..m  BY <1>1
    <3> QED  BY <1>5, <3>2, <3>3
  <2>2. CASE ~(j <= s)
    <3>1. m + 1 \in 1..(m + 1) /\ (m + 1) - 1 = m /\ m \in 0..m  BY <1>1
    <3>2. End(mh, (m + 1) - 1) = s /\ End(mh, m + 1) = l  BY <1>4, <1>5, <3>1
    <3>3. s < j /\ j <= l  BY <1>6, <2>2
    <3> QED  BY <3>1, <3>2, <3>3
  <2> QED  BY <2>1, <2>2
<1>10. \A f \in 1..(Len(mh) - 1) : w[End(mh, f) + 1].discontinuity
  <2> SUFFICES ASSUME NEW f \in 1..(Len(mh) - 1) PROVE w[End(mh, f) + 1].discontinuity  OBVIOUS
  <2>0. f \in 1..m  BY <1>1, <1>2
  <2>1. f \in 0..m /\ (f = m \/ f \in 1..(m - 1))  BY <1>1, <2>0
  <2>2. End(mh, f) = End(mg, f)  BY <1>5, <2>1
  <2>3. CASE f \in 1..(m - 1)  BY <1>4, <2>2, <2>3
  <2>4. CASE f = m
    <3>1. f # 0 /\ End(mg, f) = s  BY <1>1, <1>4, <2>4
    <3>2. f \in 1..m  BY <1>1, <2>4
    <3>3. File(w, mg[f], End(mg, f - 1), s)  BY <1>4, <3>1, <3>2
    <3>4. s > 0  BY <3>3 DEF File
    <3> QED  BY <2>2, <3>1, <3>4
  <2> QED  BY <2>1, <2>3, <2>4
<1>11. End(mh, Len(mh)) = l /\ Len(mh) = m + 1 /\ IsSeq(mh)  BY <1>2, <1>5
<1>12. \A f, h \in 0..Len(mh) : f <= h => End(mh, f) <= End(mh, h)  BY <1>8, <1>11
<1>14. l \in 0..Len(w)  OBVIOUS
<1>15. Output(w, mh, l)
  <2>1. /\ IsSeq(mh) /\ l \in 0..Len(w) /\ End(mh, Len(mh)) = l
        /\ \A f \in DOMAIN mh : File(w, mh[f], End(mh, f - 1), End(mh, f))
        /\ \A f, h \in 0..Len(mh) : f <= h => End(mh, f) <= End(mh, h)
        /\ \A j \in 1..l : \E f \in DOMAIN mh : End(mh, f - 1) < j /\ j <= End(mh, f)
        /\ \A f \in 1..(Len(mh) - 1) : w[End(mh, f) + 1].discontinuity
    BY <1>7, <1>9, <1>10, <1>11, <1>12, <1>14, Zenon
  <2> QED  BY <2>1, Zenon DEF Output
<1> QED  BY <1>15 DEF mh

-----------------------------------------------------------------------------
(* What is known before the loop.                                          *)

\* Every number is that of a wanted segment.
LEMMA WantedType ==
  ASSUME NEW p \in Seq(Segment), NEW m \in DOMAIN Wanted(p)
  PROVE  /\ Wanted(p)[m] \in Segment
         /\ \E k \in DOMAIN p : Wanted(p)[m] = p[k] /\ Count(p, k - 1) = m - 1
<1> DEFINE n == Count(p, Len(p))
           T == {k \in 0..Len(p) : m <= Count(p, k)}
<1>1. Len(p) \in Nat /\ \A k \in Nat : Count(p, k) \in Nat  BY CountFacts
<1>2. m \in 1..n /\ n \in Nat  BY <1>1, WantedIsThere
<1>3. \E k \in T : \A j \in T : k <= j
  <2>1. T \in SUBSET Nat /\ Len(p) \in T  BY <1>1, <1>2
  <2> HIDE DEF T
  <2> QED  BY <2>1, Least
<1>4. PICK k \in T : \A j \in T : k <= j  BY <1>3
<1>5. k \in Nat /\ k <= Len(p) /\ m <= Count(p, k) /\ Count(p, k) \in Nat  BY <1>1, <1>4
<1>6. k # 0  BY <1>2, <1>5, CountFacts
<1>7. k - 1 \in Nat /\ (k - 1) + 1 = k /\ k \in DOMAIN p  BY <1>1, <1>5, <1>6
<1>8. Count(p, k - 1) \in Nat /\ ~(m <= Count(p, k - 1))
  <2>1. k - 1 \notin T  BY <1>4, <1>7
  <2>2. k - 1 \in 0..Len(p)  BY <1>1, <1>5, <1>7
  <2> QED  BY <1>1, <1>7, <2>1, <2>2
<1>9. p[k].wanted /\ Count(p, k) = Count(p, k - 1) + 1
  <2>1. CASE p[k].wanted  BY <1>7, <2>1, CountFacts
  <2>2. CASE ~p[k].wanted
    <3>1. Count(p, k) = Count(p, k - 1)  BY <1>7, <2>2, CountFacts
    <3> QED  BY <1>5, <1>8, <3>1
  <2> QED  BY <2>1, <2>2
<1>10. Count(p, k) = m  BY <1>2, <1>5, <1>8, <1>9
<1>11. Wanted(p)[m] = p[k] /\ Wanted(p)[m] \in Segment  BY <1>7, <1>9, <1>10, WantedIsThere
<1>12. Count(p, k - 1) = m - 1  BY <1>2, <1>8, <1>9, <1>10
<1> QED  BY <1>7, <1>11, <1>12

LEMMA InitialKey ==
  ASSUME Static
  PROVE  initial_drm_key \in Keys \cup {Nothing}
<1>1. playlist \in Seq(Segment)  BY PlaylistAssumption DEF Static
<1>2. CASE media_keys = {} \/ \E k \in media_keys : playlist[k].keys = "none"
  BY <1>2 DEF initial_drm_key
<1>3. CASE ~(media_keys = {} \/ \E k \in media_keys : playlist[k].keys = "none")
  <2> DEFINE first == CHOOSE k \in media_keys : \A j \in media_keys : k <= j
  <2>1. \E k \in media_keys : \A j \in media_keys : k <= j
    <3>1. media_keys \in SUBSET Nat  BY <1>1 DEF media_keys
    <3> QED  BY <1>3, <3>1, Least
  <2>2. first \in media_keys  BY <2>1, Zenon
  <2>3. initial_drm_key = playlist[first].keys  BY <1>3 DEF initial_drm_key
  <2> HIDE DEF first
  <2>4. first \in DOMAIN playlist /\ playlist[first].keys # Nothing  BY <2>2 DEF media_keys
  <2>5. playlist[first].keys # "none"  BY <1>3, <2>2
  <2>6. playlist[first].keys \in Keys \cup {"none", Nothing}
    <3>1. playlist[first] \in Segment  BY <1>1, <2>4
    <3> QED  BY <3>1 DEF Segment
  <2> QED  BY <2>3, <2>4, <2>5, <2>6
<1> QED  BY <1>2, <1>3

LEMMA StaticFacts ==
  ASSUME Static
  PROVE  /\ playlist \in Seq(Segment) /\ Len(playlist) \in Nat
         /\ wanted_segments = Wanted(playlist) /\ IsSeq(wanted_segments)
         /\ Len(wanted_segments) \in Nat /\ DOMAIN wanted_segments = 1..Len(wanted_segments)
         /\ \A j \in 1..Len(wanted_segments) : wanted_segments[j] \in Segment
         /\ session_drm = initial_drm_key \/ (initial_drm_key = Nothing /\ session_drm = Session)
         /\ drm.scheme = "aes" => session_drm = initial_drm_key
         /\ drm.scheme \in {"cenc", "aes"}
<1>1. playlist \in Seq(Segment)  BY PlaylistAssumption DEF Static
<1>2. wanted_segments = Wanted(playlist)  BY DEF wanted_segments
<1>3. /\ IsSeq(wanted_segments) /\ Len(wanted_segments) \in Nat
      /\ DOMAIN wanted_segments = 1..Len(wanted_segments)
  BY <1>1, <1>2, WantedIsThere
<1>4. \A j \in 1..Len(wanted_segments) : wanted_segments[j] \in Segment  BY <1>1, <1>2, <1>3, WantedType
<1>5. drm.scheme \in {"cenc", "aes"} /\ (drm.session => drm.scheme = "cenc")  BY DEF Static
<1>6. session_drm = initial_drm_key \/ (initial_drm_key = Nothing /\ session_drm = Session)
  BY DEF session_drm
<1>7. drm.scheme = "aes" => session_drm = initial_drm_key
  <2>1. drm.scheme = "aes" => ~drm.session  BY <1>5
  <2> QED  BY <2>1 DEF session_drm
<1> QED  BY <1>1, <1>2, <1>3, <1>4, <1>5, <1>6, <1>7

\* The short cuts are for tracks of one init section and one key.
LEMMA ShortCut ==
  ASSUME Static, way # "loop"
  PROVE  /\ Len(wanted_segments) > 0
         /\ \A j \in 1..Len(wanted_segments) :
              wanted_segments[j].init_section = wanted_segments[1].init_section
         /\ \A j \in 2..Len(wanted_segments) : ~wanted_segments[j].discontinuity
         /\ session_drm = Nothing => way = "rolling"
         /\ session_drm # Nothing => drm.scheme = "cenc"
         /\ \A j \in 1..Len(wanted_segments) :
              /\ session_drm # Nothing =>
                   Own(wanted_segments, drm.scheme, [of |-> j, by |-> <<session_drm>>])
              /\ session_drm = Nothing => Own(wanted_segments, drm.scheme, [of |-> j, by |-> <<>>])
<1> DEFINE w == wanted_segments
<1>1. way \in Ways  BY DEF Static
<1>2. single_init_no_rotation  BY <1>1 DEF Ways
<1>3. session_drm = Nothing => way = "rolling"  BY <1>1, <1>2 DEF Ways
<1>4. session_drm # Nothing => drm.scheme = "cenc"  BY <1>1, <1>2 DEF Ways
<1>5. Len(w) \in Nat /\ DOMAIN w = 1..Len(w) /\ IsSeq(w)  BY StaticFacts
<1>6. w # <<>> /\ w[1].init_section # Nothing  BY <1>2 DEF single_init_no_rotation
<1>7. \A k \in 2..Len(w) : /\ ~w[k].discontinuity /\ w[k].init_section = w[1].init_section
                           /\ w[k].keys \in {Nothing, w[1].keys}
  BY <1>2 DEF single_init_no_rotation
<1>8. w[1].keys # Nothing => initial_drm_key # Nothing /\ resolve_segment_key(w[1].keys) = initial_drm_key
  BY <1>2 DEF single_init_no_rotation
<1>9. session_drm = initial_drm_key \/ (initial_drm_key = Nothing /\ session_drm = Session)  BY StaticFacts
<1>10. Session # Nothing  BY HlsAssumption
<1> HIDE DEF w
<1>11. Len(w) > 0
  <2>1. Len(w) = 0 => w = <<>>  BY <1>5 DEF IsSeq
  <2> QED  BY <1>5, <1>6, <2>1
<1>12. \A j \in 1..Len(w) : j = 1 \/ j \in 2..Len(w)  BY <1>5
<1>13. \A j \in 1..Len(w) : w[j].init_section = w[1].init_section  BY <1>7, <1>12
<1>14. \A j \in 1..Len(w) : w[j].keys \in {Nothing, w[1].keys}  BY <1>7, <1>12
<1>15. ASSUME NEW j \in 1..Len(w), ~Plain(w[j]) PROVE w[j].keys = session_drm /\ session_drm # Nothing
  <2>1. w[j].keys # Nothing /\ w[j].keys # "none"  BY <1>15 DEF Plain
  <2>2. w[j].keys = w[1].keys  BY <1>14, <2>1
  <2>3. initial_drm_key = w[j].keys
    BY <1>8, <2>1, <2>2 DEF resolve_segment_key, get_supported_key
  <2> QED  BY <1>9, <2>1, <2>3
<1>16. ASSUME NEW j \in 1..Len(w)
       PROVE  /\ session_drm # Nothing => Own(w, drm.scheme, [of |-> j, by |-> <<session_drm>>])
              /\ session_drm = Nothing => Own(w, drm.scheme, [of |-> j, by |-> <<>>])
  <2>1. ASSUME session_drm # Nothing PROVE Own(w, drm.scheme, [of |-> j, by |-> <<session_drm>>])
    <3>1. drm.scheme # "aes"  BY <1>4, <2>1
    <3> QED  BY <1>15, <3>1 DEF Own
  <2>2. ASSUME session_drm = Nothing PROVE Own(w, drm.scheme, [of |-> j, by |-> <<>>])
    BY <1>15, <2>2 DEF Own
  <2> QED  BY <2>1, <2>2
<1> QED  BY <1>3, <1>4, <1>7, <1>11, <1>13, <1>16 DEF w

\* A segment of the loop, decrypted or left alone.
LEMMA OwnOfPending ==
  ASSUME Static, way \in {"loop", "segment"}, NEW j \in 1..Len(wanted_segments),
         way = "loop" => Pending(drm.scheme, encryption, wanted_segments[j])
  PROVE  /\ encryption # Nothing =>
              Own(wanted_segments, drm.scheme,
                  [of |-> j, by |-> IF ByItself THEN By ELSE <<encryption.drm>>])
         /\ encryption = Nothing => Own(wanted_segments, drm.scheme, [of |-> j, by |-> By])
<1>1. CASE way = "segment"
  <2>1. ByItself /\ By = <<session_drm>>  BY <1>1 DEF ByItself, By
  <2>2. way # "loop" /\ way # "rolling"  BY <1>1
  <2>3. Own(wanted_segments, drm.scheme, [of |-> j, by |-> <<session_drm>>])  BY <2>2, ShortCut
  <2> QED  BY <2>1, <2>3
<1>2. CASE way = "loop"
  <2>1. ~ByItself /\ By = <<>>  BY <1>2 DEF ByItself, By
  <2>2. Pending(drm.scheme, encryption, wanted_segments[j])  BY <1>2
  <2>3. ASSUME encryption # Nothing
        PROVE  Own(wanted_segments, drm.scheme, [of |-> j, by |-> <<encryption.drm>>])
    BY <2>2, <2>3 DEF Pending, Own
  <2>4. ASSUME encryption = Nothing PROVE Own(wanted_segments, drm.scheme, [of |-> j, by |-> <<>>])
    BY <2>2, <2>4 DEF Pending, Own
  <2> QED  BY <2>1, <2>3, <2>4
<1> QED  BY <1>1, <1>2

-----------------------------------------------------------------------------
(* decrypt() and merge_discontinuity().                                    *)

\* What decrypt() makes of segment j.
Treated(j) == [of |-> j, by |-> IF ByItself THEN By ELSE <<encryption.drm>>]

LEMMA DecryptKeeps ==
  ASSUME NEW w, NEW scheme, NEW n, NEW fs, NEW s, NEW d, NEW D, Directory(n, By, fs, s, d, D),
         NEW l \in D..n
  PROVE  \E e \in 0..Len(decrypt(fs, l)) :
           /\ Directory(n, By, decrypt(fs, l), s, e, l)
           /\ (\A c \in 1..d : Behind(w, scheme, map_data, fs[c]))
                /\ (\A j \in (D + 1)..l : Own(w, scheme, Treated(j)))
              => \A c \in 1..e : Behind(w, scheme, map_data, decrypt(fs, l)[c])
<1> DEFINE Flat(segment) == IF ByItself THEN segment ELSE Decrypted(segment, encryption.drm)
           g == [raw |-> FALSE, last |-> l, map_data |-> map_data,
                 segments |-> [k \in 1..(l - D) |-> Flat(fs[d + k].segments[1])]]
           r == decrypt(fs, l)
           range_len == UpTo(fs, l) - Done(fs)
<1>1. /\ UpTo(fs, l) = d + (l - D) /\ Done(fs) = d
      /\ d + (l - D) \in 0..Len(fs) /\ Len(fs) \in Nat
      /\ n \in Nat /\ s \in Nat /\ d \in Nat /\ D \in Nat /\ l \in Nat /\ D <= l
  BY DirectoryPlaces
<1>2. range_len = l - D  BY <1>1
<1>3. r = IF range_len <= 0 THEN fs
          ELSE SubSeq(fs, 1, d)
               \o <<[raw |-> FALSE, last |-> l, map_data |-> map_data,
                     segments |-> [k \in 1..range_len |-> Flat(fs[d + k].segments[1])]]>>
               \o SubSeq(fs, d + range_len + 1, Len(fs))
  BY <1>1 DEF decrypt
<1> HIDE DEF range_len, r
<1>4. CASE l = D
  <2>1. r = fs  BY <1>1, <1>2, <1>3, <1>4
  <2>2. Directory(n, By, r, s, d, l)  BY <1>4, <2>1
  <2>3. d \in 0..Len(r)  BY <1>1, <1>4, <2>1
  <2> QED  BY <2>1, <2>2, <2>3 DEF r
<1>5. CASE l # D
  <2>1. D < l /\ ~(range_len <= 0)  BY <1>1, <1>2, <1>5
  <2>2. r = Replaced(fs, d, d + (l - D), g)
    BY <1>2, <1>3, <2>1 DEF Replaced
  <2>3. ASSUME NEW k \in 1..(l - D) PROVE g.segments[k] = Treated(D + k)
    <3>1. k \in 1..(n - D)  BY <1>1
    <3>2. fs[d + k].segments[1] = [of |-> D + k, by |-> By]  BY <3>1, Singles
    <3>3. g.segments[k] = Flat([of |-> D + k, by |-> By])  BY <3>2
    <3>4. CASE ByItself  BY <3>3, <3>4 DEF Treated
    <3>5. CASE ~ByItself
      <4>1. By = <<>>  BY <3>5 DEF By
      <4>2. g.segments[k] = [of |-> D + k, by |-> Append(<<>>, encryption.drm)]
        BY <3>3, <3>5, <4>1 DEF Decrypted
      <4>3. Append(<<>>, encryption.drm) = <<encryption.drm>>  OBVIOUS
      <4> QED  BY <3>5, <4>2, <4>3 DEF Treated
    <3> QED  BY <3>4, <3>5
  <2>4. g.raw = FALSE /\ g.last = l /\ g.map_data = map_data /\ DOMAIN g.segments = 1..(l - D)  OBVIOUS
  <2> HIDE DEF g
  <2>5. Joint(g, D, l)
    <3>1. ASSUME NEW k \in 1..(l - D) PROVE g.segments[k].of = D + k
      <4>1. g.segments[k] = Treated(D + k)  BY <2>3
      <4>2. Treated(D + k).of = D + k  BY Zenon DEF Treated
      <4> QED  BY <4>1, <4>2
    <3> QED  BY <2>4, <3>1 DEF Joint
  <2>6. Directory(n, By, r, s, d + 1, l) /\ r[d + 1] = g /\ \A c \in 1..d : r[c] = fs[c]
    BY <2>1, <2>2, <2>5, JoinedFiles
  <2>7. d + 1 \in 0..Len(r)
    <3>1. Len(r) = (d + 1) + (n - l) /\ l \in s..n /\ n \in Nat  BY <2>6 DEF Directory
    <3> QED  BY <1>1, <3>1
  <2>8. ASSUME \A c \in 1..d : Behind(w, scheme, map_data, fs[c]),
               \A j \in (D + 1)..l : Own(w, scheme, Treated(j)),
               NEW c \in 1..(d + 1)
        PROVE  Behind(w, scheme, map_data, r[c])
    <3>1. CASE c = d + 1
      <4>1. ASSUME NEW k \in 1..(l - D) PROVE Own(w, scheme, g.segments[k])
        <5>1. D + k \in (D + 1)..l  BY <1>1
        <5> QED  BY <2>3, <2>8, <5>1
      <4>2. r[c] = g  BY <2>6, <3>1
      <4> QED  BY <2>4, <4>1, <4>2 DEF Behind
    <3>2. CASE c # d + 1
      <4>1. c \in 1..d  BY <1>1, <3>2
      <4> QED  BY <2>6, <2>8, <4>1
    <3> QED  BY <3>1, <3>2
  <2> QED  BY <2>6, <2>7, <2>8 DEF r
<1> QED  BY <1>4, <1>5

LEMMA MergeKeeps ==
  ASSUME NEW w, NEW by, NEW fs, NEW s, NEW d, NEW D, Directory(Len(w), by, fs, s, d, D),
         NEW l \in D..Len(w), Output(w, merged, s),
         \A k \in (s + 2)..l : ~w[k].discontinuity,
         s > 0 /\ s < l => w[s + 1].discontinuity,
         merge_discontinuity(fs, l)
  PROVE  Directory(Len(w), by, files', l, 0, l) /\ Output(w, merged', l)
<1> DEFINE u == d + (l - D)
           a == SubSeq(fs, 1, u)
           g == [map_data |-> IF encryption = Nothing THEN map_data ELSE Nothing, via |-> a]
<1>1. /\ UpTo(fs, l) = u /\ u \in Nat
      /\ Len(w) \in Nat /\ s \in Nat /\ d \in Nat /\ D \in Nat /\ l \in Nat /\ D <= l /\ l <= Len(w)
  BY DirectoryPlaces
<1>2. s <= D /\ (d = 0 => D = s) /\ (d # 0 => s < D)
  <2>1. d # 0 => d \in 1..d  BY <1>1
  <2> QED  BY <1>1, <2>1 DEF Directory
<1>3. /\ files' = SubSeq(fs, u + 1, Len(fs))
      /\ merged' = IF u = 0 THEN merged ELSE Append(merged, g)
  BY <1>1 DEF merge_discontinuity
<1>4. /\ Directory(Len(w), by, SubSeq(fs, u + 1, Len(fs)), l, 0, l)
      /\ IsSeq(a) /\ Len(a) = u /\ \A c \in 1..u : a[c] = fs[c]
      /\ Covers(a, u, s, l)
  <2> HIDE DEF u
  <2>1. u = d + (l - D)  BY DEF u
  <2> QED  BY <2>1, MergedFiles
<1>5. s < l => u > 0 /\ fs[u].last = l  BY DirectoryCovers
<1> HIDE DEF u, a
<1>6. CASE u = 0
  <2>1. l = s  BY <1>1, <1>2, <1>5, <1>6 DEF u
  <2> QED  BY <1>3, <1>4, <1>6, <2>1
<1>7. CASE u # 0
  <2>1. s < l  BY <1>1, <1>2, <1>7 DEF u
  <2>2. DOMAIN a = 1..u  BY <1>4, IsSeqFacts
  <2>3. g.via = a  OBVIOUS
  <2> HIDE DEF g
  <2>4. File(w, g, s, l)
    <3>1. Len(g.via) = u /\ u \in Nat \ {0}  BY <1>1, <1>4, <1>7, <2>3
    <3> QED  BY <1>1, <1>4, <2>1, <2>2, <2>3, <3>1 DEF File
  <2>5. g.via[Len(g.via)].last = l
    <3>1. u \in 1..u  BY <1>1, <1>7
    <3> QED  BY <1>4, <1>5, <2>1, <2>3, <3>1
  <2>6. l \in 0..Len(w) /\ (s > 0 => w[s + 1].discontinuity)  BY <1>1, <2>1
  <2>7. Output(w, Append(merged, g), l)  BY <1>1, <2>4, <2>5, <2>6, OutputGrows
  <2> QED  BY <1>3, <1>4, <1>7, <2>7
<1> QED  BY <1>6, <1>7

LEMMA MergeIsGood ==
  ASSUME NEW w, NEW scheme, NEW by, NEW fs, NEW s, NEW d, NEW D, Directory(Len(w), by, fs, s, d, D),
         NEW l \in D..Len(w), IsSeq(merged), OutputGood(w, scheme, merged),
         \A c \in 1..d : Behind(w, scheme, map_data, fs[c]),
         \A j \in (s + 1)..l : w[j].init_section = map_data,
         \A j \in (D + 1)..l : Own(w, scheme, [of |-> j, by |-> by]),
         encryption # Nothing => D = l,
         merge_discontinuity(fs, l)
  PROVE  OutputGood(w, scheme, merged')
<1> DEFINE u == d + (l - D)
           a == SubSeq(fs, 1, u)
           g == [map_data |-> IF encryption = Nothing THEN map_data ELSE Nothing, via |-> a]
<1>1. /\ UpTo(fs, l) = u /\ u \in Nat
      /\ Len(w) \in Nat /\ s \in Nat /\ d \in Nat /\ D \in Nat /\ l \in Nat /\ D <= l /\ l <= Len(w)
  BY DirectoryPlaces
<1>2. merged' = IF u = 0 THEN merged ELSE Append(merged, g)  BY <1>1 DEF merge_discontinuity
<1>3. IsSeq(a) /\ Len(a) = u /\ (\A c \in 1..u : a[c] = fs[c]) /\ Covers(a, u, s, l)
  <2> HIDE DEF u
  <2>1. u = d + (l - D)  BY DEF u
  <2>2. /\ Directory(Len(w), by, SubSeq(fs, u + 1, Len(fs)), l, 0, l)
        /\ IsSeq(a) /\ Len(a) = u /\ \A c \in 1..u : a[c] = fs[c]
        /\ Covers(a, u, s, l)
    BY <2>1, MergedFiles
  <2> QED  BY <2>2
<1>4. DOMAIN a = 1..u  BY <1>3, IsSeqFacts
<1>5. u = d + (l - D)  OBVIOUS
<1> HIDE DEF u, a
<1>6. ASSUME NEW c \in 1..u, NEW k \in DOMAIN a[c].segments
      PROVE  w[a[c].segments[k].of].init_section = map_data
  <2>1. a[c].segments[k].of \in (s + 1)..l  BY <1>3 DEF Covers
  <2> QED  BY <2>1
<1>7. ASSUME NEW c \in 1..u
      PROVE  /\ a[c].map_data \in {Nothing, map_data}
             /\ \A k \in DOMAIN a[c].segments : Own(w, scheme, a[c].segments[k])
  <2>1. a[c] = fs[c]  BY <1>3
  <2>2. CASE c \in 1..d  BY <2>1, <2>2 DEF Behind
  <2>3. CASE c \notin 1..d
    <3>1. c - d \in 1..(l - D) /\ c - d \in 1..(Len(w) - D) /\ d + (c - d) = c /\ D + (c - d) \in (D + 1)..l
      BY <1>1, <1>5, <2>3
    <3>2. /\ fs[c].map_data = Nothing /\ DOMAIN fs[c].segments = {1}
          /\ fs[c].segments[1] = [of |-> D + (c - d), by |-> by]
      BY <3>1, Singles
    <3>3. Own(w, scheme, [of |-> D + (c - d), by |-> by])  BY <3>1
    <3> QED  BY <2>1, <3>2, <3>3
  <2> QED  BY <2>2, <2>3
<1>8. CASE u = 0  BY <1>2, <1>8
<1>9. CASE u # 0
  <2>1. g.via = a /\ g.map_data = IF encryption = Nothing THEN map_data ELSE Nothing  OBVIOUS
  <2> HIDE DEF g
  <2>2. map_data # Nothing => g.map_data = map_data \/ g.via[1].map_data = map_data
    <3>1. CASE encryption = Nothing  BY <2>1, <3>1
    <3>2. CASE encryption # Nothing
      <4>1. u = d /\ 1 \in 1..d /\ 1 \in 1..u  BY <1>1, <1>5, <1>9, <3>2
      <4> QED  BY <1>3, <2>1, <4>1 DEF Behind
    <3> QED  BY <3>1, <3>2
  <2>3. AllBehind(w, scheme, map_data, g)
    BY <1>4, <1>6, <1>7, <2>1, <2>2 DEF AllBehind
  <2>4. DOMAIN merged = 1..Len(merged) /\ Len(merged) \in Nat  BY IsSeqFacts
  <2> DEFINE mh == Append(merged, g)
             m == Len(merged)
  <2>5. DOMAIN mh = 1..(m + 1) /\ mh[m + 1] = g /\ \A f \in 1..m : mh[f] = merged[f]
    <3> DEFINE R == {merged[f] : f \in DOMAIN merged}
               S == R \cup {g}
    <3>1. merged \in Seq(R)  BY DEF IsSeq
    <3>2. R \subseteq S /\ g \in S  OBVIOUS
    <3> HIDE DEF R, S
    <3>3. merged \in Seq(S)  BY <3>1, <3>2
    <3> QED  BY <3>2, <3>3
  <2> HIDE DEF mh, m
  <2>6. \A f \in 1..(m + 1) : f = m + 1 \/ f \in 1..m  BY <2>4 DEF m
  <2>7. OutputGood(w, scheme, mh)
    <3> SUFFICES ASSUME NEW f \in 1..(m + 1) PROVE \E md : AllBehind(w, scheme, md, mh[f])
      BY <2>5 DEF OutputGood
    <3>1. CASE f = m + 1
      <4>1. mh[f] = g  BY <2>5, <3>1
      <4> QED  BY <2>3, <4>1
    <3>2. CASE f \in 1..m
      <4>1. mh[f] = merged[f] /\ f \in DOMAIN merged  BY <2>4, <2>5, <3>2 DEF m
      <4> QED  BY <4>1 DEF OutputGood
    <3> QED  BY <2>6, <3>1, <3>2
  <2> QED  BY <1>2, <1>9, <2>7 DEF mh
<1> QED  BY <1>8, <1>9

-----------------------------------------------------------------------------
(* The steps of the loop.                                                  *)

LEMMA ConstsKept ==
  ASSUME consts' = consts
  PROVE  /\ wanted_segments' = wanted_segments /\ By' = By /\ initial_drm_key' = initial_drm_key
         /\ (Static' <=> Static) /\ (Good' <=> Good)
         /\ playlist' = playlist /\ drm' = drm /\ way' = way
<1>1. playlist' = playlist /\ drm' = drm /\ way' = way  BY DEF consts
<1>2. wanted_segments' = wanted_segments  BY <1>1 DEF wanted_segments
<1>3. media_keys' = media_keys  BY <1>1 DEF media_keys
<1>4. initial_drm_key' = initial_drm_key  BY <1>1, <1>3 DEF initial_drm_key
<1>5. session_drm' = session_drm  BY <1>1, <1>4 DEF session_drm
<1>6. By' = By  BY <1>1, <1>5 DEF By, ByItself
<1>7. single_init_no_rotation' <=> single_init_no_rotation
  BY <1>2, <1>4 DEF single_init_no_rotation, resolve_segment_key, get_supported_key
<1>8. Ways' = Ways  BY <1>1, <1>5, <1>7 DEF Ways
<1>9. Static' <=> Static  BY <1>1, <1>8 DEF Static
<1>10. MapsAtDiscontinuities' <=> MapsAtDiscontinuities  BY <1>2 DEF MapsAtDiscontinuities
<1>11. PlainApart' <=> PlainApart  BY <1>1, <1>2, <1>4 DEF PlainApart, Plain
<1>12. Good' <=> Good  BY <1>10, <1>11 DEF Good
<1> QED  BY <1>1, <1>2, <1>4, <1>6, <1>9, <1>12

\* What the loop may assume of the segments up to l, to end a file with l.
Ready(w, scheme, s, d, D, l) ==
  /\ \A c \in 1..d : Behind(w, scheme, map_data, files[c])
  /\ \A j \in (s + 1)..l : w[j].init_section = map_data
  /\ OutputGood(w, scheme, merged)
  /\ way = "loop" => \A j \in (D + 1)..l : Pending(scheme, encryption, w[j])

LEMMA CutKeeps ==
  ASSUME Static, way \in {"loop", "segment"}, NEW w, w = wanted_segments,
         NEW s, NEW d, NEW D, Directory(Len(w), By, files, s, d, D),
         NEW l \in D..Len(w), Output(w, merged, s),
         \A k \in (s + 2)..l : ~w[k].discontinuity,
         s > 0 /\ s < l => w[s + 1].discontinuity,
         merge_discontinuity(IF encryption # Nothing THEN decrypt(files, l) ELSE files, l)
  PROVE  /\ Directory(Len(w), By, files', l, 0, l) /\ Output(w, merged', l)
         /\ Ready(w, drm.scheme, s, d, D, l) => OutputGood(w, drm.scheme, merged')
<1> DEFINE scheme == drm.scheme
<1>1. /\ Len(w) \in Nat /\ s \in Nat /\ d \in Nat /\ D \in Nat /\ l \in Nat /\ D <= l /\ l <= Len(w)
      /\ l \in l..Len(w)
  BY DirectoryPlaces
<1>2. IsSeq(merged)  BY DEF Output
<1>3. CASE encryption = Nothing
  <2>1. merge_discontinuity(files, l)  BY <1>3
  <2>2. Directory(Len(w), By, files', l, 0, l) /\ Output(w, merged', l)  BY <2>1, MergeKeeps
  <2>3. ASSUME Ready(w, scheme, s, d, D, l) PROVE OutputGood(w, scheme, merged')
    <3>1. \A j \in (D + 1)..l : Own(w, scheme, [of |-> j, by |-> By])
      <4> SUFFICES ASSUME NEW j \in (D + 1)..l PROVE Own(w, scheme, [of |-> j, by |-> By])  OBVIOUS
      <4>1. j \in 1..Len(w)  BY <1>1
      <4>2. way = "loop" => Pending(drm.scheme, encryption, wanted_segments[j])  BY <2>3 DEF Ready
      <4> QED  BY <1>3, <4>1, <4>2, OwnOfPending
    <3>2. /\ \A c \in 1..d : Behind(w, scheme, map_data, files[c])
          /\ \A j \in (s + 1)..l : w[j].init_section = map_data
          /\ OutputGood(w, scheme, merged)
      BY <2>3 DEF Ready
    <3> HIDE DEF scheme
    <3> QED  BY <1>2, <1>3, <2>1, <3>1, <3>2, MergeIsGood
  <2> QED  BY <2>2, <2>3
<1>4. CASE encryption # Nothing
  <2> DEFINE fs == decrypt(files, l)
  <2>1. PICK e \in 0..Len(fs) :
          /\ Directory(Len(w), By, fs, s, e, l)
          /\ (\A c \in 1..d : Behind(w, scheme, map_data, files[c]))
               /\ (\A j \in (D + 1)..l : Own(w, scheme, Treated(j)))
             => \A c \in 1..e : Behind(w, scheme, map_data, fs[c])
    BY DecryptKeeps
  <2> HIDE DEF fs
  <2>2. merge_discontinuity(fs, l)  BY <1>4 DEF fs
  <2>3. Directory(Len(w), By, files', l, 0, l) /\ Output(w, merged', l)  BY <1>1, <2>1, <2>2, MergeKeeps
  <2>4. ASSUME Ready(w, scheme, s, d, D, l) PROVE OutputGood(w, scheme, merged')
    <3>1. \A j \in (D + 1)..l : Own(w, scheme, Treated(j))
      <4> SUFFICES ASSUME NEW j \in (D + 1)..l PROVE Own(w, scheme, Treated(j))  OBVIOUS
      <4>1. j \in 1..Len(w)  BY <1>1
      <4>2. way = "loop" => Pending(drm.scheme, encryption, wanted_segments[j])  BY <2>4 DEF Ready
      <4> QED  BY <1>4, <4>1, <4>2, OwnOfPending DEF Treated
    <3>2. /\ \A c \in 1..d : Behind(w, scheme, map_data, files[c])
          /\ \A j \in (s + 1)..l : w[j].init_section = map_data
          /\ OutputGood(w, scheme, merged)
      BY <2>4 DEF Ready
    <3>3. \A c \in 1..e : Behind(w, scheme, map_data, fs[c])  BY <2>1, <3>1, <3>2
    <3>4. \A j \in (l + 1)..l : Own(w, scheme, [of |-> j, by |-> By])  BY <1>1
    <3> HIDE DEF scheme
    <3> QED  BY <1>1, <1>2, <1>4, <2>1, <2>2, <3>2, <3>3, <3>4, MergeIsGood
  <2> QED  BY <2>3, <2>4
<1> QED  BY <1>3, <1>4

\* Before the first wanted segment nothing is merged or joined.
LEMMA NothingYet ==
  ASSUME NEW n, NEW by, NEW fs, NEW s, NEW d, NEW D, Directory(n, by, fs, s, d, D), D <= 0
  PROVE  s = 0 /\ d = 0 /\ D = 0
<1>1. s \in Nat /\ d \in Nat /\ D \in s..n /\ \A c \in 1..d : fs[c].last \in (s + 1)..D  BY DEF Directory
<1>2. d # 0 => d \in 1..d  BY <1>1
<1> QED  BY <1>1, <1>2

\* Segment real_i, if it is wanted, has the number i.
LEMMA ThisOne ==
  ASSUME Static, real_i \in DOMAIN playlist
  PROVE  /\ real_i \in Nat /\ real_i # 0 /\ Count(playlist, real_i - 1) \in Nat
         /\ ~This.wanted => Count(playlist, real_i) = Count(playlist, real_i - 1)
         /\ This.wanted => /\ Count(playlist, real_i) = Count(playlist, real_i - 1) + 1
                           /\ Count(playlist, real_i) \in 1..Len(wanted_segments)
                           /\ wanted_segments[Count(playlist, real_i)] = This
<1>1. playlist \in Seq(Segment) /\ Len(playlist) \in Nat /\ wanted_segments = Wanted(playlist)
  BY StaticFacts
<1>2. real_i \in Nat /\ real_i # 0 /\ real_i - 1 \in Nat /\ (real_i - 1) + 1 = real_i  BY <1>1
<1>3. This = playlist[real_i]  BY DEF This
<1>4. Count(playlist, real_i - 1) \in Nat  BY <1>2, CountFacts
<1>5. This.wanted => Count(playlist, real_i) = Count(playlist, real_i - 1) + 1  BY <1>2, <1>3, CountFacts
<1>6. ~This.wanted => Count(playlist, real_i) = Count(playlist, real_i - 1)  BY <1>2, <1>3, CountFacts
<1>7. This.wanted => /\ Count(playlist, real_i) \in 1..Len(wanted_segments)
                     /\ wanted_segments[Count(playlist, real_i)] = This
  BY <1>1, <1>3, WantedIsThere
<1> QED  BY <1>2, <1>4, <1>5, <1>6, <1>7

LEMMA DiscontinuityKeeps ==
  ASSUME Static, Looping, Discontinuity
  PROVE  Looping'
<1> DEFINE w == wanted_segments
           scheme == drm.scheme
           loop == way = "loop"
<1>1. /\ pc = "cut" /\ pc' = "key" /\ real_i <= Len(playlist)
      /\ consts' = consts /\ real_i' = real_i /\ encryption' = encryption
      /\ i' = IF This.wanted THEN i + 1 ELSE i
  BY DEF Discontinuity
<1>2. /\ playlist' = playlist /\ way' = way /\ drm' = drm /\ wanted_segments' = w /\ By' = By
      /\ (Good' <=> Good) /\ initial_drm_key' = initial_drm_key
  BY <1>1, ConstsKept
<1>3. /\ playlist \in Seq(Segment) /\ Len(playlist) \in Nat
      /\ Len(w) \in Nat /\ \A j \in 1..Len(w) : w[j] \in Segment
  BY StaticFacts
<1>4. /\ real_i \in 1..(Len(playlist) + 1) /\ i = Count(playlist, real_i - 1)
      /\ way \in {"loop", "segment"} /\ KeyOfDrm(encryption)
      /\ drm.scheme = "aes" /\ encryption # Nothing /\ initial_drm_key = Nothing =>
           \E r \in DOMAIN playlist : r <= real_i /\ playlist[r].keys # Nothing
  BY <1>1 DEF Looping
<1>5. real_i \in DOMAIN playlist  BY <1>1, <1>3, <1>4
<1>6. /\ i \in Nat /\ i' = Count(playlist, real_i)
      /\ This.wanted => i + 1 \in 1..Len(w) /\ w[i + 1] = This /\ i' = i + 1
  BY <1>1, <1>4, <1>5, ThisOne
<1>7. This' = This  BY <1>1, <1>2 DEF This
<1>8. seen = i /\ seen' = i
  <2>1. seen = i  BY <1>1 DEF seen
  <2>2. seen' = IF This.wanted THEN i' - 1 ELSE i'  BY <1>1, <1>7 DEF seen
  <2> QED  BY <1>1, <1>6, <2>1, <2>2
<1>9. PICK s \in 0..Len(w), D \in 0..Len(w), d \in 0..Len(files) :
        /\ Layout(w, By, i, i, files, merged, s, d, D)
        /\ Good => Contents(w, scheme, loop, i, i, encryption, map_data, files, merged, s, d, D)
  BY <1>8 DEF Looping
<1>10. ASSUME NEW t \in 0..Len(w), NEW E \in 0..Len(w), NEW e \in 0..Len(files'),
              Layout(w, By, i', i, files', merged', t, e, E),
              Good => Contents(w, scheme, loop, i', i, encryption, map_data', files', merged', t, e, E)
       PROVE  Looping'
  <2>1. pc' \in {"cut", "key", "last"} /\ way' \in {"loop", "segment"}  BY <1>1, <1>2, <1>4
  <2>2. real_i' \in 1..(Len(playlist') + 1) /\ (pc' # "cut" => real_i' <= Len(playlist'))
    BY <1>1, <1>2, <1>4
  <2>3. i' = Count(playlist', IF pc' = "cut" THEN real_i' - 1 ELSE real_i')
    <3>1. pc' # "cut" /\ real_i' = real_i /\ playlist' = playlist  BY <1>1, <1>2
    <3> QED  BY <1>6, <3>1
  <2>4. KeyOfDrm(encryption)'  BY <1>1, <1>4 DEF KeyOfDrm
  <2>5. drm'.scheme = "aes" /\ encryption' # Nothing /\ initial_drm_key' = Nothing =>
           \E r \in DOMAIN playlist' : r <= real_i' /\ playlist'[r].keys # Nothing
    BY <1>1, <1>2, <1>4
  <2>6. /\ Layout(w, By, i', i, files', merged', t, e, E)
        /\ Good => Contents(w, scheme, loop, i', i, encryption, map_data', files', merged', t, e, E)
    BY <1>10
  <2>7. \E s1, D1 \in 0..Len(wanted_segments'), d1 \in 0..Len(files') :
          /\ Layout(wanted_segments', By', i', seen', files', merged', s1, d1, D1)
          /\ Good' => Contents(wanted_segments', drm'.scheme, way' = "loop", i', seen', encryption',
                               map_data', files', merged', s1, d1, D1)
    BY <1>1, <1>2, <1>8, <1>10, <2>6
  <2> QED  BY <2>1, <2>2, <2>3, <2>4, <2>5, <2>7 DEF Looping
<1>11. /\ i \in 0..Len(w) /\ D <= i /\ Directory(Len(w), By, files, s, d, D) /\ Output(w, merged, s)
       /\ (i > 0 => s < i) /\ (s > 0 => w[s + 1].discontinuity)
       /\ \A k \in (s + 2)..i : ~w[k].discontinuity
  BY <1>9 DEF Layout
<1>12. CASE This.wanted /\ This.discontinuity /\ i > 0
  <2>1. /\ merge_discontinuity(IF encryption # Nothing THEN decrypt(files, i) ELSE files, i)
        /\ map_data' = IF This.init_section # Nothing THEN This.init_section ELSE Nothing
    BY <1>12 DEF Discontinuity
  <2>2. i \in D..Len(w)  BY <1>11
  <2>3. s > 0 /\ s < i => w[s + 1].discontinuity  BY <1>11
  <2>4. /\ Directory(Len(w), By, files', i, 0, i) /\ Output(w, merged', i)
        /\ Ready(w, scheme, s, d, D, i) => OutputGood(w, scheme, merged')
    BY <1>4, <1>11, <2>1, <2>2, <2>3, CutKeeps
  <2>5. i' = i + 1 /\ i + 1 \in 1..Len(w) /\ w[i + 1] = This  BY <1>6, <1>12
  <2>6. Layout(w, By, i + 1, i, files', merged', i, 0, i)
    <3>1. /\ i + 1 \in 0..Len(w) /\ i \in 0..(i + 1) /\ (i + 1) - 1 <= i /\ i <= i /\ i < i + 1
      BY <1>3, <1>6, <2>5
    <3>2. w[i + 1].discontinuity  BY <1>12, <2>5
    <3>3. \A k \in (i + 2)..(i + 1) : ~w[k].discontinuity  BY <1>6
    <3> QED  BY <2>4, <3>1, <3>2, <3>3 DEF Layout
  <2>7. ASSUME Good PROVE Contents(w, scheme, loop, i + 1, i, encryption, map_data', files', merged', i, 0, i)
    <3>1. Contents(w, scheme, loop, i, i, encryption, map_data, files, merged, s, d, D)  BY <1>9, <2>7
    <3>2. Ready(w, scheme, s, d, D, i)  BY <1>12, <3>1 DEF Contents, Ready
    <3>3. \A j \in (i + 1)..(i + 1) : w[j].init_section = map_data'
      <4>1. \A j \in (i + 1)..(i + 1) : j = i + 1  BY <1>6
      <4>2. w[i + 1].init_section = map_data'  BY <2>1, <2>5
      <4> QED  BY <4>1, <4>2
    <3>4. \A j \in (i + 1)..i : Pending(scheme, encryption, w[j])  BY <1>6
    <3>5. i + 1 # 0  BY <1>6
    <3>6. OutputGood(w, scheme, merged')  BY <2>4, <3>2
    <3> QED  BY <3>3, <3>4, <3>5, <3>6 DEF Contents
  <2>8. 0 \in 0..Len(files') /\ i \in 0..Len(w)
    <3>1. Len(files') = 0 + (Len(w) - i)  BY <2>4 DEF Directory
    <3> QED  BY <1>3, <1>11, <3>1
  <2> QED  BY <1>10, <2>5, <2>6, <2>7, <2>8
<1>13. CASE ~(This.wanted /\ This.discontinuity /\ i > 0)
  <2>1. files' = files /\ merged' = merged  BY <1>13 DEF Discontinuity
  <2>2. map_data' = IF This.wanted /\ This.init_section # Nothing THEN This.init_section ELSE map_data
    BY <1>13 DEF Discontinuity
  <2>3. CASE ~This.wanted
    <3>1. i' = i /\ map_data' = map_data  BY <1>1, <2>2, <2>3
    <3> QED  BY <1>9, <1>10, <2>1, <3>1
  <2>4. CASE This.wanted
    <3>1. i' = i + 1 /\ i + 1 \in 1..Len(w) /\ w[i + 1] = This  BY <1>6, <2>4
    <3>2. i > 0 => ~w[i + 1].discontinuity  BY <1>13, <2>4, <3>1
    <3>3. i = 0 => s = 0 /\ d = 0 /\ D = 0  BY <1>11, NothingYet
    <3>4. s < i + 1  BY <1>6, <1>11, <3>3
    <3>5. \A k \in (s + 2)..(i + 1) : ~w[k].discontinuity
      <4> SUFFICES ASSUME NEW k \in (s + 2)..(i + 1) PROVE ~w[k].discontinuity  OBVIOUS
      <4>1. CASE k = i + 1
        <5>1. i > 0  BY <1>6, <4>1
        <5> QED  BY <3>2, <4>1, <5>1
      <4>2. CASE k # i + 1
        <5>1. k \in (s + 2)..i  BY <1>6, <4>2
        <5> QED  BY <1>11, <5>1
      <4> QED  BY <4>1, <4>2
    <3>6. Layout(w, By, i + 1, i, files, merged, s, d, D)
      <4>1. i + 1 \in 0..Len(w) /\ i \in 0..(i + 1) /\ (i + 1) - 1 <= i  BY <1>3, <1>6, <3>1
      <4> QED  BY <1>11, <3>4, <3>5, <4>1 DEF Layout
    <3>7. ASSUME Good PROVE Contents(w, scheme, loop, i + 1, i, encryption, map_data', files, merged, s, d, D)
      <4>1. Contents(w, scheme, loop, i, i, encryption, map_data, files, merged, s, d, D)  BY <1>9, <3>7
      <4>2. \A j \in (s + 1)..(i + 1) : w[j].init_section = map_data'
        <5>1. CASE i = 0
          <6>1. map_data = Nothing \/ map_data = w[1].init_section  BY <4>1, <5>1 DEF Contents
          <6>2. w[1].init_section = map_data'  BY <2>2, <2>4, <3>1, <5>1, <6>1
          <6>3. \A j \in (s + 1)..(i + 1) : j = 1  BY <3>3, <5>1
          <6> QED  BY <6>2, <6>3
        <5>2. CASE i > 0
          <6>1. \A j \in (s + 1)..i : w[j].init_section = map_data  BY <4>1, <5>2 DEF Contents
          <6>2. w[i].init_section = map_data
            <7>1. i \in (s + 1)..i  BY <1>6, <1>11, <5>2
            <7> QED  BY <6>1, <7>1
          <6>3. w[i + 1].init_section = w[i].init_section
            <7>1. MapsAtDiscontinuities  BY <3>7 DEF Good
            <7>2. i + 1 \in 2..Len(w) /\ (i + 1) - 1 = i  BY <1>3, <1>6, <3>1, <5>2
            <7>3. w[i + 1].init_section # w[(i + 1) - 1].init_section => w[i + 1].discontinuity
              BY <7>1, <7>2 DEF MapsAtDiscontinuities
            <7> QED  BY <3>2, <5>2, <7>2, <7>3
          <6>4. map_data' = map_data  BY <2>2, <3>1, <6>2, <6>3
          <6>5. \A j \in (s + 1)..(i + 1) : j = i + 1 \/ j \in (s + 1)..i  BY <1>6
          <6> QED  BY <6>1, <6>2, <6>3, <6>4, <6>5
        <5> QED  BY <1>6, <5>1, <5>2
      <4>3. \A c \in 1..d : Behind(w, scheme, map_data', files[c])
        <5>1. CASE i = 0  BY <3>3, <5>1
        <5>2. CASE i > 0
          <6>1. \A c \in 1..d : Behind(w, scheme, map_data, files[c])  BY <4>1 DEF Contents
          <6>2. map_data' = map_data
            <7>1. i \in (s + 1)..i /\ i \in (s + 1)..(i + 1)  BY <1>6, <1>11, <5>2
            <7>2. w[i].init_section = map_data  BY <4>1, <5>2, <7>1 DEF Contents
            <7> QED  BY <4>2, <7>1, <7>2
          <6> QED  BY <6>1, <6>2
        <5> QED  BY <1>6, <5>1, <5>2
      <4>4. i + 1 # 0  BY <1>6
      <4>5. OutputGood(w, scheme, merged) /\ (loop => \A j \in (D + 1)..i : Pending(scheme, encryption, w[j]))
        BY <4>1 DEF Contents
      <4> QED  BY <4>2, <4>3, <4>4, <4>5 DEF Contents
    <3> QED  BY <1>10, <2>1, <3>1, <3>6, <3>7
  <2> QED  BY <2>3, <2>4
<1> QED  BY <1>12, <1>13

\* The key in use after a segment's tag.
NewEncryption(key) ==
  IF key = Nothing THEN Nothing
  ELSE IF encryption = Nothing \/ encryption.key # key THEN [key |-> key, drm |-> key] ELSE encryption

\* The segment with the tag gets the DRM of its key.
LEMMA NewKeyIsOwn ==
  ASSUME KeyOfDrm(encryption), NEW segment \in Segment, segment.keys # Nothing,
         NEW key, key = resolve_segment_key(segment.keys), NEW enc, enc = NewEncryption(key)
  PROVE  /\ KeyOfDrm(enc) /\ (key = Nothing => Plain(segment)) /\ (key # Nothing => ~Plain(segment) /\ key \in Keys)
         /\ \A scheme : Pending(scheme, enc, segment)
<1>1. segment.keys \in Keys \cup {"none", Nothing}  BY DEF Segment
<1>2. key = IF segment.keys = "none" THEN Nothing ELSE segment.keys
  BY DEF resolve_segment_key, get_supported_key
<1>3. Nothing \notin Keys /\ Nothing \notin [key : Keys \cup {Nothing}, drm : Keys \cup {Session}]
  BY HlsAssumption
<1>4. CASE key = Nothing
  <2>1. segment.keys = "none" \/ segment.keys = Nothing  BY <1>2, <1>4
  <2>2. Plain(segment)  BY <2>1 DEF Plain
  <2>3. enc = Nothing  BY <1>4 DEF NewEncryption
  <2> QED  BY <1>4, <2>2, <2>3 DEF KeyOfDrm, Pending
<1>5. CASE key # Nothing
  <2>1. segment.keys = key /\ segment.keys # "none" /\ key \in Keys  BY <1>1, <1>2, <1>5
  <2>2. ~Plain(segment)  BY <1>5, <2>1 DEF Plain
  <2>3. CASE encryption = Nothing \/ encryption.key # key
    <3>1. enc = [key |-> key, drm |-> key]  BY <1>5, <2>3 DEF NewEncryption
    <3>2. enc.key = key /\ enc.drm = key  BY <3>1
    <3>3. enc \in [key : Keys \cup {Nothing}, drm : Keys \cup {Session}]  BY <2>1, <3>1
    <3> QED  BY <1>3, <1>5, <2>1, <2>2, <3>2, <3>3 DEF KeyOfDrm, Pending
  <2>4. CASE ~(encryption = Nothing \/ encryption.key # key)
    <3>1. enc = encryption  BY <1>5, <2>4 DEF NewEncryption
    <3>2. enc # Nothing /\ enc.drm = key  BY <1>5, <2>4, <3>1 DEF KeyOfDrm
    <3>3. KeyOfDrm(enc)  BY <3>1
    <3> QED  BY <1>5, <2>1, <2>2, <3>2, <3>3 DEF Pending
  <2> QED  BY <2>3, <2>4
<1> QED  BY <1>4, <1>5

\* The segments before it that are left are plain, or of the key that stays.
LEMMA NewKeySuitsRest ==
  ASSUME Static, KeyOfDrm(encryption), PlainApart,
         NEW w, w = wanted_segments, NEW n \in 1..Len(w), w[n].keys # Nothing,
         NEW key, key = resolve_segment_key(w[n].keys), NEW enc, enc = NewEncryption(key),
         ~(encryption # Nothing /\ encryption.key # key /\ n > 1),
         NEW D \in Nat, D < n, D + 1 < n => ~w[n].discontinuity,
         \A j \in (D + 1)..(n - 1) : Pending(drm.scheme, encryption, w[j])
  PROVE  \A j \in (D + 1)..n : Pending(drm.scheme, enc, w[j])
<1> DEFINE scheme == drm.scheme
<1>1. /\ Len(w) \in Nat /\ n \in Nat /\ \A j \in 1..Len(w) : w[j] \in Segment
  BY StaticFacts
<1>2. w[n] \in Segment  BY <1>1
<1>3. /\ KeyOfDrm(enc) /\ (key = Nothing => Plain(w[n])) /\ (key # Nothing => ~Plain(w[n]) /\ key \in Keys)
      /\ Pending(scheme, enc, w[n])
  BY <1>2, NewKeyIsOwn
<1>4. Nothing \notin Keys /\ Nothing # Session /\ Session \notin Keys
      /\ Nothing \notin [key : Keys \cup {Nothing}, drm : Keys \cup {Session}]
  BY HlsAssumption
<1> SUFFICES ASSUME NEW j \in (D + 1)..(n - 1) PROVE Pending(scheme, enc, w[j])
  <2>1. \A j \in (D + 1)..n : j = n \/ j \in (D + 1)..(n - 1)  BY <1>1
  <2> QED  BY <1>3, <2>1
<1>5. j \in 1..Len(w) /\ n > 1 /\ D + 1 < n  BY <1>1
<1>6. w[j] \in Segment /\ Pending(scheme, encryption, w[j])  BY <1>1, <1>5
<1>7. encryption = Nothing \/ encryption.key = key  BY <1>5
<1>8. CASE encryption = Nothing
  <2>1. Plain(w[j])  BY <1>6, <1>8 DEF Pending
  <2>2. CASE key = Nothing
    <3>1. enc = Nothing  BY <2>2 DEF NewEncryption
    <3> QED  BY <2>1, <3>1 DEF Pending
  <2>3. CASE key # Nothing
    <3>1. scheme # "aes"
      <4> SUFFICES ASSUME scheme = "aes" PROVE FALSE  OBVIOUS
      <4>1. n - 1 \in (D + 1)..(n - 1) /\ n \in 2..Len(w)  BY <1>1, <1>5
      <4>2. Pending(scheme, encryption, w[n - 1])  BY <4>1
      <4>3. Plain(w[n - 1])  BY <1>8, <4>2 DEF Pending
      <4>4. ~Plain(w[n])  BY <1>3, <2>3
      <4>5. \A k \in 2..Len(w) : Plain(w[k - 1]) /\ ~Plain(w[k]) => w[k].discontinuity
        BY DEF PlainApart
      <4>6. w[n].discontinuity  BY <4>1, <4>3, <4>4, <4>5
      <4> QED  BY <1>5, <4>6
    <3>2. enc # Nothing
      <4>1. enc = [key |-> key, drm |-> key] /\ key \in Keys  BY <1>3, <1>8, <2>3 DEF NewEncryption
      <4>2. enc \in [key : Keys \cup {Nothing}, drm : Keys \cup {Session}]  BY <4>1
      <4> QED  BY <1>4, <4>2
    <3> QED  BY <2>1, <3>1, <3>2 DEF Pending
  <2> QED  BY <2>2, <2>3
<1>9. CASE encryption # Nothing
  <2>1. encryption.key = key  BY <1>7, <1>9
  <2>2. CASE key # Nothing
    <3>1. enc = encryption  BY <1>9, <2>1, <2>2 DEF NewEncryption
    <3> QED  BY <1>6, <3>1
  <2>3. CASE key = Nothing
    <3>1. enc = Nothing  BY <2>3 DEF NewEncryption
    <3>2. encryption \in [key : Keys \cup {Nothing}, drm : Keys \cup {Session}]
          /\ (encryption.drm = encryption.key \/ (encryption.key = Nothing /\ encryption.drm = Session))
      BY <1>9 DEF KeyOfDrm
    <3>3. encryption.drm \in Keys \cup {Session}  BY <3>2
    <3>4. encryption.drm = Session  BY <1>4, <2>1, <2>3, <3>2, <3>3
    <3>5. Plain(w[j])
      <4>1. w[j].keys \in Keys \cup {"none", Nothing}  BY <1>6 DEF Segment
      <4>2. ~Plain(w[j]) => w[j].keys = Session  BY <1>6, <1>9, <3>4 DEF Pending
      <4> QED  BY <1>4, <4>1, <4>2 DEF Plain
    <3> QED  BY <3>1, <3>5 DEF Pending
  <2> QED  BY <2>2, <2>3
<1> QED  BY <1>8, <1>9

\* A wanted segment before the first tag: no DRM is in use that would decrypt it.
LEMMA UntaggedIsPending ==
  ASSUME Static, PlainApart, real_i \in DOMAIN playlist, This.wanted, This.keys = Nothing,
         drm.scheme = "aes" /\ encryption # Nothing /\ initial_drm_key = Nothing =>
           \E r \in DOMAIN playlist : r <= real_i /\ playlist[r].keys # Nothing
  PROVE  Pending(drm.scheme, encryption, This)
<1>1. Plain(This)  BY DEF Plain
<1>2. ~(drm.scheme = "aes" /\ encryption # Nothing)
  <2> SUFFICES ASSUME drm.scheme = "aes", encryption # Nothing PROVE FALSE  OBVIOUS
  <2>1. CASE initial_drm_key = Nothing
    <3>1. PICK r \in DOMAIN playlist : r <= real_i /\ playlist[r].keys # Nothing  BY <2>1
    <3>2. playlist \in Playlists /\ playlist \in Seq(Segment) /\ Len(playlist) \in Nat
      BY StaticFacts DEF Static
    <3>3. playlist[real_i].keys = Nothing  BY DEF This
    <3>4. \A j \in 1..real_i : playlist[j].keys = Nothing  BY <3>2, <3>3, PlaylistAssumption
    <3>5. r \in 1..real_i  BY <3>1, <3>2
    <3> QED  BY <3>1, <3>4, <3>5
  <2>2. CASE initial_drm_key # Nothing
    <3>1. \A k \in DOMAIN wanted_segments : wanted_segments[k].keys # Nothing  BY <2>2 DEF PlainApart
    <3>2. \E k \in DOMAIN wanted_segments : wanted_segments[k] = This  BY ThisOne, StaticFacts
    <3> QED  BY <3>1, <3>2
  <2> QED  BY <2>1, <2>2
<1> QED  BY <1>1, <1>2 DEF Pending

LEMMA KeyChangeKeeps ==
  ASSUME Static, Looping, KeyChange
  PROVE  Looping'
<1> DEFINE w == wanted_segments
           scheme == drm.scheme
           loop == way = "loop"
<1>1. /\ pc = "key" /\ pc' = "last" /\ consts' = consts /\ real_i' = real_i /\ i' = i
      /\ merged' = merged /\ map_data' = map_data
  BY DEF KeyChange
<1>2. /\ playlist' = playlist /\ way' = way /\ drm' = drm /\ wanted_segments' = w /\ By' = By
      /\ (Good' <=> Good) /\ initial_drm_key' = initial_drm_key
  BY <1>1, ConstsKept
<1>3. /\ playlist \in Seq(Segment) /\ Len(playlist) \in Nat
      /\ Len(w) \in Nat /\ \A j \in 1..Len(w) : w[j] \in Segment
  BY StaticFacts
<1>4. /\ real_i \in 1..(Len(playlist) + 1) /\ real_i <= Len(playlist) /\ i = Count(playlist, real_i)
      /\ way \in {"loop", "segment"} /\ KeyOfDrm(encryption)
      /\ drm.scheme = "aes" /\ encryption # Nothing /\ initial_drm_key = Nothing =>
           \E r \in DOMAIN playlist : r <= real_i /\ playlist[r].keys # Nothing
  BY <1>1 DEF Looping
<1>5. real_i \in DOMAIN playlist /\ real_i \in Nat  BY <1>3, <1>4
<1>6. i \in Nat /\ (This.wanted => i \in 1..Len(w) /\ w[i] = This)
  <2>1. real_i \in Nat  BY <1>5
  <2> QED  BY <1>4, <1>5, <2>1, ThisOne, CountFacts
<1>7. seen' = i /\ seen = IF This.wanted THEN i - 1 ELSE i  BY <1>1 DEF seen
<1>8. PICK s \in 0..Len(w), D \in 0..Len(w), d \in 0..Len(files) :
        /\ Layout(w, By, i, seen, files, merged, s, d, D)
        /\ Good => Contents(w, scheme, loop, i, seen, encryption, map_data, files, merged, s, d, D)
  BY DEF Looping
<1>9. ASSUME NEW E \in 0..Len(w), NEW e \in 0..Len(files'),
             KeyOfDrm(encryption'),
             drm.scheme = "aes" /\ encryption' # Nothing /\ initial_drm_key = Nothing =>
               \E r \in DOMAIN playlist : r <= real_i /\ playlist[r].keys # Nothing,
             Layout(w, By, i, i, files', merged, s, e, E),
             Good => Contents(w, scheme, loop, i, i, encryption', map_data, files', merged, s, e, E)
      PROVE  Looping'
  <2>1. pc' \in {"cut", "key", "last"} /\ way' \in {"loop", "segment"}  BY <1>1, <1>2, <1>4
  <2>2. real_i' \in 1..(Len(playlist') + 1) /\ (pc' # "cut" => real_i' <= Len(playlist'))
    BY <1>1, <1>2, <1>4
  <2>3. i' = Count(playlist', IF pc' = "cut" THEN real_i' - 1 ELSE real_i')
    <3>1. pc' # "cut" /\ real_i' = real_i /\ playlist' = playlist  BY <1>1, <1>2
    <3> QED  BY <1>1, <1>4, <3>1
  <2>4. KeyOfDrm(encryption)'  BY <1>9 DEF KeyOfDrm
  <2>5. drm'.scheme = "aes" /\ encryption' # Nothing /\ initial_drm_key' = Nothing =>
           \E r \in DOMAIN playlist' : r <= real_i' /\ playlist'[r].keys # Nothing
    BY <1>1, <1>2, <1>9
  <2>6. \E s1, D1 \in 0..Len(wanted_segments'), d1 \in 0..Len(files') :
          /\ Layout(wanted_segments', By', i', seen', files', merged', s1, d1, D1)
          /\ Good' => Contents(wanted_segments', drm'.scheme, way' = "loop", i', seen', encryption',
                               map_data', files', merged', s1, d1, D1)
    BY <1>1, <1>2, <1>7, <1>9
  <2> QED  BY <2>1, <2>2, <2>3, <2>4, <2>5, <2>6 DEF Looping
<1>10. /\ i \in 0..Len(w) /\ D <= seen /\ Directory(Len(w), By, files, s, d, D) /\ Output(w, merged, s)
       /\ (i > 0 => s < i) /\ (s > 0 => w[s + 1].discontinuity)
       /\ \A k \in (s + 2)..i : ~w[k].discontinuity
  BY <1>8 DEF Layout
<1>11. CASE ~This.wanted
  <2>1. files' = files /\ encryption' = encryption  BY <1>11 DEF KeyChange
  <2>2. seen = i  BY <1>7, <1>11
  <2>3. /\ Layout(w, By, i, i, files', merged, s, d, D)
        /\ Good => Contents(w, scheme, loop, i, i, encryption', map_data, files', merged, s, d, D)
    BY <1>8, <2>1, <2>2
  <2> QED  BY <1>4, <1>9, <2>1, <2>3
<1>12. CASE This.wanted
  <2>1. i \in 1..Len(w) /\ w[i] = This /\ seen = i - 1 /\ D <= i - 1  BY <1>6, <1>7, <1>10, <1>12
  \* Nothing is decrypted.
  <2>2. ASSUME files' = files,
               Good /\ loop => \A j \in (D + 1)..i : Pending(scheme, encryption', w[j])
        PROVE  /\ Layout(w, By, i, i, files', merged, s, d, D)
               /\ Good => Contents(w, scheme, loop, i, i, encryption', map_data, files', merged, s, d, D)
    <3>1. Layout(w, By, i, i, files', merged, s, d, D)
      <4>1. i \in 0..i /\ i - 1 <= i /\ D <= i  BY <1>3, <2>1
      <4> QED  BY <1>10, <2>1, <2>2, <4>1 DEF Layout
    <3>2. ASSUME Good PROVE Contents(w, scheme, loop, i, i, encryption', map_data, files', merged, s, d, D)
      <4>1. Contents(w, scheme, loop, i, seen, encryption, map_data, files, merged, s, d, D)  BY <1>8, <3>2
      <4> QED  BY <2>2, <3>2, <4>1 DEF Contents
    <3> QED  BY <3>1, <3>2
  <2>3. CASE This.keys = Nothing
    <3>1. files' = files /\ encryption' = encryption  BY <2>3 DEF KeyChange
    <3>2. ASSUME Good, loop, NEW j \in (D + 1)..i PROVE Pending(scheme, encryption', w[j])
      <4>1. CASE j = i
        <5>1. PlainApart  BY <3>2 DEF Good
        <5>2. Pending(drm.scheme, encryption, This)  BY <1>4, <1>5, <1>12, <2>3, <5>1, UntaggedIsPending
        <5> QED  BY <2>1, <3>1, <4>1, <5>2
      <4>2. CASE j # i
        <5>1. j \in (D + 1)..(i - 1)  BY <1>6, <4>2
        <5>2. Contents(w, scheme, loop, i, i - 1, encryption, map_data, files, merged, s, d, D)
          BY <1>8, <2>1, <3>2
        <5> QED  BY <3>1, <3>2, <5>1, <5>2 DEF Contents
      <4> QED  BY <4>1, <4>2
    <3> QED  BY <1>4, <1>9, <2>2, <3>1, <3>2
  <2>4. CASE This.keys # Nothing
    <3> DEFINE key == resolve_segment_key(This.keys)
    <3>1. /\ files' = IF encryption # Nothing /\ encryption.key # key /\ i > 1
                      THEN decrypt(files, i - 1) ELSE files
          /\ encryption' = NewEncryption(key)
      BY <1>12, <2>4 DEF KeyChange, NewEncryption
    <3>2. This \in Segment  BY <1>3, <2>1
    <3> HIDE DEF key
    <3>3. /\ KeyOfDrm(encryption') /\ Pending(scheme, encryption', This)
      <4>1. key = resolve_segment_key(This.keys)  BY DEF key
      <4> QED  BY <1>4, <2>4, <3>1, <3>2, <4>1, NewKeyIsOwn
    <3>4. \E r \in DOMAIN playlist : r <= real_i /\ playlist[r].keys # Nothing
      BY <1>5, <2>4 DEF This
    <3>5. CASE ~(encryption # Nothing /\ encryption.key # key /\ i > 1)
      <4>1. files' = files  BY <3>1, <3>5
      <4>2. ASSUME Good, loop PROVE \A j \in (D + 1)..i : Pending(scheme, encryption', w[j])
        <5>1. Contents(w, scheme, loop, i, i - 1, encryption, map_data, files, merged, s, d, D)
          BY <1>8, <2>1, <4>2
        <5>2. \A j \in (D + 1)..(i - 1) : Pending(scheme, encryption, w[j])  BY <4>2, <5>1 DEF Contents
        <5>3. D \in Nat /\ D < i  BY <1>3, <1>6, <2>1
        <5>4. D + 1 < i => ~w[i].discontinuity
          <6>1. s <= D  BY <1>10 DEF Directory
          <6>2. D + 1 < i => i \in (s + 2)..i  BY <1>6, <5>3, <6>1
          <6> QED  BY <1>10, <6>2
        <5>5. PlainApart /\ key = resolve_segment_key(w[i].keys) /\ w[i].keys # Nothing
          BY <2>1, <2>4, <4>2 DEF Good, key
        <5> HIDE DEF w
        <5>6. w = wanted_segments  BY DEF w
        <5> QED  BY <1>4, <2>1, <3>1, <3>5, <5>2, <5>3, <5>4, <5>5, <5>6, NewKeySuitsRest
      <4> QED  BY <1>9, <2>2, <3>3, <3>4, <4>1, <4>2
    <3>6. CASE encryption # Nothing /\ encryption.key # key /\ i > 1
      <4> DEFINE fs == decrypt(files, i - 1)
      <4>1. files' = fs  BY <3>1, <3>6
      <4>2. i - 1 \in D..Len(w) /\ i - 1 \in 0..Len(w)  BY <1>3, <1>6, <2>1, <1>8
      <4>3. PICK e \in 0..Len(fs) :
              /\ Directory(Len(w), By, fs, s, e, i - 1)
              /\ (\A c \in 1..d : Behind(w, scheme, map_data, files[c]))
                   /\ (\A j \in (D + 1)..(i - 1) : Own(w, scheme, Treated(j)))
                 => \A c \in 1..e : Behind(w, scheme, map_data, fs[c])
        BY <1>10, <4>2, DecryptKeeps
      <4> HIDE DEF fs
      <4>4. Layout(w, By, i, i, files', merged, s, e, i - 1)
        <5>1. i \in 0..i /\ i - 1 <= i  BY <1>6
        <5> QED  BY <1>10, <4>1, <4>3, <5>1 DEF Layout
      <4>5. ASSUME Good PROVE Contents(w, scheme, loop, i, i, encryption', map_data, files', merged, s, e, i - 1)
        <5>1. Contents(w, scheme, loop, i, i - 1, encryption, map_data, files, merged, s, d, D)
          BY <1>8, <2>1, <4>5
        <5>2. ASSUME NEW j \in (D + 1)..(i - 1) PROVE Own(w, scheme, Treated(j))
          <6>1. j \in 1..Len(w)  BY <1>3, <1>6, <2>1, <1>8
          <6>2. way = "loop" => Pending(drm.scheme, encryption, wanted_segments[j])  BY <5>1 DEF Contents
          <6> QED  BY <1>4, <3>6, <6>1, <6>2, OwnOfPending DEF Treated
        <5>3. \A c \in 1..e : Behind(w, scheme, map_data, fs[c])  BY <4>3, <5>1, <5>2 DEF Contents
        <5>4. \A j \in ((i - 1) + 1)..i : Pending(scheme, encryption', w[j])
          <6>1. \A j \in ((i - 1) + 1)..i : j = i  BY <1>6
          <6> QED  BY <2>1, <3>3, <6>1
        <5> QED  BY <4>1, <5>1, <5>3, <5>4 DEF Contents
      <4> QED  BY <1>9, <3>3, <3>4, <4>1, <4>2, <4>3, <4>4, <4>5
    <3> QED  BY <3>5, <3>6
  <2> QED  BY <2>3, <2>4
<1> QED  BY <1>11, <1>12

LEMMA LastSegmentKeeps ==
  ASSUME Static, Looping, LastSegment
  PROVE  Looping' \/ Finished'
<1> DEFINE w == wanted_segments
           scheme == drm.scheme
           loop == way = "loop"
<1>1. /\ pc = "last" /\ consts' = consts /\ real_i' = real_i + 1 /\ i' = i
      /\ map_data' = map_data /\ encryption' = encryption
  BY DEF LastSegment
<1>2. /\ playlist' = playlist /\ way' = way /\ drm' = drm /\ wanted_segments' = w /\ By' = By
      /\ (Good' <=> Good) /\ initial_drm_key' = initial_drm_key
  BY <1>1, ConstsKept
<1>3. playlist \in Seq(Segment) /\ Len(playlist) \in Nat /\ Len(w) \in Nat /\ Len(w) = Count(playlist, Len(playlist))
  BY StaticFacts, WantedIsThere
<1>4. /\ real_i \in 1..(Len(playlist) + 1) /\ real_i <= Len(playlist) /\ i = Count(playlist, real_i)
      /\ way \in {"loop", "segment"} /\ KeyOfDrm(encryption)
      /\ drm.scheme = "aes" /\ encryption # Nothing /\ initial_drm_key = Nothing =>
           \E r \in DOMAIN playlist : r <= real_i /\ playlist[r].keys # Nothing
  BY <1>1 DEF Looping
<1>5. seen = i  BY <1>1 DEF seen
<1>6. PICK s \in 0..Len(w), D \in 0..Len(w), d \in 0..Len(files) :
        /\ Layout(w, By, i, i, files, merged, s, d, D)
        /\ Good => Contents(w, scheme, loop, i, i, encryption, map_data, files, merged, s, d, D)
  BY <1>5 DEF Looping
<1>7. /\ i \in 0..Len(w) /\ D <= i /\ Directory(Len(w), By, files, s, d, D) /\ Output(w, merged, s)
      /\ (i > 0 => s < i) /\ (s > 0 => w[s + 1].discontinuity)
      /\ \A k \in (s + 2)..i : ~w[k].discontinuity
  BY <1>6 DEF Layout
<1>8. CASE real_i = Len(playlist)
  <2>1. /\ merge_discontinuity(IF encryption # Nothing THEN decrypt(files, i) ELSE files, i)
        /\ pc' = "done"
    BY <1>8 DEF LastSegment
  <2>2. i = Len(w)  BY <1>3, <1>4, <1>8
  <2>3. i \in D..Len(w) /\ (s > 0 /\ s < i => w[s + 1].discontinuity)  BY <1>3, <1>6, <1>7
  <2>4. /\ Output(w, merged', i)
        /\ Ready(w, scheme, s, d, D, i) => OutputGood(w, scheme, merged')
    BY <1>4, <1>7, <2>1, <2>3, CutKeeps
  <2>5. ASSUME Good PROVE OutputGood(w, scheme, merged')
    <3>1. Contents(w, scheme, loop, i, i, encryption, map_data, files, merged, s, d, D)  BY <1>6, <2>5
    <3>2. \A j \in (s + 1)..i : w[j].init_section = map_data
      <4>1. CASE i > 0  BY <3>1, <4>1 DEF Contents
      <4>2. CASE i = 0  BY <1>3, <4>2
      <4> QED  BY <1>7, <1>3, <4>1, <4>2
    <3>3. Ready(w, scheme, s, d, D, i)  BY <3>1, <3>2 DEF Contents, Ready
    <3> QED  BY <2>4, <3>3
  <2> QED  BY <1>2, <2>1, <2>2, <2>4, <2>5 DEF Finished
<1>9. CASE real_i # Len(playlist)
  <2>1. files' = files /\ merged' = merged /\ pc' = "cut"  BY <1>9 DEF LastSegment
  <2>2. seen' = i  BY <1>1, <2>1 DEF seen
  <2>3. real_i' \in 1..(Len(playlist') + 1) /\ (pc' # "cut" => real_i' <= Len(playlist'))
    BY <1>1, <1>2, <1>3, <1>4, <2>1
  <2>4. i' = Count(playlist', IF pc' = "cut" THEN real_i' - 1 ELSE real_i')
    <3>1. pc' = "cut" /\ real_i' - 1 = real_i /\ playlist' = playlist  BY <1>1, <1>2, <1>3, <1>4, <2>1
    <3> QED  BY <1>1, <1>4, <3>1
  <2>5. KeyOfDrm(encryption)'  BY <1>1, <1>4 DEF KeyOfDrm
  <2>6. drm'.scheme = "aes" /\ encryption' # Nothing /\ initial_drm_key' = Nothing =>
           \E r \in DOMAIN playlist' : r <= real_i' /\ playlist'[r].keys # Nothing
    <3> SUFFICES ASSUME drm.scheme = "aes", encryption # Nothing, initial_drm_key = Nothing
                 PROVE  \E r \in DOMAIN playlist : r <= real_i + 1 /\ playlist[r].keys # Nothing
      BY <1>1, <1>2
    <3>1. PICK r \in DOMAIN playlist : r <= real_i /\ playlist[r].keys # Nothing  BY <1>4
    <3>2. r <= real_i + 1  BY <1>3, <1>4, <3>1
    <3> QED  BY <3>1, <3>2
  <2>7. \E s1, D1 \in 0..Len(wanted_segments'), d1 \in 0..Len(files') :
          /\ Layout(wanted_segments', By', i', seen', files', merged', s1, d1, D1)
          /\ Good' => Contents(wanted_segments', drm'.scheme, way' = "loop", i', seen', encryption',
                               map_data', files', merged', s1, d1, D1)
    BY <1>1, <1>2, <1>6, <2>1, <2>2
  <2> QED  BY <1>2, <1>4, <2>1, <2>3, <2>4, <2>5, <2>6, <2>7 DEF Looping
<1> QED  BY <1>8, <1>9

-----------------------------------------------------------------------------
(* The beginning, and the short cut that has no loop.                      *)

\* A directory of downloaded segments.
LEMMA DownloadedFiles ==
  ASSUME NEW n \in Nat, NEW by, NEW fs, fs = [k \in 1..n |-> Single(k, by)]
  PROVE  Directory(n, by, fs, 0, 0, 0) /\ Len(fs) = n
<1>1. IsSeq(fs) /\ Len(fs) = n
  <2>1. fs = [k \in 1..n |-> fs[k]]  OBVIOUS
  <2> QED  BY <2>1, IsSeqFunction
<1>2. \A c \in 1..(n - 0) : fs[0 + c] = Single(0 + c, by)  OBVIOUS
<1>3. Covers(fs, 0, 0, 0)  BY DEF Covers
<1> QED  BY <1>1, <1>2, <1>3 DEF Directory

\* Nothing is merged before the first.
LEMMA NoOutput ==
  ASSUME NEW w, Len(w) \in Nat
  PROVE  /\ Output(w, <<>>, 0) /\ \A scheme : OutputGood(w, scheme, <<>>)
<1>1. IsSeq(<<>>) /\ Len(<<>>) = 0 /\ DOMAIN <<>> = {}  BY DEF IsSeq
<1>2. End(<<>>, 0) = 0  BY DEF End
<1>3. \A f \in 0..Len(<<>>) : f = 0  BY <1>1
<1>4. \A f \in 1..(Len(<<>>) - 1) : FALSE  BY <1>1
<1>5. Output(w, <<>>, 0)  BY <1>1, <1>2, <1>3, <1>4 DEF Output
<1> QED  BY <1>1, <1>5 DEF OutputGood

LEMMA InitEstablishes == Init => HInv
<1> SUFFICES ASSUME Init PROVE HInv  OBVIOUS
<1> DEFINE w == wanted_segments
<1>1. Static  BY DEF Init, Static
<1>2. /\ Len(w) \in Nat /\ DOMAIN w = 1..Len(w) /\ playlist \in Seq(Segment) /\ Len(playlist) \in Nat
      /\ session_drm = initial_drm_key \/ (initial_drm_key = Nothing /\ session_drm = Session)
      /\ drm.scheme = "aes" => session_drm = initial_drm_key
  BY <1>1, StaticFacts
<1>3. files = [k \in 1..Len(w) |-> Single(k, By)]
  BY <1>2 DEF Init, Downloaded, Single, By
<1>4. /\ pc = (IF way \in {"rolling", "both"} THEN "rolling" ELSE "cut") /\ real_i = 1 /\ i = 0
      /\ merged = <<>>
      /\ map_data = (IF way = "loop" THEN Nothing ELSE wanted_segments[1].init_section)
      /\ encryption = (IF session_drm = Nothing THEN Nothing ELSE [key |-> initial_drm_key, drm |-> session_drm])
  BY DEF Init
<1>5. way \in {"loop", "rolling", "segment", "both"}  BY DEF Init, Ways
<1>6. CASE way \in {"rolling", "both"}
  <2>1. Rolling  BY <1>3, <1>4, <1>6 DEF Rolling
  <2> QED  BY <1>1, <2>1 DEF HInv
<1>7. CASE way \in {"loop", "segment"}
  <2>1. pc = "cut" /\ seen = 0  BY <1>4, <1>7 DEF seen
  <2>2. Directory(Len(w), By, files, 0, 0, 0) /\ Len(files) = Len(w)
    <3> HIDE DEF w
    <3> QED  BY <1>2, <1>3, DownloadedFiles
  <2>3. Output(w, merged, 0) /\ OutputGood(w, drm.scheme, merged)  BY <1>2, <1>4, NoOutput
  <2>4. Layout(w, By, i, seen, files, merged, 0, 0, 0)
    BY <1>2, <1>4, <2>1, <2>2, <2>3 DEF Layout
  <2>5. Contents(w, drm.scheme, way = "loop", i, seen, encryption, map_data, files, merged, 0, 0, 0)
    <3>1. map_data = Nothing \/ (Len(w) > 0 /\ map_data = w[1].init_section)
      <4>1. CASE way = "loop"  BY <1>4, <4>1
      <4>2. CASE way # "loop"  BY <1>1, <1>4, <4>2, ShortCut
      <4> QED  BY <4>1, <4>2
    <3>2. \A j \in (0 + 1)..seen : FALSE  BY <2>1
    <3> QED  BY <1>4, <2>3, <3>1, <3>2 DEF Contents
  <2>6. KeyOfDrm(encryption)
    <3>1. initial_drm_key \in Keys \cup {Nothing}  BY <1>1, InitialKey
    <3>2. session_drm # Nothing => session_drm \in Keys \cup {Session}  BY <1>2, <3>1
    <3> QED  BY <1>2, <1>4, <3>1, <3>2 DEF KeyOfDrm
  <2>7. ~(drm.scheme = "aes" /\ encryption # Nothing /\ initial_drm_key = Nothing)  BY <1>2, <1>4
  <2>8. i = Count(playlist, IF pc = "cut" THEN real_i - 1 ELSE real_i)
    <3>1. Count(playlist, 0) = 0  BY CountFacts
    <3> QED  BY <1>4, <2>1, <3>1
  <2>9. \E s, D \in 0..Len(wanted_segments), d \in 0..Len(files) :
          /\ Layout(wanted_segments, By, i, seen, files, merged, s, d, D)
          /\ Good => Contents(wanted_segments, drm.scheme, way = "loop", i, seen, encryption,
                              map_data, files, merged, s, d, D)
    <3>1. 0 \in 0..Len(w) /\ 0 \in 0..Len(files)  BY <1>2, <2>2
    <3> QED  BY <2>4, <2>5, <3>1
  <2>10. Looping  BY <1>2, <1>4, <1>7, <2>1, <2>6, <2>7, <2>8, <2>9 DEF Looping
  <2> QED  BY <1>1, <2>10 DEF HInv
<1> QED  BY <1>5, <1>6, <1>7

LEMMA RollingKeeps ==
  ASSUME Static, Rolling, RollingMerge
  PROVE  Finished'
<1> DEFINE w == wanted_segments
           scheme == drm.scheme
           m == w[1].init_section
           AsIs == way = "both" \/ session_drm = Nothing
           v == [k \in DOMAIN files |->
                   IF AsIs THEN files[k]
                   ELSE [files[k] EXCEPT !.segments = <<Decrypted(files[k].segments[1], session_drm)>>]]
           g == [map_data |-> map_data, via |-> v]
           n == Len(w)
<1>1. /\ consts' = consts /\ pc' = "done" /\ merged' = <<g>>
      /\ files = [k \in DOMAIN w |-> Single(k, By)] /\ merged = <<>> /\ map_data = m
      /\ way \in {"rolling", "both"}
  BY DEF RollingMerge, Rolling
<1>2. /\ way' = way /\ drm' = drm /\ wanted_segments' = w /\ (Good' <=> Good)
  BY <1>1, ConstsKept
<1>3. n \in Nat /\ DOMAIN w = 1..n /\ Len(w) \in Nat  BY StaticFacts
<1>4. /\ n > 0 /\ \A j \in 1..n : w[j].init_section = m
      /\ \A j \in 2..n : ~w[j].discontinuity
      /\ session_drm = Nothing => way = "rolling"
      /\ \A j \in 1..n : /\ session_drm # Nothing => Own(w, scheme, [of |-> j, by |-> <<session_drm>>])
                         /\ session_drm = Nothing => Own(w, scheme, [of |-> j, by |-> <<>>])
  <2>1. way # "loop"  BY <1>1
  <2> QED  BY <2>1, ShortCut
<1> DEFINE by == IF session_drm = Nothing THEN <<>> ELSE <<session_drm>>
\* The files of the output are those of the segments, decrypted if they are to be.
<1>5. ASSUME NEW k \in 1..n
      PROVE  /\ v[k].last = k /\ v[k].map_data = Nothing
             /\ v[k].segments = <<[of |-> k, by |-> by]>>
  <2>1. files[k] = Single(k, By) /\ k \in DOMAIN files  BY <1>1, <1>3
  <2>2. /\ files[k].last = k /\ files[k].map_data = Nothing
        /\ files[k].segments = <<[of |-> k, by |-> By]>> /\ files[k].segments[1] = [of |-> k, by |-> By]
    BY <2>1 DEF Single
  <2>3. CASE AsIs
    <3>1. By = by
      <4>1. CASE session_drm = Nothing
        <5>1. ~ByItself  BY <1>4, <4>1 DEF ByItself
        <5> QED  BY <4>1, <5>1 DEF By
      <4>2. CASE session_drm # Nothing
        <5>1. ByItself  BY <2>3, <4>2 DEF ByItself
        <5> QED  BY <4>2, <5>1 DEF By
      <4> QED  BY <4>1, <4>2
    <3>2. v[k] = files[k]  BY <2>1, <2>3
    <3> QED  BY <2>2, <3>1, <3>2
  <2>4. CASE ~AsIs
    <3>1. By = <<>>  BY <1>1, <2>4 DEF By, ByItself
    <3>2. Decrypted(files[k].segments[1], session_drm) = [of |-> k, by |-> <<session_drm>>]
      <4>1. Append(<<>>, session_drm) = <<session_drm>>  OBVIOUS
      <4> QED  BY <2>2, <3>1, <4>1 DEF Decrypted
    <3>3. v[k] = [files[k] EXCEPT !.segments = <<Decrypted(files[k].segments[1], session_drm)>>]  BY <2>1, <2>4
    <3>4. files[k] = [raw |-> TRUE, last |-> k, map_data |-> Nothing, segments |-> <<[of |-> k, by |-> By]>>]
      BY <2>1 DEF Single
    <3>5. v[k].last = k /\ v[k].map_data = Nothing /\ v[k].segments = <<[of |-> k, by |-> <<session_drm>>]>>
      BY <3>2, <3>3, <3>4
    <3>6. by = <<session_drm>>  BY <2>4
    <3> QED  BY <3>5, <3>6
  <2> QED  BY <2>3, <2>4
<1>6. IsSeq(v) /\ Len(v) = n /\ DOMAIN v = 1..n
  <2>1. v = [k \in 1..n |-> v[k]]  BY <1>1, <1>3
  <2> HIDE DEF v, n
  <2> QED  BY <1>3, <2>1, IsSeqFunction
<1>7. g.via = v /\ g.map_data = m  BY <1>1
<1> HIDE DEF v, g, by
<1>8. \A k \in 1..n : DOMAIN v[k].segments = {1} /\ v[k].segments[1] = [of |-> k, by |-> by]
  <2> SUFFICES ASSUME NEW k \in 1..n
               PROVE  DOMAIN v[k].segments = {1} /\ v[k].segments[1] = [of |-> k, by |-> by]
    OBVIOUS
  <2>1. v[k].segments = <<[of |-> k, by |-> by]>>  BY <1>5
  <2> QED  BY <2>1
<1>9. Covers(v, n, 0, n)
  <2>1. ASSUME NEW c \in 1..n
        PROVE  /\ DOMAIN v[c].segments = {1} /\ c \in (0 + 1)..n
               /\ \A k \in DOMAIN v[c].segments : k = 1 /\ v[c].segments[k].of = c
    <3>1. DOMAIN v[c].segments = {1} /\ v[c].segments[1] = [of |-> c, by |-> by]  BY <1>8
    <3>2. v[c].segments[1].of = c  BY <3>1
    <3>3. c \in (0 + 1)..n  BY <1>3
    <3> QED  BY <3>1, <3>2, <3>3
  <2> HIDE DEF n
  <2>2. \A c \in 1..n : \A k \in DOMAIN v[c].segments : k \in Nat /\ v[c].segments[k].of \in (0 + 1)..n
    BY <2>1
  <2>3. \A c \in 1..n : \A k, l \in DOMAIN v[c].segments :
          k < l => v[c].segments[k].of < v[c].segments[l].of
    <3> SUFFICES ASSUME NEW c \in 1..n, NEW k \in DOMAIN v[c].segments, NEW l \in DOMAIN v[c].segments
                 PROVE  ~(k < l)
      OBVIOUS
    <3>1. k = 1 /\ l = 1  BY <2>1
    <3> QED  BY <3>1
  <2>4. \A b, c \in 1..n : b < c =>
          \A k \in DOMAIN v[b].segments : \A l \in DOMAIN v[c].segments :
            v[b].segments[k].of < v[c].segments[l].of
    BY <2>1
  <2>5. \A j \in (0 + 1)..n : \E c \in 1..n : \E k \in DOMAIN v[c].segments : v[c].segments[k].of = j
    <3> SUFFICES ASSUME NEW j \in (0 + 1)..n
                 PROVE  \E c \in 1..n : \E k \in DOMAIN v[c].segments : v[c].segments[k].of = j
      OBVIOUS
    <3>1. j \in 1..n  BY <1>3
    <3>2. 1 \in DOMAIN v[j].segments /\ v[j].segments[1].of = j  BY <2>1, <3>1
    <3> QED  BY <3>1, <3>2
  <2> QED  BY <2>2, <2>3, <2>4, <2>5 DEF Covers
<1>10. Output(w, merged', n)
  <2>1. File(w, g, 0, n)
    <3>1. Len(g.via) = n /\ n \in Nat \ {0} /\ 0 < n  BY <1>3, <1>4, <1>6, <1>7
    <3>2. \A j \in (0 + 2)..n : ~w[j].discontinuity  BY <1>4
    <3> QED  BY <1>6, <1>7, <1>9, <3>1, <3>2 DEF File
  <2>2. g.via[Len(g.via)].last = n
    <3>1. n \in 1..n  BY <1>3, <1>4
    <3> QED  BY <1>5, <1>6, <1>7, <3>1
  <2>3. Output(w, <<>>, 0)  BY <1>3, NoOutput
  <2>4. Output(w, Append(<<>>, g), n)
    <3>1. n \in 0..Len(w) /\ ~(0 > 0)  BY <1>3
    <3> QED  BY <1>3, <2>1, <2>2, <2>3, <3>1, OutputGrows
  <2>5. merged' = Append(<<>>, g)  BY <1>1
  <2> QED  BY <2>4, <2>5
<1>11. OutputGood(w, scheme, merged')
  <2>1. DOMAIN merged' = {1} /\ merged'[1] = g  BY <1>1
  <2>2. ASSUME NEW c \in 1..n, NEW k \in DOMAIN v[c].segments
        PROVE  Own(w, scheme, v[c].segments[k]) /\ w[v[c].segments[k].of].init_section = m
    <3>1. k = 1 /\ v[c].segments[k] = [of |-> c, by |-> by]  BY <1>8, <2>2
    <3>2. Own(w, scheme, [of |-> c, by |-> by])  BY <1>4 DEF by
    <3> QED  BY <1>4, <3>1, <3>2
  <2>3. AllBehind(w, scheme, m, g)  BY <1>5, <1>6, <1>7, <2>2 DEF AllBehind
  <2> QED  BY <2>1, <2>3 DEF OutputGood
<1> QED  BY <1>1, <1>2, <1>10, <1>11 DEF Finished

\* The invariant behind both properties.
THEOREM KeepsInv == Spec => []HInv
<1>1. HInv /\ [Next]_vars => HInv'
  <2> SUFFICES ASSUME HInv, [Next]_vars PROVE HInv'  OBVIOUS
  <2>1. Static /\ (Looping \/ Rolling \/ Finished)  BY DEF HInv
  <2>2. CASE RollingMerge
    <3>1. consts' = consts /\ pc = "rolling"  BY <2>2 DEF RollingMerge
    <3>2. Rolling  BY <2>1, <3>1 DEF Looping, Finished
    <3> QED  BY <2>1, <2>2, <3>1, <3>2, ConstsKept, RollingKeeps DEF HInv
  <2>3. CASE Discontinuity
    <3>1. consts' = consts /\ pc = "cut"  BY <2>3 DEF Discontinuity
    <3>2. Looping  BY <2>1, <3>1 DEF Rolling, Finished
    <3> QED  BY <2>1, <2>3, <3>1, <3>2, ConstsKept, DiscontinuityKeeps DEF HInv
  <2>4. CASE KeyChange
    <3>1. consts' = consts /\ pc = "key"  BY <2>4 DEF KeyChange
    <3>2. Looping  BY <2>1, <3>1 DEF Rolling, Finished
    <3> QED  BY <2>1, <2>4, <3>1, <3>2, ConstsKept, KeyChangeKeeps DEF HInv
  <2>5. CASE LastSegment
    <3>1. consts' = consts /\ pc = "last"  BY <2>5 DEF LastSegment
    <3>2. Looping  BY <2>1, <3>1 DEF Rolling, Finished
    <3> QED  BY <2>1, <2>5, <3>1, <3>2, ConstsKept, LastSegmentKeeps DEF HInv
  <2>6. CASE UNCHANGED vars
    <3>1. /\ consts' = consts /\ pc' = pc /\ real_i' = real_i /\ i' = i /\ files' = files
          /\ merged' = merged /\ map_data' = map_data /\ encryption' = encryption
      BY <2>6 DEF vars, consts
    <3>2. /\ wanted_segments' = wanted_segments /\ By' = By /\ initial_drm_key' = initial_drm_key
          /\ (Static' <=> Static) /\ (Good' <=> Good)
          /\ playlist' = playlist /\ drm' = drm /\ way' = way
      BY <3>1, ConstsKept
    <3>3. seen' = seen /\ (KeyOfDrm(encryption)' <=> KeyOfDrm(encryption))
      BY <3>1, <3>2 DEF seen, This, KeyOfDrm
    <3>4. Looping => Looping'  BY <3>1, <3>2, <3>3 DEF Looping
    <3>5. Rolling => Rolling'  BY <3>1, <3>2 DEF Rolling
    <3>6. Finished => Finished'  BY <3>1, <3>2 DEF Finished
    <3> QED  BY <2>1, <3>2, <3>4, <3>5, <3>6 DEF HInv
  <2> QED  BY <2>2, <2>3, <2>4, <2>5, <2>6 DEF Next
<1> QED  BY <1>1, InitEstablishes, PTL DEF Spec

-----------------------------------------------------------------------------
(* The output.                                                             *)

\* The segment at a place of the output is one of its file.
LEMMA PlaceFacts ==
  ASSUME NEW w, Len(w) \in Nat, Output(w, merged, Len(w)), NEW p \in Places
  PROVE  /\ p[1] \in 1..Len(merged) /\ Len(merged) \in Nat
         /\ p[2] \in 1..Len(merged[p[1]].via) /\ Len(merged[p[1]].via) \in Nat
         /\ DOMAIN merged[p[1]].via = 1..Len(merged[p[1]].via)
         /\ p[3] \in DOMAIN merged[p[1]].via[p[2]].segments /\ p[3] \in Nat
         /\ p = <<p[1], p[2], p[3]>>
         /\ File(w, merged[p[1]], End(merged, p[1] - 1), End(merged, p[1]))
         /\ End(merged, p[1] - 1) \in Nat /\ End(merged, p[1]) \in Nat
         /\ At(p).of \in (End(merged, p[1] - 1) + 1)..End(merged, p[1])
<1>1. PICK f \in DOMAIN merged : p \in UNION {{<<f, c, k>> : k \in DOMAIN merged[f].via[c].segments} :
                                               c \in DOMAIN merged[f].via}
  BY DEF Places
<1>2. PICK c \in DOMAIN merged[f].via : p \in {<<f, c, k>> : k \in DOMAIN merged[f].via[c].segments}
  BY <1>1
<1>3. PICK k \in DOMAIN merged[f].via[c].segments : p = <<f, c, k>>  BY <1>2
<1>4. p[1] = f /\ p[2] = c /\ p[3] = k /\ p = <<p[1], p[2], p[3]>>  BY <1>3
<1>5. IsSeq(merged) /\ Len(merged) \in Nat /\ DOMAIN merged = 1..Len(merged)  BY IsSeqFacts DEF Output
<1>6. File(w, merged[f], End(merged, f - 1), End(merged, f))  BY <1>1 DEF Output
<1>7. /\ Len(merged[f].via) \in Nat /\ DOMAIN merged[f].via = 1..Len(merged[f].via)
      /\ End(merged, f - 1) \in Nat /\ End(merged, f) \in Nat
      /\ Covers(merged[f].via, Len(merged[f].via), End(merged, f - 1), End(merged, f))
  BY <1>6 DEF File
<1>8. k \in Nat /\ merged[f].via[c].segments[k].of \in (End(merged, f - 1) + 1)..End(merged, f)
  BY <1>2, <1>3, <1>7 DEF Covers
<1>9. At(p) = merged[f].via[c].segments[k]  BY <1>4 DEF At
<1> QED  BY <1>1, <1>2, <1>3, <1>4, <1>5, <1>6, <1>7, <1>8, <1>9

\* Places are in the order of their segments.
LEMMA PlacesInOrder ==
  ASSUME NEW w, Len(w) \in Nat, Output(w, merged, Len(w)), NEW p \in Places, NEW q \in Places, Before(p, q)
  PROVE  At(p).of < At(q).of
<1>1. /\ p[1] \in 1..Len(merged) /\ Len(merged) \in Nat
      /\ p[2] \in 1..Len(merged[p[1]].via) /\ p[3] \in DOMAIN merged[p[1]].via[p[2]].segments
      /\ File(w, merged[p[1]], End(merged, p[1] - 1), End(merged, p[1]))
      /\ End(merged, p[1] - 1) \in Nat /\ End(merged, p[1]) \in Nat
      /\ At(p).of \in (End(merged, p[1] - 1) + 1)..End(merged, p[1])
  BY PlaceFacts
<1>2. /\ q[1] \in 1..Len(merged) /\ q[2] \in 1..Len(merged[q[1]].via)
      /\ q[3] \in DOMAIN merged[q[1]].via[q[2]].segments
      /\ End(merged, q[1] - 1) \in Nat /\ End(merged, q[1]) \in Nat
      /\ At(q).of \in (End(merged, q[1] - 1) + 1)..End(merged, q[1])
  BY PlaceFacts
<1>3. CASE p[1] < q[1]
  <2> DEFINE f == p[1]
             g == q[1]
             m == Len(merged)
             a == At(p).of
             b == At(q).of
  <2>1. f \in 1..m /\ g \in 1..m /\ m \in Nat /\ f < g  BY <1>1, <1>2, <1>3
  <2>2. /\ End(merged, f) \in Nat /\ a \in (End(merged, f - 1) + 1)..End(merged, f)
        /\ End(merged, g - 1) \in Nat /\ b \in (End(merged, g - 1) + 1)..End(merged, g)
        /\ End(merged, f - 1) \in Nat /\ End(merged, g) \in Nat
    BY <1>1, <1>2
  <2>3. \A h, k \in 0..m : h <= k => End(merged, h) <= End(merged, k)  BY DEF Output
  <2> HIDE DEF f, g, m, a, b
  <2>4. f \in 0..m /\ g - 1 \in 0..m /\ f <= g - 1  BY <2>1
  <2>5. End(merged, f) <= End(merged, g - 1)  BY <2>3, <2>4
  <2>6. a < b  BY <2>2, <2>5
  <2> QED  BY <2>6 DEF a, b
<1>4. CASE p[1] = q[1]
  <2> DEFINE v == merged[p[1]].via
  <2>1. Covers(v, Len(v), End(merged, p[1] - 1), End(merged, p[1]))  BY <1>1 DEF File
  <2>2. At(p) = v[p[2]].segments[p[3]] /\ At(q) = v[q[2]].segments[q[3]]  BY <1>4 DEF At
  <2>3. p[2] \in 1..Len(v) /\ q[2] \in 1..Len(v) /\ p[3] \in DOMAIN v[p[2]].segments /\ q[3] \in DOMAIN v[q[2]].segments
    BY <1>1, <1>2, <1>4
  <2> HIDE DEF v
  <2>4. CASE p[2] < q[2]
    <3>1. v[p[2]].segments[p[3]].of < v[q[2]].segments[q[3]].of  BY <2>1, <2>3, <2>4 DEF Covers
    <3> QED  BY <2>2, <3>1
  <2>5. CASE p[2] = q[2] /\ p[3] < q[3]
    <3>1. v[p[2]].segments[p[3]].of < v[p[2]].segments[q[3]].of  BY <2>1, <2>3, <2>5 DEF Covers
    <3> QED  BY <2>2, <2>5, <3>1
  <2>6. ~(p[1] < q[1])  BY <1>1, <1>2, <1>4
  <2> QED  BY <2>4, <2>5, <2>6 DEF Before
<1>5. p[1] < q[1] \/ p[1] = q[1]  BY DEF Before
<1> QED  BY <1>3, <1>4, <1>5

\* A segment between two ends is at some place of that file.
LEMMA PlaceOf ==
  ASSUME NEW w, Len(w) \in Nat, Output(w, merged, Len(w)), NEW f \in DOMAIN merged,
         NEW j \in (End(merged, f - 1) + 1)..End(merged, f)
  PROVE  \E p \in Places : p[1] = f /\ At(p).of = j
<1>1. File(w, merged[f], End(merged, f - 1), End(merged, f))  BY DEF Output
<1>2. /\ DOMAIN merged[f].via = 1..Len(merged[f].via)
      /\ Covers(merged[f].via, Len(merged[f].via), End(merged, f - 1), End(merged, f))
  BY <1>1 DEF File
<1>3. PICK c \in 1..Len(merged[f].via) :
        \E k \in DOMAIN merged[f].via[c].segments : merged[f].via[c].segments[k].of = j
  BY <1>2 DEF Covers
<1>4. PICK k \in DOMAIN merged[f].via[c].segments : merged[f].via[c].segments[k].of = j  BY <1>3
<1> DEFINE p == <<f, c, k>>
<1>5. p \in Places  BY <1>2, <1>3, <1>4 DEF Places
<1>6. At(p) = merged[f].via[c].segments[k] /\ p[1] = f  BY DEF At
<1> QED  BY <1>4, <1>5, <1>6

LEMMA FinishedIsInOrder ==
  ASSUME Static, Finished
  PROVE  EachOnceInOrder
<1> DEFINE w == wanted_segments
           n == Len(w)
<1>1. n \in Nat /\ DOMAIN w = 1..n /\ Output(w, merged, n)  BY StaticFacts DEF Finished
<1>2. IsSeq(merged) /\ Len(merged) \in Nat /\ DOMAIN merged = 1..Len(merged)
  BY <1>1, IsSeqFacts DEF Output
<1>3. /\ End(merged, Len(merged)) = n /\ End(merged, 0) = 0
      /\ \A f, g \in 0..Len(merged) : f <= g => End(merged, f) <= End(merged, g)
      /\ \A j \in 1..n : \E f \in DOMAIN merged : End(merged, f - 1) < j /\ j <= End(merged, f)
      /\ \A f \in 1..(Len(merged) - 1) : w[End(merged, f) + 1].discontinuity
      /\ \A f \in DOMAIN merged : File(w, merged[f], End(merged, f - 1), End(merged, f))
  <2>1. End(merged, 0) = 0  BY DEF End
  <2> QED  BY <1>1, <2>1 DEF Output
<1> HIDE DEF w, n
<1>4. Len(w) = n  BY DEF n
<1>5. ASSUME NEW p \in Places
      PROVE  /\ p[1] \in 1..Len(merged) /\ p[2] \in Nat /\ p[3] \in Nat /\ p = <<p[1], p[2], p[3]>>
             /\ End(merged, p[1] - 1) \in Nat /\ End(merged, p[1]) \in Nat
             /\ At(p).of \in (End(merged, p[1] - 1) + 1)..End(merged, p[1])
             /\ At(p).of \in 1..n
  <2>1. /\ p[1] \in 1..Len(merged) /\ p[2] \in 1..Len(merged[p[1]].via) /\ Len(merged[p[1]].via) \in Nat
        /\ p[3] \in Nat /\ p = <<p[1], p[2], p[3]>>
        /\ End(merged, p[1] - 1) \in Nat /\ End(merged, p[1]) \in Nat
        /\ At(p).of \in (End(merged, p[1] - 1) + 1)..End(merged, p[1])
    BY <1>1, <1>4, PlaceFacts
  <2>2. p[1] \in 0..Len(merged) /\ Len(merged) \in 0..Len(merged) /\ p[1] <= Len(merged)  BY <1>2, <2>1
  <2>3. End(merged, p[1]) <= n  BY <1>3, <2>2
  <2> QED  BY <1>1, <2>1, <2>3
<1>6. \A p, q \in Places : Before(p, q) => At(p).of < At(q).of  BY <1>1, <1>4, PlacesInOrder
<1>7. {At(p).of : p \in Places} = DOMAIN w
  <2>1. ASSUME NEW j \in 1..n PROVE \E p \in Places : At(p).of = j
    <3>1. PICK f \in DOMAIN merged : End(merged, f - 1) < j /\ j <= End(merged, f)  BY <1>3
    <3>2. End(merged, f - 1) \in Nat /\ End(merged, f) \in Nat  BY <1>3 DEF File
    <3>3. j \in (End(merged, f - 1) + 1)..End(merged, f)  BY <1>1, <3>1, <3>2
    <3> QED  BY <1>1, <1>4, <3>3, PlaceOf
  <2> QED  BY <1>1, <1>5, <2>1
<1>8. ASSUME NEW p \in Places, NEW q \in Places PROVE Before(p, q) <=> At(p).of < At(q).of
  <2>1. /\ p[1] \in Nat /\ p[2] \in Nat /\ p[3] \in Nat /\ p = <<p[1], p[2], p[3]>> /\ At(p).of \in 1..n
    BY <1>2, <1>5
  <2>2. /\ q[1] \in Nat /\ q[2] \in Nat /\ q[3] \in Nat /\ q = <<q[1], q[2], q[3]>> /\ At(q).of \in 1..n
    BY <1>2, <1>5
  <2>3. Before(p, q) \/ Before(q, p) \/ p = q
    <3>1. p[1] = q[1] /\ p[2] = q[2] /\ p[3] = q[3] => p = q  BY <2>1, <2>2
    <3> QED  BY <2>1, <2>2, <3>1 DEF Before
  <2>4. Before(p, q) => At(p).of < At(q).of  BY <1>6
  <2>5. Before(q, p) => At(q).of < At(p).of  BY <1>6
  <2> QED  BY <1>1, <2>1, <2>3, <2>4, <2>5, <2>2
<1>9. ASSUME NEW f \in DOMAIN merged PROVE \E p \in Places : p[1] = f
  <2>1. End(merged, f - 1) \in Nat /\ End(merged, f) \in Nat /\ End(merged, f - 1) < End(merged, f)
    BY <1>3 DEF File
  <2>2. End(merged, f) \in (End(merged, f - 1) + 1)..End(merged, f)  BY <2>1
  <2> QED  BY <1>1, <1>4, <2>2, PlaceOf
<1>10. ASSUME NEW p \in Places, NEW q \in Places, At(q).of = At(p).of + 1
       PROVE  /\ w[At(q).of].discontinuity => p[1] # q[1]
              /\ p[1] # q[1] => \E r \in DOMAIN playlist :
                   playlist[r].discontinuity /\ Count(playlist, r - 1) = At(p).of
  <2>1. /\ p[1] \in 1..Len(merged) /\ End(merged, p[1] - 1) \in Nat /\ End(merged, p[1]) \in Nat
        /\ At(p).of \in (End(merged, p[1] - 1) + 1)..End(merged, p[1])
    BY <1>5
  <2>2. /\ q[1] \in 1..Len(merged) /\ End(merged, q[1] - 1) \in Nat /\ End(merged, q[1]) \in Nat
        /\ At(q).of \in (End(merged, q[1] - 1) + 1)..End(merged, q[1])
    BY <1>5
  <2>3. p[1] \in 1..Len(merged) /\ q[1] \in 1..Len(merged) /\ At(p).of \in Nat /\ At(q).of \in Nat
    BY <2>1, <2>2
  <2>4. CASE p[1] = q[1]
    <3>1. At(q).of \in (End(merged, p[1] - 1) + 2)..End(merged, p[1])  BY <1>10, <2>1, <2>2, <2>3, <2>4
    <3>2. \A j \in (End(merged, p[1] - 1) + 2)..End(merged, p[1]) : ~w[j].discontinuity
      BY <1>2, <1>3, <2>1, <2>2, <2>3 DEF File
    <3>3. ~w[At(q).of].discontinuity  BY <3>1, <3>2
    <3> QED  BY <2>4, <3>3
  <2>5. CASE p[1] # q[1]
    <3>1. ~(q[1] < p[1])
      <4>1. q[1] < p[1] => At(q).of < At(p).of  BY <1>6 DEF Before
      <4> QED  BY <1>10, <2>1, <2>2, <2>3, <4>1
    <3>2. p[1] < q[1] /\ p[1] \in 0..Len(merged) /\ q[1] - 1 \in 0..Len(merged) /\ p[1] <= q[1] - 1
          /\ p[1] \in 1..(Len(merged) - 1)
      BY <1>2, <2>3, <2>5, <3>1
    <3>3. End(merged, p[1]) <= End(merged, q[1] - 1)  BY <1>3, <3>2
    <3>4. At(q).of = End(merged, p[1]) + 1  BY <1>10, <2>1, <2>2, <2>3, <3>3
    <3>5. w[At(q).of].discontinuity  BY <1>3, <3>2, <3>4
    <3>6. PICK r \in DOMAIN playlist : w[At(q).of] = playlist[r] /\ Count(playlist, r - 1) = At(q).of - 1
      <4>1. playlist \in Seq(Segment) /\ w = Wanted(playlist)  BY StaticFacts DEF w
      <4>2. At(q).of \in DOMAIN w  BY <1>1, <1>5
      <4> QED  BY <4>1, <4>2, WantedType
    <3>7. Count(playlist, r - 1) = At(p).of  BY <1>10, <2>3, <3>6
    <3> QED  BY <2>5, <3>5, <3>6, <3>7
  <2> QED  BY <2>4, <2>5
<1> QED  BY <1>7, <1>8, <1>9, <1>10 DEF EachOnceInOrder, w

LEMMA FinishedIsOwn ==
  ASSUME Static, Finished
  PROVE  OwnKeyOwnInit
<1> DEFINE w == wanted_segments
           scheme == drm.scheme
<1> SUFFICES ASSUME Good, NEW p \in Places
             PROVE  LET s == w[At(p).of] IN
                    /\ InitBefore(p) = s.init_section
                    /\ ~Plain(s) => At(p).by = <<s.keys>>
                    /\ Plain(s) /\ scheme = "aes" => At(p).by = <<>>
  BY DEF OwnKeyOwnInit, Good
<1>1. Len(w) \in Nat /\ Output(w, merged, Len(w)) /\ OutputGood(w, scheme, merged)
  BY StaticFacts DEF Finished
<1> DEFINE f == p[1]
           c == p[2]
           v == merged[f].via
           inits == {b \in 1..c : v[b].map_data # Nothing}
<1>2. /\ f \in DOMAIN merged /\ c \in 1..Len(v) /\ Len(v) \in Nat /\ DOMAIN v = 1..Len(v)
      /\ p[3] \in DOMAIN v[c].segments
  <2>1. IsSeq(merged) /\ DOMAIN merged = 1..Len(merged)  BY <1>1, IsSeqFacts DEF Output
  <2> HIDE DEF w
  <2> QED  BY <1>1, <2>1, PlaceFacts
<1>3. PICK m : AllBehind(w, scheme, m, merged[f])  BY <1>1, <1>2 DEF OutputGood
<1>4. /\ merged[f].map_data \in {Nothing, m}
      /\ \A b \in DOMAIN v : v[b].map_data \in {Nothing, m}
      /\ m # Nothing => merged[f].map_data = m \/ v[1].map_data = m
      /\ Own(w, scheme, v[c].segments[p[3]])
      /\ w[v[c].segments[p[3]].of].init_section = m
  BY <1>2, <1>3 DEF AllBehind
<1>5. At(p) = v[c].segments[p[3]]  BY DEF At
<1>6. Own(w, scheme, At(p)) /\ w[At(p).of].init_section = m  BY <1>4, <1>5
<1>7. InitBefore(p) = m
  <2>1. InitBefore(p) = IF inits = {} THEN merged[f].map_data
                        ELSE v[CHOOSE b \in inits : \A d \in inits : d <= b].map_data
    BY DEF InitBefore
  <2>2. CASE inits = {}
    <3>1. v[1].map_data = Nothing
      <4>1. 1 \in 1..c  BY <1>2
      <4> QED  BY <2>2, <4>1
    <3>2. InitBefore(p) = merged[f].map_data  BY <2>1, <2>2
    <3>3. m # Nothing => merged[f].map_data = m
      <4>1. m # Nothing => v[1].map_data # m  BY <3>1
      <4> QED  BY <1>4, <4>1
    <3>4. merged[f].map_data = m  BY <1>4, <3>3
    <3> QED  BY <3>2, <3>4
  <2>3. CASE inits # {}
    <3> DEFINE last == CHOOSE b \in inits : \A d \in inits : d <= b
    <3>1. c \in Nat /\ inits \in SUBSET (1..c)  BY <1>2
    <3> HIDE DEF inits
    <3>2. \E b \in inits : \A d \in inits : d <= b  BY <2>3, <3>1, Largest
    <3>3. last \in inits  BY <3>2, Zenon
    <3>4. InitBefore(p) = v[last].map_data  BY <2>1, <2>3
    <3> HIDE DEF last
    <3>5. last \in 1..c /\ v[last].map_data # Nothing  BY <3>3 DEF inits
    <3>6. last \in DOMAIN v  BY <1>2, <3>5
    <3> QED  BY <1>4, <3>4, <3>5, <3>6
  <2> QED  BY <2>2, <2>3
<1> QED  BY <1>6, <1>7 DEF Own

\* The output of a track holds every wanted segment once and in the order of the
\* playlist; a file of it ends before each wanted segment with a discontinuity,
\* and only where the playlist has one (that of a filtered segment may pass
\* unseen): whatever merge_discontinuity() and decrypt() of hls.py took out of
\* the directory.
THEOREM MergesEachOnceInOrder == Spec => []EachOnceInOrder
<1>1. HInv => EachOnceInOrder
  <2>1. CASE Finished  BY <2>1, FinishedIsInOrder DEF HInv
  <2>2. CASE ~Finished
    <3>1. HInv => pc # "done"  BY <2>2 DEF HInv, Looping, Rolling
    <3> QED  BY <3>1 DEF EachOnceInOrder
  <2> QED  BY <2>1, <2>2
<1> QED  BY <1>1, KeepsInv, PTL

\* Each segment of the output is decrypted with the key that its own EXT-X-KEY tag
\* names, and lies behind the init section that its own EXT-X-MAP tag names, if
\* the playlist changes init sections only at discontinuities: in the loop
\* of hls.py and in its two short cuts.
THEOREM MergesWithOwnKeyAndInit == Spec => []OwnKeyOwnInit
<1>1. HInv => OwnKeyOwnInit
  <2>1. CASE Finished  BY <2>1, FinishedIsOwn DEF HInv
  <2>2. CASE ~Finished
    <3>1. HInv => pc # "done"  BY <2>2 DEF HInv, Looping, Rolling
    <3> QED  BY <3>1 DEF OwnKeyOwnInit
  <2> QED  BY <2>1, <2>2
<1> QED  BY <1>1, KeepsInv, PTL
=============================================================================
