------------------------------ MODULE HlsMerge ------------------------------
(***************************************************************************)
(* The merge of an HLS track (HLS.download_track in                        *)
(* unshackle/core/manifests/hls.py): the files of the downloaded segments  *)
(* become one file per discontinuity, while the playlist changes its key   *)
(* (EXT-X-KEY), its init section (EXT-X-MAP) and its time line             *)
(* (EXT-X-DISCONTINUITY) and some of its segments were never wanted.       *)
(* Two short cuts avoid the loop: decryption segment by segment, and a     *)
(* merge while the segments come.                                          *)
(*                                                                         *)
(* A file of the segment directory is the init section that was written    *)
(* in front, if any, and then segments, each with the keys that it was     *)
(* decrypted with; a merged file is an init section in front, if any, and  *)
(* the files that were copied into it.  That licences, downloads and tools *)
(* succeed is assumed: all of their failures end the track.                *)
(***************************************************************************)
EXTENDS Naturals, Sequences, FiniteSets

CONSTANTS
  Playlists,  \* sequences of segments, see Playlist
  Keys,       \* content keys, as EXT-X-KEY tags name them
  Maps,       \* init sections
  Session,    \* the key of the DRM that the master playlist gave the track
  Nothing

ASSUME HlsAssumption ==
  /\ Session \notin Keys \cup {Nothing}
  /\ Nothing \notin Keys \cup Maps
  /\ Nothing \notin [key : Keys \cup {Nothing}, drm : Keys \cup {Session}]

\* keys: the tag in force, "none" for METHOD=NONE, Nothing before the first tag.
Segment == [wanted : BOOLEAN, discontinuity : BOOLEAN,
            init_section : Maps \cup {Nothing}, keys : Keys \cup {"none", Nothing}]

\* A tag holds until the next one.
ASSUME PlaylistAssumption ==
  /\ Playlists \subseteq Seq(Segment)
  /\ \A p \in Playlists : \A k \in DOMAIN p :
       p[k].keys = Nothing => \A j \in 1..k : p[j].keys = Nothing

VARIABLES
  playlist,   \* the media playlist
  drm,        \* [scheme, cdm, session]: what decides how the track is licensed
  way,        \* "loop", or the short cut in use
  pc,         \* the next step of the loop's body
  real_i,     \* the segment of the playlist that the loop is at
  i,          \* how many wanted segments the loop has come to
  files,      \* the files of the segment directory, in the order of their names
  merged,     \* the files of the discontinuities that are over
  map_data,   \* the init section in use
  encryption  \* the key and the DRM in use

consts == <<playlist, drm, way>>
vars == <<playlist, drm, way, pc, real_i, i, files, merged, map_data, encryption>>

-----------------------------------------------------------------------------
\* What the code finds out before the loop.

\* How many of the first k segments of p are wanted.
Count(p, k) == Cardinality({j \in 1..k : p[j].wanted})

\* The files of the segment directory are named by these numbers.
Wanted(p) == [n \in 1..Count(p, Len(p)) |-> p[CHOOSE k \in DOMAIN p : p[k].wanted /\ Count(p, k) = n]]
wanted_segments == Wanted(playlist)

\* METHOD=NONE says that what follows is plain.
get_supported_key(keys) == IF keys = "none" THEN Nothing ELSE keys
resolve_segment_key(keys) == get_supported_key(keys)

\* The segments with a tag that suits the CDM, or with any tag without one.
media_keys ==
  {k \in DOMAIN playlist : /\ playlist[k].keys # Nothing
                           /\ drm.cdm => drm.scheme = "cenc" /\ playlist[k].keys # "none"}

\* The key that is licensed first: the first of the playlist, of a segment that
\* may not be wanted; none if some segment is plain.
initial_drm_key ==
  IF media_keys = {} \/ \E k \in media_keys : playlist[k].keys = "none" THEN Nothing
  ELSE playlist[CHOOSE k \in media_keys : \A j \in media_keys : k <= j].keys

session_drm == IF initial_drm_key # Nothing THEN initial_drm_key
               ELSE IF drm.session THEN Session ELSE Nothing

SingleInitAnyKey ==   \* Mutant: a look at the first segment's key only.
  LET w == wanted_segments IN
  /\ w # <<>> /\ w[1].init_section # Nothing
  /\ \A k \in 2..Len(w) : ~w[k].discontinuity /\ w[k].init_section = w[1].init_section
  /\ w[1].keys # Nothing =>
       initial_drm_key # Nothing /\ resolve_segment_key(w[1].keys) = initial_drm_key

single_init_no_rotation ==
  LET w == wanted_segments IN
  /\ w # <<>>
  /\ w[1].init_section # Nothing
  /\ \A k \in 2..Len(w) :
       /\ ~w[k].discontinuity /\ w[k].init_section = w[1].init_section
       /\ w[k].keys \in {Nothing, w[1].keys}
  /\ w[1].keys # Nothing =>
       initial_drm_key # Nothing /\ resolve_segment_key(w[1].keys) = initial_drm_key

\* The short cuts open to this track, if they are configured.
Ways ==
  {"loop"} \cup IF ~single_init_no_rotation THEN {}
                ELSE IF session_drm = Nothing THEN {"rolling"}
                ELSE IF drm.scheme = "cenc" THEN {"rolling", "segment", "both"} ELSE {}

-----------------------------------------------------------------------------
\* Files.

ByItself == way \in {"segment", "both"}   \* each segment is decrypted as it comes

Downloaded(k) ==
  [raw |-> TRUE, last |-> k, map_data |-> Nothing,
   segments |-> <<[of |-> k, by |-> IF ByItself THEN <<session_drm>> ELSE <<>>]>>]

Decrypted(segment, key) == [segment EXCEPT !.by = Append(@, key)]

\* How many files of a directory hold no segment after last; they come first.
UpTo(fs, last) == CHOOSE n \in 0..Len(fs) : \A k \in DOMAIN fs : fs[k].last <= last <=> k <= n

\* How many come before the first file of a single segment.
Done(fs) == CHOOSE n \in 0..Len(fs) : \A k \in DOMAIN fs : fs[k].raw <=> n < k

\* decrypt(): the segment files from the first that is left up to last become
\* one file, behind the init section in use.
decrypt(fs, last) ==
  LET first == Done(fs)
      range_len == UpTo(fs, last) - first
      Plain(segment) == IF ByItself THEN segment ELSE Decrypted(segment, encryption.drm)
  IN IF range_len <= 0 THEN fs
     ELSE SubSeq(fs, 1, first)
          \o <<[raw |-> FALSE, last |-> last, map_data |-> map_data,
                segments |-> [k \in 1..range_len |-> Plain(fs[first + k].segments[1])]]>>
          \o SubSeq(fs, first + range_len + 1, Len(fs))

\* merge_discontinuity(): all files up to last become the next of merged.
merge_discontinuity(fs, last) ==
  LET n == UpTo(fs, last) IN
  /\ files' = SubSeq(fs, n + 1, Len(fs))
  /\ merged' = IF n = 0 THEN merged
               ELSE Append(merged, [map_data |-> IF encryption = Nothing THEN map_data ELSE Nothing,
                                    via |-> SubSeq(fs, 1, n)])

-----------------------------------------------------------------------------
Init ==
  /\ playlist \in Playlists
  /\ drm \in [scheme : {"cenc", "aes"}, cdm : BOOLEAN, session : BOOLEAN]
  /\ drm.session => drm.scheme = "cenc"
  /\ way \in Ways
  /\ pc = IF way \in {"rolling", "both"} THEN "rolling" ELSE "cut"
  /\ real_i = 1 /\ i = 0
  /\ files = [k \in DOMAIN wanted_segments |-> Downloaded(k)]
  /\ merged = <<>>
  /\ map_data = IF way = "loop" THEN Nothing ELSE wanted_segments[1].init_section
  /\ encryption = IF session_drm = Nothing THEN Nothing ELSE [key |-> initial_drm_key, drm |-> session_drm]

\* Each segment was appended as it came; the output is decrypted at the end
\* unless the segments were.
RollingMerge ==
  /\ pc = "rolling"
  /\ merged' = <<[map_data |-> map_data,
                   via |-> [k \in DOMAIN files |->
                     IF way = "both" \/ session_drm = Nothing THEN files[k]
                     ELSE [files[k] EXCEPT !.segments = <<Decrypted(files[k].segments[1], session_drm)>>]]]>>
  /\ files' = <<>>
  /\ pc' = "done"
  /\ UNCHANGED <<consts, real_i, i, map_data, encryption>>

This == playlist[real_i]

\* A discontinuity before a wanted segment, other than the first, ends a file.
\* The segment may bring another init section.
Discontinuity ==
  /\ pc = "cut" /\ real_i <= Len(playlist)
  /\ i' = IF This.wanted THEN i + 1 ELSE i
  /\ IF This.wanted /\ This.discontinuity /\ i > 0
     THEN merge_discontinuity(IF encryption # Nothing THEN decrypt(files, i) ELSE files, i)
     ELSE UNCHANGED <<files, merged>>
  /\ map_data' = IF ~This.wanted THEN map_data
                 ELSE IF This.init_section # Nothing THEN This.init_section
                 ELSE IF This.discontinuity /\ i > 0 THEN Nothing ELSE map_data
  /\ pc' = "key"
  /\ UNCHANGED <<consts, real_i, encryption>>

\* Another key: what came under the one in use is decrypted before it goes.
KeyChange ==
  /\ pc = "key"
  /\ IF This.wanted /\ This.keys # Nothing
     THEN LET key == resolve_segment_key(This.keys) IN
          /\ files' = IF encryption # Nothing /\ encryption.key # key /\ i > 1
                      THEN decrypt(files, i - 1) ELSE files
          /\ encryption' = IF key = Nothing THEN Nothing
                           ELSE IF encryption = Nothing \/ encryption.key # key
                                THEN [key |-> key, drm |-> key] ELSE encryption
     ELSE UNCHANGED <<files, encryption>>
  /\ pc' = "last"
  /\ UNCHANGED <<consts, real_i, i, merged, map_data>>

LastWanted ==         \* Mutant: a filtered segment at the end ends no file.
  /\ pc = "last"
  /\ IF real_i = Len(playlist) /\ This.wanted
     THEN merge_discontinuity(IF encryption # Nothing THEN decrypt(files, i) ELSE files, i)
     ELSE UNCHANGED <<files, merged>>
  /\ pc' = IF real_i = Len(playlist) THEN "done" ELSE "cut"
  /\ real_i' = real_i + 1
  /\ UNCHANGED <<consts, i, map_data, encryption>>

\* The last segment of the playlist, wanted or not, ends the last file.
LastSegment ==
  /\ pc = "last"
  /\ IF real_i = Len(playlist)
     THEN merge_discontinuity(IF encryption # Nothing THEN decrypt(files, i) ELSE files, i) /\ pc' = "done"
     ELSE UNCHANGED <<files, merged>> /\ pc' = "cut"
  /\ real_i' = real_i + 1
  /\ UNCHANGED <<consts, i, map_data, encryption>>

Next == RollingMerge \/ Discontinuity \/ KeyChange \/ LastSegment

Spec == Init /\ [][Next]_vars

-----------------------------------------------------------------------------
\* The segments of the output: by file, by what was copied into it, by place.
Places ==
  UNION {UNION {{<<f, c, k>> : k \in DOMAIN merged[f].via[c].segments} :
                c \in DOMAIN merged[f].via} : f \in DOMAIN merged}
At(p) == merged[p[1]].via[p[2]].segments[p[3]]
Before(p, q) ==
  \/ p[1] < q[1]
  \/ p[1] = q[1] /\ p[2] < q[2]
  \/ p[1] = q[1] /\ p[2] = q[2] /\ p[3] < q[3]

\* Every wanted segment is in the output once, in the order of the playlist.  A
\* file of it ends before each wanted segment that carries a discontinuity (the
\* first of all aside), and only where the playlist has one: on the next wanted
\* segment or on a filtered one before it.  Nothing is said of the latter alone:
\* the loop passes over it (see the README).
EachOnceInOrder ==
  pc = "done" =>
    /\ {At(p).of : p \in Places} = DOMAIN wanted_segments
    /\ \A p, q \in Places : Before(p, q) <=> At(p).of < At(q).of
    /\ \A f \in DOMAIN merged : \E p \in Places : p[1] = f
    /\ \A p, q \in Places : At(q).of = At(p).of + 1 =>
         /\ wanted_segments[At(q).of].discontinuity => p[1] # q[1]
         /\ p[1] # q[1] => \E r \in DOMAIN playlist :
              playlist[r].discontinuity /\ Count(playlist, r - 1) = At(p).of

\* The init section that a segment of the output lies behind.
InitBefore(p) ==
  LET via   == merged[p[1]].via
      inits == {c \in 1..p[2] : via[c].map_data # Nothing}
  IN IF inits = {} THEN merged[p[1]].map_data
     ELSE via[CHOOSE c \in inits : \A d \in inits : d <= c].map_data

\* A playlist that brings another init section only at a discontinuity.
MapsAtDiscontinuities ==
  LET w == wanted_segments IN
  \A k \in 2..Len(w) : w[k].init_section # w[k - 1].init_section => w[k].discontinuity

Plain(s) == s.keys \in {"none", Nothing}

\* AES-128 segments that follow plain ones only at a discontinuity, and a track
\* that is not licensed before a segment that no tag applies to.  (A CENC
\* decrypter passes over plain fragments by itself.)
PlainApart ==
  LET w == wanted_segments IN
  drm.scheme = "aes" =>
    /\ \A k \in 2..Len(w) : Plain(w[k - 1]) /\ ~Plain(w[k]) => w[k].discontinuity
    /\ initial_drm_key # Nothing => \A k \in DOMAIN w : w[k].keys # Nothing

\* Each segment is decrypted with its own key, once, and lies behind the init
\* section that applies to it: whatever the keys, the discontinuities, the
\* segments that were filtered and the short cut taken.
OwnKeyOwnInit ==
  (pc = "done" /\ MapsAtDiscontinuities /\ PlainApart) =>
    \A p \in Places :
      LET s == wanted_segments[At(p).of] IN
      /\ InitBefore(p) = s.init_section
      /\ ~Plain(s) => At(p).by = <<s.keys>>
      /\ Plain(s) /\ drm.scheme = "aes" => At(p).by = <<>>
=============================================================================
