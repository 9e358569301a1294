------------------------- MODULE RemoteSessionProofs -------------------------
(***************************************************************************)
(* What remote sessions promise, for any number of sessions, places in the *)
(* store, waiting requests and answers.                                    *)
(*                                                                         *)
(* The invariant says of each session who may run its service (the login   *)
(* until it is over, requests only after it succeeded) and what its bridge *)
(* is meanwhile.  Most steps are about one session and leave all others as *)
(* they are, so what they preserve is proved of that session alone.        *)
(***************************************************************************)
EXTENDS RemoteSession, FiniteSetTheorems, TLAPS

\* A session that is not made has nothing yet.
Unmade(s) ==
  life[s] # "made" =>
    /\ s \notin store /\ thread[s].for = "nobody" /\ waiting[s] = 0
    /\ auth[s] = "authenticating" /\ ~bridge[s].cancelled

\* The login's thread runs exactly until its outcome is known.
LoginRuns(s) ==
  life[s] = "made" => (thread[s].for = "login" <=> auth[s] = "authenticating")

\* Only a session that is logged in has requests that use the service.
LoggedIn(s) ==
  thread[s].for = "request" \/ waiting[s] > 0 => auth[s] = "authenticated"

\* Who is cancelled has left the store.
Kept(s) == s \in store => ~bridge[s].cancelled

\* A request never prompts, and its CDM calls keep the status of the login.
Called(s) ==
  s \in store /\ thread[s].for = "request" =>
    /\ thread[s].at \in {"working", "calling", "fetched", "over"}
    /\ thread[s].at = "working" => bridge[s].status = "authenticated"
    /\ thread[s].at # "working" => thread[s].previous = "authenticated"

\* An answer that is stored and announced shuts the bridge to others.
Announced(s) == bridge[s].response \in Answers /\ s \notin answered => bridge[s].ready

\* CancelWakes, StatusAgrees and UnusedLeavesNothing of one session.
Woken(s)  == bridge[s].cancelled /\ s \notin ending => bridge[s].ready /\ bridge[s].picked
Agrees(s) == s \in store /\ thread[s].for = "nobody" => bridge[s].status = auth[s]
Swept(s)  ==
  s \notin store /\ life[s] = "made" /\ NeverUsed(s) =>
    /\ thread[s].for # "request" /\ waiting[s] = 0
    /\ thread[s].for = "nobody" /\ s \notin ending => s \notin cache

Fine(s) ==
  /\ Unmade(s) /\ LoginRuns(s) /\ LoggedIn(s) /\ Kept(s) /\ Called(s) /\ Announced(s)
  /\ Woken(s) /\ Agrees(s) /\ Swept(s)

Typed == TypeOK /\ IsFiniteSet(store)

SInv == Typed /\ \A s \in Sessions : Fine(s)

\* A step that is not about t.
Same(t) ==
  /\ life'[t] = life[t] /\ auth'[t] = auth[t] /\ waiting'[t] = waiting[t]
  /\ bridge'[t] = bridge[t] /\ thread'[t] = thread[t]
  /\ t \in store' <=> t \in store
  /\ t \in answered' <=> t \in answered
  /\ t \in ending' <=> t \in ending
  /\ t \in cache' <=> t \in cache

-----------------------------------------------------------------------------
\* What a session begins with.
LEMMA NewOnes ==
  /\ NewBridge \in InputBridge
  /\ \A who \in {"nobody", "login", "request"} : Working(who) \in Thread
  BY DEF NewBridge, InputBridge, Working, Thread, AuthStatus

LEMMA SInvInit == Init => SInv
<1> SUFFICES ASSUME Init PROVE SInv  OBVIOUS
<1> USE SessionAssumption
<1>1. IsFiniteSet(store) /\ Cardinality(store) <= MaxSessions
  BY FS_EmptySet DEF Init
<1>2. TypeOK
  <2>1. NewBridge \in InputBridge /\ Working("nobody") \in Thread  BY NewOnes
  <2>2. 0 \in 0..MaxWaiting  OBVIOUS
  <2>3. "authenticating" \in AuthStatus \ {"pending"}  BY DEF AuthStatus
  <2> QED  BY <1>1, <2>1, <2>2, <2>3 DEF Init, TypeOK
<1>3. \A s \in Sessions : Fine(s)
  BY DEF Init, Fine, Unmade, LoginRuns, LoggedIn, Kept, Called, Announced, Woken, Agrees, Swept,
         NeverUsed, NewBridge, Working
<1> QED  BY <1>1, <1>2, <1>3 DEF SInv, Typed

\* An entry that goes leaves room for one that comes.
LEMMA RoomForOne ==
  ASSUME TypeOK, IsFiniteSet(store), NEW s \in Sessions, s \notin store, NEW gone \in Victims
  PROVE  /\ gone \subseteq store
         /\ IsFiniteSet((store \ gone) \cup {s})
         /\ Cardinality((store \ gone) \cup {s}) <= MaxSessions
<1> USE SessionAssumption
<1>0. Cardinality(store) \in Nat /\ Cardinality(store) <= MaxSessions
  BY FS_CardinalityType DEF TypeOK
<1>1. CASE Cardinality(store) < MaxSessions
  <2>1. gone = {}  BY <1>1 DEF Victims
  <2>2. store \ gone = store  BY <2>1
  <2>3. IsFiniteSet(store \cup {s}) /\ Cardinality(store \cup {s}) = Cardinality(store) + 1
    BY FS_AddElement
  <2> QED  BY <1>0, <1>1, <2>1, <2>2, <2>3
<1>2. CASE ~(Cardinality(store) < MaxSessions)
  <2>1. store # {}
    <3> SUFFICES ASSUME store = {} PROVE FALSE  OBVIOUS
    <3>1. Cardinality(store) = 0  BY FS_EmptySet
    <3> QED  BY <3>1, <1>2
  <2>2. PICK v \in store : gone = {v}  BY <1>2, <2>1 DEF Victims
  <2>3. IsFiniteSet(store \ gone) /\ Cardinality(store \ gone) = Cardinality(store) - 1
    BY <2>2, FS_RemoveElement
  <2>4. s \notin store \ gone  OBVIOUS
  <2>5. /\ IsFiniteSet((store \ gone) \cup {s})
        /\ Cardinality((store \ gone) \cup {s}) = Cardinality(store \ gone) + 1
    BY <2>3, <2>4, FS_AddElement
  <2> QED  BY <1>0, <2>2, <2>3, <2>5
<1> QED  BY <1>1, <1>2

\* An entry that goes leaves the rest within the limit.
LEMMA FewerStay ==
  ASSUME TypeOK, IsFiniteSet(store), NEW gone
  PROVE  IsFiniteSet(store \ gone) /\ Cardinality(store \ gone) <= MaxSessions
<1> USE SessionAssumption
<1>1. IsFiniteSet(store \ gone) /\ Cardinality(store \ gone) <= Cardinality(store)
  BY FS_Subset, store \ gone \subseteq store
<1>2. Cardinality(store) \in Nat /\ Cardinality(store \ gone) \in Nat
      /\ Cardinality(store) <= MaxSessions
  BY <1>1, FS_CardinalityType DEF TypeOK
<1> QED  BY <1>1, <1>2

\* The values a status takes.
LEMMA Statuses ==
  /\ {"authenticating", "pending", "authenticated", "failed"} \subseteq AuthStatus
  /\ \A b \in InputBridge : b.status \in AuthStatus /\ b.response \in Answers \cup {NoAnswer}
  /\ \A h \in Thread : h.previous \in AuthStatus
  BY DEF AuthStatus, InputBridge, Thread

\* A bridge stays one whatever the handlers and the service write into it.
LEMMA Bridges ==
  ASSUME NEW b \in InputBridge, NEW st \in AuthStatus, NEW c \in BOOLEAN,
         NEW r \in Answers \cup {NoAnswer}
  PROVE  /\ [b EXCEPT !.status = st] \in InputBridge
         /\ [b EXCEPT !.picked = TRUE] \in InputBridge
         /\ [b EXCEPT !.response = r] \in InputBridge
         /\ [b EXCEPT !.ready = TRUE, !.picked = TRUE] \in InputBridge
         /\ [b EXCEPT !.cancelled = TRUE, !.status = st] \in InputBridge
         /\ [b EXCEPT !.status = st, !.response = r, !.ready = FALSE] \in InputBridge
         /\ [b EXCEPT !.response = r, !.status = st] \in InputBridge
         /\ [b EXCEPT !.status = st, !.call = c, !.response = r, !.ready = FALSE, !.picked = FALSE]
              \in InputBridge
         /\ [b EXCEPT !.response = r, !.call = c, !.status = st] \in InputBridge
  BY DEF InputBridge

\* So does a thread.
LEMMA Threads ==
  ASSUME NEW h \in Thread, NEW st \in AuthStatus,
         NEW where \in {"working", "asking", "late", "calling", "fetched", "over"}
  PROVE  /\ [h EXCEPT !.at = where] \in Thread
         /\ [h EXCEPT !.at = where, !.previous = st] \in Thread
         /\ Working(h.for) \in Thread
  BY NewOnes DEF Thread

\* What holds of a session goes on to hold when the step is not about it.
LEMMA Elsewhere == ASSUME NEW t, Fine(t), Same(t) PROVE Fine(t)'
  BY DEF Same, Fine, Unmade, LoginRuns, LoggedIn, Kept, Called, Announced, Woken, Agrees, Swept,
         NeverUsed

\* A step about one session.
LEMMA OneSession ==
  ASSUME SInv, NEW s \in Sessions, Typed', Fine(s)', \A t \in Sessions \ {s} : Same(t)
  PROVE  SInv'
<1>1. \A t \in Sessions \ {s} : Fine(t)'  BY Elsewhere DEF SInv
<1> QED  BY <1>1 DEF SInv

\* What a removal leaves of a session is fine: the loop still has to wake its thread.
LEMMA Removed ==
  ASSUME NEW s \in Sessions, Fine(s), s \in store, s \notin store', s \in ending',
         bridge[s] \in InputBridge, bridge'[s] = Cancelled(bridge[s]), waiting[s] \in Nat,
         life'[s] = life[s], auth'[s] = auth[s], waiting'[s] = waiting[s],
         thread'[s] = thread[s], answered' = answered
  PROVE  Fine(s)'
<1>1. /\ bridge'[s].cancelled /\ bridge'[s].status = "failed" /\ bridge'[s].ready = bridge[s].ready
      /\ bridge'[s].response = bridge[s].response
  BY DEF Cancelled, InputBridge
<1>2. Swept(s)'
  <2>1. NeverUsed(s)' => auth[s] # "authenticated"  BY <1>1 DEF NeverUsed
  <2>2. auth[s] # "authenticated" => thread'[s].for # "request" /\ waiting'[s] = 0
    BY DEF Fine, LoggedIn
  <2> QED  BY <2>1, <2>2 DEF Swept
<1> QED  BY <1>1, <1>2 DEF Fine, Unmade, LoginRuns, LoggedIn, Kept, Called, Announced, Woken, Agrees

\* Remove() cancels bridges and makes them no other thing.
LEMMA RemoveBridges ==
  ASSUME bridge \in [Sessions -> InputBridge], NEW gone \in SUBSET Sessions, Remove(gone)
  PROVE  /\ bridge' \in [Sessions -> InputBridge]
         /\ ending' = gone
         /\ \A t \in gone : bridge'[t] = Cancelled(bridge[t])
         /\ \A t \in Sessions \ gone : bridge'[t] = bridge[t]
<1>1. \A b \in InputBridge : Cancelled(b) \in InputBridge  BY Bridges, Statuses DEF Cancelled
<1> QED  BY <1>1 DEF Remove

\* A session is let in, refused or left alone.
LEMMA BuildingStep ==
  ASSUME SInv, NEW s \in Sessions,
         Admit(s) \/ BuildFails(s) \/ (\E limit \in {"ttl", "input"} : Age(s, limit))
  PROVE  SInv'
<1> USE DEF Admit, BuildFails, Age,
           in_use, LoopFree, entries, requests, midway
<1>1. Typed'
  <2>1. /\ life' \in [Sessions -> {"none", "building", "made", "refused"}]
        /\ past' \in [Sessions -> SUBSET {"ttl", "input"}]
        /\ cache' \in SUBSET Sessions /\ answered' \in SUBSET Sessions
        /\ ending' \in SUBSET Sessions /\ draining' \in BOOLEAN
    BY DEF SInv, Typed, TypeOK
  <2>2. /\ auth' \in [Sessions -> AuthStatus \ {"pending"}]
        /\ waiting' \in [Sessions -> 0..MaxWaiting]
    BY SessionAssumption DEF SInv, Typed, TypeOK, AuthStatus
  <2>3. store' \in SUBSET Sessions /\ IsFiniteSet(store') /\ Cardinality(store') <= MaxSessions
    BY FewerStay DEF SInv, Typed, TypeOK
  <2>4. bridge' \in [Sessions -> InputBridge]
    BY DEF SInv, Typed, TypeOK
  <2>5. thread' \in [Sessions -> Thread]
    BY DEF SInv, Typed, TypeOK
  <2> QED  BY <2>1, <2>2, <2>3, <2>4, <2>5 DEF TypeOK, Typed
<1> USE DEF SInv, Typed, TypeOK
<1>2. \A t \in Sessions \ {s} : Same(t)
  <2>1. CASE Admit(s)  BY <2>1 DEF Same
  <2>2. CASE BuildFails(s)  BY <2>2 DEF Same
  <2>3. CASE \E limit \in {"ttl", "input"} : Age(s, limit)  BY <2>3 DEF Same
  <2> QED  BY <2>1, <2>2, <2>3
<1>3. Fine(s)'
  <2> USE DEF InputBridge, Thread, AuthStatus,
             Fine, Unmade, LoginRuns, LoggedIn, Kept, Called, Announced, Woken, Agrees, Swept, NeverUsed
  <2>1. CASE Admit(s)  BY <2>1, SessionAssumption
  <2>2. CASE BuildFails(s)  BY <2>2, SessionAssumption
  <2>3. CASE \E limit \in {"ttl", "input"} : Age(s, limit)  BY <2>3, SessionAssumption
  <2> QED  BY <2>1, <2>2, <2>3
<1> QED  BY <1>1, <1>2, <1>3, OneSession

\* Requests that only look.
LEMMA LooksStep ==
  ASSUME SInv, NEW s \in Sessions,
         Look(s) \/ Poll(s)
  PROVE  SInv'
<1> USE DEF Look, Poll, Found, Touched,
           in_use, LoopFree, entries, requests, midway
<1>1. Typed'
  <2>1. /\ life' \in [Sessions -> {"none", "building", "made", "refused"}]
        /\ past' \in [Sessions -> SUBSET {"ttl", "input"}]
        /\ cache' \in SUBSET Sessions /\ answered' \in SUBSET Sessions
        /\ ending' \in SUBSET Sessions /\ draining' \in BOOLEAN
    BY DEF SInv, Typed, TypeOK
  <2>2. /\ auth' \in [Sessions -> AuthStatus \ {"pending"}]
        /\ waiting' \in [Sessions -> 0..MaxWaiting]
    BY SessionAssumption DEF SInv, Typed, TypeOK, AuthStatus
  <2>3. store' \in SUBSET Sessions /\ IsFiniteSet(store') /\ Cardinality(store') <= MaxSessions
    BY FewerStay DEF SInv, Typed, TypeOK
  <2>4. bridge' \in [Sessions -> InputBridge]
    <3>1. CASE Look(s)  BY <3>1 DEF SInv, Typed, TypeOK
    <3>2. CASE Poll(s)  BY <3>2, Bridges, Statuses DEF SInv, Typed, TypeOK
    <3> QED  BY <3>1, <3>2
  <2>5. thread' \in [Sessions -> Thread]
    BY DEF SInv, Typed, TypeOK
  <2> QED  BY <2>1, <2>2, <2>3, <2>4, <2>5 DEF TypeOK, Typed
<1> USE DEF SInv, Typed, TypeOK
<1>2. \A t \in Sessions \ {s} : Same(t)
  <2>1. CASE Look(s)  BY <2>1 DEF Same
  <2>2. CASE Poll(s)  BY <2>2 DEF Same
  <2> QED  BY <2>1, <2>2
<1>3. Fine(s)'
  <2> USE DEF InputBridge, Thread, AuthStatus,
             Fine, Unmade, LoginRuns, LoggedIn, Kept, Called, Announced, Woken, Agrees, Swept, NeverUsed
  <2>1. CASE Look(s)  BY <2>1, SessionAssumption
  <2>2. CASE Poll(s)  BY <2>2, SessionAssumption
  <2> QED  BY <2>1, <2>2
<1> QED  BY <1>1, <1>2, <1>3, OneSession

\* Requests that use the service.
LEMMA WorksStep ==
  ASSUME SInv, NEW s \in Sessions,
         Work(s) \/ Acquire(s) \/ WorkEnds(s)
  PROVE  SInv'
<1> USE DEF Work, Acquire, WorkEnds, Found, Touched, Working,
           in_use, LoopFree, entries, requests, midway
<1>1. Typed'
  <2>1. /\ life' \in [Sessions -> {"none", "building", "made", "refused"}]
        /\ past' \in [Sessions -> SUBSET {"ttl", "input"}]
        /\ cache' \in SUBSET Sessions /\ answered' \in SUBSET Sessions
        /\ ending' \in SUBSET Sessions /\ draining' \in BOOLEAN
    BY DEF SInv, Typed, TypeOK
  <2>2. /\ auth' \in [Sessions -> AuthStatus \ {"pending"}]
        /\ waiting' \in [Sessions -> 0..MaxWaiting]
    BY SessionAssumption DEF SInv, Typed, TypeOK, AuthStatus
  <2>3. store' \in SUBSET Sessions /\ IsFiniteSet(store') /\ Cardinality(store') <= MaxSessions
    BY FewerStay DEF SInv, Typed, TypeOK
  <2>4. bridge' \in [Sessions -> InputBridge]
    BY DEF SInv, Typed, TypeOK
  <2>5. thread' \in [Sessions -> Thread]
    <3>1. CASE Work(s)  BY <3>1, NewOnes, Threads, Statuses DEF SInv, Typed, TypeOK
    <3>2. CASE Acquire(s)  BY <3>2, NewOnes, Threads, Statuses DEF SInv, Typed, TypeOK
    <3>3. CASE WorkEnds(s)  BY <3>3, NewOnes, Threads, Statuses DEF SInv, Typed, TypeOK
    <3> QED  BY <3>1, <3>2, <3>3
  <2> QED  BY <2>1, <2>2, <2>3, <2>4, <2>5 DEF TypeOK, Typed
<1> USE DEF SInv, Typed, TypeOK
<1>2. \A t \in Sessions \ {s} : Same(t)
  <2>1. CASE Work(s)  BY <2>1 DEF Same
  <2>2. CASE Acquire(s)  BY <2>2 DEF Same
  <2>3. CASE WorkEnds(s)  BY <2>3 DEF Same
  <2> QED  BY <2>1, <2>2, <2>3
<1>3. Fine(s)'
  <2> USE DEF InputBridge, Thread, AuthStatus,
             Fine, Unmade, LoginRuns, LoggedIn, Kept, Called, Announced, Woken, Agrees, Swept, NeverUsed
  <2>1. CASE Work(s)  BY <2>1, SessionAssumption
  <2>2. CASE Acquire(s)  BY <2>2, SessionAssumption
  <2>3. CASE WorkEnds(s)  BY <2>3, SessionAssumption
  <2> QED  BY <2>1, <2>2, <2>3
<1> QED  BY <1>1, <1>2, <1>3, OneSession

\* The login is over.
LEMMA AuthEndsStep ==
  ASSUME SInv, NEW s \in Sessions,
         AuthEnds(s)
  PROVE  SInv'
<1> USE DEF AuthEnds, Working,
           in_use, LoopFree, entries, requests, midway
<1>1. Typed'
  <2>1. /\ life' \in [Sessions -> {"none", "building", "made", "refused"}]
        /\ past' \in [Sessions -> SUBSET {"ttl", "input"}]
        /\ cache' \in SUBSET Sessions /\ answered' \in SUBSET Sessions
        /\ ending' \in SUBSET Sessions /\ draining' \in BOOLEAN
    BY DEF SInv, Typed, TypeOK
  <2>2. /\ auth' \in [Sessions -> AuthStatus \ {"pending"}]
        /\ waiting' \in [Sessions -> 0..MaxWaiting]
    BY SessionAssumption DEF SInv, Typed, TypeOK, AuthStatus
  <2>3. store' \in SUBSET Sessions /\ IsFiniteSet(store') /\ Cardinality(store') <= MaxSessions
    BY FewerStay DEF SInv, Typed, TypeOK
  <2>4. bridge' \in [Sessions -> InputBridge]
    <3>1. PICK outcome \in {"authenticated", "failed"} :
            bridge' = [bridge EXCEPT ![s].status = outcome]
      OBVIOUS
    <3>2. bridge \in [Sessions -> InputBridge]  BY DEF SInv, Typed, TypeOK
    <3>3. [bridge[s] EXCEPT !.status = outcome] \in InputBridge  BY <3>2, Bridges, Statuses
    <3> QED  BY <3>1, <3>2, <3>3
  <2>5. thread' \in [Sessions -> Thread]
    <3>1. Working("nobody") \in Thread  BY NewOnes
    <3> QED  BY <3>1 DEF SInv, Typed, TypeOK
  <2> QED  BY <2>1, <2>2, <2>3, <2>4, <2>5 DEF TypeOK, Typed
<1> USE DEF SInv, Typed, TypeOK
<1>2. \A t \in Sessions \ {s} : Same(t)
  BY DEF Same
<1>3. Fine(s)'
  <2> USE DEF InputBridge, Thread, AuthStatus,
             Fine, Unmade, LoginRuns, LoggedIn, Kept, Called, Announced, Woken, Agrees, Swept, NeverUsed
  <2>1. CASE AuthEnds(s)  BY <2>1, SessionAssumption
  <2> QED  BY <2>1
<1> QED  BY <1>1, <1>2, <1>3, OneSession

\* An answer, and the second half of it or of a removal.
LEMMA AnswersStep ==
  ASSUME SInv, NEW s \in Sessions,
         (\E a \in Answers : Answer(s, a)) \/ Ring(s)
  PROVE  SInv'
<1> USE DEF Answer, Ring, Found, Touched, _awaiting_answer,
           in_use, LoopFree, entries, requests, midway
<1>1. Typed'
  <2>1. /\ life' \in [Sessions -> {"none", "building", "made", "refused"}]
        /\ past' \in [Sessions -> SUBSET {"ttl", "input"}]
        /\ cache' \in SUBSET Sessions /\ answered' \in SUBSET Sessions
        /\ ending' \in SUBSET Sessions /\ draining' \in BOOLEAN
    BY DEF SInv, Typed, TypeOK
  <2>2. /\ auth' \in [Sessions -> AuthStatus \ {"pending"}]
        /\ waiting' \in [Sessions -> 0..MaxWaiting]
    BY SessionAssumption DEF SInv, Typed, TypeOK, AuthStatus
  <2>3. store' \in SUBSET Sessions /\ IsFiniteSet(store') /\ Cardinality(store') <= MaxSessions
    BY FewerStay DEF SInv, Typed, TypeOK
  <2>4. bridge' \in [Sessions -> InputBridge]
    <3>1. CASE \E a \in Answers : Answer(s, a)
      <4>1. PICK a \in Answers : bridge' = [bridge EXCEPT ![s].response = a]  BY <3>1
      <4>2. bridge \in [Sessions -> InputBridge]  BY DEF SInv, Typed, TypeOK
      <4>3. [bridge[s] EXCEPT !.response = a] \in InputBridge  BY <4>2, Bridges, Statuses
      <4> QED  BY <4>1, <4>2, <4>3
    <3>2. CASE Ring(s)  BY <3>2, Bridges, Statuses DEF SInv, Typed, TypeOK
    <3> QED  BY <3>1, <3>2
  <2>5. thread' \in [Sessions -> Thread]
    BY DEF SInv, Typed, TypeOK
  <2> QED  BY <2>1, <2>2, <2>3, <2>4, <2>5 DEF TypeOK, Typed
<1> USE DEF SInv, Typed, TypeOK
<1>2. \A t \in Sessions \ {s} : Same(t)
  <2>1. CASE \E a \in Answers : Answer(s, a)  BY <2>1 DEF Same
  <2>2. CASE Ring(s)  BY <2>2 DEF Same
  <2> QED  BY <2>1, <2>2
<1>3. Fine(s)'
  <2> USE DEF InputBridge, Thread, AuthStatus,
             Fine, Unmade, LoginRuns, LoggedIn, Kept, Called, Announced, Woken, Agrees, Swept, NeverUsed
  <2>1. CASE \E a \in Answers : Answer(s, a)  BY <2>1, SessionAssumption
  <2>2. CASE Ring(s)  BY <2>2, SessionAssumption
  <2> QED  BY <2>1, <2>2
<1> QED  BY <1>1, <1>2, <1>3, OneSession

\* A request finds its session expired.
LEMMA ExpiresStep ==
  ASSUME SInv, NEW s \in Sessions,
         FindExpired(s)
  PROVE  SInv'
<1> USE DEF FindExpired, Expired,
           in_use, LoopFree, entries, requests, midway
<1>1. Typed'
  <2>1. /\ life' \in [Sessions -> {"none", "building", "made", "refused"}]
        /\ past' \in [Sessions -> SUBSET {"ttl", "input"}]
        /\ cache' \in SUBSET Sessions /\ answered' \in SUBSET Sessions
        /\ ending' \in SUBSET Sessions /\ draining' \in BOOLEAN
    BY DEF SInv, Typed, TypeOK
  <2>2. /\ auth' \in [Sessions -> AuthStatus \ {"pending"}]
        /\ waiting' \in [Sessions -> 0..MaxWaiting]
    BY SessionAssumption DEF SInv, Typed, TypeOK, AuthStatus
  <2>3. store' \in SUBSET Sessions /\ IsFiniteSet(store') /\ Cardinality(store') <= MaxSessions
    BY FewerStay DEF SInv, Typed, TypeOK
  <2>4. bridge' \in [Sessions -> InputBridge]
    BY DEF SInv, Typed, TypeOK
  <2>5. thread' \in [Sessions -> Thread]
    BY DEF SInv, Typed, TypeOK
  <2> QED  BY <2>1, <2>2, <2>3, <2>4, <2>5 DEF TypeOK, Typed
<1> USE DEF SInv, Typed, TypeOK
<1>2. \A t \in Sessions \ {s} : Same(t)
  BY DEF Same
<1>3. Fine(s)'
  <2> USE DEF InputBridge, Thread, AuthStatus,
             Fine, Unmade, LoginRuns, LoggedIn, Kept, Called, Announced, Woken, Agrees, Swept, NeverUsed
  <2>1. CASE FindExpired(s)  BY <2>1, SessionAssumption
  <2> QED  BY <2>1
<1> QED  BY <1>1, <1>2, <1>3, OneSession

\* The service thread writes the cache or prompts.
LEMMA PromptsStep ==
  ASSUME SInv, NEW s \in Sessions,
         WriteCache(s) \/ request_input(s) \/ Wake(s) \/ InputTimeout(s) \/ GiveUp(s)
  PROVE  SInv'
<1> USE DEF WriteCache, request_input, Wake, InputTimeout, GiveUp, At, Moves,
           in_use, LoopFree, entries, requests, midway
<1>1. Typed'
  <2>1. /\ life' \in [Sessions -> {"none", "building", "made", "refused"}]
        /\ past' \in [Sessions -> SUBSET {"ttl", "input"}]
        /\ cache' \in SUBSET Sessions /\ answered' \in SUBSET Sessions
        /\ ending' \in SUBSET Sessions /\ draining' \in BOOLEAN
    BY DEF SInv, Typed, TypeOK
  <2>2. /\ auth' \in [Sessions -> AuthStatus \ {"pending"}]
        /\ waiting' \in [Sessions -> 0..MaxWaiting]
    BY SessionAssumption DEF SInv, Typed, TypeOK, AuthStatus
  <2>3. store' \in SUBSET Sessions /\ IsFiniteSet(store') /\ Cardinality(store') <= MaxSessions
    BY FewerStay DEF SInv, Typed, TypeOK
  <2>4. bridge' \in [Sessions -> InputBridge]
    <3>1. CASE WriteCache(s)  BY <3>1 DEF SInv, Typed, TypeOK
    <3>2. CASE request_input(s)  BY <3>2, Bridges, Statuses DEF SInv, Typed, TypeOK
    <3>3. CASE Wake(s)  BY <3>3, Bridges, Statuses DEF SInv, Typed, TypeOK
    <3>4. CASE InputTimeout(s)  BY <3>4 DEF SInv, Typed, TypeOK
    <3>5. CASE GiveUp(s)  BY <3>5, Bridges, Statuses DEF SInv, Typed, TypeOK
    <3> QED  BY <3>1, <3>2, <3>3, <3>4, <3>5
  <2>5. thread' \in [Sessions -> Thread]
    <3>1. CASE WriteCache(s)  BY <3>1 DEF SInv, Typed, TypeOK
    <3>2. CASE request_input(s)  BY <3>2, NewOnes, Threads, Statuses DEF SInv, Typed, TypeOK
    <3>3. CASE Wake(s)  BY <3>3, NewOnes, Threads, Statuses DEF SInv, Typed, TypeOK
    <3>4. CASE InputTimeout(s)  BY <3>4, NewOnes, Threads, Statuses DEF SInv, Typed, TypeOK
    <3>5. CASE GiveUp(s)  BY <3>5, NewOnes, Threads, Statuses DEF SInv, Typed, TypeOK
    <3> QED  BY <3>1, <3>2, <3>3, <3>4, <3>5
  <2> QED  BY <2>1, <2>2, <2>3, <2>4, <2>5 DEF TypeOK, Typed
<1> USE DEF SInv, Typed, TypeOK
<1>2. \A t \in Sessions \ {s} : Same(t)
  <2>1. CASE WriteCache(s)  BY <2>1 DEF Same
  <2>2. CASE request_input(s)  BY <2>2 DEF Same
  <2>3. CASE Wake(s)  BY <2>3 DEF Same
  <2>4. CASE InputTimeout(s)  BY <2>4 DEF Same
  <2>5. CASE GiveUp(s)  BY <2>5 DEF Same
  <2> QED  BY <2>1, <2>2, <2>3, <2>4, <2>5
<1>3. Fine(s)'
  <2> USE DEF InputBridge, Thread, AuthStatus,
             Fine, Unmade, LoginRuns, LoggedIn, Kept, Called, Announced, Woken, Agrees, Swept, NeverUsed
  <2>1. CASE WriteCache(s)  BY <2>1, SessionAssumption
  <2>2. CASE request_input(s)  BY <2>2, SessionAssumption
  <2>3. CASE Wake(s)
    <3>1. /\ thread[s].at = "asking" /\ thread[s].for # "nobody" /\ bridge[s].ready
          /\ thread'[s].for = thread[s].for /\ thread'[s].at = "working"
      BY <2>3
    <3>2. UNCHANGED <<life, store, auth, waiting, cache, answered, ending>>  BY <2>3
    <3>3. ~(s \in store /\ thread[s].for = "request")  BY <3>1
    <3>4. CASE bridge[s].cancelled
      <4>1. bridge' = bridge  BY <2>3, <3>4
      <4> QED  BY <3>1, <3>2, <3>3, <4>1
    <3>5. CASE ~bridge[s].cancelled
      <4>1. ~bridge'[s].cancelled /\ bridge'[s].ready /\ bridge'[s].response = NoAnswer
        BY <2>3, <3>1, <3>5
      <4> QED  BY <3>1, <3>2, <3>3, <3>5, <4>1, SessionAssumption
    <3> QED  BY <3>4, <3>5
  <2>4. CASE InputTimeout(s)
    <3>1. thread[s].at = "asking" /\ thread[s].for # "nobody" /\ thread'[s].for = thread[s].for
      BY <2>4
    <3>2. UNCHANGED <<life, store, auth, waiting, bridge, cache, answered, ending>>  BY <2>4
    <3>3. ~(s \in store /\ thread[s].for = "request")  BY <3>1
    <3> QED  BY <3>1, <3>2, <3>3
  <2>5. CASE GiveUp(s)
    <3>1. thread[s].at = "late" /\ thread[s].for # "nobody" /\ thread'[s].for = thread[s].for
      BY <2>5
    <3>2. UNCHANGED <<life, store, auth, waiting, cache, answered, ending>>  BY <2>5
    <3>3. ~(s \in store /\ thread[s].for = "request")  BY <3>1
    <3>4. /\ bridge'[s].status = "failed" /\ bridge'[s].cancelled = bridge[s].cancelled
          /\ bridge'[s].ready = bridge[s].ready /\ bridge'[s].picked = bridge[s].picked
          /\ bridge'[s].response = bridge[s].response
      BY <2>5
    <3> QED  BY <3>1, <3>2, <3>3, <3>4
  <2> QED  BY <2>1, <2>2, <2>3, <2>4, <2>5
<1> QED  BY <1>1, <1>2, <1>3, OneSession

\* The service thread calls the client's CDM.
LEMMA CallsStep ==
  ASSUME SInv, NEW s \in Sessions,
         request_cdm(s) \/ PickedUp(s) \/ CallOver(s) \/ EndCall(s)
  PROVE  SInv'
<1> USE DEF request_cdm, PickedUp, CallOver, EndCall, At, Moves, Working,
           in_use, LoopFree, entries, requests, midway
<1>1. Typed'
  <2>1. /\ life' \in [Sessions -> {"none", "building", "made", "refused"}]
        /\ past' \in [Sessions -> SUBSET {"ttl", "input"}]
        /\ cache' \in SUBSET Sessions /\ answered' \in SUBSET Sessions
        /\ ending' \in SUBSET Sessions /\ draining' \in BOOLEAN
    BY DEF SInv, Typed, TypeOK
  <2>2. /\ auth' \in [Sessions -> AuthStatus \ {"pending"}]
        /\ waiting' \in [Sessions -> 0..MaxWaiting]
    BY SessionAssumption DEF SInv, Typed, TypeOK, AuthStatus
  <2>3. store' \in SUBSET Sessions /\ IsFiniteSet(store') /\ Cardinality(store') <= MaxSessions
    BY FewerStay DEF SInv, Typed, TypeOK
  <2>4. bridge' \in [Sessions -> InputBridge]
    <3>1. CASE request_cdm(s)  BY <3>1, Bridges, Statuses DEF SInv, Typed, TypeOK
    <3>2. CASE PickedUp(s)  BY <3>2 DEF SInv, Typed, TypeOK
    <3>3. CASE CallOver(s)  BY <3>3 DEF SInv, Typed, TypeOK
    <3>4. CASE EndCall(s)
      <4> DEFINE st == IF bridge[s].cancelled THEN bridge[s].status ELSE thread[s].previous
      <4>1. bridge \in [Sessions -> InputBridge] /\ thread \in [Sessions -> Thread]
        BY DEF SInv, Typed, TypeOK
      <4>2. st \in AuthStatus  BY <4>1, Statuses
      <4>3. bridge' = [bridge EXCEPT ![s] = [@ EXCEPT !.response = NoAnswer, !.call = FALSE,
                                                      !.status = st]]
        BY <3>4
      <4> HIDE DEF st
      <4>4. [bridge[s] EXCEPT !.response = NoAnswer, !.call = FALSE, !.status = st] \in InputBridge
        BY <4>1, <4>2, Bridges
      <4> QED  BY <4>1, <4>3, <4>4
    <3> QED  BY <3>1, <3>2, <3>3, <3>4
  <2>5. thread' \in [Sessions -> Thread]
    <3>1. CASE request_cdm(s)  BY <3>1, NewOnes, Threads, Statuses DEF SInv, Typed, TypeOK
    <3>2. CASE PickedUp(s)  BY <3>2, NewOnes, Threads, Statuses DEF SInv, Typed, TypeOK
    <3>3. CASE CallOver(s)  BY <3>3, NewOnes, Threads, Statuses DEF SInv, Typed, TypeOK
    <3>4. CASE EndCall(s)  BY <3>4, NewOnes, Threads, Statuses DEF SInv, Typed, TypeOK
    <3> QED  BY <3>1, <3>2, <3>3, <3>4
  <2> QED  BY <2>1, <2>2, <2>3, <2>4, <2>5 DEF TypeOK, Typed
<1> USE DEF SInv, Typed, TypeOK
<1>2. \A t \in Sessions \ {s} : Same(t)
  <2>1. CASE request_cdm(s)  BY <2>1 DEF Same
  <2>2. CASE PickedUp(s)  BY <2>2 DEF Same
  <2>3. CASE CallOver(s)  BY <2>3 DEF Same
  <2>4. CASE EndCall(s)  BY <2>4 DEF Same
  <2> QED  BY <2>1, <2>2, <2>3, <2>4
<1>3. Fine(s)'
  <2> USE DEF InputBridge, Thread, AuthStatus,
             Fine, Unmade, LoginRuns, LoggedIn, Kept, Called, Announced, Woken, Agrees, Swept, NeverUsed
  <2>1. CASE request_cdm(s)  BY <2>1, SessionAssumption
  <2>2. CASE PickedUp(s)  BY <2>2, SessionAssumption
  <2>3. CASE CallOver(s)  BY <2>3, SessionAssumption
  <2>4. CASE EndCall(s)  BY <2>4, SessionAssumption
  <2> QED  BY <2>1, <2>2, <2>3, <2>4
<1> QED  BY <1>1, <1>2, <1>3, OneSession

\* A session is deleted.
LEMMA DeleteStep == ASSUME SInv, NEW s \in Sessions, Delete(s) PROVE SInv'
<1> USE DEF SInv, Typed, TypeOK
<1>1. /\ LoopFree /\ s \in store /\ store' = store \ {s} /\ Remove({s})
      /\ UNCHANGED <<life, past, requests, thread, cache, answered, draining>>
  BY DEF Delete, Found
<1>2. /\ bridge' \in [Sessions -> InputBridge] /\ ending' = {s}
      /\ bridge'[s] = Cancelled(bridge[s])
      /\ \A t \in Sessions \ {s} : bridge'[t] = bridge[t]
  BY <1>1, RemoveBridges
<1>3. IsFiniteSet(store') /\ Cardinality(store') <= MaxSessions  BY <1>1, FewerStay
<1>4. Typed'  BY <1>1, <1>2, <1>3 DEF requests
<1>5. Fine(s)'  BY <1>1, <1>2, Removed DEF requests
<1>6. \A t \in Sessions \ {s} : Same(t)  BY <1>1, <1>2 DEF Same, requests, LoopFree
<1> QED  BY <1>4, <1>5, <1>6, OneSession

\* The sweep removes sessions.
LEMMA SweepStep == ASSUME SInv, Sweep PROVE SInv'
<1> USE DEF SInv, Typed, TypeOK
<1>1. PICK gone \in SUBSET Sessions :
        /\ gone = {s \in store : Overdue(s)}
        /\ LoopFree /\ store' = store \ gone /\ Remove(gone)
        /\ UNCHANGED <<life, past, requests, thread, cache, answered, draining>>
  BY DEF Sweep
<1>2. /\ bridge' \in [Sessions -> InputBridge] /\ ending' = gone
      /\ \A t \in gone : bridge'[t] = Cancelled(bridge[t])
      /\ \A t \in Sessions \ gone : bridge'[t] = bridge[t]
  BY <1>1, RemoveBridges
<1>3. IsFiniteSet(store') /\ Cardinality(store') <= MaxSessions  BY <1>1, FewerStay
<1>4. Typed'  BY <1>1, <1>2, <1>3 DEF requests
<1>5. ASSUME NEW t \in Sessions PROVE Fine(t)'
  <2>1. CASE t \in gone  BY <2>1, <1>1, <1>2, Removed DEF requests
  <2>2. CASE t \notin gone
    <3>1. Same(t)  BY <2>2, <1>1, <1>2 DEF Same, requests, LoopFree
    <3> QED  BY <3>1, Elsewhere
  <2> QED  BY <2>1, <2>2
<1> QED  BY <1>4, <1>5

\* A session is made, and at the limit another one goes for it.
LEMMA CreateStep == ASSUME SInv, NEW s \in Sessions, Create(s) PROVE SInv'
<1> USE DEF SInv, Typed, TypeOK
<1>1. PICK gone \in Victims :
        /\ LoopFree /\ life[s] = "building" /\ store' = (store \ gone) \cup {s} /\ Remove(gone)
        /\ life' = [life EXCEPT ![s] = "made"]
        /\ past' = [past EXCEPT ![s] = {}]
        /\ thread' = [thread EXCEPT ![s] = Working("login")]
        /\ cache' \in {cache, cache \cup {s}}
        /\ UNCHANGED <<requests, answered, draining>>
  BY DEF Create
<1>2. s \notin store  BY <1>1 DEF Fine, Unmade
<1>3. /\ gone \subseteq store /\ IsFiniteSet(store') /\ Cardinality(store') <= MaxSessions
  BY <1>1, <1>2, RoomForOne
<1>4. /\ bridge' \in [Sessions -> InputBridge] /\ ending' = gone
      /\ \A t \in gone : bridge'[t] = Cancelled(bridge[t])
      /\ \A t \in Sessions \ gone : bridge'[t] = bridge[t]
  BY <1>1, <1>3, RemoveBridges
<1>5. Typed'
  <2>1. thread' \in [Sessions -> Thread]  BY <1>1, NewOnes
  <2>2. life' \in [Sessions -> {"none", "building", "made", "refused"}]
        /\ past' \in [Sessions -> SUBSET {"ttl", "input"}]
        /\ cache' \in SUBSET Sessions /\ ending' \in SUBSET Sessions /\ store' \in SUBSET Sessions
    BY <1>1, <1>3, <1>4
  <2> QED  BY <2>1, <2>2, <1>1, <1>3, <1>4 DEF requests
<1>6. Fine(s)'
  <2>1. bridge'[s] = bridge[s] /\ s \in store' /\ s \notin ending'
    BY <1>1, <1>2, <1>3, <1>4
  <2>2. thread'[s].for = "login" /\ life'[s] = "made" /\ auth'[s] = auth[s]
        /\ waiting'[s] = waiting[s] /\ answered' = answered
    BY <1>1 DEF Working, requests
  <2>3. Fine(s) /\ s \notin ending /\ life[s] # "made"  BY <1>1 DEF LoopFree
  <2> QED
    BY <2>1, <2>2, <2>3
    DEF Fine, Unmade, LoginRuns, LoggedIn, Kept, Called, Announced, Woken, Agrees, Swept, NeverUsed
<1>7. ASSUME NEW t \in Sessions, t # s PROVE Fine(t)'
  <2>1. CASE t \in gone
    <3>1. /\ t \in store /\ t \notin store' /\ t \in ending'
          /\ bridge'[t] = Cancelled(bridge[t]) /\ bridge[t] \in InputBridge
      BY <2>1, <1>1, <1>3, <1>4, <1>7
    <3>2. /\ life'[t] = life[t] /\ thread'[t] = thread[t] /\ auth'[t] = auth[t]
          /\ waiting'[t] = waiting[t] /\ answered' = answered
      BY <1>1, <1>7 DEF requests
    <3> QED  BY <3>1, <3>2, Removed
  <2>2. CASE t \notin gone
    <3>1. Same(t)  BY <2>2, <1>1, <1>4, <1>7 DEF Same, requests, LoopFree
    <3> QED  BY <3>1, Elsewhere
  <2> QED  BY <2>1, <2>2
<1> QED  BY <1>5, <1>6, <1>7

\* The drain flag is no session's business.
LEMMA DrainStep == ASSUME SInv, StartDrain \/ StopDrain \/ UNCHANGED vars PROVE SInv'
<1>1. /\ UNCHANGED <<entries, requests, bridge, thread, cache, midway>>
      /\ draining' \in BOOLEAN
  BY DEF StartDrain, StopDrain, vars, SInv, Typed, TypeOK
<1>2. Typed'  BY <1>1 DEF SInv, Typed, TypeOK, entries, requests, midway
<1>3. \A t \in Sessions : Same(t)  BY <1>1 DEF Same, entries, requests, midway
<1> QED  BY <1>2, <1>3, Elsewhere DEF SInv

-----------------------------------------------------------------------------
\* The invariant holds for any number of sessions, places, requests and answers.
THEOREM Invariance == Spec => []SInv
<1>1. Init => SInv  BY SInvInit
<1>2. SInv /\ [Next]_vars => SInv'
  <2> SUFFICES ASSUME SInv, [Next]_vars PROVE SInv'  OBVIOUS
  <2>1. CASE UNCHANGED vars \/ StartDrain \/ StopDrain  BY <2>1, DrainStep
  <2>2. CASE Sweep  BY <2>2, SweepStep
  <2>3. ASSUME NEW s \in Sessions, Handlers(s) PROVE SInv'
    BY <2>3, BuildingStep, LooksStep, WorksStep, AuthEndsStep, AnswersStep, ExpiresStep,
       DeleteStep, CreateStep DEF Handlers
  <2>4. ASSUME NEW s \in Sessions, Service(s) PROVE SInv'
    BY <2>4, PromptsStep, CallsStep DEF Service
  <2> QED  BY <2>1, <2>2, <2>3, <2>4 DEF Next
<1> QED  BY <1>1, <1>2, PTL DEF Spec

\* Every variable keeps its type, and the store its limit (SessionStore.create).
THEOREM TypeCorrect == Spec => []TypeOK
<1>1. SInv => TypeOK  BY DEF SInv, Typed
<1> QED  BY <1>1, Invariance, PTL

\* No service thread goes on waiting at a bridge that the server has cancelled.
THEOREM CancellationWakes == Spec => []CancelWakes
<1>1. SInv => CancelWakes  BY DEF SInv, Fine, Woken, CancelWakes
<1> QED  BY <1>1, Invariance, PTL

\* Between logins and requests a bridge shows the outcome of the login.
THEOREM BridgeAgrees == Spec => []StatusAgrees
<1>1. SInv => StatusAgrees  BY DEF SInv, Typed, TypeOK, Fine, Agrees, StatusAgrees
<1> QED  BY <1>1, Invariance, PTL

\* A session removed before its login was over, or whose login failed, leaves no
\* cache directory behind, also when the login of a removed session succeeds.
THEOREM NothingLeft == Spec => []UnusedLeavesNothing
<1>1. SInv => UnusedLeavesNothing  BY DEF SInv, Fine, Swept, UnusedLeavesNothing
<1> QED  BY <1>1, Invariance, PTL

\* The first answer that a bridge accepts is not replaced by another.
THEOREM FirstAnswerStands == Spec => AnswerStands
<1> DEFINE Stands == \A s \in Sessions : bridge[s].response \in Answers =>
                       bridge'[s].response \in {bridge[s].response, NoAnswer}
<1>1. SInv /\ [Next]_vars => [Stands]_vars
  <2> SUFFICES ASSUME SInv, Next PROVE Stands  BY DEF vars
  <2> USE DEF SInv, Typed, TypeOK, InputBridge
  <2>1. CASE StartDrain \/ StopDrain  BY <2>1 DEF StartDrain, StopDrain
  <2>2. CASE Sweep  BY <2>2 DEF Sweep, Remove, Cancelled
  <2>3. ASSUME NEW s \in Sessions, Handlers(s) PROVE Stands
    <3>1. CASE Admit(s) \/ BuildFails(s) \/ FindExpired(s) \/ Look(s) \/ Work(s) \/ Acquire(s)
               \/ WorkEnds(s) \/ (\E limit \in {"ttl", "input"} : Age(s, limit))
      BY <3>1 DEF Admit, BuildFails, FindExpired, Look, Work, Acquire, WorkEnds, Age
    <3>2. CASE Create(s)
      <4>1. PICK gone : Remove(gone)  BY <3>2 DEF Create
      <4> QED  BY <4>1 DEF Remove, Cancelled
    <3>3. CASE AuthEnds(s)  BY <3>3 DEF AuthEnds
    <3>4. CASE Poll(s)  BY <3>4 DEF Poll
    <3>5. CASE \E a \in Answers : Answer(s, a)
      BY <3>5 DEF Answer, Found, LoopFree, _awaiting_answer, Fine, Announced
    <3>6. CASE Delete(s)  BY <3>6 DEF Delete, Remove, Cancelled
    <3>7. CASE Ring(s)  BY <3>7 DEF Ring
    <3> QED  BY <2>3, <3>1, <3>2, <3>3, <3>4, <3>5, <3>6, <3>7 DEF Handlers
  <2>4. ASSUME NEW s \in Sessions, Service(s) PROVE Stands
    <3>1. CASE WriteCache(s) \/ InputTimeout(s) \/ PickedUp(s) \/ CallOver(s)
      BY <3>1 DEF WriteCache, InputTimeout, PickedUp, CallOver
    <3>2. CASE request_input(s)  BY <3>2 DEF request_input
    <3>3. CASE Wake(s)  BY <3>3 DEF Wake
    <3>4. CASE GiveUp(s)  BY <3>4 DEF GiveUp
    <3>5. CASE request_cdm(s)  BY <3>5 DEF request_cdm
    <3>6. CASE EndCall(s)  BY <3>6 DEF EndCall
    <3> QED  BY <2>4, <3>1, <3>2, <3>3, <3>4, <3>5, <3>6 DEF Service
  <2> QED  BY <2>1, <2>2, <2>3, <2>4 DEF Next
<1> QED  BY <1>1, Invariance, PTL DEF Spec, AnswerStands

\* Neither the sweep nor a request that comes too late removes a session at work.
THEOREM WorkIsSpared == Spec => ExpirySparesWork
<1> DEFINE Spares == Sweep \/ (\E s \in Sessions : FindExpired(s))
                       => \A s \in store \ store' :
                            ~in_use(s) /\ (thread[s].for = "login" => "input" \in past[s])
<1>1. SInv /\ [Next]_vars => [Spares]_vars
  <2> SUFFICES ASSUME SInv, NEW s \in store \ store', Sweep \/ (\E r \in Sessions : FindExpired(r))
               PROVE  ~in_use(s) /\ (thread[s].for = "login" => "input" \in past[s])
    OBVIOUS
  <2>1. s \in Sessions /\ (thread[s].for = "login" => auth[s] = "authenticating")
    BY DEF SInv, Typed, TypeOK, Fine, LoginRuns, Unmade
  <2>2. CASE Sweep  BY <2>1, <2>2 DEF Sweep, Overdue
  <2>3. CASE \E r \in Sessions : FindExpired(r)  BY <2>1, <2>3 DEF FindExpired, Expired
  <2> QED  BY <2>2, <2>3
<1> QED  BY <1>1, Invariance, PTL DEF Spec, ExpirySparesWork
=============================================================================
