---------------------------- MODULE RemoteSession ----------------------------
(***************************************************************************)
(* Remote sessions of the REST server: the store                           *)
(* (unshackle/core/api/session_store.py), the handlers that work on its    *)
(* entries, and the bridge over which a service thread asks the remote     *)
(* client (unshackle/core/api/input_bridge.py).                            *)
(*                                                                         *)
(* Handlers, sweep and run_auth share one event loop: a loop action is the *)
(* code between two awaits.  Service code runs in threads, one per session *)
(* at a time: the login first, then the holder of the session's lock.  A   *)
(* thread may step while the loop is between a bridge's lock and the two   *)
(* events it sets after it: Ring is the second half of such an action.     *)
(***************************************************************************)
EXTENDS Naturals, FiniteSets

CONSTANTS
  Sessions,     \* session ids, one per call of session_create_handler
  Answers,      \* what clients may answer
  NoAnswer,     \* None
  MaxSessions,  \* serve.max_sessions
  MaxWaiting    \* bound: requests waiting for a session's lock

ASSUME SessionAssumption ==
  /\ MaxSessions \in Nat \ {0} /\ MaxWaiting \in Nat
  /\ NoAnswer \notin Answers

VARIABLES
  life,      \* "none", "building" in session_create_handler, "made", "refused"
  store,     \* keys of _sessions
  past,      \* "ttl", "input": what last_accessed lies further back than
  auth,      \* auth_status
  bridge,    \* the session's InputBridge
  thread,    \* the service thread: for whom it runs and where it is
  waiting,   \* requests that wait for the session's lock
  cache,     \* sessions whose cache directory exists
  answered,  \* the loop has stored an answer and not set the events yet
  ending,    \* the loop has removed the session and not set the events yet
  draining   \* the drain flag

entries  == <<life, store, past>>
requests == <<auth, waiting>>
midway   == <<answered, ending>>
vars == <<entries, requests, bridge, thread, cache, midway, draining>>

-----------------------------------------------------------------------------
AuthStatus == {"authenticating", "pending", "authenticated", "failed"}

InputBridge == [status : AuthStatus, cancelled : BOOLEAN, response : Answers \cup {NoAnswer},
                call : BOOLEAN, ready : BOOLEAN, picked : BOOLEAN]

\* "asking": in request_input; "calling", "fetched": in request_cdm, before and
\* after the pickup; "late", "over": a wait has ended, the lock is not taken yet.
Thread == [for : {"nobody", "login", "request"}, previous : AuthStatus,
           at : {"working", "asking", "late", "calling", "fetched", "over"}]

NewBridge == [status |-> "authenticating", cancelled |-> FALSE, response |-> NoAnswer,
              call |-> FALSE, ready |-> FALSE, picked |-> FALSE]
Working(who) == [for |-> who, at |-> "working", previous |-> "authenticating"]

TypeOK ==
  /\ life \in [Sessions -> {"none", "building", "made", "refused"}]
  /\ store \in SUBSET Sessions /\ Cardinality(store) <= MaxSessions
  /\ past \in [Sessions -> SUBSET {"ttl", "input"}]
  /\ auth \in [Sessions -> AuthStatus \ {"pending"}]
  /\ bridge \in [Sessions -> InputBridge]
  /\ thread \in [Sessions -> Thread]
  /\ waiting \in [Sessions -> 0..MaxWaiting]
  /\ cache \in SUBSET Sessions
  /\ answered \in SUBSET Sessions /\ ending \in SUBSET Sessions
  /\ draining \in BOOLEAN

Init ==
  /\ life = [s \in Sessions |-> "none"]
  /\ store = {}
  /\ past = [s \in Sessions |-> {}]
  /\ auth = [s \in Sessions |-> "authenticating"]
  /\ bridge = [s \in Sessions |-> NewBridge]
  /\ thread = [s \in Sessions |-> Working("nobody")]
  /\ waiting = [s \in Sessions |-> 0]
  /\ cache = {} /\ answered = {} /\ ending = {}
  /\ draining = FALSE

-----------------------------------------------------------------------------
(* Pieces the handlers share.                                              *)

LoopFree  == answered = {} /\ ending = {}
in_use(s) == thread[s].for = "request"
Cancelled(b) == [b EXCEPT !.cancelled = TRUE, !.status = "failed"]

\* The entries go and their bridges are cancelled.  Ring wakes their threads.
Remove(gone) ==
  /\ ending' = gone
  /\ bridge' = [s \in Sessions |-> IF s \in gone THEN Cancelled(bridge[s]) ELSE bridge[s]]

\* get() expires a session whose login is over, and touches any other.
Expired(s) == ~in_use(s) /\ auth[s] # "authenticating" /\ "ttl" \in past[s]
Found(s)   == LoopFree /\ s \in store /\ ~Expired(s)
Touched(s) == past' = [past EXCEPT ![s] = {}]

\* What cleanup_expired takes.
Overdue(s) ==
  ~in_use(s) /\ (IF auth[s] = "authenticating" THEN "input" ELSE "ttl") \in past[s]

-----------------------------------------------------------------------------
(* Creating a session.                                                     *)

Admit(s) ==
  /\ LoopFree /\ life[s] = "none" /\ ~draining
  /\ life' = [life EXCEPT ![s] = "building"]
  /\ UNCHANGED <<store, past, requests, bridge, thread, cache, midway, draining>>

\* The proxy, the service's constructor or its configuration raises.
BuildFails(s) ==
  /\ LoopFree /\ life[s] = "building"
  /\ life' = [life EXCEPT ![s] = "refused"]
  /\ UNCHANGED <<store, past, requests, bridge, thread, cache, midway, draining>>

\* Mutant: one in use never goes.
VictimsSpareWorkers ==
  IF Cardinality(store) < MaxSessions THEN {{}}
  ELSE LET spare == {s \in store : ~in_use(s)}
       IN  IF spare # {} THEN {{v} : v \in spare} ELSE {{}}

\* At the limit the least recently used entry goes, one in use last.  (Any
\* entry that is not in use stands for the least recent of them.)
Victims ==
  IF Cardinality(store) < MaxSessions THEN {{}}
  ELSE LET spare == {s \in store : ~in_use(s)}
       IN  {{v} : v \in IF spare # {} THEN spare ELSE store}

\* store.create() and the rest of the handler.  The client may have sent a cache.
Create(s) ==
  /\ LoopFree /\ life[s] = "building"
  /\ \E gone \in Victims : Remove(gone) /\ store' = (store \ gone) \cup {s}
  /\ life' = [life EXCEPT ![s] = "made"]
  /\ past' = [past EXCEPT ![s] = {}]
  /\ thread' = [thread EXCEPT ![s] = Working("login")]
  /\ cache' \in {cache, cache \cup {s}}
  /\ UNCHANGED <<requests, answered, draining>>

\* Mutant: only a login that fails looks at the store.
AuthEndsSweptIfFailed(s) ==
  /\ LoopFree /\ thread[s].for = "login" /\ thread[s].at = "working"
  /\ \E outcome \in {"authenticated", "failed"} :
       /\ auth' = [auth EXCEPT ![s] = outcome]
       /\ bridge' = [bridge EXCEPT ![s].status = outcome]
       /\ cache' = IF s \in store \/ outcome = "authenticated" THEN cache ELSE cache \ {s}
  /\ thread' = [thread EXCEPT ![s] = Working("nobody")]
  /\ UNCHANGED <<entries, waiting, midway, draining>>

\* run_auth goes on when the login's thread is over.
AuthEnds(s) ==
  /\ LoopFree /\ thread[s].for = "login" /\ thread[s].at = "working"
  /\ \E outcome \in {"authenticated", "failed"} :
       /\ auth' = [auth EXCEPT ![s] = outcome]
       /\ bridge' = [bridge EXCEPT ![s].status = outcome]
  /\ thread' = [thread EXCEPT ![s] = Working("nobody")]
  /\ cache' = IF s \in store THEN cache ELSE cache \ {s}
  /\ UNCHANGED <<entries, waiting, midway, draining>>

-----------------------------------------------------------------------------
(* Requests to a session.                                                  *)

\* Any request finds the session expired.  Its bridge is not cancelled.
FindExpired(s) ==
  /\ LoopFree /\ s \in store /\ Expired(s)
  /\ store' = store \ {s}
  /\ cache' = cache \ {s}
  /\ UNCHANGED <<life, past, requests, bridge, thread, midway, draining>>

\* One that only looks: info, logs, segments, or one that comes too early.
Look(s) ==
  /\ Found(s) /\ Touched(s)
  /\ UNCHANGED <<life, store, requests, bridge, thread, cache, midway, draining>>

\* Titles, tracks, licences and the like take the lock and run the service.
Work(s) ==
  /\ Found(s) /\ Touched(s)
  /\ auth[s] = "authenticated"
  /\ IF in_use(s) \/ waiting[s] > 0
     THEN /\ waiting[s] < MaxWaiting
          /\ waiting' = [waiting EXCEPT ![s] = @ + 1]
          /\ UNCHANGED thread
     ELSE /\ thread' = [thread EXCEPT ![s] = Working("request")]
          /\ UNCHANGED waiting
  /\ UNCHANGED <<life, store, auth, bridge, cache, midway, draining>>

\* The lock is free again; the next in line may find itself in a removed session.
Acquire(s) ==
  /\ LoopFree /\ ~in_use(s) /\ waiting[s] > 0
  /\ thread' = [thread EXCEPT ![s] = Working("request")]
  /\ waiting' = [waiting EXCEPT ![s] = @ - 1]
  /\ UNCHANGED <<entries, auth, bridge, cache, midway, draining>>

\* Titles and tracks touch the session when they end, licences do not.
WorkEnds(s) ==
  /\ LoopFree /\ in_use(s) /\ thread[s].at = "working"
  /\ thread' = [thread EXCEPT ![s] = Working("nobody")]
  /\ Touched(s) \/ UNCHANGED past
  /\ UNCHANGED <<life, store, requests, bridge, cache, midway, draining>>

_awaiting_answer(s) == bridge[s].status = "pending" /\ ~bridge[s].ready

\* GET prompt fetches a CDM call that waits.
Poll(s) ==
  /\ Found(s) /\ Touched(s)
  /\ bridge' = IF _awaiting_answer(s) /\ bridge[s].call
               THEN [bridge EXCEPT ![s].picked = TRUE] ELSE bridge
  /\ UNCHANGED <<life, store, requests, thread, cache, midway, draining>>

\* Mutant: an answered call is still pending.
AnswerAgain(s, a) ==
  /\ Found(s) /\ Touched(s)
  /\ bridge[s].status = "pending"
  /\ bridge' = [bridge EXCEPT ![s].response = a]
  /\ answered' = {s}
  /\ UNCHANGED <<life, store, requests, thread, cache, ending, draining>>

\* POST prompt.
Answer(s, a) ==
  /\ Found(s) /\ Touched(s)
  /\ _awaiting_answer(s)
  /\ bridge' = [bridge EXCEPT ![s].response = a]
  /\ answered' = {s}
  /\ UNCHANGED <<life, store, requests, thread, cache, ending, draining>>

Delete(s) ==
  /\ Found(s)
  /\ store' = store \ {s}
  /\ Remove({s})
  /\ UNCHANGED <<life, past, requests, thread, cache, answered, draining>>

\* Mutant: a session is swept by its age alone.
SweepWorkers ==
  /\ LoopFree
  /\ LET gone == {s \in store : (IF auth[s] = "authenticating" THEN "input" ELSE "ttl") \in past[s]}
     IN  gone # {} /\ store' = store \ gone /\ Remove(gone)
  /\ UNCHANGED <<life, past, requests, thread, cache, answered, draining>>

Sweep ==
  /\ LoopFree
  /\ LET gone == {s \in store : Overdue(s)}
     IN  gone # {} /\ store' = store \ gone /\ Remove(gone)
  /\ UNCHANGED <<life, past, requests, thread, cache, answered, draining>>

\* The loop sets the bridge's two events, and removes a removed session's cache.
Ring(s) ==
  /\ s \in answered \cup ending
  /\ bridge' = [bridge EXCEPT ![s].ready = TRUE, ![s].picked = TRUE]
  /\ answered' = answered \ {s} /\ ending' = ending \ {s}
  /\ cache' = IF s \in ending THEN cache \ {s} ELSE cache
  /\ UNCHANGED <<entries, requests, thread, draining>>

\* Time passes while the loop has nothing to do.
Age(s, limit) ==
  /\ LoopFree /\ s \in store /\ limit \notin past[s]
  /\ \A r \in Sessions : waiting[r] > 0 => in_use(r)
  /\ past' = [past EXCEPT ![s] = @ \cup {limit}]
  /\ UNCHANGED <<life, store, requests, bridge, thread, cache, midway, draining>>

StartDrain ==
  /\ LoopFree /\ ~draining
  /\ draining' = TRUE
  /\ UNCHANGED <<entries, requests, bridge, thread, cache, midway>>

StopDrain ==
  /\ LoopFree /\ draining
  /\ draining' = FALSE
  /\ UNCHANGED <<entries, requests, bridge, thread, cache, midway>>

-----------------------------------------------------------------------------
(* The service thread.                                                     *)

At(s, where)    == thread[s].for # "nobody" /\ thread[s].at = where
Moves(s, where) == thread' = [thread EXCEPT ![s].at = where]

WriteCache(s) ==
  /\ At(s, "working") /\ s \notin cache
  /\ cache' = cache \cup {s}
  /\ UNCHANGED <<entries, requests, bridge, thread, midway, draining>>

\* Mutant: a cancelled bridge still asks.
request_input_unchecked(s) ==
  /\ At(s, "working") /\ Moves(s, "asking")
  /\ bridge[s].status # "authenticated"
  /\ bridge' = [bridge EXCEPT ![s].status = "pending", ![s].response = NoAnswer, ![s].ready = FALSE]
  /\ UNCHANGED <<entries, requests, cache, midway, draining>>

\* request_input() of a cancelled bridge, or after the login, raises at once.
request_input(s) ==
  /\ At(s, "working") /\ Moves(s, "asking")
  /\ ~bridge[s].cancelled /\ bridge[s].status # "authenticated"
  /\ bridge' = [bridge EXCEPT ![s].status = "pending", ![s].response = NoAnswer, ![s].ready = FALSE]
  /\ UNCHANGED <<entries, requests, cache, midway, draining>>

\* Whether it returns the response or raises, the service code goes on.
Wake(s) ==
  /\ At(s, "asking") /\ bridge[s].ready /\ Moves(s, "working")
  /\ bridge' = IF bridge[s].cancelled THEN bridge
               ELSE [bridge EXCEPT ![s].response = NoAnswer, ![s].status = "authenticating"]
  /\ UNCHANGED <<entries, requests, cache, midway, draining>>

InputTimeout(s) ==
  /\ At(s, "asking") /\ ~bridge[s].ready /\ Moves(s, "late")
  /\ UNCHANGED <<entries, requests, bridge, cache, midway, draining>>

GiveUp(s) ==
  /\ At(s, "late") /\ Moves(s, "working")
  /\ bridge' = [bridge EXCEPT ![s].status = "failed"]
  /\ UNCHANGED <<entries, requests, cache, midway, draining>>

request_cdm(s) ==
  /\ At(s, "working") /\ ~bridge[s].cancelled
  /\ thread' = [thread EXCEPT ![s].at = "calling", ![s].previous = bridge[s].status]
  /\ bridge' = [bridge EXCEPT ![s].status = "pending", ![s].call = TRUE, ![s].response = NoAnswer,
                              ![s].ready = FALSE, ![s].picked = FALSE]
  /\ UNCHANGED <<entries, requests, cache, midway, draining>>

PickedUp(s) ==
  /\ At(s, "calling") /\ bridge[s].picked /\ Moves(s, "fetched")
  /\ UNCHANGED <<entries, requests, bridge, cache, midway, draining>>

\* The answer has come, or a wait has taken too long.
CallOver(s) ==
  /\ \/ At(s, "calling") /\ ~bridge[s].picked
     \/ At(s, "fetched")
  /\ Moves(s, "over")
  /\ UNCHANGED <<entries, requests, bridge, cache, midway, draining>>

\* Mutant: the status is that of a login.
EndCallAuthenticating(s) ==
  /\ At(s, "over") /\ thread' = [thread EXCEPT ![s] = Working(@.for)]
  /\ bridge' = [bridge EXCEPT ![s].response = NoAnswer, ![s].call = FALSE,
                              ![s].status = IF bridge[s].cancelled THEN @ ELSE "authenticating"]
  /\ UNCHANGED <<entries, requests, cache, midway, draining>>

EndCall(s) ==
  /\ At(s, "over") /\ thread' = [thread EXCEPT ![s] = Working(@.for)]
  /\ bridge' = [bridge EXCEPT ![s].response = NoAnswer, ![s].call = FALSE,
                              ![s].status = IF bridge[s].cancelled THEN @ ELSE thread[s].previous]
  /\ UNCHANGED <<entries, requests, cache, midway, draining>>

-----------------------------------------------------------------------------
Handlers(s) ==
  \/ Admit(s) \/ BuildFails(s) \/ Create(s) \/ AuthEnds(s)
  \/ FindExpired(s) \/ Look(s) \/ Work(s) \/ Acquire(s) \/ WorkEnds(s)
  \/ Poll(s) \/ (\E a \in Answers : Answer(s, a)) \/ Delete(s) \/ Ring(s)
  \/ (\E limit \in {"ttl", "input"} : Age(s, limit))

Service(s) ==
  \/ WriteCache(s) \/ request_input(s) \/ Wake(s) \/ InputTimeout(s) \/ GiveUp(s)
  \/ request_cdm(s) \/ PickedUp(s) \/ CallOver(s) \/ EndCall(s)

Next ==
  \/ \E s \in Sessions : Handlers(s) \/ Service(s)
  \/ Sweep \/ StartDrain \/ StopDrain

Spec == Init /\ [][Next]_vars

-----------------------------------------------------------------------------
(* What sessions promise.                                                  *)

\* "An answered call stops being pending at once": the first answer a bridge
\* accepts is the one the service gets, whoever else answers.
AnswerStands ==
  [][\A s \in Sessions : bridge[s].response \in Answers =>
       bridge'[s].response \in {bridge[s].response, NoAnswer}]_vars

\* "Cancel the bridge, unblocking any waiting auth thread", also one that is
\* about to wait: once the loop is done with a cancellation, no wait blocks.
CancelWakes ==
  \A s \in Sessions : bridge[s].cancelled /\ s \notin ending => bridge[s].ready /\ bridge[s].picked

\* While no service code runs the bridge shows what the login came to and waits
\* for no answer, whatever calls were answered, timed out or cancelled on the
\* way: a CDM call "leaves the auth status as it was".
StatusAgrees ==
  \A s \in store : thread[s].for = "nobody" => bridge[s].status = auth[s]

\* "A remote session does not expire while a request works on it", nor a login
\* while the user has time to answer it, whatever the session's TTL is.
ExpirySparesWork ==
  [][Sweep \/ (\E s \in Sessions : FindExpired(s))
       => \A s \in store \ store' :
            ~in_use(s) /\ (thread[s].for = "login" => "input" \in past[s])]_vars

\* No request was ever let in: the login is not over, it failed, or it succeeded
\* after the session was removed.  (Only the end of a login makes the status of a
\* cancelled bridge "authenticated".)
NeverUsed(s) ==
  auth[s] = "authenticated" => bridge[s].cancelled /\ bridge[s].status = "authenticated"

\* A session that is removed before its login is over, however the login then
\* ends, or whose login failed, leaves no cache directory behind, though its
\* thread may write one late: the session gone, the end of the login sweeps.
UnusedLeavesNothing ==
  \A s \in Sessions \ store :
    life[s] = "made" /\ NeverUsed(s) /\ thread[s].for = "nobody" /\ s \notin ending
      => s \notin cache

=============================================================================
