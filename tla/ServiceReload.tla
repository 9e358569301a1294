--------------------------- MODULE ServiceReload ---------------------------
(***************************************************************************)
(* The hot reload of the services of a running server: a refresh pulls the *)
(* clone of a service repository and imports what changed; a service with  *)
(* unfinished jobs or live sessions is staged instead, and swapped once    *)
(* they end (unshackle/core/services.py, core/api/download_manager.py,     *)
(* commands/serve.py).                                                     *)
(*                                                                         *)
(* Three parties reload: the periodic loop, the task that the end of a job *)
(* or session starts, and an administrator's POST.  Each reads the busy    *)
(* services on the event loop and hands them to a thread, which works on   *)
(* the clone and on the tables of services while the event loop goes on.   *)
(*                                                                         *)
(* One repository, whose clone is there and unedited.  No day passes       *)
(* without a fetch, so discovery itself never pulls.  A thread reads HEAD  *)
(* as it begins its pull, an import is one step, and so is the bookkeeping *)
(* of a reload.                                                            *)
(***************************************************************************)
EXTENDS Naturals, Sequences

CONSTANTS
  Tags,        \* the services of the repository
  Histories,   \* the upstream histories to consider: what each commit does to each tag
  MaxUsers,    \* a bound on the unfinished jobs and sessions of a service
  None

Parties == {"loop", "task", "post"}
Change  == {"same", "works", "breaks", "goes"}

ASSUME ReloadAssumption ==
  /\ Histories \subseteq Seq([Tags -> Change]) /\ MaxUsers \in Nat \ {0} /\ None \notin Parties

VARIABLES
  history,   \* what upstream will come to, commit by commit
  upstream,  \* how many of its commits upstream has
  tree,      \* how many of them the clone has
  loaded,    \* the commit whose code of a tag runs
  stamp,     \* LOADED_COMMITS
  pending,   \* PENDING
  failed,    \* the tags named in LOAD_ERRORS
  users,     \* unfinished jobs and live sessions per tag
  lock,      \* who holds RELOAD_LOCK
  party,     \* where each party is
  crossed,   \* tags whose code a pull replaced between their import and its bookkeeping (observed)
  missed     \* staged tags that an end, or a POST, left without a reload to come (observed)

repo   == <<history, upstream, tree>>
tables == <<loaded, stamp, pending, failed>>
vars   == <<repo, tables, users, lock, party, crossed, missed>>

\* pulls: it refreshes, and does not only apply.  busy: the services that were
\* busy when it looked.  old: the commit before its pull.  wanted: what it has
\* to stage or import.  found: the commit that discovery saw.  todo: what is
\* not imported yet.  good: what it did import.
Idle == [at |-> "idle", pulls |-> FALSE, busy |-> {}, old |-> 0, wanted |-> {},
         found |-> 0, todo |-> {}, good |-> {}]

\* Its thread is done, or has something to import.
Back(p)    == [Idle EXCEPT !.at = "back", !.pulls = party[p].pulls]
Reload(p, tags) == IF tags = {} THEN Back(p)
                   ELSE [Back(p) EXCEPT !.at = "locking", !.wanted = tags]

Commit(h) == 0..Len(h)

\* The commit that last changed a tag's code, as of commit c, and what it did.
Touches(t, c) == {k \in 1..c : history[k][t] # "same"}
Code(t, c) == IF Touches(t, c) = {} THEN 0
              ELSE CHOOSE k \in Touches(t, c) : \A l \in Touches(t, c) : l <= k
Does(t, c) == IF Code(t, c) = 0 THEN "works" ELSE history[Code(t, c)][t]
changed_services(c, d) == {t \in Tags : Code(t, c) # Code(t, d)}

\* Every variable keeps its type; the lock is held by whoever imports.
TypeOK ==
  /\ history \in Histories /\ upstream \in Commit(history) /\ tree \in 0..upstream
  /\ loaded \in [Tags -> Commit(history)] /\ stamp \in [Tags -> Commit(history)]
  /\ pending \subseteq Tags /\ failed \subseteq Tags /\ crossed \subseteq Tags /\ missed \subseteq Tags
  /\ users \in [Tags -> 0..MaxUsers]
  /\ \A p \in Parties : (lock = p) <=> party[p].at \in {"importing", "booking"}

Init ==
  /\ history \in Histories /\ upstream = 0 /\ tree = 0
  /\ loaded = [t \in Tags |-> 0] /\ stamp = [t \in Tags |-> 0]
  /\ pending = {} /\ failed = {}
  /\ users = [t \in Tags |-> 0]
  /\ lock = None /\ party = [p \in Parties |-> Idle]
  /\ crossed = {} /\ missed = {}

-----------------------------------------------------------------------------
(* The world: upstream, jobs and sessions.                                 *)

busy_services == {t \in Tags : users[t] > 0}

Push ==
  /\ upstream < Len(history)
  /\ upstream' = upstream + 1
  /\ UNCHANGED <<history, tree, tables, users, lock, party, crossed, missed>>

UserBegins(t) ==
  /\ users[t] < MaxUsers
  /\ users' = [users EXCEPT ![t] = @ + 1]
  /\ UNCHANGED <<repo, tables, lock, party, crossed, missed>>

\* schedule_pending_reload: with nothing staged, or with one reload task in
\* flight, no task starts.
Scheduled(ps, asked) == IF asked /\ ps["task"].at = "idle" THEN [ps EXCEPT !["task"].at = "due"] ELSE ps

\* What a refused trigger leaves to nobody: the task in flight has looked at
\* the busy services already.
Refused(ps, asked) == IF asked /\ ps["task"].at \notin {"idle", "due"} THEN pending ELSE {}

\* The last job or session of a service ends, or another one does.  A session
\* asks for its own service only, a job for any.
UserEnds(t) ==
  /\ users[t] > 0
  /\ users' = [users EXCEPT ![t] = @ - 1]
  /\ \E asked \in {pending # {}, t \in pending} :
       /\ party' = Scheduled(party, asked)
       /\ missed' = missed \cup Refused(party, asked)
  /\ UNCHANGED <<repo, tables, lock, crossed>>

-----------------------------------------------------------------------------
(* The event loop starts a thread, with the services busy at that moment.  *)

To(p, place) == party' = [party EXCEPT ![p].at = place]

Applies == [Idle EXCEPT !.at = "applying", !.busy = busy_services]
Pulls   == [Idle EXCEPT !.at = "pulling", !.pulls = TRUE, !.busy = busy_services, !.old = tree]

\* The loop applies what is staged before it refreshes.
LoopWakes ==
  /\ party["loop"].at = "idle"
  /\ party' = [party EXCEPT !["loop"] = Applies]
  /\ UNCHANGED <<repo, tables, users, lock, crossed, missed>>

TaskRuns ==
  /\ party["task"].at = "due"
  /\ party' = [party EXCEPT !["task"] = Applies]
  /\ UNCHANGED <<repo, tables, users, lock, crossed, missed>>

refresh_services_handler ==
  /\ party["post"].at = "idle"
  /\ party' = [party EXCEPT !["post"] = Pulls]
  /\ UNCHANGED <<repo, tables, users, lock, crossed, missed>>

-----------------------------------------------------------------------------
(* The threads.                                                            *)

\* apply_pending: what is staged and idle, or staged for too long.
apply_pending(p) ==
  /\ party[p].at = "applying"
  /\ \E overdue \in SUBSET pending :
       party' = [party EXCEPT ![p] = Reload(p, (pending \ party[p].busy) \cup overdue)]
  /\ UNCHANGED <<repo, tables, users, lock, crossed, missed>>

\* Tags that the holder of the lock has imported and not yet booked.
Unbooked == IF lock = None THEN {} ELSE party[lock].wanted \ party[lock].todo

\* refresh_repo: the pull, which may fail ...
force_sync(p) ==
  /\ party[p].at = "pulling"
  /\ tree' \in {tree, upstream}
  /\ crossed' = crossed \cup (Unbooked \cap changed_services(tree, tree'))
  /\ To(p, "diffing")
  /\ UNCHANGED <<history, upstream, tables, users, lock, missed>>

\* ... and what changed from the one to HEAD after it.
Diff(p) ==
  /\ party[p].at = "diffing"
  /\ party' = [party EXCEPT ![p].wanted = changed_services(party[p].old, tree), ![p].at = "staging", ![p].old = 0]
  /\ UNCHANGED <<repo, tables, users, lock, crossed, missed>>

\* refresh_and_reload: the busy services are staged, the others reloaded.
Stage(p) ==
  /\ party[p].at = "staging"
  /\ LET deferred == party[p].wanted \cap party[p].busy
     IN  /\ pending' = pending \cup deferred
         /\ party' = [party EXCEPT ![p] = Reload(p, @.wanted \ @.busy)]
         /\ missed' = IF p = "post" THEN missed \cup (deferred \ busy_services) ELSE missed
  /\ UNCHANGED <<repo, loaded, stamp, failed, users, lock, crossed>>

-----------------------------------------------------------------------------
(* reload_services, under RELOAD_LOCK.                                     *)

\* The errors of the wanted tags go, and discovery looks at the clone.
Lock(p) ==
  /\ party[p].at = "locking" /\ lock = None
  /\ lock' = p
  /\ failed' = failed \ party[p].wanted
  /\ party' = [party EXCEPT ![p].at = "importing", ![p].todo = party[p].wanted,
                            ![p].found = tree, ![p].good = {}]
  /\ UNCHANGED <<repo, loaded, stamp, pending, users, crossed, missed>>

Imported(p, t, good) ==
  party' = [party EXCEPT ![p].todo = @ \ {t}, ![p].good = @ \cup good,
                         ![p].found = IF party[p].todo = {t} THEN 0 ELSE @,
                         ![p].at = IF party[p].todo = {t} THEN "booking" ELSE @]

\* A tag that discovery did not find is dropped; any other is imported from
\* the clone as it is now, and keeps its old module when that fails.
Import(p, t) ==
  /\ party[p].at = "importing" /\ t \in party[p].todo
  /\ \/ /\ Does(t, party[p].found) = "goes"
        /\ loaded' = [loaded EXCEPT ![t] = Code(t, party[p].found)]
        /\ crossed' = IF Code(t, tree) = Code(t, party[p].found) THEN crossed \ {t} ELSE crossed \cup {t}
        /\ Imported(p, t, {}) /\ UNCHANGED failed
     \/ /\ Does(t, party[p].found) # "goes" /\ Does(t, tree) = "works"
        /\ loaded' = [loaded EXCEPT ![t] = Code(t, tree)]
        /\ crossed' = crossed \ {t}
        /\ Imported(p, t, {t}) /\ UNCHANGED failed
     \/ /\ Does(t, party[p].found) # "goes" /\ Does(t, tree) \in {"breaks", "goes"}
        /\ failed' = failed \cup {t}
        /\ Imported(p, t, {}) /\ UNCHANGED <<loaded, crossed>>
  /\ UNCHANGED <<repo, stamp, pending, users, lock, missed>>

\* What the reload had in hand is no longer staged, what it imported is stamped
\* with HEAD, and the lock goes.
Booked(p, unstaged, stamped) ==
  /\ party[p].at = "booking"
  /\ pending' = pending \ unstaged /\ missed' = missed \ unstaged
  /\ stamp' = [t \in Tags |-> IF t \in stamped THEN tree ELSE stamp[t]]
  /\ lock' = None
  /\ party' = [party EXCEPT ![p] = Back(p)]
  /\ UNCHANGED <<repo, loaded, failed, users, crossed>>

BookAll(p)      == Booked(p, pending, party[p].good)           \* Mutant: nothing stays staged.
StampWanted(p)  == Booked(p, party[p].wanted, party[p].wanted) \* Mutant: with what failed.

Book(p) == Booked(p, party[p].wanted, party[p].good)

-----------------------------------------------------------------------------
(* Back on the event loop.                                                 *)

LoopEndsUnscheduled ==      \* Mutant: the loop leaves it to the ends of jobs and sessions.
  /\ party["loop"].at = "back" /\ party["loop"].pulls
  /\ party' = [party EXCEPT !["loop"] = Idle]
  /\ UNCHANGED <<repo, tables, users, lock, crossed, missed>>

\* The loop goes on with its refresh, for which it looks again ...
LoopGoesOn ==
  /\ party["loop"].at = "back" /\ ~party["loop"].pulls
  /\ party' = [party EXCEPT !["loop"] = Pulls]
  /\ UNCHANGED <<repo, tables, users, lock, crossed, missed>>

\* ... and has what it staged applied when its users ended during the pull.
LoopEnds ==
  /\ party["loop"].at = "back" /\ party["loop"].pulls
  /\ LET asked == pending # {}
     IN  /\ party' = [Scheduled(party, asked) EXCEPT !["loop"] = Idle]
         /\ missed' = missed \cup Refused(party, asked)
  /\ UNCHANGED <<repo, tables, users, lock, crossed>>

OthersEnd(p) ==
  /\ p # "loop" /\ party[p].at = "back"
  /\ party' = [party EXCEPT ![p] = Idle]
  /\ UNCHANGED <<repo, tables, users, lock, crossed, missed>>

Work(p) ==
  \/ apply_pending(p) \/ force_sync(p) \/ Diff(p) \/ Stage(p)
  \/ Lock(p) \/ (\E t \in Tags : Import(p, t)) \/ Book(p)
  \/ OthersEnd(p)

Next ==
  \/ Push \/ \E t \in Tags : UserBegins(t) \/ UserEnds(t)
  \/ LoopWakes \/ TaskRuns \/ refresh_services_handler \/ LoopGoesOn \/ LoopEnds
  \/ \E p \in Parties : Work(p)

Spec == Init /\ [][Next]_vars

-----------------------------------------------------------------------------
InHand(t) ==
  \E p \in Parties :
    \/ party[p].at = "diffing" /\ t \in changed_services(party[p].old, tree)
    \/ party[p].at \in {"staging", "locking"} /\ t \in party[p].wanted
    \/ party[p].at = "importing" /\ t \in party[p].todo

\* A service whose code in the clone is not the code that runs is staged, has
\* failed to import, or is in the hands of a reload: pulls, reloads and
\* refreshes that overlap in any order forget none, unless a pull replaced its
\* code between its import and the bookkeeping of that import.
NothingForgotten ==
  \A t \in Tags \ crossed :
    loaded[t] # Code(t, tree) => t \in pending \cup failed \/ InHand(t)

\* The commit that is shown for a service holds the code that runs, also after
\* an import that failed: a stamp never names code that is not running
\* (services.py:233-235).  Stated of what no reload has in hand.
StampIsRight ==
  \A t \in Tags \ crossed :
    (Does(t, loaded[t]) # "goes" /\ (lock = None \/ t \notin party[lock].wanted))
      => Code(t, stamp[t]) = loaded[t]

\* When no reload is under way, a staged service has a job or a session whose
\* end will apply it; but for the two kinds of end and POST that leave it to
\* the next one.
StagedIsAwaited ==
  (\A p \in Parties : party[p].at = "idle") => pending \subseteq busy_services \cup missed
=============================================================================
