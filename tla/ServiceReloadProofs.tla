-------------------------- MODULE ServiceReloadProofs --------------------------
(***************************************************************************)
(* No update of a service is forgotten, no stamp names code that does not  *)
(* run, and nothing stays staged without a reload to come: for any number  *)
(* of services, users and upstream commits.                                *)
(***************************************************************************)
EXTENDS ServiceReload, TLAPS, WellFoundedInduction, NaturalsInduction

At == {"idle", "due", "applying", "pulling", "diffing", "staging", "locking", "importing",
       "booking", "back"}

Party == [at : At, pulls : BOOLEAN, busy : SUBSET Tags, old : Nat, wanted : SUBSET Tags,
          found : Nat, todo : SUBSET Tags, good : SUBSET Tags]

\* What a party has seen is not ahead of the clone, and what it imported is
\* what it wanted and has not to import any more.
Right(p) ==
  /\ party[p].old <= tree /\ party[p].found <= tree
  /\ party[p].at = "importing" =>
       party[p].todo \subseteq party[p].wanted /\ party[p].good \subseteq party[p].wanted \ party[p].todo
  /\ party[p].at = "booking" => party[p].todo = {} /\ party[p].good \subseteq party[p].wanted

Typed ==
  /\ TypeOK
  /\ lock \in Parties \cup {None} /\ party \in [Parties -> Party]
  /\ \A p \in Parties : Right(p)
  /\ party["task"].at \notin {"pulling", "diffing", "staging"}

\* Until its bookkeeping a reload has what it imported from the clone as the
\* clone is now, or has named it among the errors; but for what a pull crossed.
Booking == \A t \in Unbooked \ crossed : loaded[t] = Code(t, tree) \/ t \in failed

\* The stamp is right, or will be by the bookkeeping to come.
Good == IF lock = None THEN {} ELSE party[lock].good

Stamped ==
  \A t \in Tags \ crossed :
    /\ Does(t, loaded[t]) = "goes" \/ Code(t, stamp[t]) = loaded[t] \/ t \in Good
    /\ t \in Good => loaded[t] = Code(t, tree)

\* Party p is going to apply what is staged of t.
Comes(p, t) ==
  \/ party[p].at = "applying" /\ t \notin party[p].busy
  \/ party[p].at \in {"locking", "importing", "booking"} /\ t \in party[p].wanted

Awaited ==
  \A t \in pending :
    \/ t \in busy_services \cup missed
    \/ party["task"].at = "due" \/ party["loop"].at # "idle"
    \/ \E p \in Parties : Comes(p, t)

SInv == Typed /\ NothingForgotten /\ Booking /\ Stamped /\ Awaited

-----------------------------------------------------------------------------
(* The last commit that changed a tag.                                     *)

LEMMA Largest ==
  ASSUME NEW c \in Nat, NEW T \in SUBSET (1..c), T # {}
  PROVE  \E k \in T : \A l \in T : l <= k
<1> DEFINE Under == {n \in Nat : c - n \in T}
<1>1. PICK k0 \in T : TRUE  OBVIOUS
<1>2. c - k0 \in Under  BY <1>1
<1>3. PICK n \in Under : \A m \in Under : ~(m < n)
  <2>1. IsWellFoundedOn(OpToRel(<, Nat), Nat)  BY NatLessThanWellFounded
  <2>2. Under \subseteq Nat /\ Under # {}  BY <1>2
  <2>3. PICK n \in Under : \A m \in Under : ~(<<m, n>> \in OpToRel(<, Nat))
    <3> HIDE DEF Under
    <3> QED  BY <2>1, <2>2, WFMin
  <2>4. \A m \in Under : m \in Nat /\ n \in Nat  OBVIOUS
  <2> HIDE DEF Under
  <2>5. ASSUME NEW m \in Under PROVE ~(m < n)
    <3>1. ~(<<m, n>> \in OpToRel(<, Nat))  BY <2>3
    <3>2. m \in Nat /\ n \in Nat  BY <2>4
    <3> QED  BY <3>1, <3>2, Zenon DEF OpToRel
  <2> QED  BY <2>5
<1>4. \A l \in T : l <= c - n
  <2> SUFFICES ASSUME NEW l \in T PROVE l <= c - n  OBVIOUS
  <2>1. c - l \in Under  BY DEF Under
  <2>2. l \in Nat /\ n \in Nat /\ ~(c - l < n)  BY <1>3, <2>1
  <2> QED  BY <2>2
<1> QED  BY <1>3, <1>4

LEMMA LargestIsIt ==
  ASSUME NEW c \in Nat, NEW T \in SUBSET (1..c), T # {}
  PROVE  /\ (CHOOSE k \in T : \A l \in T : l <= k) \in T
         /\ \A m \in T : m <= CHOOSE k \in T : \A l \in T : l <= k
<1>1. \E k \in T : \A l \in T : l <= k  BY Largest
<1> QED  BY <1>1, Zenon

\* Code is the last commit of Touches, and 0 when there is none.
IsLast(k, T) == IF T = {} THEN k = 0 ELSE k \in T /\ \A l \in T : l <= k

LEMMA CodeIsLast ==
  ASSUME NEW t \in Tags, NEW c \in Nat
  PROVE  /\ Touches(t, c) \in SUBSET (1..c) /\ IsLast(Code(t, c), Touches(t, c))
         /\ Code(t, c) \in 0..c
<1>1. Touches(t, c) \in SUBSET (1..c)  BY DEF Touches
<1>2. IsLast(Code(t, c), Touches(t, c))  BY <1>1, LargestIsIt DEF Code, IsLast
<1> QED  BY <1>1, <1>2 DEF IsLast

\* It grows with the commits, and looking again from there finds the same.
LEMMA CodeGrows ==
  ASSUME NEW t \in Tags, NEW c \in Nat, NEW d \in Nat, c <= d
  PROVE  Code(t, c) <= Code(t, d)
<1>1. Touches(t, c) \subseteq Touches(t, d)  BY DEF Touches
<1> QED  BY <1>1, CodeIsLast DEF IsLast

LEMMA CodeOfCode ==
  ASSUME NEW t \in Tags, NEW c \in Nat
  PROVE  Code(t, c) \in Nat /\ Code(t, Code(t, c)) = Code(t, c) /\ Does(t, Code(t, c)) = Does(t, c)
<1>1. Code(t, c) \in 0..c /\ IsLast(Code(t, c), Touches(t, c))  BY CodeIsLast
<1>2. Code(t, c) = 0 => Touches(t, Code(t, c)) = {}  BY DEF Touches
<1>3. Code(t, c) # 0 => Code(t, c) \in Touches(t, Code(t, c))
  <2> SUFFICES ASSUME Code(t, c) # 0 PROVE Code(t, c) \in Touches(t, Code(t, c))  OBVIOUS
  <2>1. Code(t, c) \in Touches(t, c)  BY <1>1 DEF IsLast
  <2> QED  BY <1>1, <2>1 DEF Touches
<1>4. Touches(t, Code(t, c)) \in SUBSET (1..Code(t, c))
  BY <1>1, CodeIsLast
<1>5. IsLast(Code(t, Code(t, c)), Touches(t, Code(t, c)))  BY <1>1, CodeIsLast
<1>6. Code(t, Code(t, c)) = Code(t, c)
  BY <1>1, <1>2, <1>3, <1>4, <1>5 DEF IsLast
<1> QED  BY <1>1, <1>6 DEF Does

\* What upstream will come to never changes, so neither does Code.
LEMMA CodeStays ==
  ASSUME history' = history
  PROVE  \A t \in Tags, c \in Nat : Code(t, c)' = Code(t, c) /\ Does(t, c)' = Does(t, c)
<1> SUFFICES ASSUME NEW t \in Tags, NEW c \in Nat
             PROVE  Code(t, c)' = Code(t, c) /\ Does(t, c)' = Does(t, c)
  OBVIOUS
<1>1. Touches(t, c)' = Touches(t, c)  BY DEF Touches
<1>2. IsLast(Code(t, c), Touches(t, c)) /\ Touches(t, c) \in SUBSET (1..c)  BY CodeIsLast
<1>3. IsLast(Code(t, c)', Touches(t, c))  BY <1>1, <1>2, LargestIsIt DEF Code, IsLast
<1>4. Code(t, c)' = Code(t, c)  BY <1>2, <1>3 DEF IsLast
<1> QED  BY <1>4 DEF Does

-----------------------------------------------------------------------------
(* Steps that touch neither the tables nor the clone.                      *)

\* One party's part of InHand.
Hand(p, t) ==
  \/ party[p].at = "diffing" /\ t \in changed_services(party[p].old, tree)
  \/ party[p].at \in {"staging", "locking"} /\ t \in party[p].wanted
  \/ party[p].at = "importing" /\ t \in party[p].todo

LEMMA InHands == \A t \in Tags : InHand(t) <=> \E p \in Parties : Hand(p, t)
BY DEF InHand, Hand

LEMMA IdleTyped == Idle \in Party /\ Idle.at = "idle" /\ Idle.old = 0 /\ Idle.found = 0
BY DEF Idle, Party, At

\* The party has nothing of what discovery or a pull found, before and after.
Outside(p) ==
  \/ party'[p] = party[p]
  \/ /\ party'[p] \in Party
     /\ party[p].at \in {"idle", "due", "applying", "back"}
     /\ party'[p].at \in {"idle", "due", "applying", "pulling", "locking", "back"}
     /\ party'[p].old <= tree /\ party'[p].found <= tree
     /\ p = "task" => party'[p].at # "pulling"

LEMMA OutsideKeeps ==
  ASSUME Typed, NothingForgotten, Booking, Stamped,
         UNCHANGED <<history, tree, tables, lock, crossed>>,
         upstream' \in Commit(history), upstream <= upstream',
         users' \in [Tags -> 0..MaxUsers], missed' \subseteq Tags,
         party' = [p \in Parties |-> party'[p]], \A p \in Parties : Outside(p)
  PROVE  Typed' /\ NothingForgotten' /\ Booking' /\ Stamped'
<1> USE DEF tables
<1>1. Typed'
  <2>1. party' \in [Parties -> Party]  BY DEF Outside, Typed
  <2>2. \A p \in Parties : (lock' = p) <=> party'[p].at \in {"importing", "booking"}
    BY DEF Outside, Typed, TypeOK
  <2>3. TypeOK'
    <3>1. Commit(history) = 0..Len(history)  BY DEF Commit
    <3>2. tree' \in 0..upstream'
      <4>1. Len(history) \in Nat  BY ReloadAssumption DEF Typed, TypeOK
      <4> QED  BY <3>1, <4>1 DEF Typed, TypeOK
    <3> QED  BY <2>2, <3>1, <3>2 DEF Typed, TypeOK, Commit
  <2>4. \A p \in Parties : Right(p)'  BY DEF Outside, Typed, Right
  <2>5. party'["task"].at \notin {"pulling", "diffing", "staging"}
    BY DEF Outside, Typed, Parties
  <2> QED  BY <2>1, <2>3, <2>4, <2>5 DEF Typed
<1>2. \A p \in Parties, t \in Tags : Hand(p, t) => Hand(p, t)'
  <2> SUFFICES ASSUME NEW p \in Parties, NEW t \in Tags, Hand(p, t) PROVE Hand(p, t)'  OBVIOUS
  <2>1. party'[p] = party[p]  BY DEF Hand, Outside
  <2>2. t \in changed_services(party[p].old, tree) => t \in changed_services(party[p].old, tree)'
    BY <2>1, CodeStays DEF changed_services, Typed, TypeOK, Party, Commit
  <2> QED  BY <2>1, <2>2 DEF Hand
<1>3. \A t \in Tags, c \in Nat : Code(t, c)' = Code(t, c) /\ Does(t, c)' = Does(t, c)
  BY CodeStays
<1>4. /\ tree \in Nat /\ \A t \in Tags : loaded[t] \in Nat /\ stamp[t] \in Nat
  BY DEF Typed, TypeOK, Commit
<1>5. NothingForgotten'
  <2> SUFFICES ASSUME NEW t \in Tags, t \notin crossed, loaded[t] # Code(t, tree)'
               PROVE  t \in pending \cup failed \/ InHand(t)'
    BY DEF NothingForgotten
  <2>1. loaded[t] # Code(t, tree)  BY <1>3, <1>4
  <2>2. t \in pending \cup failed \/ InHand(t)  BY <2>1 DEF NothingForgotten
  <2> QED  BY <1>2, <2>2 DEF InHand, Hand
<1>6. /\ lock # None => party'[lock] = party[lock]
  BY DEF Outside, Typed, TypeOK
<1>7. Unbooked \subseteq Tags /\ Unbooked' = Unbooked
  BY <1>6 DEF Unbooked, Typed, Party
<1>8. Booking'  BY <1>3, <1>4, <1>7 DEF Booking
<1>9. Stamped'
  <2>1. Good' = Good  BY <1>6 DEF Good
  <2> QED  BY <1>3, <1>4, <2>1 DEF Stamped
<1> QED  BY <1>1, <1>5, <1>8, <1>9

LEMMA StartsTyped ==
  ASSUME Typed
  PROVE  /\ Applies \in Party /\ Applies.at = "applying" /\ Applies.busy = busy_services
         /\ Applies.old = 0 /\ Applies.found = 0
         /\ Pulls \in Party /\ Pulls.at = "pulling" /\ Pulls.old = tree /\ Pulls.found = 0
<1>1. busy_services \in SUBSET Tags /\ tree \in Nat  BY DEF busy_services, Typed, TypeOK
<1>2. {"applying", "pulling"} \subseteq At  BY DEF At
<1> QED  BY <1>1, <1>2, IdleTyped DEF Applies, Pulls, Party

LEMMA ReloadTyped ==
  ASSUME Typed, NEW p \in Parties, NEW tags \in SUBSET Tags
  PROVE  /\ Back(p) \in Party /\ Back(p).at = "back" /\ Back(p).old = 0 /\ Back(p).found = 0
         /\ Reload(p, tags) \in Party /\ Reload(p, tags).at \in {"back", "locking"}
         /\ Reload(p, tags).old = 0 /\ Reload(p, tags).found = 0
         /\ tags # {} => Reload(p, tags).at = "locking" /\ Reload(p, tags).wanted = tags
<1>1. party[p].pulls \in BOOLEAN  BY DEF Typed, Party
<1>2. {"back", "locking"} \subseteq At  BY DEF At
<1>3. Back(p) \in Party /\ Back(p).at = "back" /\ Back(p).old = 0 /\ Back(p).found = 0
  BY <1>1, <1>2, IdleTyped DEF Back, Party
<1>4. tags = {} => Reload(p, tags) = Back(p)  BY DEF Reload
<1>5. tags # {} => Reload(p, tags) = [Back(p) EXCEPT !.at = "locking", !.wanted = tags]
  BY DEF Reload
<1> QED  BY <1>2, <1>3, <1>4, <1>5 DEF Party

\* One party moves.
Only(p) == party' = [q \in Parties |-> party'[q]] /\ \A q \in Parties \ {p} : party'[q] = party[q]

LEMMA PushKeeps == ASSUME SInv, Push PROVE SInv'
<1>1. upstream' \in Commit(history) /\ upstream <= upstream'
  <2>1. Len(history) \in Nat  BY ReloadAssumption DEF SInv, Typed, TypeOK
  <2> QED  BY <2>1 DEF SInv, Typed, TypeOK, Push, Commit
<1>2. /\ UNCHANGED <<history, tree, tables, lock, crossed, users, missed, party>>
      /\ party' = [p \in Parties |-> party'[p]]
  BY DEF Push, SInv, Typed
<1>3. Typed' /\ NothingForgotten' /\ Booking' /\ Stamped'
  BY <1>1, <1>2, OutsideKeeps DEF SInv, Outside, Typed, TypeOK
<1>4. Awaited'  BY <1>2 DEF SInv, Awaited, Comes, busy_services, tables
<1> QED  BY <1>3, <1>4 DEF SInv

LEMMA UserBeginsKeeps == ASSUME SInv, NEW t \in Tags, UserBegins(t) PROVE SInv'
<1>1. /\ UNCHANGED <<repo, tables, lock, crossed, missed, party>>
      /\ users' \in [Tags -> 0..MaxUsers] /\ \A u \in Tags : users[u] <= users'[u]
      /\ party' = [p \in Parties |-> party'[p]]
  <2>1. users \in [Tags -> 0..MaxUsers] /\ MaxUsers \in Nat /\ party \in [Parties -> Party]
    BY ReloadAssumption DEF SInv, Typed, TypeOK
  <2>2. users[t] + 1 \in 0..MaxUsers  BY <2>1 DEF UserBegins
  <2> QED  BY <2>1, <2>2 DEF UserBegins
<1>2. Typed' /\ NothingForgotten' /\ Booking' /\ Stamped'
  <2>1. /\ UNCHANGED <<history, tree, tables, lock, crossed>>
        /\ upstream' \in Commit(history) /\ upstream <= upstream' /\ missed' \subseteq Tags
    BY <1>1 DEF SInv, Typed, TypeOK, repo, Commit
  <2>2. \A p \in Parties : Outside(p)  BY <1>1 DEF Outside
  <2> QED  BY <1>1, <2>1, <2>2, OutsideKeeps DEF SInv
<1>3. busy_services \subseteq busy_services'
  BY <1>1, ReloadAssumption DEF busy_services, SInv, Typed, TypeOK
<1>4. Awaited'  BY <1>1, <1>3 DEF SInv, Awaited, Comes, tables
<1> QED  BY <1>2, <1>4 DEF SInv

\* The end of a user, and the end of the loop, start the task or find it there.
LEMMA ScheduledTyped ==
  ASSUME Typed, NEW asked \in BOOLEAN
  PROVE  /\ Scheduled(party, asked) \in [Parties -> Party]
         /\ \A p \in Parties \ {"task"} : Scheduled(party, asked)[p] = party[p]
         /\ \/ Scheduled(party, asked)["task"] = party["task"]
            \/ /\ party["task"].at = "idle" /\ Scheduled(party, asked)["task"].at = "due"
               /\ Scheduled(party, asked)["task"] \in Party
               /\ Scheduled(party, asked)["task"].old = party["task"].old
               /\ Scheduled(party, asked)["task"].found = party["task"].found
         /\ asked => pending \subseteq Refused(party, asked) \/ Scheduled(party, asked)["task"].at = "due"
         /\ Refused(party, asked) \subseteq pending
<1>1. party \in [Parties -> Party] /\ "task" \in Parties  BY DEF Typed, Parties
<1>2. CASE asked /\ party["task"].at = "idle"
  <2>1. Scheduled(party, asked) = [party EXCEPT !["task"].at = "due"]  BY <1>2 DEF Scheduled
  <2>2. "due" \in At  BY DEF At
  <2>3. party["task"] \in Party  BY <1>1
  <2>4. LET due == [party["task"] EXCEPT !.at = "due"]
        IN  due \in Party /\ due.at = "due" /\ due.old = party["task"].old /\ due.found = party["task"].found
    BY <2>2, <2>3 DEF Party
  <2>5. Scheduled(party, asked)["task"] = [party["task"] EXCEPT !.at = "due"]  BY <1>1, <2>1
  <2>6. Refused(party, asked) = {}  BY <1>2 DEF Refused
  <2> QED  BY <1>1, <1>2, <2>1, <2>4, <2>5, <2>6
<1>3. CASE ~(asked /\ party["task"].at = "idle")
  <2>1. Scheduled(party, asked) = party  BY <1>3 DEF Scheduled
  <2> QED  BY <1>1, <1>3, <2>1 DEF Refused
<1> QED  BY <1>2, <1>3

\* What waited for party p, or for the task or the loop, waits for somebody yet.
Due == party["task"].at = "due" \/ party["loop"].at # "idle"
AwaitedYet(p) ==
  \A t \in pending \ (busy_services \cup missed) :
    Due \/ Comes(p, t) => (Due \/ \E r \in Parties : Comes(r, t))'

\* A step of one party alone, outside of the tables and the clone.
Becomes(p, q) ==
  /\ party' = [party EXCEPT ![p] = q]
  /\ UNCHANGED <<repo, tables, users, lock, crossed, missed>>
  /\ party[p].at \in {"idle", "due", "applying", "back"}
  /\ q.at \in {"idle", "due", "applying", "pulling", "locking", "back"}
  /\ q.old <= tree /\ q.found <= tree
  /\ p = "task" => q.at # "pulling"

LEMMA OneOutside ==
  ASSUME SInv, NEW p \in Parties, NEW q \in Party, Becomes(p, q), AwaitedYet(p)
  PROVE  SInv'
<1> USE DEF Becomes
<1>1. party \in [Parties -> Party]  BY DEF SInv, Typed
<1>2. /\ party' = [r \in Parties |-> party'[r]] /\ party'[p] = q
      /\ \A r \in Parties \ {p} : party'[r] = party[r]
  BY <1>1
<1>3. Typed' /\ NothingForgotten' /\ Booking' /\ Stamped'
  <2>1. \A r \in Parties : Outside(r)  BY <1>2 DEF Outside
  <2>2. /\ UNCHANGED <<history, tree, tables, lock, crossed>> /\ missed' \subseteq Tags
        /\ upstream' \in Commit(history) /\ upstream <= upstream' /\ users' \in [Tags -> 0..MaxUsers]
    BY DEF repo, SInv, Typed, TypeOK, Commit
  <2> QED  BY <1>2, <2>1, <2>2, OutsideKeeps DEF SInv
<1>4. busy_services' = busy_services /\ pending' = pending /\ missed' = missed
  BY DEF busy_services, tables
<1>5. \A r \in Parties \ {p}, t \in Tags : Comes(r, t) => Comes(r, t)'
  BY <1>2 DEF Comes
<1>6. Awaited'
  <2> SUFFICES ASSUME NEW t \in pending, t \notin busy_services \cup missed
               PROVE (Due \/ \E r \in Parties : Comes(r, t))'
    BY <1>4 DEF Awaited, Due
  <2>1. t \in Tags  BY DEF SInv, Typed, TypeOK
  <2>2. Due \/ \E r \in Parties : Comes(r, t)  BY DEF SInv, Awaited, Due
  <2> QED  BY <1>5, <2>1, <2>2 DEF AwaitedYet
<1> QED  BY <1>3, <1>6 DEF SInv

LEMMA LoopWakesKeeps == ASSUME SInv, LoopWakes PROVE SInv'
<1>1. /\ "loop" \in Parties /\ party["loop"].at = "idle"
      /\ party' = [party EXCEPT !["loop"] = Applies]
      /\ UNCHANGED <<repo, tables, users, lock, crossed, missed>>
  BY DEF LoopWakes, Parties
<1>2. /\ Applies \in Party /\ Applies.at = "applying" /\ Applies.busy = busy_services
      /\ Applies.old = 0 /\ Applies.found = 0 /\ tree \in Nat
  BY StartsTyped DEF SInv, Typed, TypeOK
<1>3. party'["loop"].at # "idle"  BY <1>1, <1>2 DEF SInv, Typed
<1>4. AwaitedYet("loop")  BY <1>3 DEF AwaitedYet, Due
<1>5. Becomes("loop", Applies)  BY <1>1, <1>2, <1>4 DEF Becomes
<1> QED  BY <1>1, <1>2, <1>4, <1>5, OneOutside

LEMMA TaskRunsKeeps == ASSUME SInv, TaskRuns PROVE SInv'
<1>1. /\ "task" \in Parties /\ party["task"].at = "due"
      /\ party' = [party EXCEPT !["task"] = Applies]
      /\ UNCHANGED <<repo, tables, users, lock, crossed, missed>>
  BY DEF TaskRuns, Parties
<1>2. /\ Applies \in Party /\ Applies.at = "applying" /\ Applies.busy = busy_services
      /\ Applies.old = 0 /\ Applies.found = 0 /\ tree \in Nat
  BY StartsTyped DEF SInv, Typed, TypeOK
<1>3. \A t \in pending \ busy_services : Comes("task", t)'
  BY <1>1, <1>2 DEF Comes, SInv, Typed
<1>4. AwaitedYet("task")  BY <1>1, <1>3 DEF AwaitedYet
<1>5. Becomes("task", Applies)  BY <1>1, <1>2, <1>4 DEF Becomes
<1> QED  BY <1>1, <1>2, <1>4, <1>5, OneOutside

LEMMA PostKeeps == ASSUME SInv, refresh_services_handler PROVE SInv'
<1>1. /\ "post" \in Parties /\ party["post"].at = "idle" /\ "post" # "task"
      /\ party' = [party EXCEPT !["post"] = Pulls]
      /\ UNCHANGED <<repo, tables, users, lock, crossed, missed>>
  BY DEF refresh_services_handler, Parties
<1>2. /\ Pulls \in Party /\ Pulls.at = "pulling" /\ Pulls.old = tree /\ Pulls.found = 0 /\ tree \in Nat
  BY StartsTyped DEF SInv, Typed, TypeOK
<1>3. \A t \in Tags : ~Comes("post", t)  BY <1>1 DEF Comes
<1>4. party'["task"] = party["task"] /\ party'["loop"] = party["loop"]
  BY <1>1 DEF SInv, Typed, Parties
<1>5. pending \subseteq Tags  BY DEF SInv, Typed, TypeOK
<1>6. AwaitedYet("post")  BY <1>3, <1>4, <1>5 DEF AwaitedYet, Due
<1>7. Becomes("post", Pulls)  BY <1>1, <1>2 DEF Becomes
<1> QED  BY <1>1, <1>2, <1>6, <1>7, OneOutside

LEMMA LoopGoesOnKeeps == ASSUME SInv, LoopGoesOn PROVE SInv'
<1>1. /\ "loop" \in Parties /\ party["loop"].at = "back" /\ "loop" # "task"
      /\ party' = [party EXCEPT !["loop"] = Pulls]
      /\ UNCHANGED <<repo, tables, users, lock, crossed, missed>>
  BY DEF LoopGoesOn, Parties
<1>2. /\ Pulls \in Party /\ Pulls.at = "pulling" /\ Pulls.old = tree /\ Pulls.found = 0 /\ tree \in Nat
  BY StartsTyped DEF SInv, Typed, TypeOK
<1>3. party'["loop"].at # "idle"  BY <1>1, <1>2 DEF SInv, Typed
<1>4. AwaitedYet("loop")  BY <1>3 DEF AwaitedYet, Due
<1>5. Becomes("loop", Pulls)  BY <1>1, <1>2, <1>4 DEF Becomes
<1> QED  BY <1>1, <1>2, <1>4, <1>5, OneOutside

LEMMA OthersEndKeeps == ASSUME SInv, NEW p \in Parties, OthersEnd(p) PROVE SInv'
<1>1. /\ p # "loop" /\ party[p].at = "back"
      /\ party' = [party EXCEPT ![p] = Idle]
      /\ UNCHANGED <<repo, tables, users, lock, crossed, missed>>
  BY DEF OthersEnd
<1>2. Idle \in Party /\ Idle.at = "idle" /\ Idle.old = 0 /\ Idle.found = 0 /\ tree \in Nat
  BY IdleTyped DEF SInv, Typed, TypeOK
<1>3. \A t \in Tags : ~Comes(p, t)  BY <1>1 DEF Comes
<1>4. /\ party'["loop"] = party["loop"] /\ pending \subseteq Tags
      /\ party["task"].at = "due" => party'["task"] = party["task"]
  BY <1>1 DEF SInv, Typed, TypeOK, Parties
<1>5. AwaitedYet(p)  BY <1>3, <1>4 DEF AwaitedYet, Due
<1>6. Becomes(p, Idle)  BY <1>1, <1>2 DEF Becomes
<1> QED  BY <1>1, <1>2, <1>5, <1>6, OneOutside

\* What is staged and was not busy is wanted now.
LEMMA ApplyKeeps == ASSUME SInv, NEW p \in Parties, apply_pending(p) PROVE SInv'
<1>1. PICK overdue \in SUBSET pending :
        party' = [party EXCEPT ![p] = Reload(p, (pending \ party[p].busy) \cup overdue)]
  BY DEF apply_pending
<1> DEFINE tags == (pending \ party[p].busy) \cup overdue
<1>2. tags \in SUBSET Tags /\ tree \in Nat  BY DEF SInv, Typed, TypeOK
<1>3. /\ party[p].at = "applying" /\ party' = [party EXCEPT ![p] = Reload(p, tags)]
      /\ UNCHANGED <<repo, tables, users, lock, crossed, missed>>
  BY <1>1 DEF apply_pending
<1> HIDE DEF tags
<1>4. /\ Reload(p, tags) \in Party /\ Reload(p, tags).at \in {"back", "locking"}
      /\ Reload(p, tags).old = 0 /\ Reload(p, tags).found = 0
      /\ tags # {} => Reload(p, tags).at = "locking" /\ Reload(p, tags).wanted = tags
  BY <1>2, ReloadTyped DEF SInv
<1>5. party'[p] = Reload(p, tags)  BY <1>3 DEF SInv, Typed
<1>6. \A t \in pending : Comes(p, t) => Comes(p, t)'
  <2> SUFFICES ASSUME NEW t \in pending, Comes(p, t) PROVE Comes(p, t)'  OBVIOUS
  <2>1. t \in tags  BY <1>3 DEF Comes, tags
  <2> QED  BY <1>4, <1>5, <2>1 DEF Comes
<1>7. /\ party["loop"].at # "idle" => party'["loop"].at # "idle"
      /\ party["task"].at = "due" => party'["task"].at = "due"
  BY <1>3, <1>4, <1>5 DEF SInv, Typed, Parties
<1>8. AwaitedYet(p)  BY <1>6, <1>7 DEF AwaitedYet, Due
<1>9. Becomes(p, Reload(p, tags))  BY <1>2, <1>3, <1>4 DEF Becomes
<1> QED  BY <1>4, <1>8, <1>9, OneOutside

\* A step that may start the task, after which the loop is q.
Schedules(asked, q) ==
  /\ party' = [Scheduled(party, asked) EXCEPT !["loop"] = q]
  /\ missed' = missed \cup Refused(party, asked)
  /\ q = party["loop"] \/ (party["loop"].at = "back" /\ q = Idle /\ (pending = {} \/ asked))
  /\ UNCHANGED <<repo, tables, lock, crossed>>
  /\ users' \in [Tags -> 0..MaxUsers]
  /\ \A t \in pending : t \in busy_services => t \in busy_services' \/ asked

LEMMA ScheduledKeeps ==
  ASSUME SInv, NEW asked \in BOOLEAN, NEW q \in Party, Schedules(asked, q)
  PROVE  SInv'
<1>1. /\ Scheduled(party, asked) \in [Parties -> Party]
      /\ \A r \in Parties \ {"task"} : Scheduled(party, asked)[r] = party[r]
      /\ \/ Scheduled(party, asked)["task"] = party["task"]
         \/ /\ party["task"].at = "idle" /\ Scheduled(party, asked)["task"].at = "due"
            /\ Scheduled(party, asked)["task"] \in Party
            /\ Scheduled(party, asked)["task"].old = party["task"].old
            /\ Scheduled(party, asked)["task"].found = party["task"].found
      /\ asked => pending \subseteq Refused(party, asked) \/ Scheduled(party, asked)["task"].at = "due"
      /\ Refused(party, asked) \subseteq pending
  BY ScheduledTyped DEF SInv
<1> USE DEF Schedules
<1>2. /\ party' = [r \in Parties |-> party'[r]]
      /\ party'["loop"] = q
      /\ \A r \in Parties \ {"loop"} : party'[r] = Scheduled(party, asked)[r]
      /\ "task" \in Parties /\ "loop" \in Parties
  BY <1>1 DEF Parties
<1>3. \A r \in Parties : party'[r] = party[r] \/ r = "loop" \/ (r = "task" /\ party'[r].at = "due")
  BY <1>1, <1>2
<1>4. \A r \in Parties : Outside(r)
  <2>1. Outside("loop")  BY <1>2, IdleTyped DEF Outside, SInv, Typed, TypeOK
  <2>2. Outside("task")  BY <1>1, <1>2 DEF Outside, SInv, Typed, Right
  <2> QED  BY <1>1, <1>2, <2>1, <2>2 DEF Outside
<1>5. Typed' /\ NothingForgotten' /\ Booking' /\ Stamped'
  <2>1. /\ UNCHANGED <<history, tree, tables, lock, crossed>> /\ missed' \subseteq Tags
        /\ upstream' \in Commit(history) /\ upstream <= upstream'
    BY <1>1 DEF repo, SInv, Typed, TypeOK, Commit
  <2> QED  BY <1>2, <1>4, <2>1, OutsideKeeps DEF SInv
<1>6. Awaited'
  <2> SUFFICES ASSUME NEW t \in pending, t \notin busy_services', t \notin missed'
               PROVE  Due' \/ \E r \in Parties : Comes(r, t)'
    BY DEF Awaited, Due, tables
  <2>1. CASE asked
    BY <1>1, <1>2, <2>1 DEF Due
  <2>2. CASE ~asked
    <3>1. t \notin busy_services \cup missed  BY <2>2
    <3>2. q = party["loop"] \/ pending = {}  BY <2>2
    <3>3. \A r \in Parties : party'[r] = party[r] \/ Due'  BY <1>2, <1>3, <3>2 DEF Due
    <3>4. Due \/ \E r \in Parties : Comes(r, t)  BY <3>1 DEF SInv, Awaited, Due
    <3>5. "loop" \in Parties /\ "task" \in Parties  BY DEF Parties
    <3>6. Due => Due'  BY <3>3, <3>5 DEF Due
    <3> QED  BY <3>3, <3>4, <3>6 DEF Comes
  <2> QED  BY <2>1, <2>2
<1> QED  BY <1>5, <1>6 DEF SInv

LEMMA UserEndsKeeps == ASSUME SInv, NEW t \in Tags, UserEnds(t) PROVE SInv'
<1>1. PICK asked \in {pending # {}, t \in pending} :
        party' = Scheduled(party, asked) /\ missed' = missed \cup Refused(party, asked)
  BY DEF UserEnds
<1>2. /\ asked \in BOOLEAN /\ (t \in pending => asked)
      /\ UNCHANGED <<repo, tables, lock, crossed>>
      /\ party["loop"] \in Party
  <2>1. asked = (pending # {}) \/ asked = (t \in pending)  BY <1>1
  <2>2. asked \in BOOLEAN /\ (t \in pending => asked)
    <3>1. CASE asked = (pending # {})
      <4>1. t \in pending => pending # {}  OBVIOUS
      <4> DEFINE some == pending # {}
      <4>2. (t \in pending => some) /\ asked = some /\ some \in BOOLEAN  BY <3>1, <4>1
      <4> HIDE DEF some
      <4> QED  BY <4>2
    <3>2. CASE asked = (t \in pending)
      <4> DEFINE some == t \in pending
      <4>2. (t \in pending => some) /\ asked = some /\ some \in BOOLEAN  BY <3>2
      <4> HIDE DEF some
      <4> QED  BY <4>2
    <3> QED  BY <2>1, <3>1, <3>2
  <2>3. "loop" \in Parties  BY DEF Parties
  <2> QED  BY <2>2, <2>3 DEF UserEnds, SInv, Typed
<1>3. users' \in [Tags -> 0..MaxUsers] /\ \A u \in Tags \ {t} : users'[u] = users[u]
  <2>1. users \in [Tags -> 0..MaxUsers] /\ MaxUsers \in Nat
    BY ReloadAssumption DEF SInv, Typed, TypeOK
  <2>2. users[t] - 1 \in 0..MaxUsers  BY <2>1 DEF UserEnds
  <2> QED  BY <2>1, <2>2 DEF UserEnds
<1>4. \A u \in pending : u \in busy_services => u \in busy_services' \/ asked
  BY <1>2, <1>3 DEF busy_services
<1>5. party' = [Scheduled(party, asked) EXCEPT !["loop"] = party["loop"]]
  BY <1>1, <1>2, ScheduledTyped DEF SInv
<1>6. Schedules(asked, party["loop"])  BY <1>1, <1>2, <1>3, <1>4, <1>5 DEF Schedules
<1> QED  BY <1>2, <1>6, ScheduledKeeps

LEMMA LoopEndsKeeps == ASSUME SInv, LoopEnds PROVE SInv'
<1>1. PICK asked \in BOOLEAN :
        /\ asked = (pending # {})
        /\ party' = [Scheduled(party, asked) EXCEPT !["loop"] = Idle]
        /\ missed' = missed \cup Refused(party, asked)
  BY DEF LoopEnds
<1>2. /\ UNCHANGED <<repo, tables, lock, crossed, users>>
      /\ party["loop"].at = "back"
      /\ users' \in [Tags -> 0..MaxUsers] /\ Idle \in Party
  BY IdleTyped DEF LoopEnds, SInv, Typed, TypeOK, Parties
<1>3. busy_services' = busy_services  BY <1>2 DEF busy_services
<1>4. Schedules(asked, Idle)  BY <1>1, <1>2, <1>3 DEF Schedules
<1> QED  BY <1>2, <1>4, ScheduledKeeps

-----------------------------------------------------------------------------
(* The pull, and what it finds.                                            *)

LEMMA Numbers ==
  ASSUME Typed
  PROVE  /\ tree \in Nat /\ upstream \in Nat /\ tree <= upstream
         /\ \A t \in Tags : loaded[t] \in Nat /\ stamp[t] \in Nat
         /\ \A p \in Parties : party[p] \in Party /\ party[p].old \in Nat /\ party[p].found \in Nat
BY DEF Typed, TypeOK, Commit, Party

\* The clone may move under every other party, and under the code it replaces.
LEMMA PullKeeps == ASSUME SInv, NEW p \in Parties, force_sync(p) PROVE SInv'
<1>1. /\ party[p].at = "pulling" /\ tree' \in {tree, upstream}
      /\ crossed' = crossed \cup (Unbooked \cap changed_services(tree, tree'))
      /\ party' = [party EXCEPT ![p].at = "diffing"]
      /\ UNCHANGED <<history, upstream, tables, users, lock, missed>>
  BY DEF force_sync, To
<1>2. /\ party \in [Parties -> Party] /\ tree \in Nat /\ tree' \in Nat /\ tree <= tree' /\ tree' <= upstream
      /\ \A t \in Tags : loaded[t] \in Nat /\ stamp[t] \in Nat
      /\ \A q \in Parties : party[q].old \in Nat /\ party[q].found \in Nat
  BY <1>1, Numbers DEF SInv, Typed
<1>3. /\ party'[p] = [party[p] EXCEPT !.at = "diffing"] /\ party'[p] \in Party
      /\ \A q \in Parties \ {p} : party'[q] = party[q]
      /\ party' \in [Parties -> Party]
  <2>1. party'[p] = [party[p] EXCEPT !.at = "diffing"] /\ \A q \in Parties \ {p} : party'[q] = party[q]
    BY <1>1, <1>2
  <2>2. party'[p] \in Party  BY <1>2, <2>1 DEF Party, At
  <2> QED  BY <1>1, <1>2, <2>1, <2>2
<1>4. /\ party'[p].at = "diffing" /\ party'[p].old = party[p].old /\ party'[p].wanted = party[p].wanted
      /\ party'[p].found = party[p].found /\ party'[p].todo = party[p].todo
      /\ party'[p].good = party[p].good /\ party'[p].busy = party[p].busy
  BY <1>2, <1>3 DEF Party
<1>5. \A t \in Tags : \A c \in Nat : Code(t, c)' = Code(t, c) /\ Does(t, c)' = Does(t, c)
  BY <1>1, CodeStays
<1>6. \A t \in Tags : \A c, d \in Nat : c <= d => Code(t, c) <= Code(t, d) /\ Code(t, c) \in Nat /\ Code(t, d) \in Nat
  BY CodeGrows, CodeIsLast
<1>7. Unbooked \subseteq Tags /\ Unbooked' = Unbooked
  <2>1. lock # None => lock \in Parties /\ lock # p  BY <1>1 DEF SInv, Typed, TypeOK
  <2> QED  BY <1>1, <1>3, <2>1 DEF Unbooked, Party
<1>8. \A t \in Tags \ crossed' : t \in Unbooked => Code(t, tree') = Code(t, tree)
  BY <1>1, <1>7 DEF changed_services
<1>9. Typed'
  <2>1. crossed' \subseteq Tags  BY <1>1, <1>7 DEF SInv, Typed, TypeOK
  <2>2. \A q \in Parties : (lock' = q) <=> party'[q].at \in {"importing", "booking"}
    BY <1>1, <1>3, <1>4 DEF SInv, Typed, TypeOK
  <2>3. TypeOK'
    <3>1. tree' \in 0..upstream'  BY <1>1, <1>2, Numbers DEF SInv
    <3> QED  BY <1>1, <2>1, <2>2, <3>1 DEF SInv, Typed, TypeOK, tables
  <2>4. ASSUME NEW q \in Parties PROVE Right(q)'
    <3>1. Right(q) /\ party[q].old <= tree' /\ party[q].found <= tree'
      BY <1>2 DEF SInv, Typed, Right
    <3>2. CASE q = p  BY <1>4, <3>1, <3>2 DEF Right
    <3>3. CASE q # p  BY <1>3, <3>1, <3>3 DEF Right
    <3> QED  BY <3>2, <3>3
  <2>5. p # "task" /\ "task" \in Parties  BY <1>1 DEF SInv, Typed, Parties
  <2> QED  BY <1>1, <1>3, <2>3, <2>4, <2>5 DEF SInv, Typed
<1>10. NothingForgotten'
  <2> SUFFICES ASSUME NEW t \in Tags, t \notin crossed', loaded[t] # Code(t, tree)'
               PROVE  t \in pending \cup failed \/ InHand(t)'
    BY <1>1 DEF NothingForgotten, tables
  <2>1. t \notin crossed /\ loaded[t] # Code(t, tree')  BY <1>1, <1>2, <1>5
  <2>2. CASE Code(t, tree') = Code(t, tree)
    <3>1. t \in pending \cup failed \/ \E q \in Parties : Hand(q, t)
      BY <2>1, <2>2, InHands DEF SInv, NothingForgotten
    <3>2. ASSUME NEW q \in Parties, Hand(q, t) PROVE Hand(q, t)'
      <4>1. q # p /\ party'[q] = party[q]  BY <1>1, <1>3, <3>2 DEF Hand
      <4>2. t \in changed_services(party[q].old, tree) => t \in changed_services(party[q].old, tree)'
        BY <1>2, <1>5, <2>2, <4>1 DEF changed_services
      <4> QED  BY <3>2, <4>1, <4>2 DEF Hand
    <3> QED  BY <3>1, <3>2 DEF InHand, Hand
  <2>3. CASE Code(t, tree') # Code(t, tree)
    <3>1. party[p].old <= tree  BY DEF SInv, Typed, Right
    <3>2. Code(t, party[p].old) <= Code(t, tree) /\ Code(t, tree) <= Code(t, tree')
      BY <1>2, <1>6, <3>1
    <3>3. Code(t, party[p].old) # Code(t, tree')
      BY <1>2, <1>6, <2>3, <3>2, CodeIsLast
    <3>4. t \in changed_services(party[p].old, tree)'
      BY <1>2, <1>4, <1>5, <3>3 DEF changed_services
    <3> QED  BY <1>4, <3>4 DEF InHand
  <2> QED  BY <2>2, <2>3
<1>11. Booking'
  BY <1>1, <1>2, <1>5, <1>7, <1>8 DEF SInv, Booking, tables
<1>12. Stamped'
  <2>1. Good' = Good /\ Good \subseteq Unbooked
    <3>1. lock # None => lock \in Parties /\ lock # p /\ party[lock].at \in {"importing", "booking"}
      BY <1>1 DEF SInv, Typed, TypeOK
    <3> QED  BY <1>1, <1>3, <3>1 DEF Good, Unbooked, SInv, Typed, Right
  <2> QED  BY <1>1, <1>2, <1>5, <1>8, <2>1 DEF SInv, Stamped, tables
<1>13. Awaited'
  <2>1. \A q \in Parties : \A t \in Tags : Comes(q, t) => Comes(q, t)'
    BY <1>1, <1>3 DEF Comes
  <2>2. party'["task"].at = party["task"].at \/ p = "task"  BY <1>3 DEF Parties
  <2>3. party'["loop"].at # "idle" \/ party'["loop"] = party["loop"]  BY <1>3, <1>4 DEF Parties
  <2>4. busy_services' = busy_services /\ pending \subseteq Tags
    BY <1>1 DEF busy_services, SInv, Typed, TypeOK
  <2>5. p # "task"  BY <1>1 DEF SInv, Typed
  <2> QED  BY <1>1, <2>1, <2>2, <2>3, <2>4, <2>5 DEF SInv, Awaited, tables
<1> QED  BY <1>9, <1>10, <1>11, <1>12, <1>13 DEF SInv

\* What Code says of a clone that stays.
LEMMA SameClone ==
  ASSUME Typed, UNCHANGED repo
  PROVE  /\ \A t \in Tags : Code(t, tree)' = Code(t, tree)
         /\ \A t \in Tags : \A c \in Nat : Code(t, c)' = Code(t, c) /\ Does(t, c)' = Does(t, c)
         /\ \A c \in Nat : changed_services(c, tree)' = changed_services(c, tree)
<1>1. history' = history /\ tree' = tree /\ tree \in Nat  BY Numbers DEF repo
<1>2. \A t \in Tags : \A c \in Nat : Code(t, c)' = Code(t, c) /\ Does(t, c)' = Does(t, c)
  BY <1>1, CodeStays
<1>3. \A t \in Tags : Code(t, tree)' = Code(t, tree)  BY <1>1, <1>2
<1> QED  BY <1>1, <1>2, <1>3 DEF changed_services

\* The other parties have in hand what they had.
LEMMA OthersHold ==
  ASSUME Typed, UNCHANGED repo, NEW p \in Parties, Only(p), NEW t \in Tags,
         InHand(t), ~Hand(p, t)
  PROVE  InHand(t)'
<1>1. PICK q \in Parties : Hand(q, t)  BY InHands
<1>2. q # p /\ party'[q] = party[q]  BY <1>1 DEF Only
<1>3. party[q].old \in Nat  BY Numbers
<1>4. Hand(q, t)'
  BY <1>1, <1>2, <1>3, SameClone DEF Hand
<1> QED  BY <1>4 DEF InHand, Hand

LEMMA DiffKeeps == ASSUME SInv, NEW p \in Parties, Diff(p) PROVE SInv'
<1>1. /\ party[p].at = "diffing"
      /\ party' = [party EXCEPT ![p].wanted = changed_services(party[p].old, tree),
                                ![p].at = "staging", ![p].old = 0]
      /\ UNCHANGED <<repo, tables, users, lock, crossed, missed>>
  BY DEF Diff
<1>2. party \in [Parties -> Party] /\ changed_services(party[p].old, tree) \in SUBSET Tags
  BY DEF SInv, Typed, changed_services
<1>3. Only(p)  BY <1>1, <1>2 DEF Only
<1>4. /\ party'[p] \in Party /\ party'[p].at = "staging" /\ party'[p].old = 0
      /\ party'[p].wanted = changed_services(party[p].old, tree)
      /\ party'[p].found = party[p].found
  BY <1>1, <1>2 DEF Party, At
<1>5. /\ \A t \in Tags : Code(t, tree)' = Code(t, tree)
      /\ \A t \in Tags : \A c \in Nat : Code(t, c)' = Code(t, c) /\ Does(t, c)' = Does(t, c)
      /\ UNCHANGED <<history, upstream, tree, loaded, stamp, pending, failed>>
      /\ tree \in Nat /\ \A t \in Tags : loaded[t] \in Nat /\ stamp[t] \in Nat
  BY <1>1, SameClone, Numbers DEF SInv, repo, tables
<1>6. lock # p /\ (lock # None => lock \in Parties)
  BY <1>1 DEF SInv, Typed, TypeOK
<1>7. Typed'
  <2>1. party' \in [Parties -> Party]  BY <1>2, <1>3, <1>4 DEF Only
  <2>2. \A q \in Parties : (lock' = q) <=> party'[q].at \in {"importing", "booking"}
    BY <1>1, <1>3, <1>4 DEF SInv, Typed, TypeOK, Only
  <2>3. TypeOK'  BY <1>1, <1>5, <2>2 DEF SInv, Typed, TypeOK
  <2>4. \A q \in Parties : Right(q)'
    BY <1>3, <1>4, <1>5 DEF SInv, Typed, Right, Only
  <2>5. p # "task" /\ "task" \in Parties  BY <1>1 DEF SInv, Typed, Parties
  <2> QED  BY <1>1, <1>3, <2>1, <2>3, <2>4, <2>5 DEF SInv, Typed, Only
<1>8. NothingForgotten'
  <2> SUFFICES ASSUME NEW t \in Tags, InHand(t) PROVE InHand(t)'
    BY <1>1, <1>5 DEF SInv, NothingForgotten
  <2>1. CASE Hand(p, t)
    <3>1. t \in changed_services(party[p].old, tree)  BY <1>1, <2>1 DEF Hand
    <3> QED  BY <1>4, <3>1 DEF InHand
  <2>2. CASE ~Hand(p, t)  BY <1>1, <1>3, <2>2, OthersHold DEF SInv
  <2> QED  BY <2>1, <2>2
<1>9. Unbooked' = Unbooked /\ Unbooked \subseteq Tags
  BY <1>1, <1>3, <1>6 DEF Unbooked, Only, SInv, Typed, Party
<1>10. Booking'  BY <1>1, <1>5, <1>9 DEF SInv, Booking
<1>11. Stamped'
  <2>1. Good' = Good  BY <1>1, <1>3, <1>6 DEF Good, Only
  <2> QED  BY <1>1, <1>5, <2>1 DEF SInv, Stamped
<1>12. Awaited'
  <2>1. \A q \in Parties, t \in Tags : Comes(q, t) => Comes(q, t)'
    BY <1>1, <1>3 DEF Comes, Only
  <2>2. party'["task"] = party["task"]  BY <1>1, <1>3 DEF Only, Parties, SInv, Typed
  <2>3. party'["loop"].at # "idle" \/ party'["loop"] = party["loop"]  BY <1>3, <1>4 DEF Parties, Only
  <2>4. busy_services' = busy_services /\ pending \subseteq Tags
    BY <1>1 DEF busy_services, SInv, Typed, TypeOK
  <2> QED  BY <1>1, <1>5, <2>1, <2>2, <2>3, <2>4 DEF SInv, Awaited
<1> QED  BY <1>7, <1>8, <1>10, <1>11, <1>12 DEF SInv

\* What was busy is staged, the others are wanted.
LEMMA StageKeeps == ASSUME SInv, NEW p \in Parties, Stage(p) PROVE SInv'
<1> DEFINE deferred == party[p].wanted \cap party[p].busy
           tags == party[p].wanted \ party[p].busy
<1>1. /\ party[p].at = "staging"
      /\ pending' = pending \cup deferred
      /\ party' = [party EXCEPT ![p] = Reload(p, tags)]
      /\ missed' = IF p = "post" THEN missed \cup (deferred \ busy_services) ELSE missed
      /\ UNCHANGED <<repo, loaded, stamp, failed, users, lock, crossed>>
  BY DEF Stage, SInv, Typed
<1>2. party \in [Parties -> Party] /\ tags \in SUBSET Tags /\ deferred \in SUBSET Tags
  BY DEF SInv, Typed, Party
<1>3. \A t \in party[p].wanted : t \in deferred \/ t \in tags  OBVIOUS
<1> HIDE DEF deferred, tags
<1>4. Only(p) /\ party'[p] = Reload(p, tags)  BY <1>1, <1>2 DEF Only
<1>5. /\ party'[p] \in Party /\ party'[p].at \in {"back", "locking"}
      /\ party'[p].old = 0 /\ party'[p].found = 0
      /\ tags # {} => party'[p].at = "locking" /\ party'[p].wanted = tags
  BY <1>2, <1>4, ReloadTyped DEF SInv
<1>6. /\ \A t \in Tags : Code(t, tree)' = Code(t, tree)
      /\ \A t \in Tags : \A c \in Nat : Code(t, c)' = Code(t, c) /\ Does(t, c)' = Does(t, c)
      /\ UNCHANGED <<history, upstream, tree>>
      /\ tree \in Nat /\ \A t \in Tags : loaded[t] \in Nat /\ stamp[t] \in Nat
  BY <1>1, SameClone, Numbers DEF SInv, repo
<1>7. lock # p /\ (lock # None => lock \in Parties)  BY <1>1 DEF SInv, Typed, TypeOK
<1>8. p # "task" /\ "task" \in Parties  BY <1>1 DEF SInv, Typed, Parties
<1>9. Typed'
  <2>1. party' \in [Parties -> Party]  BY <1>1, <1>2, <1>4, <1>5
  <2>2. \A q \in Parties : (lock' = q) <=> party'[q].at \in {"importing", "booking"}
    BY <1>1, <1>4, <1>5 DEF SInv, Typed, TypeOK, Only
  <2>3. pending' \subseteq Tags /\ missed' \subseteq Tags
    BY <1>1, <1>2 DEF SInv, Typed, TypeOK
  <2>4. TypeOK'  BY <1>1, <1>6, <2>2, <2>3 DEF SInv, Typed, TypeOK
  <2>5. \A q \in Parties : Right(q)'
    BY <1>4, <1>5, <1>6 DEF SInv, Typed, Right, Only
  <2> QED  BY <1>1, <1>4, <1>8, <2>1, <2>4, <2>5 DEF SInv, Typed, Only
<1>10. NothingForgotten'
  <2> SUFFICES ASSUME NEW t \in Tags, InHand(t) PROVE InHand(t)' \/ t \in pending'
    BY <1>1, <1>6 DEF SInv, NothingForgotten
  <2>1. CASE Hand(p, t)
    <3>1. t \in party[p].wanted  BY <1>1, <2>1 DEF Hand
    <3>2. t \in deferred \/ t \in tags  BY <1>3, <3>1
    <3> QED  BY <1>1, <1>5, <3>2 DEF InHand
  <2>2. CASE ~Hand(p, t)  BY <1>1, <1>4, <2>2, OthersHold DEF SInv
  <2> QED  BY <2>1, <2>2
<1>11. Unbooked' = Unbooked /\ Unbooked \subseteq Tags
  BY <1>1, <1>4, <1>7 DEF Unbooked, Only, SInv, Typed, Party
<1>12. Booking'  BY <1>1, <1>6, <1>11 DEF SInv, Booking
<1>13. Stamped'
  <2>1. Good' = Good  BY <1>1, <1>4, <1>7 DEF Good, Only
  <2> QED  BY <1>1, <1>6, <2>1 DEF SInv, Stamped
<1>14. Awaited'
  <2>1. \A q \in Parties, t \in Tags : Comes(q, t) => Comes(q, t)'
    BY <1>1, <1>4 DEF Comes, Only
  <2>2. party'["task"] = party["task"]  BY <1>4, <1>8 DEF Only
  <2>3. party'["loop"].at # "idle" \/ (p # "loop" /\ party'["loop"] = party["loop"])
    BY <1>4, <1>5 DEF Parties, Only
  <2>4. busy_services' = busy_services /\ pending \subseteq Tags /\ missed \subseteq missed'
    BY <1>1 DEF busy_services, SInv, Typed, TypeOK
  <2>5. p = "loop" \/ deferred \subseteq busy_services \cup missed'
    BY <1>1, <1>8 DEF Parties
  <2>6. ASSUME NEW t \in pending
        PROVE  \/ t \in busy_services' \cup missed'
               \/ party'["task"].at = "due" \/ party'["loop"].at # "idle"
               \/ \E q \in Parties : Comes(q, t)'
    BY <2>1, <2>2, <2>3, <2>4 DEF SInv, Awaited
  <2> QED  BY <1>1, <2>3, <2>4, <2>5, <2>6 DEF Awaited
<1> QED  BY <1>9, <1>10, <1>12, <1>13, <1>14 DEF SInv

-----------------------------------------------------------------------------
(* The reload itself.                                                      *)

\* The errors of what it wants are forgotten, but it is all to do.
LEMMA LockKeeps == ASSUME SInv, NEW p \in Parties, Lock(p) PROVE SInv'
<1>1. /\ party[p].at = "locking" /\ lock = None /\ lock' = p
      /\ failed' = failed \ party[p].wanted
      /\ party' = [party EXCEPT ![p].at = "importing", ![p].todo = party[p].wanted,
                                ![p].found = tree, ![p].good = {}]
      /\ UNCHANGED <<repo, loaded, stamp, pending, users, crossed, missed>>
  BY DEF Lock
<1>2. party \in [Parties -> Party] /\ tree \in Nat /\ None \notin Parties
  BY Numbers, ReloadAssumption DEF SInv, Typed
<1>3. Only(p)  BY <1>1, <1>2 DEF Only
<1>4. /\ party'[p] \in Party /\ party'[p].at = "importing" /\ party'[p].old = party[p].old
      /\ party'[p].wanted = party[p].wanted /\ party'[p].todo = party[p].wanted
      /\ party'[p].good = {} /\ party'[p].found = tree
  BY <1>1, <1>2 DEF Party, At
<1>5. /\ \A t \in Tags : Code(t, tree)' = Code(t, tree)
      /\ \A t \in Tags : \A c \in Nat : Code(t, c)' = Code(t, c) /\ Does(t, c)' = Does(t, c)
      /\ UNCHANGED <<history, upstream, tree>>
      /\ \A t \in Tags : loaded[t] \in Nat /\ stamp[t] \in Nat
  BY <1>1, SameClone, Numbers DEF SInv, repo
<1>6. Typed'
  <2>1. party' \in [Parties -> Party]  BY <1>1, <1>2, <1>3, <1>4 DEF Only
  <2>2. \A q \in Parties : (lock' = q) <=> party'[q].at \in {"importing", "booking"}
    BY <1>1, <1>2, <1>3, <1>4 DEF SInv, Typed, TypeOK, Only
  <2>3. TypeOK'  BY <1>1, <1>5, <2>2 DEF SInv, Typed, TypeOK
  <2>4. \A q \in Parties : Right(q)'
    BY <1>2, <1>3, <1>4, <1>5 DEF SInv, Typed, Right, Only
  <2>5. party'["task"].at \notin {"pulling", "diffing", "staging"}
    BY <1>3, <1>4 DEF SInv, Typed, Only, Parties
  <2> QED  BY <1>1, <2>1, <2>3, <2>4, <2>5 DEF SInv, Typed
<1>7. NothingForgotten'
  <2> SUFFICES ASSUME NEW t \in Tags, t \notin crossed, loaded[t] # Code(t, tree)
               PROVE  t \in pending \cup failed' \/ InHand(t)'
    BY <1>1, <1>5 DEF NothingForgotten
  <2>1. CASE t \in party[p].wanted
    BY <1>4, <2>1 DEF InHand
  <2>2. CASE t \notin party[p].wanted
    <3>1. t \in pending \cup failed' \/ InHand(t)
      BY <1>1, <2>2 DEF SInv, NothingForgotten
    <3>2. ~Hand(p, t)  BY <1>1, <2>2 DEF Hand
    <3> QED  BY <1>1, <1>3, <3>1, <3>2, OthersHold DEF SInv
  <2> QED  BY <2>1, <2>2
<1>8. Booking'  BY <1>1, <1>2, <1>4 DEF Booking, Unbooked
<1>9. Stamped'
  <2>1. Good = {} /\ Good' = {}  BY <1>1, <1>2, <1>4 DEF Good
  <2> QED  BY <1>1, <1>5, <2>1 DEF SInv, Stamped
<1>10. Awaited'
  <2>1. \A q \in Parties, t \in Tags : Comes(q, t) => Comes(q, t)'
    BY <1>1, <1>3, <1>4 DEF Comes, Only
  <2>2. party["task"].at = "due" => party'["task"] = party["task"]  BY <1>1, <1>3 DEF Only, Parties
  <2>3. party'["loop"].at # "idle" \/ party'["loop"] = party["loop"]  BY <1>3, <1>4 DEF Parties, Only
  <2>4. busy_services' = busy_services /\ pending \subseteq Tags
    BY <1>1 DEF busy_services, SInv, Typed, TypeOK
  <2> QED  BY <1>1, <2>1, <2>2, <2>3, <2>4 DEF SInv, Awaited
<1> QED  BY <1>6, <1>7, <1>8, <1>9, <1>10 DEF SInv

LEMMA ImportedTo ==
  ASSUME party \in [Parties -> Party], NEW p \in Parties, NEW t \in Tags, NEW good \in SUBSET {t},
         Imported(p, t, good), party[p].at = "importing"
  PROVE  /\ party'[p] \in Party /\ party'[p].old = party[p].old /\ party'[p].wanted = party[p].wanted
         /\ party'[p].todo = party[p].todo \ {t} /\ party'[p].good = party[p].good \cup good
         /\ party'[p].at = IF party[p].todo = {t} THEN "booking" ELSE "importing"
         /\ party'[p].found \in {0, party[p].found}
<1> DEFINE todo == party[p].todo \ {t}
           all == party[p].good \cup good
           found == IF party[p].todo = {t} THEN 0 ELSE party[p].found
           at == IF party[p].todo = {t} THEN "booking" ELSE "importing"
<1>1. party[p] \in Party  OBVIOUS
<1>2. /\ todo \in SUBSET Tags /\ all \in SUBSET Tags /\ found \in Nat /\ at \in At
      /\ found \in {0, party[p].found}
  BY <1>1 DEF Party, At
<1>3. party'[p] = [party[p] EXCEPT !.todo = todo, !.good = all, !.found = found, !.at = at]
  BY <1>1 DEF Imported, Party
<1> HIDE DEF todo, all, found, at
<1>4. /\ party'[p] \in Party /\ party'[p].old = party[p].old /\ party'[p].wanted = party[p].wanted
      /\ party'[p].todo = todo /\ party'[p].good = all /\ party'[p].at = at /\ party'[p].found = found
  BY <1>1, <1>2, <1>3 DEF Party
<1> QED  BY <1>2, <1>4 DEF todo, all, at

LEMMA ImportKeeps == ASSUME SInv, NEW p \in Parties, NEW t \in Tags, Import(p, t) PROVE SInv'
<1> DEFINE gained == party'[p].good \ party[p].good
<1>1. /\ party[p].at = "importing" /\ t \in party[p].todo
      /\ UNCHANGED <<repo, stamp, pending, users, lock, missed>>
      /\ \E good \in SUBSET {t} : Imported(p, t, good)
  BY DEF Import
<1>2. /\ party \in [Parties -> Party] /\ tree \in Nat /\ party[p] \in Party /\ Right(p)
      /\ lock = p /\ None \notin Parties
      /\ \A u \in Tags : loaded[u] \in Nat /\ stamp[u] \in Nat
  BY <1>1, Numbers, ReloadAssumption DEF SInv, Typed, TypeOK
<1>3. PICK good \in SUBSET {t} : Imported(p, t, good)  BY <1>1
<1>4. Only(p)  BY <1>2, <1>3 DEF Only, Imported
<1>5. /\ party'[p] \in Party /\ party'[p].old = party[p].old /\ party'[p].wanted = party[p].wanted
      /\ party'[p].todo = party[p].todo \ {t} /\ party'[p].good = party[p].good \cup good
      /\ party'[p].at = IF party[p].todo = {t} THEN "booking" ELSE "importing"
      /\ party'[p].found \in {0, party[p].found}
  BY <1>1, <1>2, <1>3, ImportedTo
<1>6. /\ \A u \in Tags : Code(u, tree)' = Code(u, tree)
      /\ \A u \in Tags : \A c \in Nat : Code(u, c)' = Code(u, c) /\ Does(u, c)' = Does(u, c)
      /\ UNCHANGED <<history, upstream, tree>>
  BY <1>1, SameClone DEF SInv, repo
<1>7. /\ Code(t, tree) \in 0..tree /\ Code(t, party[p].found) \in 0..tree
      /\ Does(t, Code(t, party[p].found)) = Does(t, party[p].found)
  <2>1. party[p].found \in Nat /\ party[p].found <= tree  BY <1>2 DEF Right, Party
  <2>2. Code(t, party[p].found) \in 0..party[p].found  BY <2>1, CodeIsLast
  <2> QED  BY <1>2, <2>1, <2>2, CodeIsLast, CodeOfCode
\* What the three ways have in common.
<1>8. /\ loaded' \in [Tags -> Commit(history)] /\ \A u \in Tags \ {t} : loaded'[u] = loaded[u]
      /\ crossed' \subseteq Tags /\ crossed' \ {t} = crossed \ {t}
      /\ failed \subseteq failed' /\ failed' \subseteq Tags
      /\ t \notin crossed' => loaded'[t] = Code(t, tree) \/ t \in failed'
      /\ t \notin crossed' =>
           \/ Does(t, loaded'[t]) = "goes" /\ t \notin party'[p].good
           \/ t \in party'[p].good /\ loaded'[t] = Code(t, tree)
           \/ loaded'[t] = loaded[t] /\ t \notin crossed /\ t \notin party'[p].good
  <2>1. 0..tree \subseteq Commit(history)
    <3>1. Len(history) \in Nat  BY ReloadAssumption DEF SInv, Typed, TypeOK
    <3> QED  BY <1>2, <3>1 DEF SInv, Typed, TypeOK, Commit
  <2>2. /\ loaded \in [Tags -> Commit(history)] /\ crossed \subseteq Tags /\ failed \subseteq Tags
    BY DEF SInv, Typed, TypeOK
  <2>6. t \notin party[p].good /\ \A new \in SUBSET {t} : Imported(p, t, new) => party'[p].good = party[p].good \cup new
    BY <1>1, <1>2, ImportedTo DEF Right
  <2>3. CASE /\ Does(t, party[p].found) = "goes"
             /\ loaded' = [loaded EXCEPT ![t] = Code(t, party[p].found)]
             /\ crossed' = IF Code(t, tree) = Code(t, party[p].found) THEN crossed \ {t} ELSE crossed \cup {t}
             /\ failed' = failed
             /\ Imported(p, t, {})
    BY <1>7, <2>1, <2>2, <2>3, <2>6
  <2>4. CASE /\ loaded' = [loaded EXCEPT ![t] = Code(t, tree)]
             /\ crossed' = crossed \ {t} /\ failed' = failed
             /\ Imported(p, t, {t})
    <3>1. t \in party'[p].good  BY <2>4, <2>6
    <3> QED  BY <1>7, <2>1, <2>2, <2>4, <3>1
  <2>5. CASE failed' = failed \cup {t} /\ UNCHANGED <<loaded, crossed>> /\ Imported(p, t, {})
    BY <2>2, <2>5, <2>6
  <2> QED  BY <2>3, <2>4, <2>5 DEF Import
<1>9. Typed'
  <2>1. party' \in [Parties -> Party]  BY <1>2, <1>4, <1>5 DEF Only
  <2>2. \A q \in Parties : (lock' = q) <=> party'[q].at \in {"importing", "booking"}
    BY <1>1, <1>2, <1>4, <1>5 DEF SInv, Typed, TypeOK, Only
  <2>3. TypeOK'  BY <1>1, <1>6, <1>8, <2>2 DEF SInv, Typed, TypeOK
  <2>4. ASSUME NEW q \in Parties PROVE Right(q)'
    <3>1. CASE q = p
      BY <1>1, <1>2, <1>3, <1>5, <1>6, <3>1 DEF Right
    <3>2. CASE q # p  BY <1>4, <1>6, <3>2 DEF SInv, Typed, Right, Only
    <3> QED  BY <3>1, <3>2
  <2>5. party'["task"].at \notin {"pulling", "diffing", "staging"}
    BY <1>4, <1>5 DEF SInv, Typed, Only, Parties
  <2> QED  BY <1>1, <2>1, <2>3, <2>4, <2>5 DEF SInv, Typed
<1>10. NothingForgotten'
  <2> SUFFICES ASSUME NEW u \in Tags, u \notin crossed', loaded'[u] # Code(u, tree)
               PROVE  u \in pending \cup failed' \/ InHand(u)'
    BY <1>1, <1>6 DEF NothingForgotten
  <2>1. CASE u = t  BY <1>8, <2>1
  <2>2. CASE u # t
    <3>1. u \notin crossed /\ loaded[u] # Code(u, tree)  BY <1>8, <2>2
    <3>2. u \in pending \cup failed \/ InHand(u)  BY <3>1 DEF SInv, NothingForgotten
    <3>3. CASE Hand(p, u)
      <4>1. u \in party[p].todo  BY <1>1, <3>3 DEF Hand
      <4>2. party'[p].at = "importing" /\ u \in party'[p].todo  BY <1>5, <2>2, <4>1
      <4> QED  BY <4>2 DEF InHand
    <3>4. CASE ~Hand(p, u)
      BY <1>1, <1>4, <1>8, <3>2, <3>4, OthersHold DEF SInv
    <3> QED  BY <3>3, <3>4
  <2> QED  BY <2>1, <2>2
<1>11. Booking'
  <2> SUFFICES ASSUME NEW u \in Unbooked', u \notin crossed'
               PROVE  loaded'[u] = Code(u, tree) \/ u \in failed'
    <3>1. Unbooked' \subseteq Tags  BY <1>1, <1>2, <1>5 DEF Unbooked, Party
    <3> QED  BY <1>6, <3>1 DEF Booking
  <2>1. Unbooked' = party[p].wanted \ (party[p].todo \ {t})  BY <1>1, <1>2, <1>5 DEF Unbooked
  <2>2. CASE u = t  BY <1>8, <2>2
  <2>3. CASE u # t
    <3>1. u \in Unbooked  BY <1>2, <2>1, <2>3 DEF Unbooked
    <3>2. u \in Tags /\ u \notin crossed  BY <1>2, <1>8, <2>3, <3>1 DEF Unbooked, Party
    <3> QED  BY <1>8, <2>3, <3>1, <3>2 DEF SInv, Booking
  <2> QED  BY <2>2, <2>3
<1>12. Stamped'
  <2> SUFFICES ASSUME NEW u \in Tags, u \notin crossed'
               PROVE  /\ \/ Does(u, loaded'[u]) = "goes"
                         \/ Code(u, stamp[u]) = loaded'[u]
                         \/ u \in party'[p].good
                      /\ u \in party'[p].good => loaded'[u] = Code(u, tree)
    <3>1. \A u \in Tags : loaded'[u] \in Nat  BY <1>8 DEF Commit
    <3>2. Good' = party'[p].good  BY <1>1, <1>2 DEF Good
    <3> QED  BY <1>1, <1>2, <1>6, <3>1, <3>2 DEF Stamped
  <2>1. Good = party[p].good  BY <1>2 DEF Good
  <2>2. CASE u # t
    BY <1>3, <1>5, <1>8, <2>1, <2>2 DEF SInv, Stamped
  <2>3. CASE u = t
    BY <1>1, <1>2, <1>5, <1>8, <2>1, <2>3 DEF SInv, Stamped, Right
  <2> QED  BY <2>2, <2>3
<1>13. Awaited'
  <2>1. \A q \in Parties, u \in Tags : Comes(q, u) => Comes(q, u)'
    BY <1>1, <1>4, <1>5 DEF Comes, Only
  <2>2. party["task"].at = "due" => party'["task"] = party["task"]  BY <1>1, <1>4 DEF Only, Parties
  <2>3. party'["loop"].at # "idle" \/ party'["loop"] = party["loop"]  BY <1>4, <1>5 DEF Parties, Only
  <2>4. busy_services' = busy_services /\ pending \subseteq Tags
    BY <1>1 DEF busy_services, SInv, Typed, TypeOK
  <2> QED  BY <1>1, <2>1, <2>2, <2>3, <2>4 DEF SInv, Awaited
<1> QED  BY <1>9, <1>10, <1>11, <1>12, <1>13 DEF SInv

\* The bookkeeping forgets only what was imported, or has failed.
LEMMA BookKeeps == ASSUME SInv, NEW p \in Parties, Book(p) PROVE SInv'
<1>1. /\ party[p].at = "booking"
      /\ pending' = pending \ party[p].wanted /\ missed' = missed \ party[p].wanted
      /\ stamp' = [t \in Tags |-> IF t \in party[p].good THEN tree ELSE stamp[t]]
      /\ lock' = None
      /\ party' = [party EXCEPT ![p] = Back(p)]
      /\ UNCHANGED <<repo, loaded, failed, users, crossed>>
  BY DEF Book, Booked
<1>2. /\ party \in [Parties -> Party] /\ tree \in Nat /\ party[p] \in Party /\ Right(p)
      /\ lock = p /\ None \notin Parties
      /\ \A t \in Tags : loaded[t] \in Nat /\ stamp[t] \in Nat
  BY <1>1, Numbers, ReloadAssumption DEF SInv, Typed, TypeOK
<1>3. Only(p) /\ party'[p] = Back(p)  BY <1>1, <1>2 DEF Only
<1>4. party'[p] \in Party /\ party'[p].at = "back" /\ party'[p].old = 0 /\ party'[p].found = 0
  BY <1>3, ReloadTyped DEF SInv
<1>5. /\ \A t \in Tags : Code(t, tree)' = Code(t, tree)
      /\ \A t \in Tags : \A c \in Nat : Code(t, c)' = Code(t, c) /\ Does(t, c)' = Does(t, c)
      /\ UNCHANGED <<history, upstream, tree>>
  BY <1>1, SameClone DEF SInv, repo
<1>6. Unbooked = party[p].wanted  BY <1>1, <1>2 DEF Unbooked, Right
<1>7. \A t \in Tags \ crossed : t \in party[p].wanted => loaded[t] = Code(t, tree) \/ t \in failed
  BY <1>6 DEF SInv, Booking
<1>8. Typed'
  <2>1. party' \in [Parties -> Party]  BY <1>1, <1>2, <1>3, <1>4
  <2>2. \A q \in Parties : (lock' = q) <=> party'[q].at \in {"importing", "booking"}
    BY <1>1, <1>2, <1>3, <1>4 DEF SInv, Typed, TypeOK, Only
  <2>3. stamp' \in [Tags -> Commit(history)]
    <3>1. Len(history) \in Nat  BY ReloadAssumption DEF SInv, Typed, TypeOK
    <3>2. tree \in Commit(history)  BY <1>2, <3>1 DEF SInv, Typed, TypeOK, Commit
    <3> QED  BY <1>1, <3>2 DEF SInv, Typed, TypeOK
  <2>4. TypeOK'  BY <1>1, <1>5, <2>2, <2>3 DEF SInv, Typed, TypeOK
  <2>5. \A q \in Parties : Right(q)'
    BY <1>2, <1>3, <1>4, <1>5 DEF SInv, Typed, Right, Only
  <2>6. party'["task"].at \notin {"pulling", "diffing", "staging"}
    BY <1>3, <1>4 DEF SInv, Typed, Only, Parties
  <2> QED  BY <1>1, <2>1, <2>4, <2>5, <2>6 DEF SInv, Typed
<1>9. NothingForgotten'
  <2> SUFFICES ASSUME NEW t \in Tags, t \notin crossed, loaded[t] # Code(t, tree)
               PROVE  t \in pending' \cup failed \/ InHand(t)'
    BY <1>1, <1>5 DEF NothingForgotten
  <2>1. t \in pending' \cup failed \/ InHand(t)
    BY <1>1, <1>7 DEF SInv, NothingForgotten
  <2>2. ~Hand(p, t)  BY <1>1 DEF Hand
  <2> QED  BY <1>1, <1>3, <2>1, <2>2, OthersHold DEF SInv
<1>10. Booking'  BY <1>1 DEF Booking, Unbooked
<1>11. Stamped'
  <2>1. Good = party[p].good /\ Good' = {}  BY <1>1, <1>2 DEF Good
  <2> SUFFICES ASSUME NEW t \in Tags, t \notin crossed
               PROVE  Does(t, loaded[t]) = "goes" \/ Code(t, stamp'[t]) = loaded[t]
    <3>1. \A t \in Tags : stamp'[t] \in Nat  BY <1>1, <1>2
    <3> QED  BY <1>1, <1>2, <1>5, <2>1, <3>1 DEF Stamped
  <2>2. CASE t \in party[p].good
    BY <1>1, <2>1, <2>2 DEF SInv, Stamped
  <2>3. CASE t \notin party[p].good
    BY <1>1, <2>1, <2>3 DEF SInv, Stamped
  <2> QED  BY <2>2, <2>3
<1>12. Awaited'
  <2>1. \A q \in Parties : \A t \in pending' : Comes(q, t) => Comes(q, t)'
    BY <1>1, <1>3 DEF Comes, Only
  <2>2. party["task"].at = "due" => party'["task"] = party["task"]  BY <1>1, <1>3 DEF Only, Parties
  <2>3. party'["loop"].at # "idle" \/ party'["loop"] = party["loop"]  BY <1>3, <1>4 DEF Parties, Only
  <2>4. busy_services' = busy_services /\ pending' \cap missed \subseteq missed'
    BY <1>1 DEF busy_services
  <2> QED  BY <1>1, <2>1, <2>2, <2>3, <2>4 DEF SInv, Awaited
<1> QED  BY <1>8, <1>9, <1>10, <1>11, <1>12 DEF SInv

-----------------------------------------------------------------------------
\* The bookkeeping invariant: what is behind is staged, failed or in hand, what
\* is stamped is right or about to be, and what is staged has a reload to come.
THEOREM Invariance == Spec => []SInv
<1>1. Init => SInv
  <2> SUFFICES ASSUME Init PROVE SInv  OBVIOUS
  <2>1. \A p \in Parties : party[p] = Idle  BY DEF Init
  <2>2. Idle \in Party /\ Idle.at = "idle" /\ Idle.old = 0 /\ Idle.found = 0  BY IdleTyped
  <2>3. \A t \in Tags : Code(t, 0) = 0
    <3>1. 0 \in Nat /\ \A k \in 0..0 : k = 0  OBVIOUS
    <3> QED  BY <3>1, CodeIsLast
  <2>4. Typed
    <3>1. Len(history) \in Nat  BY ReloadAssumption DEF Init
    <3>2. TypeOK
      BY <2>1, <2>2, <3>1, ReloadAssumption DEF Init, TypeOK, Commit
    <3>3. "task" \in Parties  BY DEF Parties
    <3>4. \A p \in Parties : Right(p)  BY <2>1, <2>2 DEF Right, Init
    <3>5. party \in [Parties -> Party]  BY <2>2 DEF Init
    <3> QED  BY <2>1, <2>2, <3>2, <3>3, <3>4, <3>5 DEF Typed, Init
  <2>5. NothingForgotten /\ Stamped  BY <2>3 DEF Init, NothingForgotten, Stamped, Good
  <2>6. Booking /\ Awaited  BY DEF Init, Booking, Unbooked, Awaited
  <2> QED  BY <2>4, <2>5, <2>6 DEF SInv
<1>2. SInv /\ [Next]_vars => SInv'
  <2> SUFFICES ASSUME SInv, [Next]_vars PROVE SInv'  OBVIOUS
  <2>1. CASE Push  BY <2>1, PushKeeps
  <2>2. CASE \E t \in Tags : UserBegins(t) \/ UserEnds(t)
    BY <2>2, UserBeginsKeeps, UserEndsKeeps
  <2>3. CASE LoopWakes \/ TaskRuns \/ refresh_services_handler \/ LoopGoesOn \/ LoopEnds
    BY <2>3, LoopWakesKeeps, TaskRunsKeeps, PostKeeps, LoopGoesOnKeeps, LoopEndsKeeps
  <2>4. ASSUME NEW p \in Parties, Work(p) PROVE SInv'
    BY <2>4, ApplyKeeps, PullKeeps, DiffKeeps, StageKeeps, LockKeeps, ImportKeeps, BookKeeps,
       OthersEndKeeps DEF Work
  <2>5. CASE UNCHANGED vars
    <3>1. /\ UNCHANGED <<repo, tables, users, lock, crossed, missed, party>>
          /\ party' = [p \in Parties |-> party'[p]]
      BY <2>5 DEF vars, SInv, Typed
    <3>2. Typed' /\ NothingForgotten' /\ Booking' /\ Stamped'
      <4>1. /\ UNCHANGED <<history, tree, tables, lock, crossed>>
            /\ upstream' \in Commit(history) /\ upstream <= upstream'
            /\ users' \in [Tags -> 0..MaxUsers] /\ missed' \subseteq Tags
            /\ \A p \in Parties : Outside(p)
        BY <3>1 DEF SInv, Typed, TypeOK, repo, Commit, Outside
      <4> QED  BY <3>1, <4>1, OutsideKeeps DEF SInv
    <3>3. Awaited'  BY <3>1 DEF SInv, Awaited, Comes, busy_services, tables
    <3> QED  BY <3>2, <3>3 DEF SInv
  <2> QED  BY <2>1, <2>2, <2>3, <2>4, <2>5 DEF Next
<1> QED  BY <1>1, <1>2, PTL DEF Spec

\* The tables keep their types, and the lock is held by whoever imports.
THEOREM TypeCorrect == Spec => []TypeOK
<1>1. SInv => TypeOK  BY DEF SInv, Typed
<1> QED  BY <1>1, Invariance, PTL

\* Reloads, pulls and refreshes that overlap in any order forget no update.
THEOREM NoUpdateForgotten == Spec => []NothingForgotten
<1>1. SInv => NothingForgotten  BY DEF SInv
<1> QED  BY <1>1, Invariance, PTL

\* No stamp names code that is not running.
THEOREM StampsAreRight == Spec => []StampIsRight
<1>1. SInv => StampIsRight
  <2> SUFFICES ASSUME SInv, NEW t \in Tags, t \notin crossed, Does(t, loaded[t]) # "goes",
                      lock = None \/ t \notin party[lock].wanted
               PROVE  Code(t, stamp[t]) = loaded[t]
    BY DEF StampIsRight
  <2>1. t \notin Good
    <3>1. lock # None => Right(lock) /\ party[lock].at \in {"importing", "booking"}
      BY DEF SInv, Typed, TypeOK
    <3> QED  BY <3>1 DEF Right, Good
  <2> QED  BY <2>1 DEF SInv, Stamped
<1> QED  BY <1>1, Invariance, PTL

\* What is staged when nothing is under way has a user whose end will apply it.
THEOREM StagedHasAWaker == Spec => []StagedIsAwaited
<1>1. SInv => StagedIsAwaited
  <2> SUFFICES ASSUME SInv, \A p \in Parties : party[p].at = "idle", NEW t \in pending
               PROVE  t \in busy_services \cup missed
    BY DEF StagedIsAwaited
  <2>1. "task" \in Parties /\ "loop" \in Parties  BY DEF Parties
  <2>2. \A p \in Parties : ~Comes(p, t)  BY DEF Comes
  <2> QED  BY <2>1, <2>2 DEF SInv, Awaited
<1> QED  BY <1>1, Invariance, PTL
=============================================================================
