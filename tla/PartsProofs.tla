---------------------------- MODULE PartsProofs ----------------------------
(***************************************************************************)
(* What holds of the smaller components for any number of users, runs and  *)
(* searches: the eviction lock is never left taken, and keeps evictions    *)
(* apart until somebody has had to wait for it; what a summary says of the *)
(* cache is what happened to it; a virtual user                            *)
(* of the browser engine logs in once per session, the API engine once per *)
(* refusal, and when that engine is closed every search it began is        *)
(* settled: run once, filed once, and its job deleted; and the scenario    *)
(* library, for any requests in any order with kills in between: the run   *)
(* rows keep their scenario, the bucket follows what moves. For any number *)
(* of polls, a guard on the target stops the run exactly on as many        *)
(* readings in a row over its limit as it takes; and for any reports and   *)
(* gates, a comparison says ok only of measurements that were made.        *)
(***************************************************************************)
EXTENDS Eviction, BrowserPages, SearchJobs, Library, TargetGuard, Verdict, SequenceTheorems,
        FunctionTheorems, FiniteSetTheorems, WellFoundedInduction, TLAPS

-----------------------------------------------------------------------------
(* Eviction. *)

Places   == {"idle", "acquire", "join", "wait", "take", "list", "ask", "done", "mark"}
CacheEntries  == Peers \X Buckets
EvictSet == [at : Places, todo : SUBSET Peers, run : Runs \cup {"none"},
             listed : SUBSET CacheEntries, locked : BOOLEAN, mark : Nat]
LockSet == [taken : BOOLEAN, bound : Evictors \cup {Unbound},
            queue : {"none", "empty", "waiting", "woken"}]
ReadingSet ==
    [route : {"none", "search", "direct"}, answered : SUBSET Peers,
     ids : SUBSET ({"plain", "search", "direct"} \X (Peers \cup {"any"}) \X Buckets)]
RideSet == [at : {"new", "setup", "load", "stuck", "sum", "summed", "gone"}, before : ReadingSet,
            after : ReadingSet, epoch : Nat]

EvictionType ==
    /\ evictor \in [Evictors -> EvictSet]
    /\ evictLock \in LockSet
    /\ ride \in [Runs -> RideSet]
    /\ epochs \in [Runs -> Nat]
    /\ cached \subseteq CacheEntries
    /\ told \subseteq Runs
    /\ left \in AnyOccasion

\* Who is inside is at an eviction.
InsideEvicts(e) == evictor[e].locked => evictor[e].at \in {"list", "ask", "done"}
\* What is marked is marked after the eviction.
MarksLast(e) == evictor[e].mark > 0 => evictor[e].at = "mark"
\* A run that has not begun evicts nothing.
RestsAtFirst(r) == ride[r].at = "new" => evictor[r].at = "idle"
\* A lock that is taken has somebody inside. While it has no queue nobody is between the test
\* and the taking, and whoever is inside has the lock, alone.
LockOK ==
    /\ evictLock.taken => Inside # {}
    /\ evictLock.queue = "none" =>
          /\ \A e \in Evictors : evictor[e].at # "take"
          /\ Inside # {} => evictLock.taken
          /\ \A e, f \in Inside : e = f

EvictionInv ==
    /\ EvictionType /\ LockOK
    /\ \A e \in Evictors : InsideEvicts(e) /\ MarksLast(e)
    /\ \A r \in Runs : RestsAtFirst(r)

\* An evictor's record, with another place; and at the start of an eviction.
LEMMA EvictorAt ==
    ASSUME NEW s \in EvictSet, NEW x \in Places
    PROVE  /\ [s EXCEPT !.at = x] \in EvictSet
           /\ [s EXCEPT !.at = x].at = x
           /\ [s EXCEPT !.at = x].locked = s.locked
           /\ [s EXCEPT !.at = x].mark = s.mark
BY DEF EvictSet

\* An eviction begins with the listing, holding what it held.
LEMMA BeginsAt ==
    ASSUME EvictionType, NEW s \in EvictSet
    PROVE  /\ Begins(s) \in EvictSet
           /\ Begins(s).at = "list"
           /\ Begins(s).locked = s.locked
           /\ Begins(s).mark = s.mark
BY DEF EvictionType, EvictSet, Begins, AnyOccasion, Places

\* One evictor moves.
LEMMA EvictorMoves ==
    ASSUME EvictionInv, NEW e \in Evictors, NEW s \in EvictSet, GoesAt(e, s),
           s.locked => s.at \in {"list", "ask", "done"}, s.mark > 0 => s.at = "mark",
           evictor[e].at # "idle" \/ s.at = "idle" \/ e \notin Runs \/ ride'[e].at # "new",
           \A r \in Runs : ride'[r].at = "new" => ride[r].at = "new"
    PROVE  /\ evictor' \in [Evictors -> EvictSet]
           /\ \A f \in Evictors : InsideEvicts(f)' /\ MarksLast(f)'
           /\ \A r \in Runs : RestsAtFirst(r)'
           /\ Inside' = IF s.locked THEN Inside \cup {e} ELSE Inside \ {e}
           /\ \A f \in Evictors : evictor'[f].at = "take" => f = e \/ evictor[f].at = "take"
           /\ evictor'[e].at = s.at
<1>1. evictor' \in [Evictors -> EvictSet] /\ evictor'[e] = s
      /\ \A f \in Evictors \ {e} : evictor'[f] = evictor[f]
  BY DEF EvictionInv, EvictionType, GoesAt
<1>2. ASSUME NEW f \in Evictors
      PROVE  /\ InsideEvicts(f)' /\ MarksLast(f)'
             /\ evictor'[f].at = "take" => f = e \/ evictor[f].at = "take"
  BY <1>1 DEF EvictionInv, InsideEvicts, MarksLast
<1>3. ASSUME NEW r \in Runs PROVE RestsAtFirst(r)'
  BY <1>1 DEF EvictionInv, RestsAtFirst, Evictors
<1>4. Inside' = IF s.locked THEN Inside \cup {e} ELSE Inside \ {e}
  BY <1>1 DEF Inside
<1>5. QED
  BY <1>1, <1>2, <1>3, <1>4

\* What is left to show of a step is the types of what else it changes.
Moved ==
    /\ evictor' \in [Evictors -> EvictSet] /\ LockOK'
    /\ \A f \in Evictors : InsideEvicts(f)' /\ MarksLast(f)'
    /\ \A r \in Runs : RestsAtFirst(r)'

\* One evictor moves and stays inside, or outside; the lock may get a queue.
LEMMA OneMoves ==
    ASSUME EvictionInv, NEW e \in Evictors, NEW s \in EvictSet, GoesAt(e, s),
           s.locked = evictor[e].locked,
           s.locked => s.at \in {"list", "ask", "done"}, s.mark > 0 => s.at = "mark",
           s.at = "take" => evictLock'.queue # "none",
           evictor[e].at # "idle" \/ s.at = "idle" \/ e \notin Runs \/ ride'[e].at # "new",
           \A r \in Runs : ride'[r].at = "new" => ride[r].at = "new",
           evictLock'.taken = evictLock.taken,
           evictLock'.queue = "none" => evictLock.queue = "none"
    PROVE  Moved
<1>1. /\ evictor' \in [Evictors -> EvictSet]
      /\ \A f \in Evictors : InsideEvicts(f)' /\ MarksLast(f)'
      /\ \A r \in Runs : RestsAtFirst(r)'
      /\ Inside' = IF s.locked THEN Inside \cup {e} ELSE Inside \ {e}
      /\ \A f \in Evictors : evictor'[f].at = "take" => f = e \/ evictor[f].at = "take"
      /\ evictor'[e].at = s.at
  BY EvictorMoves
<1>2. Inside' = Inside
  BY <1>1 DEF Inside
<1>3. LockOK'
  BY <1>1, <1>2 DEF EvictionInv, LockOK
<1>4. QED
  BY <1>1, <1>3 DEF Moved

\* One evictor comes inside and has the lock, alone if there is no queue.
LEMMA OneEnters ==
    ASSUME EvictionInv, NEW e \in Evictors, Enters(e),
           evictor[e].at # "idle", evictor[e].mark = 0,
           evictLock.queue = "none" => ~evictLock.taken, UNCHANGED ride
    PROVE  Moved /\ evictLock' \in LockSet
<1> DEFINE x == [evictor[e] EXCEPT !.locked = TRUE]
           s == Begins(x)
<1>1. evictor[e] \in EvictSet /\ evictLock \in LockSet
  BY DEF EvictionInv, EvictionType
<1>2. x \in EvictSet /\ x.locked = TRUE /\ x.mark = 0
  BY <1>1 DEF EvictSet
<1> HIDE DEF x
<1>3. s \in EvictSet /\ s.at = "list" /\ s.locked /\ s.mark = 0
  BY <1>2, BeginsAt DEF EvictionInv
<1> HIDE DEF s
<1>4. GoesAt(e, s)
  BY DEF s, x, Enters
<1>5. /\ evictor' \in [Evictors -> EvictSet]
      /\ \A f \in Evictors : InsideEvicts(f)' /\ MarksLast(f)'
      /\ \A r \in Runs : RestsAtFirst(r)'
      /\ Inside' = IF s.locked THEN Inside \cup {e} ELSE Inside \ {e}
      /\ \A f \in Evictors : evictor'[f].at = "take" => f = e \/ evictor[f].at = "take"
      /\ evictor'[e].at = s.at
  BY <1>3, <1>4, EvictorMoves
<1>6. /\ evictLock' \in LockSet /\ evictLock'.taken /\ evictLock'.queue = evictLock.queue
  BY <1>1 DEF Enters, LockSet
<1>7. evictLock.queue = "none" => Inside = {}
  BY DEF EvictionInv, LockOK
<1>8. Inside' = Inside \cup {e}
  BY <1>3, <1>5
<1>9. LockOK'
  BY <1>3, <1>5, <1>6, <1>7, <1>8 DEF EvictionInv, LockOK
<1>10. QED
  BY <1>5, <1>6, <1>9 DEF Moved

\* Whoever lets the lock go leaves it free, and the queue where there was one.
LEMMA LetGo ==
    ASSUME EvictionInv
    PROVE  /\ Released \in LockSet /\ ~Released.taken
           /\ Released.queue = "none" => evictLock.queue = "none"
BY DEF EvictionInv, EvictionType, LockSet, Released

\* One evictor goes outside, and lets the lock go if it was inside.
LEMMA OneLeaves ==
    ASSUME EvictionInv, NEW e \in Evictors, NEW s \in EvictSet, GoesAt(e, s),
           evictor[e].locked, ~s.locked, s.at # "take", s.mark = 0,
           evictLock' = Released,
           \A r \in Runs : ride'[r].at = "new" => ride[r].at = "new"
    PROVE  Moved /\ evictLock' \in LockSet
<1>1. evictor[e].at # "idle"
  BY DEF EvictionInv, InsideEvicts
<1>2. /\ evictor' \in [Evictors -> EvictSet]
      /\ \A f \in Evictors : InsideEvicts(f)' /\ MarksLast(f)'
      /\ \A r \in Runs : RestsAtFirst(r)'
      /\ Inside' = IF s.locked THEN Inside \cup {e} ELSE Inside \ {e}
      /\ \A f \in Evictors : evictor'[f].at = "take" => f = e \/ evictor[f].at = "take"
      /\ evictor'[e].at = s.at
  BY <1>1, EvictorMoves
<1>3. Inside' = Inside \ {e} /\ e \in Inside
  BY <1>2 DEF Inside
<1>4. /\ evictLock' \in LockSet /\ ~evictLock'.taken
      /\ evictLock'.queue = "none" => evictLock.queue = "none"
  BY LetGo
<1>5. evictLock'.queue = "none" => Inside' = {}
  BY <1>3, <1>4 DEF EvictionInv, LockOK
<1>6. LockOK'
  BY <1>2, <1>4, <1>5 DEF EvictionInv, LockOK
<1>7. QED
  BY <1>2, <1>4, <1>6 DEF Moved

\* The steps of evict_all, and of the marking after it.
LEMMA ListKeeps == ASSUME EvictionInv, NEW e \in Evictors, List(e) PROVE EvictionInv'
<1> USE DEF List
<1>1. evictor[e] \in EvictSet /\ evictor[e].at = "list" /\ evictor[e].mark = 0
  BY DEF EvictionInv, EvictionType, MarksLast, EvictSet
<1> DEFINE peer == CHOOSE p \in evictor[e].todo : TRUE
           entries == {entry \in cached : entry[1] = peer}
           next == [evictor[e] EXCEPT !.todo = @ \ {peer}]
           done == [evictor[e] EXCEPT !.at = "done"]
           asked == [next EXCEPT !.at = "ask", !.listed = entries]
<1>2. entries \subseteq CacheEntries
  BY DEF EvictionInv, EvictionType
<1>3. /\ done \in EvictSet /\ done.at = "done" /\ done.locked = evictor[e].locked /\ done.mark = 0
      /\ next \in EvictSet /\ next.at = "list" /\ next.locked = evictor[e].locked /\ next.mark = 0
  BY <1>1 DEF EvictSet, Places
<1> HIDE DEF entries, next, done
<1>4. /\ asked \in EvictSet /\ asked.at = "ask"
      /\ asked.locked = evictor[e].locked /\ asked.mark = 0
  BY <1>2, <1>3 DEF EvictSet, Places
<1> HIDE DEF asked
<1>5. GoesAt(e, done) \/ GoesAt(e, next) \/ GoesAt(e, asked)
  BY DEF done, next, asked, entries
<1>6. Moved
  <2>1. CASE GoesAt(e, done)
    BY <1>1, <1>3, <2>1, OneMoves
  <2>2. CASE GoesAt(e, next)
    BY <1>1, <1>3, <2>2, OneMoves
  <2>3. CASE GoesAt(e, asked)
    BY <1>1, <1>4, <2>3, OneMoves
  <2>4. QED
    BY <1>5, <2>1, <2>2, <2>3
<1>7. QED
  BY <1>6 DEF EvictionInv, EvictionType, Moved

\* An eviction asks for one entry: who holds the lock stays who it was.
LEMMA AskKeeps == ASSUME EvictionInv, NEW e \in Evictors, Ask(e) PROVE EvictionInv'
<1>1. PICK entry \in evictor[e].listed :
        /\ GoesAt(e, [evictor[e] EXCEPT !.listed = @ \ {entry}])
        /\ cached' \subseteq cached
  BY DEF Ask, IsDropped
<1> DEFINE s == [evictor[e] EXCEPT !.listed = @ \ {entry}]
<1>2. evictor[e] \in EvictSet /\ evictor[e].at = "ask" /\ evictor[e].mark = 0
  BY DEF Ask, EvictionInv, EvictionType, MarksLast, EvictSet
<1>3. s \in EvictSet /\ s.at = "ask" /\ s.locked = evictor[e].locked /\ s.mark = 0
  BY <1>2 DEF EvictSet
<1> HIDE DEF s
<1>4. GoesAt(e, s) /\ UNCHANGED <<evictLock, ride>>
  BY <1>1 DEF s, Ask
<1>5. Moved
  BY <1>2, <1>3, <1>4, OneMoves
<1>6. QED
  BY <1>1, <1>5 DEF EvictionInv, EvictionType, Moved, Ask

\* An eviction lists again what is left.
LEMMA ConfirmKeeps == ASSUME EvictionInv, NEW e \in Evictors, Confirm(e) PROVE EvictionInv'
<1> DEFINE s == [evictor[e] EXCEPT !.at = "list"]
<1>1. evictor[e] \in EvictSet /\ evictor[e].at = "ask" /\ evictor[e].mark = 0
  BY DEF Confirm, EvictionInv, EvictionType, MarksLast, EvictSet
<1>2. s \in EvictSet /\ s.at = "list" /\ s.locked = evictor[e].locked /\ s.mark = 0
  BY <1>1, EvictorAt DEF Places
<1>3. GoesAt(e, s) /\ UNCHANGED <<evictLock, ride>>
  BY DEF Confirm
<1> HIDE DEF s
<1>4. Moved
  BY <1>1, <1>2, <1>3, OneMoves
<1>5. QED
  BY <1>4 DEF EvictionInv, EvictionType, Moved, Confirm

\* A mark is made when the lock has been let go.
LEMMA MarkKeeps == ASSUME EvictionInv, NEW e \in Evictors, Mark(e) PROVE EvictionInv'
<1>1. /\ evictor[e] \in EvictSet /\ evictor[e].at = "mark"
      /\ evictor[e].mark = 0 /\ ~evictor[e].locked
      /\ UNCHANGED <<evictLock, ride, cached, left>>
  BY DEF Mark, EvictionInv, EvictionType, InsideEvicts, EvictSet
<1>2. PICK r \in Marks(e) :
          IF r \in InFlightRuns
          THEN /\ epochs' = [epochs EXCEPT ![r] = @ + 1]
               /\ GoesAt(e, [evictor[e] EXCEPT !.at = "mark", !.run = r, !.mark = epochs[r] + 1])
               /\ UNCHANGED told
          ELSE /\ told' = told \ {r} /\ UNCHANGED epochs
               /\ GoesAt(e, [evictor[e] EXCEPT !.at = AfterMark(e, told \ {r})])
  BY Zenon DEF Mark
<1>3. CASE r \in InFlightRuns
  <2> DEFINE s == [evictor[e] EXCEPT !.at = "mark", !.run = r, !.mark = epochs[r] + 1]
  <2>1. r \in Runs /\ epochs[r] + 1 \in Nat
    BY <1>3 DEF InFlightRuns, EvictionInv, EvictionType
  <2>2. s \in EvictSet /\ s.at = "mark" /\ s.locked = evictor[e].locked
    <3> HIDE <1>2
    <3> DEFINE n == epochs[r] + 1
    <3> HIDE DEF n
    <3>1. [evictor[e] EXCEPT !.at = "mark", !.run = r, !.mark = n] \in EvictSet
          /\ [evictor[e] EXCEPT !.at = "mark", !.run = r, !.mark = n].at = "mark"
          /\ [evictor[e] EXCEPT !.at = "mark", !.run = r, !.mark = n].locked = evictor[e].locked
      <4>1. n \in Nat BY <2>1 DEF n
      <4>2. QED BY <1>1, <2>1, <4>1 DEF EvictSet, Places
    <3>2. QED BY <3>1 DEF n
  <2> HIDE DEF s
  <2>3. GoesAt(e, s) /\ epochs' = [epochs EXCEPT ![r] = @ + 1] /\ UNCHANGED told
    BY <1>2, <1>3 DEF s
  <2>4. Moved
    BY <1>1, <2>2, <2>3, OneMoves
  <2>5. QED
    BY <1>1, <2>1, <2>3, <2>4 DEF EvictionInv, EvictionType, Moved
<1>4. CASE r \notin InFlightRuns
  <2> DEFINE s == [evictor[e] EXCEPT !.at = AfterMark(e, told \ {r})]
  <2>1. AfterMark(e, told \ {r}) \in Places \ {"take"}
    BY DEF AfterMark, Places
  <2>2. s \in EvictSet /\ s.locked = evictor[e].locked /\ s.mark = 0 /\ s.at # "take"
    BY <1>1, <2>1, EvictorAt
  <2> HIDE DEF s
  <2>3. GoesAt(e, s) /\ told' \subseteq told /\ UNCHANGED epochs
    BY <1>2, <1>4 DEF s
  <2>4. Moved
    BY <1>1, <2>2, <2>3, OneMoves
  <2>5. QED
    BY <1>1, <2>3, <2>4 DEF EvictionInv, EvictionType, Moved
<1>5. QED
  BY <1>3, <1>4

\* The statistics of a run hear of its mark, which is gone then.
LEMMA TellStatsKeeps == ASSUME EvictionInv, NEW e \in Evictors, TellStats(e) PROVE EvictionInv'
<1> DEFINE r == evictor[e].run
           at == AfterMark(e, told \ {r})
           s == [evictor[e] EXCEPT !.mark = 0, !.at = at]
<1>1. /\ evictor[e] \in EvictSet /\ evictor[e].at = "mark" /\ ~evictor[e].locked
      /\ at \in Places \ {"take"}
  BY DEF TellStats, EvictionInv, EvictionType, InsideEvicts, MarksLast, EvictSet, AfterMark, Places
<1> HIDE DEF r, at
<1>2. s \in EvictSet /\ s.mark = 0 /\ s.locked = evictor[e].locked /\ s.at # "take"
  BY <1>1 DEF EvictSet
<1> HIDE DEF s
<1>3. /\ GoesAt(e, s) /\ told' \subseteq told /\ UNCHANGED <<cached, evictLock, epochs, left>>
      /\ evictor[e].mark > 0
      /\ ride' = IF r \in InProcess THEN [ride EXCEPT ![r] = SetEpoch(@, evictor[e].mark)] ELSE ride
  BY DEF TellStats, s, r, at
<1>4. ride' \in [Runs -> RideSet] /\ \A x \in Runs : ride'[x].at = ride[x].at
  <2>1. ASSUME NEW n \in Nat, NEW y \in RideSet
        PROVE  SetEpoch(y, n) \in RideSet /\ SetEpoch(y, n).at = y.at
    BY DEF SetEpoch, RideSet
  <2>2. ride \in [Runs -> RideSet] /\ evictor[e].mark \in Nat /\ InProcess \subseteq Runs
    BY <1>1 DEF EvictionInv, EvictionType, EvictSet, Runs
  <2>3. QED
    BY <1>3, <2>1, <2>2
<1>5. Moved
  BY <1>1, <1>2, <1>3, <1>4, OneMoves
<1>6. QED
  BY <1>3, <1>4, <1>5 DEF EvictionInv, EvictionType, Moved

\* Who looks at the lock takes it where there is no queue, or goes on to take it or to wait.
LEMMA AcquireKeeps == ASSUME EvictionInv, NEW e \in Evictors, Acquire(e) PROVE EvictionInv'
<1>1. /\ evictor[e] \in EvictSet /\ evictor[e].at = "acquire" /\ evictor[e].mark = 0
      /\ ~evictor[e].locked /\ UNCHANGED <<cached, ride, epochs, told, left>>
  BY DEF Acquire, EvictionInv, EvictionType, InsideEvicts, MarksLast, EvictSet
<1>2. CASE Free /\ Enters(e)
  <2>1. Moved /\ evictLock' \in LockSet
    BY <1>1, <1>2, OneEnters DEF Free
  <2>2. QED
    BY <1>1, <2>1 DEF EvictionInv, EvictionType, Moved
<1>3. ASSUME NEW at \in {"take", "join"}, GoesAt(e, [evictor[e] EXCEPT !.at = at]),
             at = "take" => evictLock.queue # "none", UNCHANGED evictLock
      PROVE  EvictionInv'
  <2> DEFINE s == [evictor[e] EXCEPT !.at = at]
  <2>0. at \in Places
    BY DEF Places
  <2>1. s \in EvictSet /\ s.at = at /\ s.locked = evictor[e].locked /\ s.mark = 0
    BY <1>1, <2>0, EvictorAt
  <2>2. GoesAt(e, s)
    BY <1>3
  <2> HIDE DEF s
  <2>3. Moved
    BY <1>1, <1>3, <2>1, <2>2, OneMoves
  <2>4. QED
    BY <1>1, <1>3, <2>3 DEF EvictionInv, EvictionType, Moved
<1>4. QED
  BY <1>2, <1>3 DEF Acquire

\* Who has to wait makes the queue, waits in it, or is of another loop.
LEMMA JoinKeeps == ASSUME EvictionInv, NEW e \in Evictors, Join(e) PROVE EvictionInv'
<1>1. /\ evictor[e] \in EvictSet /\ evictor[e].at = "join" /\ evictor[e].mark = 0
      /\ ~evictor[e].locked /\ evictLock \in LockSet
      /\ UNCHANGED <<cached, ride, epochs, told, left>>
  BY DEF Join, EvictionInv, EvictionType, InsideEvicts, MarksLast, EvictSet
<1>2. CASE evictLock' = [evictLock EXCEPT !.queue = "empty"] /\ UNCHANGED evictor
  <2>1. evictLock' \in LockSet /\ evictLock'.taken = evictLock.taken /\ evictLock'.queue = "empty"
    BY <1>1, <1>2 DEF LockSet
  <2>2. Inside' = Inside
    BY <1>2 DEF Inside
  <2>3. LockOK'
    BY <2>1, <2>2 DEF EvictionInv, LockOK
  <2>4. QED
    BY <1>1, <1>2, <2>1, <2>3 DEF EvictionInv, EvictionType, InsideEvicts, MarksLast, RestsAtFirst
<1>3. ASSUME NEW at \in {"wait", "idle", "mark"}, GoesAt(e, [evictor[e] EXCEPT !.at = at]),
             evictLock' \in LockSet, evictLock'.taken = evictLock.taken,
             evictLock'.queue = "none" => evictLock.queue = "none"
      PROVE  EvictionInv'
  <2> DEFINE s == [evictor[e] EXCEPT !.at = at]
  <2>0. at \in Places
    BY DEF Places
  <2>1. s \in EvictSet /\ s.at = at /\ s.locked = evictor[e].locked /\ s.mark = 0
    BY <1>1, <2>0, EvictorAt
  <2>2. GoesAt(e, s)
    BY <1>3
  <2> HIDE DEF s
  <2>3. Moved
    BY <1>1, <1>3, <2>1, <2>2, OneMoves
  <2>4. QED
    BY <1>1, <1>3, <2>3 DEF EvictionInv, EvictionType, Moved
<1>4. CASE /\ evictLock' = [evictLock EXCEPT !.bound = e, !.queue = "waiting"]
           /\ GoesAt(e, [evictor[e] EXCEPT !.at = "wait"])
  <2>1. evictLock' \in LockSet /\ evictLock'.taken = evictLock.taken /\ evictLock'.queue = "waiting"
    BY <1>1, <1>4 DEF LockSet
  <2>2. QED
    BY <1>3, <1>4, <2>1
<1>5. CASE /\ GoesAt(e, [evictor[e] EXCEPT !.at = IF e = "button" THEN "idle" ELSE "mark"])
           /\ UNCHANGED evictLock
  BY <1>1, <1>3, <1>5
<1>6. QED
  BY <1>2, <1>4, <1>5 DEF Join

\* Who waited is woken by the release, and goes on to take the lock.
LEMMA WokenKeeps == ASSUME EvictionInv, NEW e \in Evictors, Woken(e) PROVE EvictionInv'
<1> DEFINE s == [evictor[e] EXCEPT !.at = "take"]
<1>1. /\ evictor[e] \in EvictSet /\ evictor[e].at = "wait" /\ evictor[e].mark = 0
      /\ ~evictor[e].locked /\ evictLock \in LockSet
      /\ evictLock' = [evictLock EXCEPT !.queue = "empty"]
      /\ UNCHANGED <<cached, ride, epochs, told, left>>
  BY DEF Woken, EvictionInv, EvictionType, InsideEvicts, MarksLast, EvictSet
<1>2. s \in EvictSet /\ s.at = "take" /\ s.locked = evictor[e].locked /\ s.mark = 0
  BY <1>1, EvictorAt DEF Places
<1>3. GoesAt(e, s)
  BY DEF Woken
<1> HIDE DEF s
<1>4. evictLock' \in LockSet /\ evictLock'.taken = evictLock.taken /\ evictLock'.queue = "empty"
  BY <1>1 DEF LockSet
<1>5. Moved
  BY <1>1, <1>2, <1>3, <1>4, OneMoves
<1>6. QED
  BY <1>1, <1>4, <1>5 DEF EvictionInv, EvictionType, Moved

\* Who takes the lock has found it free, or been woken, in its queue.
LEMMA TakeKeeps == ASSUME EvictionInv, NEW e \in Evictors, Take(e) PROVE EvictionInv'
<1>1. /\ evictor[e] \in EvictSet /\ evictor[e].at = "take" /\ evictor[e].mark = 0
      /\ evictLock.queue # "none" /\ Enters(e)
      /\ UNCHANGED <<cached, ride, epochs, told, left>>
  BY DEF Take, EvictionInv, EvictionType, LockOK, MarksLast, EvictSet
<1>2. Moved /\ evictLock' \in LockSet
  BY <1>1, OneEnters
<1>3. QED
  BY <1>1, <1>2 DEF EvictionInv, EvictionType, Moved

\* An eviction that is through lets the lock go.
LEMMA FinishesKeeps ==
    ASSUME EvictionInv, NEW e \in Evictors, NEW to \in {"idle", "mark"}, Finishes(e, to),
           evictor[e].locked, UNCHANGED <<cached, ride, epochs, told, left>>
    PROVE  EvictionInv'
<1> DEFINE s == [evictor[e] EXCEPT !.at = to, !.locked = FALSE]
<1>1. evictor[e] \in EvictSet /\ evictor[e].mark = 0 /\ to \in Places
  BY DEF EvictionInv, EvictionType, InsideEvicts, MarksLast, EvictSet, Places
<1>2. s \in EvictSet /\ s.at = to /\ s.locked = FALSE /\ s.mark = 0
  BY <1>1 DEF EvictSet
<1>3. GoesAt(e, s) /\ evictLock' = Released
  BY DEF Finishes
<1> HIDE DEF s
<1>4. Moved /\ evictLock' \in LockSet
  BY <1>2, <1>3, OneLeaves
<1>5. QED
  BY <1>4 DEF EvictionInv, EvictionType, Moved

\* Every step of an eviction keeps the invariant.
LEMMA EvictorKeeps == ASSUME EvictionInv, NEW e \in Evictors, EvictorStep(e) PROVE EvictionInv'
<1>1. CASE Ends(e)
  <2>1. PICK to \in {"idle", "mark"} : Finishes(e, to)
    BY <1>1 DEF Ends
  <2>2. QED
    BY <1>1, <2>1, FinishesKeeps DEF Ends
<1>2. CASE OutOfTime(e)
  <2>1. PICK to \in {"idle", "mark"} : Finishes(e, to)
    BY <1>2 DEF OutOfTime
  <2>2. QED
    BY <1>2, <2>1, FinishesKeeps DEF OutOfTime
<1>3. QED
  BY <1>1, <1>2, ListKeeps, AskKeeps, ConfirmKeeps, AcquireKeeps, JoinKeeps, WokenKeeps,
     TakeKeeps, MarkKeeps, TellStatsKeeps DEF EvictorStep

\* An evictor at rest holds nothing, nor does one that has asked for nothing but the lock.
LEMMA RestedOK ==
    /\ Rested \in EvictSet /\ Rested.at = "idle" /\ ~Rested.locked /\ Rested.mark = 0
    /\ [Rested EXCEPT !.at = "acquire"] \in EvictSet
    /\ [Rested EXCEPT !.at = "acquire"].at = "acquire"
    /\ ~[Rested EXCEPT !.at = "acquire"].locked /\ [Rested EXCEPT !.at = "acquire"].mark = 0
BY DEF Rested, EvictSet, Places

\* The cache is read into a reading.
LEMMA ReadingsOK == ASSUME EvictionInv PROVE Readings \subseteq ReadingSet
<1>1. NoReading \in ReadingSet
  BY DEF NoReading, ReadingSet
<1>2. ASSUME NEW route \in {"search", "direct"}, NEW answered \in SUBSET left.peers
      PROVE  Reading(route, answered) \in ReadingSet
  <2>1. answered \subseteq Peers /\ cached \subseteq CacheEntries
    BY DEF EvictionInv, EvictionType, AnyOccasion
  <2>2. ASSUME NEW several, NEW entry \in cached
        PROVE  NameOf(route, several, entry) \in
                  {"plain", "search", "direct"} \X (Peers \cup {"any"}) \X Buckets
    BY <2>1 DEF NameOf, CacheEntries
  <2> DEFINE several == IF route = "search" THEN Cardinality(answered) > 1
                        ELSE Cardinality(left.peers) > 1
             ids == {NameOf(route, several, entry) : entry \in {x \in cached : x[1] \in answered}}
  <2>4. Reading(route, answered) = [route |-> route, answered |-> answered, ids |-> ids]
    BY DEF Reading
  <2> HIDE DEF several
  <2>5. ids \subseteq {"plain", "search", "direct"} \X (Peers \cup {"any"}) \X Buckets
    BY <2>2
  <2> HIDE DEF ids
  <2>6. QED
    BY <2>1, <2>4, <2>5 DEF ReadingSet
<1>3. QED
  BY <1>1, <1>2 DEF Readings

\* The button and the clock begin an eviction in the same way.
LEMMA DueKeeps ==
    ASSUME EvictionInv, NEW e \in Evictors, evictor[e].at = "idle",
           e \in Runs => ride[e].at # "new",
           left' = [left EXCEPT !.evictions = @ - 1], left.evictions > 0,
           GoesAt(e, [Rested EXCEPT !.at = "acquire"]), told' \subseteq Runs,
           UNCHANGED <<cached, evictLock, ride, epochs>>
    PROVE  EvictionInv'
<1> DEFINE s == [Rested EXCEPT !.at = "acquire"]
<1>1. s \in EvictSet /\ s.at = "acquire" /\ ~s.locked /\ s.mark = 0 /\ GoesAt(e, s)
  BY RestedOK
<1> HIDE DEF s
<1>2. ~evictor[e].locked
  BY DEF EvictionInv, InsideEvicts
<1>3. Moved
  BY <1>1, <1>2, RestedOK, OneMoves DEF EvictionInv, EvictionType, EvictSet
<1>4. left' \in AnyOccasion
  BY DEF EvictionInv, EvictionType, AnyOccasion
<1>5. QED
  BY <1>3, <1>4 DEF EvictionInv, EvictionType, Moved

\* A run from its start to its summary.
LEMMA StartRideKeeps == ASSUME EvictionInv, NEW r \in Runs, StartRide(r) PROVE EvictionInv'
<1>1. /\ r \in Evictors /\ evictor[r].at = "idle" /\ ~evictor[r].locked
      /\ ride \in [Runs -> RideSet] /\ left \in AnyOccasion
      /\ evictor \in [Evictors -> EvictSet]
      /\ ride[r].at = "new" /\ ride' = [ride EXCEPT ![r].at = "setup"]
      /\ UNCHANGED <<cached, evictLock, epochs, told>>
  BY DEF StartRide, EvictionInv, EvictionType, Evictors, RestsAtFirst, InsideEvicts
<1>2. /\ ride' \in [Runs -> RideSet] /\ ride'[r].at = "setup"
      /\ \A x \in Runs \ {r} : ride'[x] = ride[x]
  BY <1>1 DEF RideSet
<1>3. CASE UNCHANGED <<evictor, left>>
  <2>1. \A x \in Runs : RestsAtFirst(x)'
    BY <1>2, <1>3 DEF EvictionInv, RestsAtFirst
  <2>2. QED
    BY <1>1, <1>2, <1>3, <2>1 DEF EvictionInv, EvictionType, InsideEvicts, MarksLast, LockOK, Inside
<1>4. CASE /\ left.evictions > 0 /\ left' = [left EXCEPT !.evictions = @ - 1]
           /\ GoesAt(r, Begins(Rested))
  <2> DEFINE s == Begins(Rested)
  <2>1. s \in EvictSet /\ s.at = "list" /\ s.locked = Rested.locked /\ s.mark = 0
    BY RestedOK, BeginsAt DEF EvictionInv
  <2>2. ~s.locked
    BY <2>1, RestedOK
  <2> HIDE DEF s
  <2>3. GoesAt(r, s)
    BY <1>4 DEF s
  <2>4. evictor[r].locked = s.locked
    BY <1>1, <2>1, RestedOK DEF EvictSet
  <2>5. Moved
    <3>1. \A x \in Runs : ride'[x].at = "new" => ride[x].at = "new"
      BY <1>1, <1>2
    <3>2. QED
      BY <1>1, <1>2, <2>1, <2>2, <2>3, <2>4, <3>1, OneMoves
  <2>6. left' \in AnyOccasion
    BY <1>1, <1>4 DEF AnyOccasion
  <2>7. QED
    BY <1>1, <1>2, <2>5, <2>6 DEF EvictionInv, EvictionType, Moved
<1>5. QED
  BY <1>3, <1>4 DEF StartRide

\* A run reads the cache before its load, with its eviction at rest.
LEMMA ReadBeforeKeeps == ASSUME EvictionInv, NEW r \in Runs, ReadBefore(r) PROVE EvictionInv'
<1>1. PICK reading \in ReadingSet : ride' = [ride EXCEPT ![r].at = "load", ![r].before = reading]
  BY ReadingsOK DEF ReadBefore
<1>2. /\ r \in Evictors /\ ~evictor[r].locked /\ ride[r].at = "setup"
      /\ ride \in [Runs -> RideSet]
      /\ GoesAt(r, Rested) /\ UNCHANGED <<cached, evictLock, epochs, told, left>>
  BY DEF ReadBefore, Ready, EvictionInv, EvictionType, InsideEvicts, Evictors
<1>3. /\ ride' \in [Runs -> RideSet] /\ ride'[r].at = "load"
      /\ \A x \in Runs \ {r} : ride'[x] = ride[x]
  BY <1>1, <1>2 DEF RideSet
<1>4. evictor[r].locked = Rested.locked
  BY <1>2, RestedOK DEF EvictionInv, EvictionType, EvictSet
<1>5. \A x \in Runs : ride'[x].at = "new" => ride[x].at = "new"
  BY <1>3
<1>6. Moved
  BY <1>2, <1>3, <1>4, <1>5, OneMoves, RestedOK
<1>7. QED
  BY <1>2, <1>3, <1>6 DEF EvictionInv, EvictionType, Moved

\* A run reads the cache after its load; its eviction is cancelled, and with it its hold.
LEMMA ReadAfterKeeps == ASSUME EvictionInv, NEW r \in Runs, ReadAfter(r) PROVE EvictionInv'
<1>1. PICK reading \in ReadingSet : ride' = [ride EXCEPT ![r].at = "sum", ![r].after = reading]
  BY ReadingsOK DEF ReadAfter
<1>2. /\ r \in Evictors /\ ride[r].at = "load" /\ ride \in [Runs -> RideSet]
      /\ evictor[r] \in EvictSet /\ evictLock \in LockSet
      /\ GoesAt(r, Rested) /\ evictLock' = Leaves(r)
      /\ UNCHANGED <<cached, epochs, told, left>>
  BY DEF ReadAfter, EvictionInv, EvictionType, Evictors
<1>3. /\ ride' \in [Runs -> RideSet] /\ ride'[r].at = "sum"
      /\ \A x \in Runs \ {r} : ride'[x] = ride[x]
  BY <1>1, <1>2 DEF RideSet
<1>4. \A x \in Runs : ride'[x].at = "new" => ride[x].at = "new"
  BY <1>3
<1>5. CASE evictor[r].locked
  <2>1. evictLock' = Released
    BY <1>2, <1>5 DEF Leaves, EvictionInv, InsideEvicts
  <2>2. Moved /\ evictLock' \in LockSet
    BY <1>2, <1>4, <1>5, <2>1, RestedOK, OneLeaves
  <2>3. QED
    BY <1>2, <1>3, <2>2 DEF EvictionInv, EvictionType, Moved
<1>6. CASE ~evictor[r].locked
  <2>1. /\ evictLock' \in LockSet /\ evictLock'.taken = evictLock.taken
        /\ evictLock'.queue = "none" => evictLock.queue = "none"
    <3>1. evictLock' = evictLock \/ evictLock' = [evictLock EXCEPT !.queue = "empty"]
      BY <1>2, <1>6 DEF Leaves, LeavesQueue
    <3>2. QED
      BY <1>2, <3>1 DEF LockSet
  <2>2. evictor[r].locked = Rested.locked
    BY <1>2, <1>6, RestedOK DEF EvictSet
  <2>3. Moved
    BY <1>2, <1>4, <2>1, <2>2, RestedOK, OneMoves
  <2>4. QED
    BY <1>2, <1>3, <2>1, <2>3 DEF EvictionInv, EvictionType, Moved
<1>7. QED
  BY <1>5, <1>6, <1>2 DEF EvictSet

\* An evictor that cannot let the lock go is no longer inside, and goes on.
LEMMA CancelIsLostKeeps == ASSUME EvictionInv, NEW r \in Runs, CancelIsLost(r) PROVE EvictionInv'
<1> DEFINE s == [evictor[r] EXCEPT !.at = "mark", !.locked = FALSE]
<1>1. /\ r \in Evictors /\ evictor[r] \in EvictSet /\ evictor[r].locked /\ evictor[r].mark = 0
      /\ ride[r].at = "load" /\ ride \in [Runs -> RideSet] /\ ~evictLock.taken
      /\ UNCHANGED <<cached, evictLock, epochs, told, left>>
  BY DEF CancelIsLost, Robbed, EvictionInv, EvictionType, Evictors, InsideEvicts, MarksLast, EvictSet
<1>2. s \in EvictSet /\ s.at = "mark" /\ s.locked = FALSE /\ s.mark = 0
  BY <1>1 DEF EvictSet, Places
<1>3. GoesAt(r, s)
  BY DEF CancelIsLost
<1> HIDE DEF s
<1>4. /\ ride' \in [Runs -> RideSet] /\ ride'[r].at = "stuck"
      /\ \A x \in Runs \ {r} : ride'[x] = ride[x]
  BY <1>1 DEF CancelIsLost, RideSet
<1>5. evictLock' = Released
  BY <1>1 DEF Released
<1>6. \A x \in Runs : ride'[x].at = "new" => ride[x].at = "new"
  BY <1>4
<1>7. Moved /\ evictLock' \in LockSet
  BY <1>1, <1>2, <1>3, <1>5, <1>6, OneLeaves
<1>8. QED
  BY <1>1, <1>4, <1>7 DEF EvictionInv, EvictionType, Moved

\* The end of a run moves no evictor.
LEMMA RideEnds ==
    ASSUME EvictionInv, NEW r \in Runs, NEW ridden \in RideSet, ridden.at # "new",
           ride' = [ride EXCEPT ![r] = ridden], epochs' \in [Runs -> Nat],
           UNCHANGED <<cached, evictor, evictLock, told, left>>
    PROVE  EvictionInv'
<1>1. ride' \in [Runs -> RideSet] /\ \A x \in Runs : RestsAtFirst(x)'
  BY DEF EvictionInv, EvictionType, RestsAtFirst
<1>2. QED
  BY <1>1 DEF EvictionInv, EvictionType, InsideEvicts, MarksLast, LockOK, Inside

\* Every step of a run keeps the invariant.
LEMMA RideKeeps == ASSUME EvictionInv, NEW r \in Runs, RideStep(r) PROVE EvictionInv'
<1>1. CASE Due(r)
  <2>1. told' \subseteq Runs /\ r \in Evictors
    BY <1>1 DEF Due, EvictionInv, EvictionType, Evictors
  <2>2. QED
    BY <1>1, <2>1, DueKeeps DEF Due
<1>2. CASE Summarise(r)
  <2>1. /\ [ride[r] EXCEPT !.at = "summed"] \in RideSet
        /\ [ride[r] EXCEPT !.at = "summed"].at = "summed"
        /\ ride' = [ride EXCEPT ![r] = [ride[r] EXCEPT !.at = "summed"]]
        /\ epochs' \in [Runs -> Nat]
    BY <1>2 DEF Summarise, EvictionInv, EvictionType, RideSet
  <2>2. QED
    BY <1>2, <2>1, RideEnds DEF Summarise
<1>3. CASE Gone(r)
  <2>1. [NewRide EXCEPT !.at = "gone"] \in RideSet /\ [NewRide EXCEPT !.at = "gone"].at = "gone"
    BY DEF NewRide, NoReading, RideSet, ReadingSet
  <2>2. epochs' \in [Runs -> Nat]
    BY <1>3 DEF Gone, EvictionInv, EvictionType
  <2>3. QED
    BY <1>3, <2>1, <2>2, RideEnds DEF Gone
<1>4. QED
  BY <1>1, <1>2, <1>3, StartRideKeeps, ReadBeforeKeeps, ReadAfterKeeps, CancelIsLostKeeps
     DEF RideStep

\* At first nobody evicts and the lock is free.
LEMMA EvictionStarts == EvictionInit => EvictionInv
<1> SUFFICES ASSUME EvictionInit PROVE EvictionInv
  OBVIOUS
<1>1. LockOK
  BY RestedOK DEF EvictionInit, LockOK, Inside
<1>2. NewRide \in RideSet /\ NewRide.at = "new"
  BY DEF NewRide, NoReading, RideSet, ReadingSet
<1>3. left \in AnyOccasion
  BY DEF EvictionInit, AnyOccasion
<1>4. EvictionType
  BY <1>2, <1>3, RestedOK DEF EvictionInit, EvictionType, LockSet
<1>5. \A e \in Evictors : InsideEvicts(e) /\ MarksLast(e)
  BY RestedOK DEF EvictionInit, InsideEvicts, MarksLast
<1>6. \A r \in Runs : RestsAtFirst(r)
  BY RestedOK DEF EvictionInit, RestsAtFirst, Evictors
<1>7. QED
  BY <1>1, <1>4, <1>5, <1>6 DEF EvictionInv

\* Every step keeps the invariant.
LEMMA EvictionKeeps == EvictionInv /\ [EvictionNext]_evictionVars => EvictionInv'
<1> SUFFICES ASSUME EvictionInv, [EvictionNext]_evictionVars PROVE EvictionInv'
  OBVIOUS
<1>1. CASE UNCHANGED evictionVars
  BY <1>1 DEF evictionVars, EvictionInv, EvictionType, InsideEvicts, MarksLast,
     RestsAtFirst, LockOK, Inside
<1>2. ASSUME NEW o \in Occasions, Choose(o) PROVE EvictionInv'
  <2>1. left' \in AnyOccasion /\ cached' \subseteq CacheEntries
    BY <1>2, EvictionAssumption DEF Choose, AnyOccasion, CacheEntries
  <2>2. QED
    BY <1>2, <2>1 DEF Choose, EvictionInv, EvictionType, InsideEvicts, MarksLast,
     RestsAtFirst, LockOK, Inside
<1>3. CASE Fetch \/ MakesRoom
  <2>1. left' = [left EXCEPT !.churn = @ - 1] /\ left.churn > 0 /\ left \in AnyOccasion
        /\ left.peers \subseteq Peers
    BY <1>3 DEF Fetch, MakesRoom, EvictionInv, EvictionType, AnyOccasion
  <2>2. left' \in AnyOccasion
    BY <2>1 DEF AnyOccasion
  <2>3. cached' \subseteq CacheEntries
    BY <1>3, <2>1 DEF Fetch, MakesRoom, IsDropped, CacheEntries, EvictionInv, EvictionType
  <2>4. UNCHANGED <<evictor, evictLock, ride, epochs, told>>
    BY <1>3 DEF Fetch, MakesRoom
  <2>5. QED
    BY <2>2, <2>3, <2>4 DEF EvictionInv, EvictionType, InsideEvicts, MarksLast,
     RestsAtFirst, LockOK, Inside
<1>4. CASE Press
  <2>1. told' \subseteq Runs /\ "button" \in Evictors /\ "button" \notin Runs
    BY <1>4, EvictionAssumption DEF Press, InFlightRuns, Evictors
  <2>2. QED
    BY <1>4, <2>1, DueKeeps DEF Press
<1>5. QED
  BY <1>1, <1>2, <1>3, <1>4, EvictorKeeps, RideKeeps DEF EvictionNext

\* Until somebody has had to wait for the lock, the evictions that take it exclude one another,
\* for any number of runs, peers and evictions and wherever each is cancelled or runs out of
\* time (evict_lock, runner.py:556, fleet.py:1213, routes/targets.py:415).
THEOREM UncontendedLockExcludesHolds == EvictionSpec => []UncontendedLockExcludes
<1>1. EvictionInv => UncontendedLockExcludes
  BY DEF EvictionInv, LockOK, UncontendedLockExcludes
<1>2. QED
  BY <1>1, EvictionStarts, EvictionKeeps, PTL DEF EvictionSpec

\* The lock is never left taken with nobody inside, however many share it, in whatever order
\* they take it from one another and let it go, and wherever they are cancelled (the
\* `async with` of runner.py:556, cancelled from 475).
THEOREM LockIsLetGoHolds == EvictionSpec => []LockIsLetGo
<1>1. EvictionInv => LockIsLetGo
  BY DEF EvictionInv, LockOK, LockIsLetGo
<1>2. QED
  BY <1>1, EvictionStarts, EvictionKeeps, PTL DEF EvictionSpec

\* What a reading of every indexer calls the entries it sees.
Names(route, entries) ==
    {NameOf(route, Cardinality(left.peers) > 1, x) : x \in {y \in entries : y[1] \in left.peers}}
\* How the cache has come from what it was when the run read it first.
Ledger(r, then) ==
    /\ cached \ then \subseteq fetched[r] /\ then \ cached \subseteq dropped[r]
    /\ fetched[r] \cap then \subseteq dropped[r] /\ fetched[r] \ cached \subseteq dropped[r]
HonestOf(r) ==
    /\ Told(r) \in {"cold", "mixed"} => fetched[r] # {}
    /\ Told(r) = "churning" => dropped[r] # {}
    /\ Told(r) \in {"warm", "churning"} => fetched[r] \subseteq dropped[r]
LedgerOK(r) ==
    /\ fetched[r] \subseteq left.peers \X Buckets
    /\ ride[r].at \notin {"load", "stuck", "sum", "summed"} => fetched[r] = {} /\ dropped[r] = {}
    /\ ride[r].at = "load" /\ ride[r].before.answered = left.peers /\ left.peers # {} =>
          \E then \in SUBSET CacheEntries :
              Ledger(r, then) /\ ride[r].before.ids = Names(ride[r].before.route, then)
    /\ r \in Summed /\ Alike(r) => HonestOf(r)
HistoryType == fetched \in [Runs -> SUBSET CacheEntries] /\ dropped \in [Runs -> SUBSET CacheEntries]
ProvenanceInv ==
    /\ EvictionInv /\ HistoryType /\ (left.runs = {} => \A r \in Runs : ride[r].at = "new")
    /\ \A r \in Runs : LedgerOK(r)

\* There are finitely many names.
LEMMA NamesAreFinite ==
    ASSUME NEW ids \in SUBSET ({"plain", "search", "direct"} \X (Peers \cup {"any"}) \X Buckets)
    PROVE  IsFiniteSet(ids)
<1> DEFINE kinds  == {"plain", "search", "direct"}
           peers  == Peers \cup {"any"}
           pairs  == kinds \X (peers \X Buckets)
           names  == kinds \X peers \X Buckets
           f == [x \in pairs |-> <<x[1], x[2][1], x[2][2]>>]
<1>1. IsFiniteSet(kinds)
  <2>1. IsFiniteSet({"plain"}) /\ kinds = ({"plain"} \cup {"search"}) \cup {"direct"}
    BY FS_Singleton
  <2>2. IsFiniteSet({"plain"} \cup {"search"})
    BY <2>1, FS_AddElement
  <2>3. IsFiniteSet(({"plain"} \cup {"search"}) \cup {"direct"})
    BY <2>2, FS_AddElement
  <2>4. QED
    BY <2>1, <2>3
<1>2. IsFiniteSet(peers) /\ IsFiniteSet(Buckets)
  BY FS_AddElement, EvictionAssumption
<1>3. IsFiniteSet(pairs)
  BY <1>1, <1>2, FS_Product
<1>4. f \in Surjection(pairs, names)
  <2>1. f \in [pairs -> names]
    OBVIOUS
  <2>2. ASSUME NEW y \in names PROVE \E x \in pairs : f[x] = y
    <3>1. <<y[1], <<y[2], y[3]>>>> \in pairs /\ f[<<y[1], <<y[2], y[3]>>>>] = y
      OBVIOUS
    <3>2. QED
      BY <3>1
  <2> HIDE DEF f, pairs, names
  <2>3. QED
    BY <2>1, <2>2 DEF Surjection
<1>5. IsFiniteSet(names)
  BY <1>3, <1>4, FS_Surjection
<1>6. QED
  BY <1>5, FS_Subset

\* Entries of the indexers that are read have names of their own.
LEMMA NamesTell ==
    ASSUME NEW P, IsFiniteSet(P), NEW x \in P \X Buckets, NEW y \in P \X Buckets, NEW route,
           NameOf(route, Cardinality(P) > 1, x) = NameOf(route, Cardinality(P) > 1, y)
    PROVE  x = y
<1>1. x = <<x[1], x[2]>> /\ y = <<y[1], y[2]>> /\ x[1] \in P /\ y[1] \in P
  OBVIOUS
<1>2. CASE Cardinality(P) > 1
  BY <1>1, <1>2 DEF NameOf
<1>3. CASE ~(Cardinality(P) > 1)
  <2>1. x[2] = y[2]
    BY <1>3 DEF NameOf
  <2>2. x[1] = y[1]
    <3>1. SUFFICES ASSUME x[1] # y[1] PROVE FALSE
      OBVIOUS
    <3>2. IsFiniteSet({x[1]}) /\ Cardinality({x[1]}) = 1
      BY FS_Singleton
    <3>3. Cardinality({x[1]} \cup {y[1]}) = 2
      BY <3>1, <3>2, FS_AddElement
    <3>4. {x[1]} \cup {y[1]} \in SUBSET P
      BY <1>1
    <3>5. Cardinality({x[1]} \cup {y[1]}) <= Cardinality(P) /\ Cardinality(P) \in Nat
      BY <3>4, FS_Subset, FS_CardinalityType
    <3>6. QED
      BY <1>3, <3>3, <3>5
  <2>3. QED
    BY <1>1, <2>1, <2>2
<1>4. QED
  BY <1>2, <1>3

\* What two readings say is what has happened between them.
LEMMA ReadingsTell ==
    ASSUME EvictionType, NEW r \in Runs, NEW old \in ReadingSet, NEW new \in ReadingSet,
           NEW then \in SUBSET CacheEntries, Ledger(r, then),
           fetched[r] \subseteq left.peers \X Buckets, left.peers # {},
           old.answered = left.peers, new.answered = left.peers,
           old.ids = Names(new.route, then), new.ids = Names(new.route, cached)
    PROVE  /\ Provenance(old, new) \in {"cold", "mixed"} => fetched[r] # {}
           /\ Provenance(old, new) = "churning" => dropped[r] # {}
           /\ Provenance(old, new) \in {"warm", "churning"} => fetched[r] \subseteq dropped[r]
<1>1. PICK P, gained, lost, now, route :
          P = left.peers /\ gained = fetched[r] /\ lost = dropped[r] /\ now = cached /\ route = new.route
  OBVIOUS
<1>2. /\ gained \in SUBSET (P \X Buckets) /\ now \in SUBSET CacheEntries
      /\ old.ids = Names(route, then) /\ new.ids = Names(route, now)
      /\ now \ then \subseteq gained /\ then \ now \subseteq lost
      /\ gained \cap then \subseteq lost /\ gained \ now \subseteq lost
  BY <1>1 DEF Ledger, EvictionType
<1>3. IsFiniteSet(P) /\ P \subseteq Peers
  BY <1>1, EvictionAssumption, FS_Subset DEF EvictionType, AnyOccasion
<1>4. IsFiniteSet(new.ids \ old.ids) /\ IsFiniteSet(old.ids \ new.ids)
  BY NamesAreFinite, FS_Difference DEF ReadingSet
<1>5. Downloads(old, new) \in Nat /\ EvictedDuring(old, new) \in Nat
  BY <1>4, FS_CardinalityType DEF Downloads, EvictedDuring, Added
<1>6. /\ Downloads(old, new) = 0 <=> new.ids \subseteq old.ids
      /\ EvictedDuring(old, new) = 0 <=> old.ids \subseteq new.ids
  BY <1>4, FS_EmptySet DEF Downloads, EvictedDuring, Added
<1> DEFINE name(x) == NameOf(route, Cardinality(P) > 1, x)
<1>7. ASSUME NEW entries \in SUBSET CacheEntries
      PROVE  Names(route, entries) = {name(x) : x \in entries \cap (P \X Buckets)}
  <2>1. {y \in entries : y[1] \in left.peers} = entries \cap (P \X Buckets)
    BY <1>1, <1>3 DEF CacheEntries
  <2>2. QED
    BY <1>1, <2>1 DEF Names
<1>8. ASSUME ~(new.ids \subseteq old.ids) PROVE gained # {}
  <2>1. PICK x \in now \cap (P \X Buckets) : name(x) \notin old.ids
    BY <1>2, <1>7, <1>8
  <2>2. x \notin then
    BY <1>2, <1>7, <2>1
  <2>3. QED
    BY <1>2, <2>1, <2>2
<1>9. ASSUME ~(old.ids \subseteq new.ids) PROVE lost # {}
  <2>1. PICK x \in then \cap (P \X Buckets) : name(x) \notin new.ids
    BY <1>2, <1>7, <1>9
  <2>2. x \notin now
    BY <1>2, <1>7, <2>1
  <2>3. QED
    BY <1>2, <2>1, <2>2
<1>10. ASSUME new.ids \subseteq old.ids PROVE gained \subseteq lost
  <2>1. SUFFICES ASSUME NEW x \in gained PROVE x \in lost
    OBVIOUS
  <2>2. CASE x \notin now
    BY <1>2, <2>2
  <2>3. CASE x \in now
    <3>1. name(x) \in old.ids
      BY <1>2, <1>7, <1>10, <2>3
    <3>2. PICK y \in then \cap (P \X Buckets) : name(y) = name(x)
      BY <1>2, <1>7, <3>1
    <3>3. x = y
      BY <1>2, <1>3, <3>2, NamesTell
    <3>4. QED
      BY <1>2, <3>2, <3>3
  <2>4. QED
    BY <2>2, <2>3
<1>11. /\ Provenance(old, new) \in {"cold", "mixed"} => ~(Downloads(old, new) = 0)
       /\ Provenance(old, new) = "churning" => Downloads(old, new) = 0 /\ EvictedDuring(old, new) > 0
       /\ Provenance(old, new) = "warm" => Downloads(old, new) = 0
  BY DEF Provenance
<1>12. Provenance(old, new) \in {"cold", "mixed"} => gained # {}
  BY <1>6, <1>8, <1>11
<1>13. EvictedDuring(old, new) > 0 => EvictedDuring(old, new) # 0
  BY <1>5
<1>14. Provenance(old, new) = "churning" => lost # {}
  BY <1>6, <1>9, <1>11, <1>13
<1>15. Provenance(old, new) \in {"warm", "churning"} => gained \subseteq lost
  BY <1>6, <1>10, <1>11
<1>16. QED
  BY <1>1, <1>12, <1>14, <1>15

\* A bucket fetched or lost, or a step that does not touch the cache.
LEMMA LedgerStays ==
    ASSUME ProvenanceInv, EvictionInv', NEW r \in Runs,
           left'.peers = left.peers, ride'[r].at = ride[r].at,
           ride'[r].before = ride[r].before, ride'[r].after = ride[r].after,
           \/ UNCHANGED <<cached, fetched, dropped>>
           \/ \E entry \in cached : IsDropped(entry) /\ UNCHANGED fetched
           \/ \E entry \in (left.peers \X Buckets) \ cached :
                 /\ cached' = cached \cup {entry}
                 /\ fetched' = [q \in Runs |-> fetched[q] \cup IF q \in InLoad THEN {entry} ELSE {}]
                 /\ UNCHANGED dropped
    PROVE  LedgerOK(r)' /\ HistoryType'
<1>1. LedgerOK(r) /\ HistoryType /\ cached \subseteq CacheEntries /\ left.peers \subseteq Peers
  BY DEF ProvenanceInv, EvictionInv, EvictionType, AnyOccasion
<1>2. /\ HistoryType'
      /\ cached' \subseteq CacheEntries
      /\ fetched'[r] \subseteq left.peers \X Buckets
      /\ r \notin InLoad => fetched'[r] = fetched[r] /\ dropped'[r] = dropped[r]
      /\ r \in InLoad => \A then \in SUBSET CacheEntries : Ledger(r, then) => Ledger(r, then)'
  <2>1. CASE UNCHANGED <<cached, fetched, dropped>>
    BY <1>1, <2>1 DEF HistoryType, LedgerOK, Ledger
  <2>2. CASE \E entry \in cached : IsDropped(entry) /\ UNCHANGED fetched
    <3>1. PICK entry \in cached : IsDropped(entry) /\ UNCHANGED fetched
      BY <2>2
    <3>2. /\ cached' = cached \ {entry} /\ {entry} \cap cached = {entry} /\ entry \in CacheEntries
          /\ dropped' = [q \in Runs |-> dropped[q] \cup IF q \in InLoad THEN {entry} ELSE {}]
      BY <1>1, <3>1 DEF IsDropped
    <3>3. HistoryType'
      BY <1>1, <3>1, <3>2 DEF HistoryType
    <3>4. dropped'[r] = dropped[r] \cup IF r \in InLoad THEN {entry} ELSE {}
      BY <3>2
    <3>5. QED
      BY <1>1, <3>1, <3>2, <3>3, <3>4 DEF LedgerOK, Ledger, HistoryType
  <2>3. CASE \E entry \in (left.peers \X Buckets) \ cached :
                 /\ cached' = cached \cup {entry}
                 /\ fetched' = [q \in Runs |-> fetched[q] \cup IF q \in InLoad THEN {entry} ELSE {}]
                 /\ UNCHANGED dropped
    <3>1. PICK entry \in (left.peers \X Buckets) \ cached :
                 /\ cached' = cached \cup {entry}
                 /\ fetched' = [q \in Runs |-> fetched[q] \cup IF q \in InLoad THEN {entry} ELSE {}]
                 /\ UNCHANGED dropped
      BY <2>3
    <3>2. entry \in CacheEntries
      BY <1>1 DEF CacheEntries
    <3>3. HistoryType'
      BY <1>1, <3>1, <3>2 DEF HistoryType
    <3>4. fetched'[r] = fetched[r] \cup IF r \in InLoad THEN {entry} ELSE {}
      BY <3>1
    <3>5. QED
      BY <1>1, <3>1, <3>2, <3>3, <3>4 DEF LedgerOK, Ledger, HistoryType
  <2>4. QED
    BY <2>1, <2>2, <2>3
<1>3. ride'[r].at # "load" => r \notin InLoad
  BY DEF InLoad
<1>4. ASSUME ride'[r].at = "load" /\ ride'[r].before.answered = left'.peers /\ left'.peers # {}
      PROVE  \E then \in SUBSET CacheEntries :
                 Ledger(r, then)' /\ ride'[r].before.ids = Names(ride[r].before.route, then)'
  <2>1. PICK then \in SUBSET CacheEntries :
            Ledger(r, then) /\ ride[r].before.ids = Names(ride[r].before.route, then)
    BY <1>1, <1>4 DEF LedgerOK
  <2>2. r \in InLoad
    BY <1>4 DEF InLoad
  <2>3. ride'[r].before.ids = Names(ride[r].before.route, then)'
    BY <2>1 DEF Names
  <2>4. QED
    BY <1>2, <2>1, <2>2, <2>3
<1>5. ASSUME r \in Summed', Alike(r)' PROVE HonestOf(r)'
  <2>1. r \in Summed /\ Alike(r) /\ r \notin InLoad
    BY <1>5 DEF Summed, Alike, InLoad
  <2>2. HonestOf(r)
    BY <1>1, <2>1 DEF LedgerOK
  <2>3. Told(r)' = Told(r)
    BY DEF Told
  <2>4. QED
    BY <1>2, <2>1, <2>2, <2>3 DEF HonestOf
<1>6. QED
  BY <1>1, <1>2, <1>3, <1>4, <1>5 DEF LedgerOK

\* What a reading of every indexer is called and says.
LEMMA ReadingIsOf ==
    ASSUME EvictionInv, NEW reading \in Readings, reading.answered = left.peers, left.peers # {}
    PROVE  reading.ids = Names(reading.route, cached)
<1>1. PICK route \in {"search", "direct"}, answered \in SUBSET left.peers : reading = Reading(route, answered)
  BY DEF Readings, NoReading
<1> DEFINE several == IF route = "search" THEN Cardinality(answered) > 1 ELSE Cardinality(left.peers) > 1
           ids == {NameOf(route, several, entry) : entry \in {x \in cached : x[1] \in answered}}
<1>2. Reading(route, answered) = [route |-> route, answered |-> answered, ids |-> ids]
  BY DEF Reading
<1> HIDE DEF ids
<1>3. reading.route = route /\ reading.ids = ids /\ answered = left.peers
  BY <1>1, <1>2
<1>4. several <=> Cardinality(left.peers) > 1
  BY <1>3
<1>5. \A entry : NameOf(route, several, entry) = NameOf(route, Cardinality(left.peers) > 1, entry)
  BY <1>4 DEF NameOf
<1> HIDE DEF several
<1>6. QED
  BY <1>3, <1>5 DEF Names, ids

\* A run reads the cache before its load.
LEMMA ReadBeforeTells ==
    ASSUME ProvenanceInv, NEW r \in Runs, ReadBefore(r), EvictionInv' PROVE LedgerOK(r)'
<1>1. PICK reading \in Readings : ride' = [ride EXCEPT ![r].at = "load", ![r].before = reading]
  BY DEF ReadBefore
<1>2. /\ ride \in [Runs -> RideSet] /\ ride[r].at = "setup" /\ LedgerOK(r) /\ EvictionInv
      /\ cached \in SUBSET CacheEntries
      /\ UNCHANGED <<cached, left, fetched, dropped>>
  BY DEF ReadBefore, ProvenanceInv, EvictionInv, EvictionType
<1>3. ride'[r].at = "load" /\ ride'[r].before = reading
  BY <1>1, <1>2 DEF RideSet
<1>4. fetched[r] = {} /\ dropped[r] = {}
  BY <1>2 DEF LedgerOK
<1>5. ASSUME reading.answered = left.peers, left.peers # {}
      PROVE  Ledger(r, cached)' /\ ride'[r].before.ids = Names(reading.route, cached)'
  <2>1. reading.ids = Names(reading.route, cached)
    BY <1>2, <1>5, ReadingIsOf
  <2>2. QED
    BY <1>2, <1>3, <1>4, <2>1 DEF Ledger, Names
<1>6. r \notin Summed'
  BY <1>3 DEF Summed
<1>7. ASSUME reading.answered = left.peers, left.peers # {}
      PROVE  \E then \in SUBSET CacheEntries : Ledger(r, then)' /\ ride'[r].before.ids = Names(reading.route, then)'
  <2>1. PICK then \in SUBSET CacheEntries : then = cached
    BY <1>2
  <2>2. Ledger(r, then)' /\ ride'[r].before.ids = Names(reading.route, then)'
    BY <1>2, <1>5, <1>7, <2>1 DEF Ledger, Names
  <2>3. QED
    BY <2>2
<1>8. fetched'[r] \subseteq left'.peers \X Buckets
  BY <1>2, <1>4
<1>9. QED
  BY <1>2, <1>3, <1>6, <1>7, <1>8 DEF LedgerOK, Names

\* A run reads the cache after its load: what it will say of it is so.
LEMMA ReadAfterTells ==
    ASSUME ProvenanceInv, NEW r \in Runs, ReadAfter(r), EvictionInv' PROVE LedgerOK(r)'
<1>1. PICK reading \in Readings : ride' = [ride EXCEPT ![r].at = "sum", ![r].after = reading]
  BY DEF ReadAfter
<1>2. /\ ride \in [Runs -> RideSet] /\ ride[r].at = "load" /\ LedgerOK(r) /\ EvictionInv /\ EvictionType
      /\ cached \in SUBSET CacheEntries /\ reading \in ReadingSet
      /\ UNCHANGED <<cached, left, fetched, dropped>>
  BY ReadingsOK DEF ReadAfter, ProvenanceInv, EvictionInv, EvictionType
<1>3. ride'[r].at = "sum" /\ ride'[r].before = ride[r].before /\ ride'[r].after = reading
  BY <1>1, <1>2 DEF RideSet
<1>4. ride[r].before \in ReadingSet
  BY <1>2 DEF RideSet
<1>5. ASSUME Alike(r)' PROVE HonestOf(r)'
  <2>1. /\ ride[r].before.route = reading.route /\ ride[r].before.answered = left.peers
        /\ reading.answered = left.peers
    BY <1>2, <1>3, <1>5 DEF Alike
  <2>2. Told(r)' = Provenance(ride[r].before, reading)
    BY <1>3 DEF Told
  <2>3. CASE left.peers = {}
    <3>1. Provenance(ride[r].before, reading) = "unknown"
      BY <2>1, <2>3 DEF Provenance
    <3>2. QED
      BY <2>2, <3>1 DEF HonestOf
  <2>4. CASE left.peers # {}
    <3>1. PICK then \in SUBSET CacheEntries :
              Ledger(r, then) /\ ride[r].before.ids = Names(ride[r].before.route, then)
      BY <1>2, <2>1, <2>4 DEF LedgerOK
    <3>2. reading.ids = Names(reading.route, cached)
      BY <1>2, <2>1, <2>4, ReadingIsOf
    <3>3. PICK old \in ReadingSet : old = ride[r].before
      BY <1>4
    <3>4. old.ids = Names(reading.route, then) /\ old.answered = left.peers
      BY <2>1, <3>1, <3>3
    <3>5. /\ Provenance(old, reading) \in {"cold", "mixed"} => fetched[r] # {}
          /\ Provenance(old, reading) = "churning" => dropped[r] # {}
          /\ Provenance(old, reading) \in {"warm", "churning"} => fetched[r] \subseteq dropped[r]
      BY <1>2, <2>1, <2>4, <3>1, <3>2, <3>4, ReadingsTell DEF LedgerOK
    <3>6. QED
      BY <1>2, <2>2, <3>3, <3>5 DEF HonestOf
  <2>5. QED
    BY <2>3, <2>4
<1>6. QED
  BY <1>2, <1>3, <1>5 DEF LedgerOK

\* The steps of the evictors and the button, the churn of the cache, and the clock.
LEMMA CacheStepTells ==
    ASSUME ProvenanceInv, EvictionInv',
           Fetch \/ MakesRoom \/ Press \/ (\E e \in Evictors : EvictorStep(e)) \/ (\E r \in Runs : Due(r))
           \/ UNCHANGED evictionVars
    PROVE  ProvenanceInv'
<1>1. left \in AnyOccasion /\ ride \in [Runs -> RideSet]
  BY DEF ProvenanceInv, EvictionInv, EvictionType
<1>2. left'.peers = left.peers /\ left'.runs = left.runs
  <2>1. CASE Fetch \/ MakesRoom \/ Press \/ \E r \in Runs : Due(r)
    BY <1>1, <2>1 DEF Fetch, MakesRoom, Press, Due, AnyOccasion
  <2>2. CASE \E e \in Evictors : EvictorStep(e)
    <3>1. PICK e \in Evictors : EvictorStep(e)
      BY <2>2
    <3>2. CASE List(e) \/ Ask(e) \/ Confirm(e) \/ Mark(e) \/ TellStats(e)
      BY <3>2 DEF List, Ask, Confirm, Mark, TellStats
    <3>3. CASE Acquire(e) \/ Join(e) \/ Woken(e) \/ Take(e) \/ Ends(e) \/ OutOfTime(e)
      BY <3>3 DEF Acquire, Join, Woken, Take, Ends, OutOfTime
    <3>4. QED
      BY <3>1, <3>2, <3>3 DEF EvictorStep
  <2>3. CASE UNCHANGED evictionVars
    BY <2>3 DEF evictionVars
  <2>4. QED
    BY <2>1, <2>2, <2>3
<1>3. ASSUME NEW r \in Runs
      PROVE  ride'[r].at = ride[r].at /\ ride'[r].before = ride[r].before /\ ride'[r].after = ride[r].after
  <2>1. CASE Fetch \/ MakesRoom \/ Press \/ \E q \in Runs : Due(q)
    BY <2>1 DEF Fetch, MakesRoom, Press, Due
  <2>2. CASE \E e \in Evictors : EvictorStep(e)
    <3>1. PICK e \in Evictors : EvictorStep(e)
      BY <2>2
    <3>2. CASE TellStats(e)
      <4>1. PICK q, n : ride' = IF q \in InProcess THEN [ride EXCEPT ![q] = SetEpoch(ride[q], n)] ELSE ride
        BY <3>2 DEF TellStats
      <4>2. CASE r = q /\ q \in InProcess
        <5>1. ride'[r] = SetEpoch(ride[r], n)
          BY <1>1, <4>1, <4>2
        <5>2. ride[r] \in RideSet
          BY <1>1
        <5>3. QED
          BY <5>1, <5>2 DEF SetEpoch, RideSet
      <4>3. CASE ~(r = q /\ q \in InProcess)
        <5>1. ride'[r] = ride[r]
          BY <1>1, <4>1, <4>3
        <5>2. QED
          BY <5>1
      <4>4. QED
        BY <4>2, <4>3
    <3>3. CASE List(e) \/ Ask(e) \/ Confirm(e) \/ Mark(e)
      BY <3>3 DEF List, Ask, Confirm, Mark
    <3>4. CASE Acquire(e) \/ Join(e) \/ Woken(e) \/ Take(e) \/ Ends(e) \/ OutOfTime(e)
      BY <3>4 DEF Acquire, Join, Woken, Take, Ends, OutOfTime
    <3>5. QED
      BY <3>1, <3>2, <3>3, <3>4 DEF EvictorStep
  <2>3. CASE UNCHANGED evictionVars
    BY <2>3 DEF evictionVars
  <2>4. QED
    BY <2>1, <2>2, <2>3
<1>4. \/ UNCHANGED <<cached, fetched, dropped>>
      \/ \E entry \in cached : IsDropped(entry) /\ UNCHANGED fetched
      \/ \E entry \in (left.peers \X Buckets) \ cached :
            /\ cached' = cached \cup {entry}
            /\ fetched' = [q \in Runs |-> fetched[q] \cup IF q \in InLoad THEN {entry} ELSE {}]
            /\ UNCHANGED dropped
  <2>1. CASE Press \/ (\E r \in Runs : Due(r)) \/ UNCHANGED evictionVars
    BY <2>1 DEF Press, Due, evictionVars
  <2>2. CASE Fetch
    BY <2>2 DEF Fetch
  <2>3. CASE MakesRoom
    BY <2>3 DEF MakesRoom
  <2>4. CASE \E e \in Evictors : EvictorStep(e)
    <3>1. PICK e \in Evictors : EvictorStep(e)
      BY <2>4
    <3>2. CASE Ask(e)
      <4>1. PICK entry : /\ entry \in evictor[e].listed
                         /\ IsDropped(entry) \/ UNCHANGED <<cached, dropped>>
        BY <3>2 DEF Ask
      <4>2. UNCHANGED fetched
        BY <3>2 DEF Ask
      <4>3. CASE IsDropped(entry) /\ entry \notin cached
        <5>1. cached' = cached /\ {entry} \cap cached = {}
          BY <4>3 DEF IsDropped
        <5>2. dropped' = [r \in Runs |-> dropped[r]]
          BY <4>3, <5>1 DEF IsDropped
        <5>3. dropped' = dropped
          BY <5>2 DEF ProvenanceInv, HistoryType
        <5>4. QED
          BY <4>2, <5>1, <5>3
      <4>4. QED
        BY <4>1, <4>2, <4>3
    <3>3. CASE List(e) \/ Confirm(e) \/ Mark(e) \/ TellStats(e)
      BY <3>3 DEF List, Confirm, Mark, TellStats
    <3>4. CASE Acquire(e) \/ Join(e) \/ Woken(e) \/ Take(e) \/ Ends(e) \/ OutOfTime(e)
      BY <3>4 DEF Acquire, Join, Woken, Take, Ends, OutOfTime
    <3>5. QED
      BY <3>1, <3>2, <3>3, <3>4 DEF EvictorStep
  <2>5. QED
    BY <2>1, <2>2, <2>3, <2>4
<1>5. ASSUME NEW r \in Runs PROVE LedgerOK(r)' /\ HistoryType'
  BY <1>2, <1>3, <1>4, LedgerStays
<1>6. HistoryType'
  <2>1. CASE Runs = {}
    <3>1. fetched' = fetched /\ dropped' = dropped
      BY <1>4, <2>1 DEF IsDropped, ProvenanceInv, HistoryType
    <3>2. QED
      BY <3>1 DEF ProvenanceInv, HistoryType
  <2>2. QED
    BY <1>5, <2>1
<1>7. QED
  BY <1>2, <1>3, <1>5, <1>6 DEF ProvenanceInv

\* The steps of one run on its way leave the others' ledgers.
LEMMA RideStepTells ==
    ASSUME ProvenanceInv, EvictionInv', NEW r \in Runs, RideStep(r), ~Due(r)
    PROVE  ProvenanceInv'
<1>1. /\ ride \in [Runs -> RideSet] /\ left \in AnyOccasion /\ HistoryType /\ LedgerOK(r)
      /\ fetched \in [Runs -> SUBSET CacheEntries] /\ dropped \in [Runs -> SUBSET CacheEntries]
      /\ left.runs = {} => \A q \in Runs : ride[q].at = "new"
  BY DEF ProvenanceInv, EvictionInv, EvictionType, HistoryType
<1>2. /\ left'.peers = left.peers /\ left'.runs = left.runs /\ UNCHANGED cached
      /\ left.runs # {}
  BY <1>1 DEF RideStep, StartRide, ReadBefore, ReadAfter, CancelIsLost, Summarise, Gone,
                 AnyOccasion
<1>3. /\ HistoryType'
      /\ \A q \in Runs \ {r} : ride'[q] = ride[q] /\ fetched'[q] = fetched[q] /\ dropped'[q] = dropped[q]
  BY <1>1 DEF RideStep, StartRide, ReadBefore, ReadAfter, CancelIsLost, Summarise, Gone,
                 HistoryType
<1>4. LedgerOK(r)'
  <2>1. CASE StartRide(r)
    <3>1. ride'[r].at = "setup" /\ fetched'[r] = {} /\ dropped'[r] = {}
      BY <1>1, <2>1 DEF StartRide, LedgerOK, RideSet
    <3>2. QED
      BY <3>1 DEF LedgerOK, Summed
  <2>2. CASE ReadBefore(r)
    BY <2>2, ReadBeforeTells
  <2>3. CASE ReadAfter(r)
    BY <2>3, ReadAfterTells
  <2>4. CASE Summarise(r)
    <3>1. /\ ride[r].at = "sum" /\ ride'[r].at = "summed" /\ ride'[r].before = ride[r].before
          /\ ride'[r].after = ride[r].after /\ UNCHANGED <<left, fetched, dropped>>
      BY <1>1, <2>4 DEF Summarise, RideSet
    <3>2. r \in Summed /\ Told(r)' = Told(r) /\ (Alike(r)' <=> Alike(r))
      BY <3>1 DEF Summed, Told, Alike
    <3>3. QED
      BY <1>1, <3>1, <3>2 DEF LedgerOK, HonestOf
  <2>5. CASE Gone(r)
    <3>1. ride'[r].at = "gone" /\ fetched'[r] = {} /\ dropped'[r] = {}
      BY <1>1, <2>5 DEF Gone, NewRide
    <3>2. QED
      BY <3>1 DEF LedgerOK, Summed
  <2>6. CASE CancelIsLost(r)
    <3>1. ride'[r].at = "stuck" /\ UNCHANGED <<left, fetched, dropped>>
      BY <1>1, <2>6 DEF CancelIsLost, RideSet
    <3>2. QED
      BY <1>1, <3>1 DEF LedgerOK, Summed
  <2>7. QED
    BY <2>1, <2>2, <2>3, <2>4, <2>5, <2>6 DEF RideStep
<1>5. ASSUME NEW q \in Runs \ {r} PROVE LedgerOK(q)'
  <2>1. LedgerOK(q)
    BY DEF ProvenanceInv
  <2>2. /\ ride'[q] = ride[q] /\ fetched'[q] = fetched[q] /\ dropped'[q] = dropped[q]
        /\ cached' = cached /\ left'.peers = left.peers
    BY <1>2, <1>3
  <2>3. \A then : (Ledger(q, then)' <=> Ledger(q, then))
                  /\ Names(ride[q].before.route, then)' = Names(ride[q].before.route, then)
    BY <2>2 DEF Ledger, Names
  <2>4. /\ q \in Summed' <=> q \in Summed
        /\ Alike(q)' <=> Alike(q)
        /\ Told(q)' = Told(q)
    BY <2>2 DEF Summed, Alike, Told
  <2>5. HonestOf(q)' <=> HonestOf(q)
    BY <2>2, <2>4 DEF HonestOf
  <2>6. QED
    BY <2>1, <2>2, <2>3, <2>4, <2>5 DEF LedgerOK
<1>6. QED
  BY <1>2, <1>3, <1>4, <1>5 DEF ProvenanceInv

\* Every step keeps the ledgers.
LEMMA ProvenanceKeeps == ProvenanceInv /\ [EvictionNext]_evictionVars => ProvenanceInv'
<1> SUFFICES ASSUME ProvenanceInv, [EvictionNext]_evictionVars PROVE ProvenanceInv'
  OBVIOUS
<1>1. EvictionInv'
  BY EvictionKeeps DEF ProvenanceInv
<1>2. CASE \E o \in Occasions : Choose(o)
  <2>1. \A r \in Runs : ride[r].at = "new" /\ LedgerOK(r)
    BY <1>2 DEF Choose, ProvenanceInv
  <2>2. UNCHANGED <<ride, fetched, dropped>>
    BY <1>2 DEF Choose
  <2>3. \A r \in Runs : LedgerOK(r)'
    BY <2>1, <2>2 DEF LedgerOK, Summed
  <2>4. QED
    BY <1>1, <2>1, <2>2, <2>3 DEF ProvenanceInv, HistoryType
<1>3. CASE Fetch \/ MakesRoom \/ Press \/ (\E e \in Evictors : EvictorStep(e)) \/ (\E r \in Runs : Due(r))
           \/ UNCHANGED evictionVars
  BY <1>1, <1>3, CacheStepTells
<1>4. ASSUME NEW r \in Runs, RideStep(r), ~Due(r) PROVE ProvenanceInv'
  BY <1>1, <1>4, RideStepTells
<1>5. QED
  BY <1>2, <1>3, <1>4 DEF EvictionNext

\* What a run's summary says of the cache is what happened to it between two readings of every
\* indexer by one route, whoever evicts meanwhile (CacheDelta, delta).
THEOREM ProvenanceIsHonestHolds == EvictionSpec => []ProvenanceIsHonest
<1>1. EvictionInit => ProvenanceInv
  <2>1. ASSUME EvictionInit PROVE \A r \in Runs : ride[r].at = "new" /\ fetched[r] = {} /\ dropped[r] = {}
    BY <2>1 DEF EvictionInit, NewRide
  <2>2. ASSUME EvictionInit PROVE \A r \in Runs : LedgerOK(r)
    BY <2>1, <2>2 DEF LedgerOK, Summed
  <2>3. EvictionInit => HistoryType
    BY DEF EvictionInit, HistoryType
  <2>4. QED
    BY <2>1, <2>2, <2>3, EvictionStarts DEF ProvenanceInv
<1>2. ProvenanceInv => ProvenanceIsHonest
  BY DEF ProvenanceInv, LedgerOK, HonestOf, ProvenanceIsHonest, Summed
<1>3. QED
  BY <1>1, <1>2, ProvenanceKeeps, PTL DEF EvictionSpec

-----------------------------------------------------------------------------
(* BrowserPages. *)

Sids     == Nat \X (Panels \cup {"landing"})
TabSet   == [open : BOOLEAN, logged_in : BOOLEAN, loads : Nat,
             shows : {"blank", "landing", "dashboard", "login"}, painted : BOOLEAN,
             searches : SUBSET Sids, finished : SUBSET Sids]
VisitSet == [at : {"idle", "lock", "making", "login", "goto", "relogin", "regoto", "panel", "settle"},
             sids : SUBSET Sids, done : SUBSET Sids, span : SUBSET {"login"}]
RecordSet == [ok : BOOLEAN, settled : {"yes", "no"}, span : SUBSET {"login"}, sids : SUBSET Sids,
              done : SUBSET Sids, page : TabSet]

BrowserType ==
    /\ browser \in {"new", "up", "fatal", "closed"}
    /\ tab \in [Viewers -> TabSet]
    /\ visit \in [Viewers -> VisitSet]
    /\ measured \in [Viewers -> RecordSet \cup {<<>>}]
    /\ logins \in [Viewers -> Nat] /\ expired \in [Viewers -> Nat]
    /\ webSession \subseteq Viewers

\* A login is owed: the user's session, if there was one, has aged out.
LoginsCount(u) ==
    /\ logins[u] <= 1 + expired[u]
    /\ u \notin webSession => logins[u] <= expired[u]
    /\ ~tab[u].logged_in /\ browser # "closed" => logins[u] <= expired[u]
VisitOK(u) ==
    /\ browser = "closed" => visit[u].at = "idle"
    /\ visit[u].at \in {"login", "relogin"} => ~tab[u].logged_in
    \* Only a load that fell on the login page has a login in its span, until it goes again.
    /\ visit[u].at \in {"login", "goto", "panel", "settle"} => visit[u].span = {}
    /\ tab[u].painted => tab[u].shows = "dashboard"
    /\ visit[u].at = "settle" => tab[u].painted
MeasuredOK(u) ==
    measured[u] # <<>> /\ measured[u].ok =>
        "login" \notin measured[u].span /\ measured[u].page.shows = "dashboard"

BrowserInv ==
    /\ BrowserType
    /\ \A u \in Viewers : LoginsCount(u) /\ VisitOK(u) /\ MeasuredOK(u)

\* A step of one user, or of its page, leaves the others as they are.
OthersStay(u) ==
    /\ browser' = "closed" <=> browser = "closed"
    /\ \A x \in Viewers \ {u} :
          /\ tab'[x] = tab[x] /\ visit'[x] = visit[x] /\ measured'[x] = measured[x]
          /\ logins'[x] = logins[x] /\ expired'[x] = expired[x]
          /\ x \in webSession' <=> x \in webSession

\* A step of one user leaves what is known of the others.
LEMMA OneViewerMoves ==
    ASSUME BrowserInv, NEW u \in Viewers, BrowserType', OthersStay(u),
           LoginsCount(u)', VisitOK(u)', MeasuredOK(u)'
    PROVE  BrowserInv'
<1>1. ASSUME NEW x \in Viewers \ {u} PROVE LoginsCount(x)' /\ VisitOK(x)' /\ MeasuredOK(x)'
  BY DEF OthersStay, BrowserInv, LoginsCount, VisitOK, MeasuredOK
<1>2. QED
  BY <1>1 DEF BrowserInv

\* What there is of a user.
LEMMA ViewerType ==
    ASSUME BrowserInv, NEW u \in Viewers
    PROVE  /\ tab[u] \in TabSet /\ visit[u] \in VisitSet
           /\ measured[u] \in RecordSet \cup {<<>>}
           /\ logins[u] \in Nat /\ expired[u] \in Nat
           /\ tab = [tab EXCEPT ![u] = tab[u]] /\ visit = [visit EXCEPT ![u] = visit[u]]
           /\ measured = [measured EXCEPT ![u] = measured[u]]
           /\ logins = [logins EXCEPT ![u] = logins[u]]
           /\ expired = [expired EXCEPT ![u] = expired[u]]
           /\ LoginsCount(u) /\ VisitOK(u) /\ MeasuredOK(u)
BY DEF BrowserInv, BrowserType

\* A visit that begins, at the lock, at the login or at the load.
LEMMA VisitBegins ==
    ASSUME NEW u, NEW t \in TabSet, NEW at \in {"lock", "making", "login", "goto"}
    PROVE  /\ NoVisit \in VisitSet /\ NoVisit.at = "idle" /\ NoVisit.span = {}
           /\ [NoVisit EXCEPT !.at = at] \in VisitSet
           /\ [NoVisit EXCEPT !.at = at].at = at /\ [NoVisit EXCEPT !.at = at].span = {}
           /\ Goes(u, t) \in VisitSet /\ Goes(u, t).span = {}
           /\ Goes(u, t).at \in {"login", "goto"}
           /\ Goes(u, t).at = "login" => ~t.logged_in
BY DEF NoVisit, VisitSet, Goes, NeedsLogin

\* A page that is opened starts with nothing, and opening it may be counted as a load.
LEMMA PageOK ==
    ASSUME NEW t \in TabSet, NEW shows \in {"landing", "dashboard", "login"}
    PROVE  /\ Page(t, shows) \in TabSet /\ Page(t, shows).painted = FALSE
           /\ Page(t, shows).logged_in = t.logged_in
BY DEF Page, TabSet

\* A load is counted, and the tab shows what it showed.
LEMMA CountedOK ==
    ASSUME NEW t \in TabSet
    PROVE  /\ Counted(t) \in TabSet /\ Counted(t).painted = t.painted
           /\ Counted(t).logged_in = t.logged_in /\ Counted(t).shows = t.shows
BY DEF Counted, TabSet

\* A visit begins in a browser that is up.
LEMMA ExecuteKeeps == ASSUME BrowserInv, NEW u \in Viewers, Execute(u) PROVE BrowserInv'
<1> DEFINE v == IF tab[u].open THEN Goes(u, tab[u]) ELSE [NoVisit EXCEPT !.at = "lock"]
<1>1. /\ browser = "up" /\ visit' = [visit EXCEPT ![u] = v]
      /\ UNCHANGED <<browser, tab, webSession, measured, logins, expired>>
  BY DEF Execute
<1>2. /\ v \in VisitSet /\ v.span = {} /\ v.at \in {"lock", "login", "goto"}
      /\ v.at = "login" => ~tab[u].logged_in
  <2>1. tab[u] \in TabSet
    BY ViewerType
  <2>2. CASE tab[u].open
    BY <2>1, <2>2, VisitBegins
  <2>3. CASE ~tab[u].open
    BY <2>1, <2>3, VisitBegins
  <2>4. QED
    BY <2>2, <2>3
<1> HIDE DEF v
<1>3. visit'[u] = v
  BY <1>1 DEF BrowserInv, BrowserType
<1>4. LoginsCount(u)' /\ VisitOK(u)' /\ MeasuredOK(u)'
  BY <1>1, <1>2, <1>3, ViewerType DEF LoginsCount, VisitOK, MeasuredOK
<1>5. BrowserType' /\ OthersStay(u)
  BY <1>1, <1>2, <1>4, ViewerType DEF BrowserInv, BrowserType, OthersStay
<1>6. QED
  BY <1>1, <1>2, <1>4, <1>5, OneViewerMoves

\* A visit takes its user's lock, and makes the tab if there is none.
LEMMA TakesLockKeeps == ASSUME BrowserInv, NEW u \in Viewers, TakesLock(u) PROVE BrowserInv'
<1> DEFINE v == [visit[u] EXCEPT !.at = "making"]
<1>1. /\ visit[u].at = "lock" /\ visit' = [visit EXCEPT ![u] = v]
      /\ UNCHANGED <<browser, tab, webSession, measured, logins, expired>>
  BY DEF TakesLock
<1>2. v \in VisitSet /\ v.at = "making"
  BY ViewerType DEF VisitSet
<1> HIDE DEF v
<1>3. visit'[u] = v /\ browser # "closed"
  BY <1>1, ViewerType DEF BrowserInv, BrowserType, VisitOK
<1>4. LoginsCount(u)' /\ VisitOK(u)' /\ MeasuredOK(u)'
  BY <1>1, <1>2, <1>3, ViewerType DEF LoginsCount, VisitOK, MeasuredOK
<1>5. BrowserType' /\ OthersStay(u)
  BY <1>1, <1>2, <1>4, ViewerType DEF BrowserInv, BrowserType, OthersStay
<1>6. QED
  BY <1>1, <1>2, <1>4, <1>5, OneViewerMoves

\* A new tab is not logged in, and owes a login for the session it lacks.
LEMMA OpensTabKeeps == ASSUME BrowserInv, NEW u \in Viewers, OpensTab(u) PROVE BrowserInv'
<1> DEFINE t == [tab[u] EXCEPT !.open = TRUE]
           v == Goes(u, tab[u])
<1>1. /\ visit[u].at = "making" /\ tab' = [tab EXCEPT ![u] = t]
      /\ visit' = [visit EXCEPT ![u] = v]
      /\ UNCHANGED <<browser, webSession, measured, logins, expired>>
  BY DEF OpensTab
<1>2. /\ t \in TabSet /\ t.logged_in = tab[u].logged_in
      /\ t.painted = tab[u].painted /\ t.shows = tab[u].shows
  BY ViewerType DEF TabSet
<1>3. /\ v \in VisitSet /\ v.span = {} /\ v.at \in {"login", "goto"}
      /\ v.at = "login" => ~tab[u].logged_in
  BY ViewerType, VisitBegins
<1> HIDE DEF t, v
<1>4. visit'[u] = v /\ tab'[u] = t /\ browser # "closed"
  BY <1>1, ViewerType DEF BrowserInv, BrowserType, VisitOK
<1>5. LoginsCount(u)' /\ VisitOK(u)' /\ MeasuredOK(u)'
  BY <1>1, <1>2, <1>3, <1>4, ViewerType DEF LoginsCount, VisitOK, MeasuredOK
<1>6. BrowserType' /\ OthersStay(u)
  BY <1>1, <1>2, <1>3, <1>5, ViewerType DEF BrowserInv, BrowserType, OthersStay
<1>7. QED
  BY <1>1, <1>2, <1>3, <1>5, <1>6, OneViewerMoves

\* A record is filed: it is good only if the page shows a dashboard.
LEMMA FilesKeeps ==
    ASSUME BrowserInv, NEW u \in Viewers, NEW ok \in BOOLEAN, NEW settled \in {"yes", "no"},
           Files(u, ok, settled), NEW t \in TabSet, tab' = [tab EXCEPT ![u] = t],
           t.painted = tab[u].painted, t.shows = tab[u].shows, t.logged_in = tab[u].logged_in,
           ok => tab[u].painted /\ visit[u].span = {},
           UNCHANGED <<browser, webSession, logins, expired>>
    PROVE  BrowserInv'
<1> DEFINE m == [ok |-> ok, settled |-> settled, span |-> visit[u].span,
                 sids |-> visit[u].sids, done |-> visit[u].done, page |-> tab[u]]
<1>1. /\ measured' = [measured EXCEPT ![u] = m] /\ visit' = [visit EXCEPT ![u] = NoVisit]
  BY DEF Files
<1>2. /\ m \in RecordSet /\ m.ok = ok /\ m.span = visit[u].span /\ m.page = tab[u]
  BY ViewerType DEF RecordSet, VisitSet
<1> HIDE DEF m
<1>3. visit'[u] = NoVisit /\ measured'[u] = m /\ tab'[u] = t
  BY <1>1 DEF BrowserInv, BrowserType
<1>4. NoVisit \in VisitSet /\ NoVisit.at = "idle"
  BY VisitBegins, ViewerType
<1>5. LoginsCount(u)' /\ VisitOK(u)'
  BY <1>3, <1>4, ViewerType DEF LoginsCount, VisitOK
<1>6. MeasuredOK(u)'
  BY <1>2, <1>3, ViewerType DEF VisitOK, MeasuredOK
<1>7. BrowserType' /\ OthersStay(u)
  BY <1>1, <1>2, <1>4, <1>5, <1>6, ViewerType DEF BrowserInv, BrowserType, OthersStay
<1>8. QED
  BY <1>1, <1>2, <1>4, <1>5, <1>6, <1>7, OneViewerMoves

\* A call of the browser fails, and the visit is filed as it stands.
LEMMA CallFailsKeeps == ASSUME BrowserInv, NEW u \in Viewers, CallFails(u) PROVE BrowserInv'
<1> DEFINE t == IF visit[u].at = "goto" THEN Counted(tab[u]) ELSE tab[u]
<1>1. tab' = [tab EXCEPT ![u] = t] /\ Files(u, FALSE, "no")
      /\ UNCHANGED <<browser, webSession, logins, expired>>
  BY DEF CallFails
<1>2. /\ t \in TabSet /\ t.painted = tab[u].painted /\ t.shows = tab[u].shows
      /\ t.logged_in = tab[u].logged_in
  BY ViewerType DEF Counted, TabSet
<1> HIDE DEF t
<1>3. QED
  BY <1>1, <1>2, FilesKeeps

\* A visit is over: its record is good only if the page is the dashboard.
LEMMA LoadEndsKeeps ==
    ASSUME BrowserInv, NEW u \in Viewers, PageSettles(u) \/ StepDeadline(u)
    PROVE  BrowserInv'
<1>1. PICK ok \in BOOLEAN, settled \in {"yes", "no"} :
          Files(u, ok, settled) /\ (ok => visit[u].at = "settle")
  BY DEF PageSettles, StepDeadline
<1>2. ok => tab[u].painted /\ visit[u].span = {}
  BY <1>1, ViewerType DEF VisitOK
<1>3. UNCHANGED <<browser, tab, webSession, logins, expired>>
  BY DEF PageSettles, StepDeadline
<1>4. QED
  BY <1>1, <1>2, <1>3, ViewerType, FilesKeeps

\* A panel shows its result, or the page has settled.
LEMMA PanelShowsKeeps == ASSUME BrowserInv, NEW u \in Viewers, PanelShows(u) PROVE BrowserInv'
<1>1. /\ visit[u].at = "panel" /\ tab[u].painted /\ visit[u].span = {}
      /\ UNCHANGED <<browser, tab, webSession, logins, expired>>
  BY ViewerType DEF PanelShows, VisitOK
<1>2. CASE Files(u, TRUE, "no")
  BY <1>1, <1>2, ViewerType, FilesKeeps
<1>3. CASE visit' = [visit EXCEPT ![u].at = "settle"] /\ UNCHANGED measured
  <2> DEFINE v == [visit[u] EXCEPT !.at = "settle"]
  <2>1. v \in VisitSet /\ v.at = "settle" /\ v.span = {}
    BY <1>1, ViewerType DEF VisitSet
  <2>2. visit' = [visit EXCEPT ![u] = v]
    BY <1>3
  <2> HIDE DEF v
  <2>3. visit'[u] = v /\ browser # "closed"
    BY <1>1, <2>2, ViewerType DEF BrowserInv, BrowserType, VisitOK
  <2>4. LoginsCount(u)' /\ VisitOK(u)' /\ MeasuredOK(u)'
    BY <1>1, <1>3, <2>1, <2>3, ViewerType DEF LoginsCount, VisitOK, MeasuredOK
  <2>5. BrowserType' /\ OthersStay(u)
    BY <1>1, <1>3, <2>1, <2>2 DEF BrowserInv, BrowserType, OthersStay
  <2>6. QED
    BY <1>1, <1>3, <2>1, <2>2, <2>4, <2>5, OneViewerMoves
<1>4. QED
  BY <1>2, <1>3 DEF PanelShows

\* A login, before a load or in the middle of one.
LEMMA LoggedInKeeps ==
    ASSUME BrowserInv, NEW u \in Viewers, NEW at, LoggedIn(u, at),
           \/ visit[u].at = "login" /\ at = "goto"
           \/ visit[u].at = "relogin" /\ at = "regoto"
    PROVE  BrowserInv'
<1> DEFINE t == [Page(tab[u], "landing") EXCEPT !.logged_in = TRUE]
           v == [visit[u] EXCEPT !.at = at]
           n == logins[u] + 1
<1>1. /\ tab' = [tab EXCEPT ![u] = t] /\ visit' = [visit EXCEPT ![u] = v]
      /\ logins' = [logins EXCEPT ![u] = n] /\ webSession' = webSession \cup {u}
      /\ UNCHANGED <<browser, measured, expired>>
  BY DEF LoggedIn
<1>2. t \in TabSet /\ t.logged_in = TRUE /\ t.painted = FALSE
  BY ViewerType DEF Page, TabSet
<1>3. v \in VisitSet /\ v.at = at /\ v.span = visit[u].span /\ n \in Nat
  BY ViewerType DEF VisitSet
<1>4. logins[u] <= expired[u] /\ (at = "goto" => visit[u].span = {}) /\ browser # "closed"
  BY ViewerType DEF LoginsCount, VisitOK
<1>5. n <= 1 + expired[u]
  BY <1>4, ViewerType
<1> HIDE DEF t, v, n
<1>6. /\ tab'[u] = t /\ visit'[u] = v /\ logins'[u] = n /\ u \in webSession'
  BY <1>1 DEF BrowserInv, BrowserType
<1>7. LoginsCount(u)' /\ VisitOK(u)' /\ MeasuredOK(u)'
  BY <1>1, <1>2, <1>3, <1>4, <1>5, <1>6, ViewerType DEF LoginsCount, VisitOK, MeasuredOK
<1>8. BrowserType' /\ OthersStay(u)
  BY <1>1, <1>2, <1>3, <1>7, ViewerType DEF BrowserInv, BrowserType, OthersStay
<1>9. QED
  BY <1>1, <1>2, <1>3, <1>7, <1>8, OneViewerMoves

\* execute raises: no login is counted, and none will follow it.
LEMMA LoginRaisesKeeps == ASSUME BrowserInv, NEW u \in Viewers, LoginRaises(u) PROVE BrowserInv'
<1>1. /\ browser' = "fatal" /\ visit' = [visit EXCEPT ![u] = NoVisit]
      /\ webSession' \in {webSession, webSession \cup {u}}
      /\ visit[u].at \in {"login", "relogin"}
      /\ UNCHANGED <<tab, measured, logins, expired>>
  BY DEF LoginRaises
<1>2. NoVisit \in VisitSet /\ NoVisit.at = "idle"
  BY VisitBegins, ViewerType
<1>3. visit'[u] = NoVisit /\ browser # "closed" /\ (u \notin webSession' => u \notin webSession)
  BY <1>1, ViewerType DEF BrowserInv, BrowserType, VisitOK
<1>4. LoginsCount(u)' /\ VisitOK(u)' /\ MeasuredOK(u)'
  BY <1>1, <1>2, <1>3, ViewerType DEF LoginsCount, VisitOK, MeasuredOK
<1>5. BrowserType' /\ OthersStay(u)
  BY <1>1, <1>2, <1>3, <1>4, ViewerType DEF BrowserInv, BrowserType, OthersStay
<1>6. QED
  BY <1>1, <1>2, <1>3, <1>4, <1>5, OneViewerMoves

\* A visit loads its page; one that falls on the login page logs in again.
LEMMA GoesToKeeps == ASSUME BrowserInv, NEW u \in Viewers, GoesTo(u) PROVE BrowserInv'
<1>1. /\ visit[u].at = "goto" /\ visit[u].span = {} /\ browser # "closed"
      /\ UNCHANGED <<browser, webSession, measured, logins, expired>>
  BY ViewerType DEF GoesTo, VisitOK
<1>2. CASE u \in webSession
  <2> DEFINE t == Counted(Page(tab[u], "dashboard"))
             v == [visit[u] EXCEPT !.at = "panel"]
  <2>1. tab' = [tab EXCEPT ![u] = t] /\ visit' = [visit EXCEPT ![u] = v]
    BY <1>2 DEF GoesTo
  <2>2. t \in TabSet /\ t.painted = FALSE /\ t.logged_in = tab[u].logged_in
    <3>1. tab[u] \in TabSet
      BY ViewerType
    <3>2. PICK p \in TabSet : /\ p = Page(tab[u], "dashboard")
                              /\ p.painted = FALSE /\ p.logged_in = tab[u].logged_in
      BY <3>1, PageOK
    <3>3. t = Counted(p)
      BY <3>2
    <3> HIDE DEF t
    <3>4. QED
      BY <3>2, <3>3, CountedOK
  <2>3. v \in VisitSet /\ v.at = "panel" /\ v.span = {}
    BY <1>1, ViewerType DEF VisitSet
  <2> HIDE DEF t, v
  <2>4. tab'[u] = t /\ visit'[u] = v
    BY <2>1 DEF BrowserInv, BrowserType
  <2>5. LoginsCount(u)' /\ VisitOK(u)' /\ MeasuredOK(u)'
    BY <1>1, <2>2, <2>3, <2>4, ViewerType DEF LoginsCount, VisitOK, MeasuredOK
  <2>6. BrowserType' /\ OthersStay(u)
    BY <1>1, <2>1, <2>2, <2>3, <2>5, ViewerType DEF BrowserInv, BrowserType, OthersStay
  <2>7. QED
    BY <1>1, <2>1, <2>2, <2>3, <2>5, <2>6, OneViewerMoves
<1>3. CASE u \notin webSession
  <2> DEFINE t == [Counted(Page(tab[u], "login")) EXCEPT !.logged_in = FALSE]
             v == [visit[u] EXCEPT !.at = "relogin", !.span = {"login"}]
  <2>1. tab' = [tab EXCEPT ![u] = t] /\ visit' = [visit EXCEPT ![u] = v]
    BY <1>3 DEF GoesTo
  <2>2. t \in TabSet /\ t.painted = FALSE /\ t.logged_in = FALSE
    <3> DEFINE p == Page(tab[u], "login")
               c == Counted(p)
    <3>1. c \in TabSet /\ c.painted = FALSE
      <4>1. tab[u] \in TabSet
        BY ViewerType
      <4>2. p \in TabSet /\ p.painted = FALSE
        BY <4>1, PageOK
      <4> HIDE DEF p
      <4>3. QED
        BY <4>2, CountedOK
    <3>2. t = [c EXCEPT !.logged_in = FALSE]
      OBVIOUS
    <3> HIDE DEF c, t
    <3>3. QED
      BY <3>1, <3>2 DEF TabSet
  <2>3. v \in VisitSet /\ v.at = "relogin"
    BY ViewerType DEF VisitSet
  <2> HIDE DEF t, v
  <2>4. tab'[u] = t /\ visit'[u] = v
    BY <2>1 DEF BrowserInv, BrowserType
  <2>5. LoginsCount(u)' /\ VisitOK(u)' /\ MeasuredOK(u)'
    BY <1>1, <1>3, <2>2, <2>3, <2>4, ViewerType DEF LoginsCount, VisitOK, MeasuredOK
  <2>6. BrowserType' /\ OthersStay(u)
    BY <1>1, <2>1, <2>2, <2>3, <2>5, ViewerType DEF BrowserInv, BrowserType, OthersStay
  <2>7. QED
    BY <1>1, <2>1, <2>2, <2>3, <2>5, <2>6, OneViewerMoves
<1>4. QED
  BY <1>2, <1>3

\* The page is loaded again after the login, and its span starts afresh.
LEMMA GoesAgainKeeps == ASSUME BrowserInv, NEW u \in Viewers, GoesAgain(u) PROVE BrowserInv'
<1> DEFINE shows == IF u \in webSession THEN "dashboard" ELSE "login"
           t == Page(tab[u], shows)
           v == [visit[u] EXCEPT !.at = "panel", !.span = {}]
<1>1. /\ visit[u].at = "regoto" /\ tab' = [tab EXCEPT ![u] = t]
      /\ visit' = [visit EXCEPT ![u] = v]
      /\ UNCHANGED <<browser, webSession, measured, logins, expired>>
  BY DEF GoesAgain, Began
<1>2. t \in TabSet /\ t.painted = FALSE /\ t.logged_in = tab[u].logged_in
  BY ViewerType DEF Page, TabSet
<1>3. v \in VisitSet /\ v.at = "panel" /\ v.span = {}
  BY ViewerType DEF VisitSet
<1> HIDE DEF t, v
<1>4. tab'[u] = t /\ visit'[u] = v /\ browser # "closed"
  BY <1>1, ViewerType DEF BrowserInv, BrowserType, VisitOK
<1>5. LoginsCount(u)' /\ VisitOK(u)' /\ MeasuredOK(u)'
  BY <1>1, <1>2, <1>3, <1>4, ViewerType DEF LoginsCount, VisitOK, MeasuredOK
<1>6. BrowserType' /\ OthersStay(u)
  BY <1>1, <1>2, <1>3, <1>5, ViewerType DEF BrowserInv, BrowserType, OthersStay
<1>7. QED
  BY <1>1, <1>2, <1>3, <1>5, <1>6, OneViewerMoves

\* Every step of a user keeps the invariant.
LEMMA ViewerKeeps == ASSUME BrowserInv, NEW u \in Viewers, ViewerStep(u) PROVE BrowserInv'
<1>1. CASE LogsIn(u)
  BY <1>1, LoggedInKeeps DEF LogsIn
<1>2. CASE LogsInAgain(u)
  BY <1>2, LoggedInKeeps DEF LogsInAgain
<1>3. QED
  BY <1>1, <1>2, ExecuteKeeps, TakesLockKeeps, OpensTabKeeps, CallFailsKeeps, LoginRaisesKeeps,
     GoesToKeeps, GoesAgainKeeps, PanelShowsKeeps, LoadEndsKeeps DEF ViewerStep

\* The target moves the page, what is overheard of it, or the session; never the login.
LEMMA PageKeeps ==
    ASSUME BrowserInv, NEW u \in Viewers,
           PageSearches(u) \/ SearchFinishes(u) \/ PagePaints(u) \/ PagePolls(u)
    PROVE  BrowserInv'
<1>1. UNCHANGED <<browser, webSession, measured, logins, expired>>
  BY DEF PageSearches, SearchFinishes, PagePaints, PagePolls
<1>2. \E t \in TabSet :
        /\ tab' = [tab EXCEPT ![u] = t]
        /\ t.logged_in = tab[u].logged_in /\ t.shows = tab[u].shows
        /\ t.painted = tab[u].painted \/ t.shows = "dashboard"
        /\ tab[u].painted => t.painted
  <2>1. CASE PageSearches(u)
    <3>1. PICK sid \in Started(u) : tab' = [tab EXCEPT ![u].searches = @ \cup {sid}]
      BY <2>1 DEF PageSearches
    <3>2. sid \in Sids /\ tab[u] \in TabSet
      BY <3>1, ViewerType DEF Started, Sids, TabSet
    <3> DEFINE t == [tab[u] EXCEPT !.searches = @ \cup {sid}]
    <3>3. /\ t \in TabSet /\ t.logged_in = tab[u].logged_in /\ t.shows = tab[u].shows
          /\ t.painted = tab[u].painted
      BY <3>2 DEF TabSet
    <3>4. tab' = [tab EXCEPT ![u] = t]
      BY <3>1
    <3> HIDE DEF t
    <3>5. QED
      BY <3>3, <3>4
  <2>2. CASE SearchFinishes(u)
    <3>1. PICK sid \in tab[u].searches : tab' = [tab EXCEPT ![u].finished = @ \cup {sid}]
      BY <2>2 DEF SearchFinishes
    <3>2. sid \in Sids /\ tab[u] \in TabSet
      BY <3>1, ViewerType DEF TabSet
    <3> DEFINE t == [tab[u] EXCEPT !.finished = @ \cup {sid}]
    <3>3. /\ t \in TabSet /\ t.logged_in = tab[u].logged_in /\ t.shows = tab[u].shows
          /\ t.painted = tab[u].painted
      BY <3>2 DEF TabSet
    <3>4. tab' = [tab EXCEPT ![u] = t]
      BY <3>1
    <3> HIDE DEF t
    <3>5. QED
      BY <3>3, <3>4
  <2>3. CASE PagePaints(u)
    <3> DEFINE t == [tab[u] EXCEPT !.painted = TRUE]
    <3>1. /\ t \in TabSet /\ t.logged_in = tab[u].logged_in /\ t.shows = "dashboard"
          /\ t.shows = tab[u].shows /\ t.painted = TRUE
      BY <2>3, ViewerType DEF PagePaints, TabSet
    <3>2. tab' = [tab EXCEPT ![u] = t]
      BY <2>3 DEF PagePaints
    <3> HIDE DEF t
    <3>3. QED
      BY <3>1, <3>2
  <2>4. CASE PagePolls(u)
    BY <2>4, ViewerType DEF PagePolls
  <2>5. QED
    BY <2>1, <2>2, <2>3, <2>4
<1>3. \E v \in VisitSet :
        visit' = [visit EXCEPT ![u] = v] /\ v.at = visit[u].at /\ v.span = visit[u].span
  <2>1. CASE PageSearches(u)
    <3>1. PICK sid \in Started(u) :
            visit' = IF visit[u].at \in Listening THEN [visit EXCEPT ![u].sids = @ \cup {sid}]
                     ELSE visit
      BY <2>1 DEF PageSearches
    <3>2. sid \in Sids /\ visit[u] \in VisitSet
      BY <3>1, ViewerType DEF Started, Sids, TabSet
    <3> DEFINE v == IF visit[u].at \in Listening THEN [visit[u] EXCEPT !.sids = @ \cup {sid}]
                    ELSE visit[u]
    <3>3. v \in VisitSet /\ v.at = visit[u].at /\ v.span = visit[u].span
      BY <3>2 DEF VisitSet
    <3>4. visit' = [visit EXCEPT ![u] = v]
      BY <3>1, ViewerType
    <3> HIDE DEF v
    <3>5. QED
      BY <3>3, <3>4
  <2>2. CASE PagePolls(u)
    <3>1. PICK sid \in tab[u].searches :
            visit' = [visit EXCEPT ![u].sids = @ \cup {sid},
                                   ![u].done = IF sid \in tab[u].finished THEN @ \cup {sid} ELSE @]
      BY <2>2 DEF PagePolls
    <3>2. sid \in Sids /\ visit[u] \in VisitSet
      BY <3>1, ViewerType DEF TabSet
    <3> DEFINE done == IF sid \in tab[u].finished THEN visit[u].done \cup {sid} ELSE visit[u].done
               v == [visit[u] EXCEPT !.sids = @ \cup {sid}, !.done = done]
    <3>3. done \subseteq Sids
      BY <3>2 DEF VisitSet
    <3>4. visit' = [visit EXCEPT ![u] = v]
      BY <3>1, <3>2 DEF BrowserInv, BrowserType, VisitSet
    <3> HIDE DEF done
    <3>5. v \in VisitSet /\ v.at = visit[u].at /\ v.span = visit[u].span
      BY <3>2, <3>3 DEF VisitSet
    <3> HIDE DEF v
    <3>6. QED
      BY <3>4, <3>5
  <2>3. CASE SearchFinishes(u) \/ PagePaints(u)
    BY <2>3, ViewerType DEF SearchFinishes, PagePaints
  <2>4. QED
    BY <2>1, <2>2, <2>3
<1>4. BrowserType' /\ OthersStay(u)
  BY <1>1, <1>2, <1>3 DEF BrowserInv, BrowserType, OthersStay
<1>5. /\ tab'[u].logged_in = tab[u].logged_in /\ tab'[u].shows = tab[u].shows
      /\ tab'[u].painted = tab[u].painted \/ tab'[u].shows = "dashboard"
      /\ tab[u].painted => tab'[u].painted
      /\ visit'[u].at = visit[u].at /\ visit'[u].span = visit[u].span
  BY <1>2, <1>3 DEF BrowserInv, BrowserType
<1>6. LoginsCount(u)' /\ VisitOK(u)' /\ MeasuredOK(u)'
  BY <1>1, <1>5, ViewerType DEF LoginsCount, VisitOK, MeasuredOK
<1>7. QED
  BY <1>4, <1>6, OneViewerMoves

\* A session ages out: from now on a login is owed.
LEMMA SessionAgesKeeps == ASSUME BrowserInv, NEW u \in Viewers, SessionAges(u) PROVE BrowserInv'
<1>1. /\ u \in webSession /\ webSession' = webSession \ {u}
      /\ expired' = [expired EXCEPT ![u] = @ + 1]
      /\ UNCHANGED <<browser, tab, visit, measured, logins>>
  BY DEF SessionAges
<1>2. BrowserType' /\ OthersStay(u) /\ expired'[u] = expired[u] + 1
  BY <1>1 DEF BrowserInv, BrowserType, OthersStay
<1>3. LoginsCount(u)' /\ VisitOK(u)' /\ MeasuredOK(u)'
  BY <1>1, <1>2, ViewerType DEF LoginsCount, VisitOK, MeasuredOK
<1>4. QED
  BY <1>2, <1>3, OneViewerMoves

\* At first nobody has logged in.
LEMMA BrowserStarts == BrowserInit => BrowserInv
<1> SUFFICES ASSUME BrowserInit PROVE BrowserInv
  OBVIOUS
<1>1. NoTab \in TabSet /\ NoTab.logged_in = FALSE /\ NoTab.painted = FALSE
  BY DEF NoTab, TabSet
<1>2. NoVisit \in VisitSet /\ NoVisit.at = "idle"
  BY DEF NoVisit, VisitSet
<1>3. QED
  BY <1>1, <1>2 DEF BrowserInit, BrowserInv, BrowserType, LoginsCount, VisitOK, MeasuredOK

\* Every step keeps the invariant.
LEMMA BrowserKeeps == BrowserInv /\ [BrowserNext]_browserVars => BrowserInv'
<1> SUFFICES ASSUME BrowserInv, [BrowserNext]_browserVars PROVE BrowserInv'
  OBVIOUS
<1>1. CASE UNCHANGED browserVars \/ \E v \in Visits : ChooseVisits(v)
  <2>1. UNCHANGED <<browser, tab, webSession, visit, measured, logins, expired>>
    BY <1>1 DEF browserVars, ChooseVisits
  <2>2. QED
    BY <2>1 DEF BrowserInv, BrowserType, LoginsCount, VisitOK, MeasuredOK
<1>2. CASE StartBrowser
  BY <1>2 DEF StartBrowser, BrowserInv, BrowserType, LoginsCount, VisitOK, MeasuredOK
<1>3. CASE CloseBrowser
  <2>1. NoTab \in TabSet /\ NoTab.painted = FALSE
    BY DEF NoTab, TabSet
  <2>2. NoVisit \in VisitSet /\ NoVisit.at = "idle"
    BY DEF NoVisit, VisitSet
  <2>3. /\ browser' = "closed" /\ tab' = [u \in Viewers |-> NoTab]
        /\ visit' = [u \in Viewers |-> NoVisit]
        /\ UNCHANGED <<webSession, measured, logins, expired>>
    BY <1>3 DEF CloseBrowser
  <2>4. BrowserType'
    BY <2>1, <2>2, <2>3 DEF BrowserInv, BrowserType
  <2>5. ASSUME NEW u \in Viewers PROVE LoginsCount(u)' /\ VisitOK(u)' /\ MeasuredOK(u)'
    BY <2>1, <2>2, <2>3, ViewerType DEF LoginsCount, VisitOK, MeasuredOK
  <2>6. QED
    BY <2>4, <2>5 DEF BrowserInv
<1>4. QED
  BY <1>1, <1>2, <1>3, ViewerKeeps, PageKeeps, SessionAgesKeeps DEF BrowserNext, TargetStep

\* A user logs in once and once more for each session that aged out, and no login is inside
\* the time of a good load, for any number of users and panels, however often sessions age
\* out and calls fail (execute, the relogin of _load_dashboard).
THEOREM OneLoginPerSessionHolds == BrowserSpec => []OneLoginPerSession
<1>1. BrowserInv => OneLoginPerSession
  BY DEF BrowserInv, LoginsCount, MeasuredOK, OneLoginPerSession
<1>2. QED
  BY <1>1, BrowserStarts, BrowserKeeps, PTL DEF BrowserSpec

-----------------------------------------------------------------------------
(* SearchJobs. *)

JobStates == {"none", "queued", "running", "done", "failed"}
Requested   == {"create", "plain", "poll", "delete", "results", "oneshot"}
Statuses == JobStates \cup {"401", "403", "bad", "error", "made", "ok"}
Outs     == {"none", "ok", "failed", "http", "auth", "client", "timeout", "rejected", "cancelled"}
CallSet == [at : {"new", "wire", "answer", "lock", "login", "sleep", "over"},
            asks : Requested \cup {"none"}, gen : Nat, retried : BOOLEAN, answer : Statuses,
            sid : BOOLEAN, out : Outs, cut : BOOLEAN]
CourseSet  == [at : {"new", "load", "drain", "cancelled", "harvest", "tidy", "closed"},
               normal : BOOLEAN]
SessionSet == [gen : Nat, lock : Searches \cup {Nobody}, refused : Nat]
TargetSet  == [job : [Searches -> JobStates], keys : SUBSET Nat, password : BOOLEAN]

SearchJobsType ==
    /\ setting \in AnySetting /\ course \in CourseSet /\ call \in [Searches -> CallSet]
    /\ session \in SessionSet /\ target \in TargetSet /\ faults \in Nat

\* A call that was sent says what it asks; it was sent under a session there was.
CallOK(u) ==
    /\ call[u].at \in {"wire", "answer", "lock", "login"} => call[u].asks # "none"
    /\ call[u].gen <= session.gen
    /\ call[u].at = "login" => session.lock = u /\ call[u].gen = session.gen
\* A login is called for: the current key has aged out, or a request that used it was refused.
Refusal(c) == c.at \in {"lock", "login"} \/ (c.at = "answer" /\ c.answer = "401")
RefusedNow(u) == call[u].gen = session.gen /\ Refusal(call[u])
CalledFor == session.gen \notin target.keys \/ \E u \in Searches : RefusedNow(u)
\* Each login but the first was paid for by a fault, and so is the one that is called for.
LoginsArePaid ==
    /\ session.gen - 1 + faults <= setting.faults
    /\ CalledFor => session.gen + faults <= setting.faults

SearchJobsInv ==
    /\ SearchJobsType
    /\ course.at = "new" =>
          session.gen = 0 /\ \A u \in Searches : call[u] = NewCall /\ target.job[u] = "none"
    /\ \A u \in Searches : CallOK(u)
    /\ course.at # "new" /\ ~setting.token => LoginsArePaid

\* A search moves within one session: it was refused for a reason there was, or for a fault.
LEMMA OneCallMoves ==
    ASSUME SearchJobsInv, NEW u \in Searches, NEW c \in CallSet, Put(u, c), course.at # "new",
           course' \in CourseSet, course'.at # "new", setting' = setting,
           session' \in SessionSet, session'.gen = session.gen,
           session'.lock = session.lock \/ session.lock \in {Nobody, u},
           target' \in TargetSet, target'.keys = target.keys, faults' \in Nat, faults' <= faults,
           c.at \in {"wire", "answer", "lock", "login"} => c.asks # "none",
           c.gen <= session.gen,
           c.at = "login" => session'.lock = u /\ c.gen = session.gen,
           c.gen = session.gen /\ Refusal(c) => CalledFor \/ faults' + 1 <= faults
    PROVE  SearchJobsInv'
<1>1. /\ call' \in [Searches -> CallSet] /\ call'[u] = c
      /\ \A x \in Searches \ {u} : call'[x] = call[x]
      /\ setting \in AnySetting /\ session \in SessionSet /\ faults \in Nat
      /\ call \in [Searches -> CallSet]
  BY DEF SearchJobsInv, SearchJobsType, Put
<1>2. SearchJobsType'
  BY <1>1 DEF SearchJobsType
<1>3. ASSUME NEW x \in Searches PROVE CallOK(x)'
  <2>1. CASE x = u
    BY <1>1, <2>1 DEF CallOK
  <2>2. CASE x # u
    BY <1>1, <2>2, SearchJobsAssumption DEF CallOK, SearchJobsInv
  <2>3. QED
    BY <2>1, <2>2
<1>4. ASSUME ~setting.token PROVE LoginsArePaid'
  <2>1. LoginsArePaid
    BY <1>4 DEF SearchJobsInv
  <2>2. session.gen \in Nat /\ setting.faults \in Nat
    BY <1>1 DEF SessionSet, AnySetting
  <2>3. CalledFor' => CalledFor \/ faults' + 1 <= faults
    BY <1>1 DEF CalledFor, RefusedNow
  <2>4. QED
    BY <1>1, <2>1, <2>2, <2>3 DEF LoginsArePaid
<1>5. QED
  BY <1>2, <1>3, <1>4 DEF SearchJobsInv

\* How a call may end or go on without a word from the target.
Quiet(c) ==
    /\ c \in CallSet /\ c.at \in {"wire", "sleep", "over"} /\ c.gen <= session.gen
    /\ c.at = "wire" => c.asks # "none"

\* A call that awaits no answer keeps what its search was.
LEMMA IdleIsQuiet ==
    ASSUME SearchJobsInv, NEW c \in CallSet, NEW at \in {"sleep", "over"}
    PROVE  /\ Quiet(Idle(c, at)) /\ Idle(c, at) \in CallSet /\ Idle(c, at).at = at
           /\ Idle(c, at).sid = c.sid /\ Idle(c, at).out = c.out /\ Idle(c, at).cut = c.cut
<1>1. NewCall \in CallSet /\ NewCall.gen = 0
  BY DEF NewCall, CallSet, Statuses, JobStates, Outs
<1>2. session.gen \in Nat
  BY DEF SearchJobsInv, SearchJobsType, SessionSet
<1>3. c.sid \in BOOLEAN /\ c.out \in Outs /\ c.cut \in BOOLEAN
  BY DEF CallSet
<1> DEFINE i == [NewCall EXCEPT !.at = at, !.sid = c.sid, !.out = c.out, !.cut = c.cut]
<1>4. /\ i \in CallSet /\ i.at = at /\ i.gen = 0
      /\ i.sid = c.sid /\ i.out = c.out /\ i.cut = c.cut
  BY <1>1, <1>3 DEF CallSet
<1>5. i = Idle(c, at)
  BY DEF Idle
<1> HIDE DEF i
<1>6. QED
  BY <1>2, <1>4, <1>5 DEF Quiet

\* A call that asks something keeps what its search was.
LEMMA AsksIsQuiet ==
    ASSUME SearchJobsInv, NEW c \in CallSet, NEW what \in Requested
    PROVE  /\ Quiet(Asks(c, what)) /\ Asks(c, what) \in CallSet
           /\ Asks(c, what).at = "wire" /\ Asks(c, what).asks = what
           /\ Asks(c, what).sid = c.sid /\ Asks(c, what).out = c.out /\ Asks(c, what).cut = c.cut
<1>1. session.gen \in Nat
  BY DEF SearchJobsInv, SearchJobsType, SessionSet
<1>2. "none" \in Statuses
  BY DEF Statuses, JobStates
<1> DEFINE i == [c EXCEPT !.at = "wire", !.asks = what, !.gen = session.gen, !.retried = FALSE,
                          !.answer = "none"]
<1>3. /\ i \in CallSet /\ i.at = "wire" /\ i.gen = session.gen /\ i.asks = what
      /\ i.sid = c.sid /\ i.out = c.out /\ i.cut = c.cut
  BY <1>1, <1>2 DEF CallSet
<1>4. i = Asks(c, what)
  BY DEF Asks
<1> HIDE DEF i
<1>5. what # "none"
  BY DEF Requested
<1>6. Quiet(i)
  BY <1>1, <1>3, <1>5 DEF Quiet
<1>7. QED
  BY <1>3, <1>4, <1>6

\* However a search ends, its call is over or asks for its job to be deleted.
EndsQuietly(u) ==
    /\ \E c \in CallSet : Quiet(c) /\ Put(u, c)
    /\ course' \in CourseSet /\ course'.at # "new"

\* A search that is over is quiet.
LEMMA ReturnsQuietly ==
    ASSUME SearchJobsInv, NEW u \in Searches, NEW c \in CallSet, course.at # "new", Returns(u, c)
    PROVE  EndsQuietly(u)
<1>1. Put(u, Idle(c, "over"))
      /\ (course' = [at |-> "drain", normal |-> FALSE] \/ course' = course)
  BY DEF Returns
<1>2. Quiet(Idle(c, "over"))
  BY IdleIsQuiet
<1>3. course' \in CourseSet /\ course'.at # "new"
  <2>1. [at |-> "drain", normal |-> FALSE] \in CourseSet
        /\ [at |-> "drain", normal |-> FALSE].at = "drain"
    BY DEF CourseSet
  <2>2. course \in CourseSet
    BY DEF SearchJobsInv, SearchJobsType
  <2>3. QED
    BY <1>1, <2>1, <2>2
<1>4. QED
  BY <1>1, <1>2, <1>3 DEF EndsQuietly, Quiet

\* A search that ends is quiet: it is over or has its job deleted.
LEMMA EndsWithQuietly ==
    ASSUME SearchJobsInv, NEW u \in Searches, NEW c \in CallSet, NEW out \in Outs,
           course.at # "new", EndsWith(u, c, out)
    PROVE  EndsQuietly(u)
<1> DEFINE r == [c EXCEPT !.out = out]
<1>1. r \in CallSet
  BY DEF CallSet
<1>2. \/ Put(u, Asks(r, "delete")) /\ UNCHANGED <<filed, course>>
      \/ Returns(u, r)
  BY DEF EndsWith
<1> HIDE DEF r
<1>3. Quiet(Asks(r, "delete"))
  BY <1>1, AsksIsQuiet DEF Requested
<1>4. CASE Put(u, Asks(r, "delete")) /\ UNCHANGED <<filed, course>>
  BY <1>3, <1>4 DEF EndsQuietly, Quiet, SearchJobsInv, SearchJobsType
<1>5. QED
  BY <1>1, <1>2, <1>4, ReturnsQuietly

\* A request that fails leaves its search quiet.
LEMMA FailsQuietly ==
    ASSUME SearchJobsInv, NEW u \in Searches, NEW out \in Outs, course.at # "new", Fails(u, out)
    PROVE  EndsQuietly(u)
<1>1. call[u] \in CallSet
  BY DEF SearchJobsInv, SearchJobsType
<1>2. \/ Returns(u, call[u]) \/ Settled(u) \/ EndsWith(u, call[u], out)
  BY DEF Fails
<1>3. CASE Settled(u)
  <2>1. Put(u, Idle(call[u], "over")) /\ UNCHANGED course
    BY <1>3 DEF Settled
  <2>2. Quiet(Idle(call[u], "over"))
    BY <1>1, IdleIsQuiet
  <2>3. QED
    BY <2>1, <2>2 DEF EndsQuietly, Quiet, SearchJobsInv, SearchJobsType
<1>4. QED
  BY <1>1, <1>2, <1>3, ReturnsQuietly, EndsWithQuietly

\* A quiet search moves, within one session.
LEMMA QuietMove ==
    ASSUME SearchJobsInv, NEW u \in Searches, EndsQuietly(u), course.at # "new",
           setting' = setting, session' \in SessionSet, session'.gen = session.gen,
           session'.lock = session.lock \/ session.lock \in {Nobody, u},
           target' \in TargetSet, target'.keys = target.keys, faults' \in Nat, faults' <= faults
    PROVE  SearchJobsInv'
<1>1. PICK c \in CallSet : Quiet(c) /\ Put(u, c)
  BY DEF EndsQuietly
<1>2. /\ c.at \notin {"answer", "lock", "login"} /\ ~Refusal(c)
      /\ c.at = "wire" => c.asks # "none"
      /\ c.gen <= session.gen /\ course' \in CourseSet /\ course'.at # "new"
  BY <1>1 DEF Quiet, Refusal, EndsQuietly
<1>3. QED
  BY <1>1, <1>2, OneCallMoves

\* What there is of a search.
LEMMA SearchType ==
    ASSUME SearchJobsInv, NEW u \in Searches
    PROVE  /\ call[u] \in CallSet /\ CallOK(u)
           /\ setting \in AnySetting /\ course \in CourseSet /\ session \in SessionSet
           /\ target \in TargetSet /\ faults \in Nat
           /\ call[u].at # "new" => course.at # "new"
BY DEF SearchJobsInv, SearchJobsType, NewCall

\* The target's jobs.
LEMMA AdmitType ==
    ASSUME NEW jobs \in [Searches -> JobStates] PROVE Admit(jobs) \in [Searches -> JobStates]
<1> DEFINE queued == {u \in Searches : jobs[u] = "queued"}
           x == CHOOSE u \in queued : TRUE
<1>1. queued # {} => x \in Searches
  OBVIOUS
<1>2. Admit(jobs) = jobs \/ (queued # {} /\ Admit(jobs) = [jobs EXCEPT ![x] = "running"])
  BY DEF Admit
<1> HIDE DEF x
<1>3. QED
  BY <1>1, <1>2 DEF JobStates

\* The answer the target gives, and the jobs it leaves; it is never a refusal.
LEMMA ServedType ==
    ASSUME NEW u \in Searches, NEW asks \in Requested, NEW jobs \in [Searches -> JobStates]
    PROVE  /\ Served(u, asks, jobs)[1] \in Statuses \ {"401"}
           /\ Served(u, asks, jobs)[2] \in [Searches -> JobStates]
<1>1. /\ [jobs EXCEPT ![u] = "queued"] \in [Searches -> JobStates]
      /\ [jobs EXCEPT ![u] = "none"] \in [Searches -> JobStates]
      /\ jobs[u] \in JobStates
  BY DEF JobStates
<1>2. /\ Admit([jobs EXCEPT ![u] = "queued"]) \in [Searches -> JobStates]
      /\ Admit([jobs EXCEPT ![u] = "none"]) \in [Searches -> JobStates]
  BY <1>1, AdmitType
<1>3. CASE asks = "create" /\ ~setting.ids
  BY <1>3 DEF Served, Statuses
<1>4. CASE asks = "plain" \/ (asks = "create" /\ setting.ids)
  BY <1>2, <1>4 DEF Served, Statuses
<1>5. CASE asks = "poll"
  BY <1>1, <1>5 DEF Served, Statuses, JobStates
<1>6. CASE asks = "delete"
  BY <1>2, <1>6 DEF Served, Statuses
<1>7. CASE asks \in {"results", "oneshot"}
  BY <1>7 DEF Served, Statuses
<1>8. QED
  BY <1>3, <1>4, <1>5, <1>6, <1>7 DEF Requested

\* A request is answered: refused because its key has aged out, or by a fault.
LEMMA ServeKeeps == ASSUME SearchJobsInv, NEW u \in Searches, Serve(u) PROVE SearchJobsInv'
<1> DEFINE c(status) == [call[u] EXCEPT !.at = "answer", !.answer = status]
<1>1. /\ call[u].at = "wire" /\ call[u] \in CallSet /\ call[u].asks \in Requested
      /\ call[u].gen <= session.gen /\ course.at # "new"
      /\ UNCHANGED <<setting, course, session>>
  BY SearchType DEF Serve, CallOK, CallSet
<1>2. ASSUME NEW status \in Statuses
      PROVE  /\ c(status) \in CallSet /\ c(status).at = "answer" /\ c(status).answer = status
             /\ c(status).gen = call[u].gen /\ c(status).asks = call[u].asks
  BY <1>1, <1>2 DEF CallSet
<1>3. ASSUME NEW status \in Statuses, Answer(u, status),
             target' \in TargetSet, target'.keys = target.keys, faults' \in Nat, faults' <= faults,
             status = "401" /\ call[u].gen = session.gen => CalledFor \/ faults' + 1 <= faults
      PROVE  SearchJobsInv'
  <2> DEFINE d == c(status)
  <2>1. /\ d \in CallSet /\ d.at = "answer" /\ d.answer = status
        /\ d.gen = call[u].gen /\ d.asks = call[u].asks
    BY <1>2, <1>3
  <2>2. Put(u, d)
    BY <1>3 DEF Answer
  <2> HIDE DEF d
  <2>3. d.gen = session.gen /\ Refusal(d) => CalledFor \/ faults' + 1 <= faults
    BY <1>3, <2>1 DEF Refusal
  <2>4. /\ d.at \in {"wire", "answer", "lock", "login"} => d.asks # "none"
        /\ d.gen <= session.gen
        /\ d.at = "login" => session'.lock = u /\ d.gen = session.gen
        /\ course' \in CourseSet /\ course'.at # "new" /\ session' \in SessionSet
        /\ session'.gen = session.gen /\ session'.lock = session.lock /\ setting' = setting
    BY <1>1, <2>1, SearchType DEF Requested
  <2>5. QED
    BY <1>1, <1>3, <2>1, <2>2, <2>3, <2>4, OneCallMoves
<1> HIDE DEF c
<1>4. CASE /\ Authorised(call[u])
           /\ Answer(u, Served(u, call[u].asks, target.job)[1])
           /\ target' = [target EXCEPT !.job = Served(u, call[u].asks, target.job)[2]]
           /\ UNCHANGED faults
  <2>1. target \in TargetSet /\ target.job \in [Searches -> JobStates] /\ faults \in Nat
    BY SearchType DEF TargetSet
  <2>2. /\ Served(u, call[u].asks, target.job)[1] \in Statuses \ {"401"}
        /\ Served(u, call[u].asks, target.job)[2] \in [Searches -> JobStates]
    BY <1>1, <2>1, ServedType
  <2>3. target' \in TargetSet /\ target'.keys = target.keys
    BY <1>4, <2>1, <2>2 DEF TargetSet
  <2>4. QED
    BY <1>3, <1>4, <2>1, <2>2, <2>3
<1>5. CASE ~Authorised(call[u]) /\ Answer(u, "401") /\ UNCHANGED <<target, faults>>
  <2>1. call[u].gen = session.gen => CalledFor
    BY <1>5 DEF Authorised, CalledFor
  <2>2. target \in TargetSet /\ faults \in Nat /\ "401" \in Statuses
    BY SearchType DEF Statuses
  <2>3. QED
    BY <1>3, <1>5, <2>1, <2>2
<1>6. CASE OneFault /\ UNCHANGED target
           /\ \E status \in {"401", "403", "bad", "error"} : Answer(u, status)
  <2>1. PICK status \in {"401", "403", "bad", "error"} : Answer(u, status)
    BY <1>6
  <2>2. target \in TargetSet /\ faults \in Nat /\ status \in Statuses
    BY SearchType DEF Statuses
  <2>3. faults' \in Nat /\ faults' + 1 <= faults /\ faults' <= faults
    BY <1>6, <2>2 DEF OneFault
  <2>4. QED
    BY <1>3, <1>6, <2>1, <2>2, <2>3
<1>7. QED
  BY <1>4, <1>5, <1>6 DEF Serve

\* A step that puts the call where it is quiet, and touches neither session nor target.
LEMMA QuietStep ==
    ASSUME SearchJobsInv, NEW u \in Searches, EndsQuietly(u), course.at # "new",
           UNCHANGED <<setting, session, target>>, faults' \in Nat, faults' <= faults
    PROVE  SearchJobsInv'
BY SearchType, QuietMove

\* A call is quiet now and nothing else has moved.
LEMMA PutsQuietly ==
    ASSUME SearchJobsInv, NEW u \in Searches, NEW c, Quiet(c), Put(u, c), course.at # "new",
           UNCHANGED <<setting, course, session, target, faults>>
    PROVE  SearchJobsInv'
<1>1. EndsQuietly(u)
  BY SearchType DEF EndsQuietly, Quiet
<1>2. faults' \in Nat /\ faults' <= faults
  BY SearchType
<1>3. QED
  BY <1>1, <1>2, QuietStep

\* The steps in which a search hears from the target.
LEMMA AnswersKeep ==
    ASSUME SearchJobsInv, NEW u \in Searches,
           Created(u) \/ Polled(u) \/ Read(u) \/ Deleted(u) \/ Lose(u)
    PROVE  SearchJobsInv'
<1>1. /\ call[u] \in CallSet /\ course.at # "new" /\ course \in CourseSet
      /\ UNCHANGED <<setting, session, target>>
  BY SearchType DEF Created, Polled, Read, Deleted, Lose
<1>2. faults' \in Nat /\ faults' <= faults
  BY SearchType DEF Created, Polled, Read, Deleted, Lose, OneFault
<1>3. ASSUME NEW at \in {"sleep", "over"}, Put(u, Idle(call[u], at)), UNCHANGED course
      PROVE  EndsQuietly(u)
  BY <1>1, <1>3, IdleIsQuiet DEF EndsQuietly, Quiet
<1>4. ASSUME NEW what \in Requested, Put(u, Asks(call[u], what)), UNCHANGED course
      PROVE  EndsQuietly(u)
  BY <1>1, <1>4, AsksIsQuiet DEF EndsQuietly, Quiet
<1>5. ASSUME NEW out \in Outs, EndsWith(u, call[u], out) \/ Fails(u, out)
      PROVE  EndsQuietly(u)
  BY <1>1, <1>5, EndsWithQuietly, FailsQuietly
<1>6. CASE Created(u)
  <2>1. ASSUME Put(u, [Idle(call[u], "sleep") EXCEPT !.sid = TRUE]), UNCHANGED course
        PROVE  EndsQuietly(u)
    <3> DEFINE i == Idle(call[u], "sleep")
               c == [i EXCEPT !.sid = TRUE]
    <3>1. Quiet(i) /\ i.at = "sleep"
      BY <1>1, IdleIsQuiet
    <3>2. Put(u, c)
      BY <2>1
    <3> HIDE DEF i
    <3>3. c \in CallSet /\ c.at = "sleep" /\ c.gen = i.gen
      BY <3>1 DEF Quiet, CallSet
    <3> HIDE DEF c
    <3>4. Quiet(c)
      BY <3>1, <3>3 DEF Quiet
    <3>5. QED
      BY <1>1, <2>1, <3>2, <3>3, <3>4 DEF EndsQuietly
  <2>2. ASSUME Put(u, Asks(call[u], "plain")), UNCHANGED course PROVE EndsQuietly(u)
    BY <1>4, <2>2 DEF Requested
  <2>3. ASSUME EndsWith(u, call[u], "http") PROVE EndsQuietly(u)
    BY <1>5, <2>3 DEF Outs
  <2>4. EndsQuietly(u)
    BY <1>6, <2>1, <2>2, <2>3 DEF Created
  <2>5. QED
    BY <1>1, <1>2, <2>4, QuietStep
<1>7. CASE Polled(u)
  <2>1. \/ \E at \in {"sleep", "over"} : Put(u, Idle(call[u], at)) /\ UNCHANGED course
        \/ Settled(u)
        \/ Put(u, Asks(call[u], "results")) /\ UNCHANGED course
        \/ \E out \in {"ok", "failed", "http"} : EndsWith(u, call[u], out)
    <3>1. CASE call[u].answer \in {"queued", "running"}
      BY <1>7, <3>1 DEF Polled
    <3>2. CASE call[u].answer \notin {"queued", "running"} /\ u \in following
      BY <1>7, <3>2 DEF Polled
    <3>3. CASE call[u].answer = "done" /\ u \notin following
      BY <1>7, <3>3 DEF Polled
    <3>4. CASE call[u].answer \notin {"queued", "running", "done"} /\ u \notin following
      BY <1>7, <3>4 DEF Polled
    <3>5. QED
      BY <3>1, <3>2, <3>3, <3>4
  <2>2. ASSUME Settled(u) PROVE EndsQuietly(u)
    BY <1>3, <2>2 DEF Settled
  <2>3. EndsQuietly(u)
    BY <1>3, <1>4, <1>5, <2>1, <2>2 DEF Requested, Outs
  <2>4. QED
    BY <1>1, <1>2, <2>3, QuietStep
<1>8. CASE Read(u)
  <2>1. \E out \in {"ok", "http"} : EndsWith(u, call[u], out)
    BY <1>8 DEF Read
  <2>2. EndsQuietly(u)
    BY <1>5, <2>1 DEF Outs
  <2>3. QED
    BY <1>1, <1>2, <2>2, QuietStep
<1>9. CASE Deleted(u)
  <2>1. EndsQuietly(u)
    BY <1>1, <1>9, ReturnsQuietly DEF Deleted
  <2>2. QED
    BY <1>1, <1>2, <2>1, QuietStep
<1>10. CASE Lose(u)
  <2>1. \E out \in {"timeout", "client"} : Fails(u, out)
    BY <1>10 DEF Lose
  <2>2. EndsQuietly(u)
    BY <1>5, <2>1 DEF Outs
  <2>3. QED
    BY <1>1, <1>2, <2>2, QuietStep
<1>11. QED
  BY <1>6, <1>7, <1>8, <1>9, <1>10

\* A first refusal leads to the lock, any other to the end.
LEMMA RefusedKeeps == ASSUME SearchJobsInv, NEW u \in Searches, Refused(u) PROVE SearchJobsInv'
<1>1. /\ call[u] \in CallSet /\ call[u].at = "answer" /\ call[u].asks # "none"
      /\ call[u].gen <= session.gen /\ course.at # "new"
      /\ course \in CourseSet /\ session \in SessionSet /\ target \in TargetSet /\ faults \in Nat
      /\ UNCHANGED <<setting, session, target, faults>>
  BY SearchType DEF Refused, CallOK
<1>2. CASE call[u].answer = "401" /\ Put(u, [call[u] EXCEPT !.at = "lock"]) /\ UNCHANGED course
  <2> DEFINE c == [call[u] EXCEPT !.at = "lock"]
  <2>1. /\ c \in CallSet /\ c.at = "lock" /\ c.gen = call[u].gen /\ c.asks = call[u].asks
    BY <1>1 DEF CallSet
  <2>2. Put(u, c)
    BY <1>2
  <2> HIDE DEF c
  <2>3. c.gen = session.gen => CalledFor
    BY <1>1, <1>2, <2>1 DEF CalledFor, RefusedNow, Refusal
  <2>4. QED
    BY <1>1, <1>2, <2>1, <2>2, <2>3, OneCallMoves
<1>3. CASE Fails(u, "auth")
  <2>1. EndsQuietly(u)
    BY <1>1, <1>3, FailsQuietly DEF Outs
  <2>2. QED
    BY <1>1, <2>1, QuietStep
<1>4. QED
  BY <1>2, <1>3 DEF Refused

\* A request that is sent again asks what it asked.
LEMMA ResentIsQuiet ==
    ASSUME NEW c \in CallSet, NEW gen \in Nat
    PROVE  /\ Resent(c, gen) \in CallSet /\ Resent(c, gen).at = "wire"
           /\ Resent(c, gen).gen = gen /\ Resent(c, gen).asks = c.asks
           /\ Resent(c, gen).sid = c.sid /\ Resent(c, gen).cut = c.cut
<1>1. "none" \in Statuses
  BY DEF Statuses, JobStates
<1> DEFINE i == [c EXCEPT !.at = "wire", !.gen = gen, !.retried = TRUE, !.answer = "none"]
<1>2. /\ i \in CallSet /\ i.at = "wire" /\ i.gen = gen /\ i.asks = c.asks
      /\ i.sid = c.sid /\ i.cut = c.cut
  BY <1>1 DEF CallSet
<1>3. QED
  BY <1>2 DEF Resent

\* The lock is taken: the key was renewed since, or this search renews it.
LEMMA TakeLockKeeps == ASSUME SearchJobsInv, NEW u \in Searches, TakeLock(u) PROVE SearchJobsInv'
<1>1. /\ call[u] \in CallSet /\ call[u].at = "lock" /\ call[u].asks # "none"
      /\ session.lock = Nobody /\ session.gen \in Nat /\ course.at # "new"
      /\ course \in CourseSet /\ session \in SessionSet /\ target \in TargetSet /\ faults \in Nat
      /\ UNCHANGED <<setting, course, target, faults>>
  BY SearchType DEF TakeLock, CallOK, SessionSet
<1>2. CASE Renewed(call[u])
  <2>1. Put(u, Resent(call[u], session.gen)) /\ UNCHANGED session
    BY <1>2 DEF TakeLock
  <2>2. Quiet(Resent(call[u], session.gen))
    BY <1>1, ResentIsQuiet DEF Quiet
  <2>3. QED
    BY <1>1, <2>1, <2>2, PutsQuietly
<1>3. CASE ~Renewed(call[u])
  <2> DEFINE c == [call[u] EXCEPT !.at = "login"]
  <2>1. c \in CallSet /\ c.at = "login" /\ c.gen = call[u].gen /\ c.asks = call[u].asks
    BY <1>1 DEF CallSet
  <2>2. Put(u, c) /\ session' = [session EXCEPT !.lock = u]
    BY <1>3 DEF TakeLock
  <2>3. session' \in SessionSet /\ session'.gen = session.gen /\ session'.lock = u
    BY <1>1, <2>2 DEF SessionSet
  <2> HIDE DEF c
  <2>4. c.gen = session.gen /\ CalledFor
    BY <1>1, <1>3, <2>1 DEF Renewed, CalledFor, RefusedNow, Refusal
  <2>5. QED
    BY <1>1, <2>1, <2>2, <2>3, <2>4, OneCallMoves
<1>4. QED
  BY <1>2, <1>3

\* The login that was called for: it was paid, and nothing calls for another.
LEMMA LoginAcceptedKeeps ==
    ASSUME SearchJobsInv, NEW u \in Searches, LoginAccepted(u)
    PROVE  SearchJobsInv'
<1> DEFINE g == session.gen + 1
           c == Resent(call[u], g)
<1>1. /\ call[u] \in CallSet /\ call[u].at = "login" /\ call[u].asks # "none"
      /\ session.lock = u /\ session.gen \in Nat /\ call[u].gen = session.gen
      /\ course.at # "new" /\ course \in CourseSet /\ session \in SessionSet
      /\ target \in TargetSet /\ faults \in Nat /\ setting \in AnySetting
      /\ UNCHANGED <<setting, course, faults>>
  BY SearchType DEF LoginAccepted, CallOK, SessionSet
<1>2. /\ session' = [session EXCEPT !.gen = g, !.lock = Nobody]
      /\ target' = [target EXCEPT !.keys = @ \cup {g}] /\ Put(u, c)
  BY DEF LoginAccepted
<1>3. g \in Nat /\ g = session.gen + 1
  BY <1>1
<1>4. c \in CallSet /\ c.at = "wire" /\ c.gen = g /\ c.asks # "none"
  BY <1>1, <1>3, ResentIsQuiet
<1> HIDE DEF g, c
<1>5. /\ session' \in SessionSet /\ session'.gen = g /\ session'.lock = Nobody
      /\ target' \in TargetSet /\ g \in target'.keys
  BY <1>1, <1>2, <1>3 DEF SessionSet, TargetSet
<1>6. /\ call' \in [Searches -> CallSet] /\ call'[u] = c
      /\ \A x \in Searches \ {u} : call'[x] = call[x]
  BY <1>2, <1>4 DEF Put, SearchJobsInv, SearchJobsType
<1>7. SearchJobsType'
  BY <1>1, <1>5, <1>6 DEF SearchJobsType
<1>8. ASSUME NEW x \in Searches \ {u} PROVE call[x].gen <= session.gen /\ call[x].gen \in Nat
                                            /\ call[x].at # "login"
  BY <1>1, <1>8, SearchType DEF CallOK, CallSet
<1>9. ASSUME NEW x \in Searches PROVE CallOK(x)'
  <2>1. CASE x = u
    BY <1>3, <1>4, <1>5, <1>6, <2>1 DEF CallOK
  <2>2. CASE x # u
    BY <1>1, <1>3, <1>5, <1>6, <1>8, <2>2, SearchType DEF CallOK
  <2>3. QED
    BY <2>1, <2>2
<1>10. ~CalledFor'
  <2>1. ASSUME NEW x \in Searches PROVE ~RefusedNow(x)'
    <3>1. CASE x = u
      BY <1>4, <1>6, <3>1 DEF RefusedNow, Refusal
    <3>2. CASE x # u
      BY <1>1, <1>3, <1>5, <1>6, <1>8, <3>2 DEF RefusedNow
    <3>3. QED
      BY <3>1, <3>2
  <2>2. QED
    BY <1>5, <2>1 DEF CalledFor
<1>11. ASSUME ~setting.token PROVE LoginsArePaid'
  <2>1. CalledFor /\ LoginsArePaid
    BY <1>1, <1>11 DEF CalledFor, RefusedNow, Refusal, SearchJobsInv
  <2>2. setting.faults \in Nat
    BY <1>1 DEF AnySetting
  <2>3. QED
    BY <1>1, <1>3, <1>5, <1>10, <2>1, <2>2 DEF LoginsArePaid
<1>12. QED
  BY <1>1, <1>7, <1>9, <1>11 DEF SearchJobsInv

\* A login that fails renews nothing, and its search ends.
LEMMA LoginFailsKeeps ==
    ASSUME SearchJobsInv, NEW u \in Searches, LoginFails(u)
    PROVE  SearchJobsInv'
<1>1. /\ course.at # "new" /\ session \in SessionSet /\ session.lock = u
      /\ target \in TargetSet /\ faults \in Nat /\ UNCHANGED <<setting, target>>
  BY SearchType DEF LoginFails, CallOK
<1>2. \E out \in Outs : Fails(u, out)
  BY DEF LoginFails, Outs
<1>3. EndsQuietly(u)
  BY <1>1, <1>2, FailsQuietly
<1>4. session' \in SessionSet /\ session'.gen = session.gen
  <2>1. \/ session' = [session EXCEPT !.lock = Nobody, !.refused = @ + 1]
        \/ session' = [session EXCEPT !.lock = Nobody]
    BY DEF LoginFails
  <2>2. session.refused + 1 \in Nat
    BY <1>1 DEF SessionSet
  <2>3. QED
    BY <1>1, <2>1, <2>2 DEF SessionSet
<1>5. faults' \in Nat /\ faults' <= faults
  BY <1>1 DEF LoginFails, OneFault
<1>6. QED
  BY <1>1, <1>3, <1>4, <1>5, QuietMove

\* The steps that send a request of their own accord.
LEMMA SendsKeep ==
    ASSUME SearchJobsInv, NEW u \in Searches,
           Begin(u) \/ Poll(u) \/ HarvestPolls(u) \/ TidyParked(u)
    PROVE  SearchJobsInv'
<1>1. /\ call[u] \in CallSet /\ course.at # "new"
      /\ UNCHANGED <<setting, course, session, target, faults>>
  BY SearchType DEF Begin, Poll, HarvestPolls, TidyParked
<1>2. PICK what \in Requested : Put(u, Asks(call[u], what))
  BY DEF Begin, Poll, HarvestPolls, TidyParked, Requested
<1>3. QED
  BY <1>1, <1>2, AsksIsQuiet, PutsQuietly

\* Every step of a search keeps the invariant.
LEMMA SearchKeeps == ASSUME SearchJobsInv, NEW u \in Searches, SearchStep(u) PROVE SearchJobsInv'
BY AnswersKeep, RefusedKeeps, TakeLockKeeps, LoginAcceptedKeeps, LoginFailsKeeps, SendsKeep
   DEF SearchStep

\* The drain's deadline: no search that is cancelled waits for a login.
LEMMA CancelKeeps == ASSUME SearchJobsInv, Cancel PROVE SearchJobsInv'
<1>1. /\ course.at = "drain" /\ course' = [course EXCEPT !.at = "cancelled"]
      /\ call' = [u \in Searches |-> Cancelled(u)]
      /\ session' = [session EXCEPT !.lock = IF @ \in InFlight \ Tidying THEN Nobody ELSE @]
      /\ UNCHANGED <<setting, target, faults>>
  BY DEF Cancel
<1>2. /\ setting \in AnySetting /\ course \in CourseSet /\ session \in SessionSet
      /\ target \in TargetSet /\ faults \in Nat
  BY DEF SearchJobsInv, SearchJobsType
<1>3. /\ session' \in SessionSet /\ session'.gen = session.gen
      /\ session'.lock = IF session.lock \in InFlight \ Tidying THEN Nobody ELSE session.lock
      /\ course' \in CourseSet /\ course'.at = "cancelled"
  BY <1>1, <1>2 DEF SessionSet, CourseSet
<1>4. ASSUME NEW u \in Searches
      PROVE  \/ Quiet(Cancelled(u))
             \/ /\ Cancelled(u) \in CallSet /\ u \notin InFlight \ Tidying
                /\ Cancelled(u).at = call[u].at /\ Cancelled(u).gen = call[u].gen
                /\ Cancelled(u).asks = call[u].asks /\ Cancelled(u).answer = call[u].answer
  <2> DEFINE c == [call[u] EXCEPT !.out = "cancelled"]
             o == Idle(c, "over")
  <2>1. call[u] \in CallSet
    BY SearchType
  <2>2. c \in CallSet
    BY <2>1 DEF CallSet, Outs
  <2>3. CASE u \in Tidying
    <3>0. u \in InFlight /\ u \notin Harvested
      BY <2>3 DEF Tidying, Harvested
    <3>1. Cancelled(u) = [call[u] EXCEPT !.cut = TRUE]
      BY <2>3, <3>0 DEF Cancelled
    <3>2. QED
      BY <2>1, <2>3, <3>1 DEF CallSet
  <2>4. CASE u \in Harvested
    <3>1. u \notin Tidying
      BY <2>4 DEF Harvested
    <3>2. Cancelled(u) = [o EXCEPT !.cut = TRUE]
      BY <2>4, <3>1 DEF Cancelled
    <3>3. Quiet(o) /\ o.at = "over"
      BY <2>2, IdleIsQuiet
    <3> HIDE DEF o
    <3>4. [o EXCEPT !.cut = TRUE] \in CallSet /\ [o EXCEPT !.cut = TRUE].at = "over"
          /\ [o EXCEPT !.cut = TRUE].gen = o.gen
      BY <3>3 DEF Quiet, CallSet
    <3>5. QED
      BY <3>2, <3>3, <3>4 DEF Quiet
  <2>5. CASE u \in InFlight \ (Tidying \cup Harvested)
    <3>1. Cancelled(u) = IF c.sid THEN Asks(c, "delete") ELSE o
      BY <2>5 DEF Cancelled
    <3>2. Quiet(Asks(c, "delete")) /\ Quiet(o)
      BY <2>2, IdleIsQuiet, AsksIsQuiet DEF Requested
    <3>3. QED
      BY <3>1, <3>2
  <2>6. CASE u \notin InFlight
    <3>1. u \notin Tidying /\ u \notin Harvested
      BY <2>6 DEF Tidying, Harvested
    <3>2. Cancelled(u) = call[u]
      BY <2>6, <3>1 DEF Cancelled
    <3>3. QED
      BY <2>1, <2>6, <3>2
  <2>7. QED
    BY <2>3, <2>4, <2>5, <2>6
<1>5. SearchJobsType'
  BY <1>1, <1>2, <1>3, <1>4 DEF SearchJobsType, Quiet
<1>6. ASSUME NEW u \in Searches PROVE CallOK(u)' /\ (RefusedNow(u)' => RefusedNow(u))
  <2>1. call'[u] = Cancelled(u) /\ CallOK(u)
    BY <1>1, SearchType
  <2>2. CASE Quiet(Cancelled(u))
    BY <1>3, <2>1, <2>2 DEF Quiet, CallOK, RefusedNow, Refusal
  <2>3. CASE ~Quiet(Cancelled(u))
    BY <1>3, <1>4, <2>1, <2>3 DEF CallOK, RefusedNow, Refusal
  <2>4. QED
    BY <2>2, <2>3
<1>7. ASSUME ~setting.token PROVE LoginsArePaid'
  <2>1. LoginsArePaid
    BY <1>1, <1>7 DEF SearchJobsInv
  <2>2. CalledFor' => CalledFor
    BY <1>1, <1>3, <1>6 DEF CalledFor
  <2>3. QED
    BY <1>1, <1>3, <2>1, <2>2 DEF LoginsArePaid
<1>8. QED
  BY <1>1, <1>3, <1>5, <1>6, <1>7 DEF SearchJobsInv

\* The engine is closed, and no search awaits an answer.
LEMMA CloseKeeps == ASSUME SearchJobsInv, Close PROVE SearchJobsInv'
<1>1. /\ course.at = "tidy" /\ course' = [course EXCEPT !.at = "closed"]
      /\ call' = [u \in Searches |-> IF u \in InFlight THEN Idle(call[u], "over") ELSE call[u]]
      /\ UNCHANGED <<setting, session, target, faults>>
  BY DEF Close
<1>2. /\ course \in CourseSet /\ course' \in CourseSet /\ course'.at = "closed"
  BY <1>1 DEF SearchJobsInv, SearchJobsType, CourseSet
<1>3. ASSUME NEW u \in Searches
      PROVE  /\ call'[u] \in CallSet /\ CallOK(u)' /\ (RefusedNow(u)' => RefusedNow(u))
  <2>1. call[u] \in CallSet /\ CallOK(u)
    BY SearchType
  <2>2. Quiet(Idle(call[u], "over"))
    BY <2>1, IdleIsQuiet
  <2>3. call'[u] = IF u \in InFlight THEN Idle(call[u], "over") ELSE call[u]
    BY <1>1
  <2>4. QED
    BY <1>1, <2>1, <2>2, <2>3 DEF Quiet, CallOK, RefusedNow, Refusal
<1>4. SearchJobsType'
  BY <1>1, <1>2, <1>3 DEF SearchJobsInv, SearchJobsType
<1>5. ASSUME ~setting.token PROVE LoginsArePaid'
  BY <1>1, <1>3, <1>5 DEF SearchJobsInv, LoginsArePaid, CalledFor
<1>6. QED
  BY <1>1, <1>2, <1>3, <1>4, <1>5 DEF SearchJobsInv

\* The engine starts with one login, in session mode, and every fault to come.
LEMMA StartEngineKeeps ==
    ASSUME SearchJobsInv, NEW s \in Settings, StartEngine(s), s \in AnySetting
    PROVE  SearchJobsInv'
<1>1. /\ course.at = "new" /\ course' = [course EXCEPT !.at = "load"]
      /\ setting' = s /\ faults' = s.faults
      /\ session' = [session EXCEPT !.gen = IF s.token THEN 0 ELSE 1]
      /\ target' = [target EXCEPT !.keys = IF s.token THEN {} ELSE {1}]
      /\ call' = call
  BY DEF StartEngine
<1>2. /\ course \in CourseSet /\ session \in SessionSet /\ target \in TargetSet
      /\ session.gen = 0 /\ \A u \in Searches : call[u] = NewCall
  BY <1>1 DEF SearchJobsInv, SearchJobsType
<1>3. /\ course' \in CourseSet /\ course'.at = "load"
      /\ session' \in SessionSet /\ session'.gen = IF s.token THEN 0 ELSE 1
      /\ target' \in TargetSet /\ target'.keys = IF s.token THEN {} ELSE {1}
  BY <1>1, <1>2 DEF CourseSet, SessionSet, TargetSet
<1>4. SearchJobsType'
  BY <1>1, <1>3 DEF SearchJobsInv, SearchJobsType, AnySetting
<1>5. ASSUME NEW u \in Searches PROVE CallOK(u)' /\ (~s.token => ~RefusedNow(u)')
  BY <1>1, <1>2, <1>3 DEF CallOK, RefusedNow, NewCall
<1>6. ASSUME ~s.token PROVE LoginsArePaid'
  <2>1. ~CalledFor' /\ session'.gen = 1
    BY <1>3, <1>5, <1>6 DEF CalledFor
  <2>2. s.faults \in Nat
    BY DEF AnySetting
  <2>3. QED
    BY <1>1, <2>1, <2>2 DEF LoginsArePaid
<1>7. QED
  BY <1>1, <1>3, <1>4, <1>5, <1>6 DEF SearchJobsInv

\* What is paid for stays paid for when faults are used up.
LEMMA FewerFaults ==
    ASSUME NEW n \in Nat, NEW f \in Nat, NEW g \in Nat, NEW all \in Nat, g <= f, n - 1 + f <= all
    PROVE  /\ n - 1 + g <= all
           /\ n + f <= all => n + g <= all
           /\ g + 1 <= f => n + g <= all
OBVIOUS

\* The target and the course move; no call does.
LEMMA NoCallMoves ==
    ASSUME SearchJobsInv, UNCHANGED <<setting, call, session>>, course.at # "new",
           course' \in CourseSet, course'.at # "new", target' \in TargetSet,
           faults' \in Nat, faults' <= faults,
           target'.keys = target.keys \/ faults' + 1 <= faults
    PROVE  SearchJobsInv'
<1>1. SearchJobsType' /\ \A u \in Searches : CallOK(u)'
  BY DEF SearchJobsInv, SearchJobsType, CallOK
<1>2. ASSUME ~setting.token PROVE LoginsArePaid'
  <2>1. LoginsArePaid /\ setting.faults \in Nat /\ session.gen \in Nat /\ faults \in Nat
    BY <1>2 DEF SearchJobsInv, SearchJobsType, AnySetting, SessionSet
  <2>2. CalledFor' => CalledFor \/ faults' + 1 <= faults
    BY DEF CalledFor, RefusedNow
  <2>3. /\ session.gen - 1 + faults' <= setting.faults
        /\ CalledFor' => session.gen + faults' <= setting.faults
    <3>1. /\ session.gen - 1 + faults <= setting.faults
          /\ CalledFor => session.gen + faults <= setting.faults
      BY <2>1 DEF LoginsArePaid
    <3>2. /\ session.gen - 1 + faults' <= setting.faults
          /\ CalledFor \/ faults' + 1 <= faults => session.gen + faults' <= setting.faults
      BY <2>1, <3>1, FewerFaults
    <3>3. QED
      BY <2>2, <3>2
  <2>4. QED
    BY <2>3 DEF LoginsArePaid
<1>3. QED
  BY <1>1, <1>2 DEF SearchJobsInv

\* At first no search has begun and there is no session.
LEMMA SearchJobsStarts == SearchJobsInit => SearchJobsInv
<1> SUFFICES ASSUME SearchJobsInit PROVE SearchJobsInv
  OBVIOUS
<1>1. NewCall \in CallSet /\ NewCall.gen = 0 /\ NewCall.at = "new"
  BY DEF NewCall, CallSet, Statuses, JobStates, Outs
<1>2. SearchJobsType
  BY <1>1 DEF SearchJobsInit, SearchJobsType, AnySetting, NoSetting, CourseSet, SessionSet,
     TargetSet, JobStates
<1>3. QED
  BY <1>1, <1>2 DEF SearchJobsInit, SearchJobsInv, CallOK

\* Every step keeps the invariant.
LEMMA SearchJobsKeep == SearchJobsInv /\ [SearchJobsNext]_searchVars => SearchJobsInv'
<1> SUFFICES ASSUME SearchJobsInv, [SearchJobsNext]_searchVars PROVE SearchJobsInv'
  OBVIOUS
<1>1. CASE UNCHANGED searchVars
  BY <1>1 DEF searchVars, SearchJobsInv, SearchJobsType, CallOK, LoginsArePaid, CalledFor, RefusedNow
<1>2. ASSUME NEW s \in Settings, StartEngine(s) PROVE SearchJobsInv'
  <2>1. s \in AnySetting
    BY SearchJobsAssumption
  <2>2. QED
    BY <1>2, <2>1, StartEngineKeeps
<1>3. /\ course \in CourseSet /\ target \in TargetSet /\ faults \in Nat
  BY DEF SearchJobsInv, SearchJobsType
<1>4. ASSUME NEW u \in Searches, JobEnds(u) PROVE SearchJobsInv'
  <2>1. PICK end \in {"done", "failed"} :
          target' = [target EXCEPT !.job = Admit([@ EXCEPT ![u] = end])]
    BY <1>4 DEF JobEnds
  <2>2. [target.job EXCEPT ![u] = end] \in [Searches -> JobStates]
    BY <1>3 DEF TargetSet, JobStates
  <2> DEFINE jobs == Admit([target.job EXCEPT ![u] = end])
  <2>3. jobs \in [Searches -> JobStates] /\ target' = [target EXCEPT !.job = jobs]
    BY <2>1, <2>2, AdmitType
  <2> HIDE DEF jobs
  <2>4. target' \in TargetSet /\ target'.keys = target.keys
    BY <1>3, <2>3 DEF TargetSet
  <2>5. course.at # "new"
    BY <1>4 DEF JobEnds, SearchJobsInv
  <2>6. QED
    BY <1>3, <1>4, <2>4, <2>5, NoCallMoves DEF JobEnds
<1>5. CASE KeysExpire
  <2>1. PICK password \in {target.password, FALSE} :
          target' = [target EXCEPT !.keys = {}, !.password = password]
    BY <1>5 DEF KeysExpire
  <2>2. target' \in TargetSet
    <3>1. target.password \in BOOLEAN /\ password \in BOOLEAN
      BY <1>3, <2>1 DEF TargetSet
    <3>2. QED
      BY <1>3, <2>1, <3>1 DEF TargetSet
  <2>3. faults' \in Nat /\ faults' + 1 <= faults /\ faults' <= faults
    BY <1>3, <1>5 DEF KeysExpire, OneFault
  <2>4. QED
    BY <1>3, <1>5, <2>2, <2>3, NoCallMoves DEF KeysExpire
<1>6. CASE LoadEnds \/ AfterDrain \/ HarvestEnds
  <2>1. course.at # "new" /\ course' \in CourseSet /\ course'.at # "new"
    BY <1>3, <1>6 DEF LoadEnds, AfterDrain, HarvestEnds, CourseSet
  <2>2. QED
    BY <1>3, <1>6, <2>1, NoCallMoves DEF LoadEnds, AfterDrain, HarvestEnds
<1>7. QED
  BY <1>1, <1>2, <1>4, <1>5, <1>6, SearchKeeps, ServeKeeps, CancelKeeps, CloseKeeps
     DEF SearchJobsNext

\* One login follows a key that aged out or a refusal that came by itself, however many
\* searches there are and however many of their requests are refused at once
\* (splunk.py:13-22: the lock and the generation counter).
THEOREM OneLoginPerRefusalHolds == SearchJobsSpec => []OneLoginPerRefusal
<1>1. SearchJobsInv => OneLoginPerRefusal
  BY DEF SearchJobsInv, LoginsArePaid, OneLoginPerRefusal
<1>2. QED
  BY <1>1, SearchJobsStarts, SearchJobsKeep, PTL DEF SearchJobsSpec

-----------------------------------------------------------------------------
(* What becomes of each search. *)

SettledType ==
    /\ dispatched \in [Searches -> Nat] /\ filed \in [Searches -> Nat]
    /\ undeleted \subseteq Searches /\ parked \subseteq Searches

\* Nothing of a search that is still to be dispatched is on the target.
Unsent(c) ==
    \/ c.at = "new"
    \/ c.asks \in {"create", "plain"} /\ c.at \in {"wire", "lock", "login"}
    \/ c.asks \in {"create", "plain"} /\ c.at = "answer" /\ c.answer # "made"
Tally(u) ==
    /\ dispatched[u] <= 1 /\ filed[u] <= 1
    /\ Unsent(call[u]) => dispatched[u] = 0 /\ ~call[u].sid
    /\ call[u].at # "over" /\ ~call[u].cut => filed[u] = 0
    /\ call[u].at = "over" /\ filed[u] = 0 => call[u].cut \/ call[u].out = "rejected"
    \* A job whose search is over is the harvest's, or was given up.
    /\ call[u].sid /\ target.job[u] # "none" /\ u \notin undeleted =>
          call[u].at # "over" \/ u \in parked
    /\ call[u].at = "answer" /\ call[u].asks = "delete" /\ call[u].answer = "ok" =>
          target.job[u] = "none"

\* Only the drain's deadline cuts a search off, and after the drain only those are in flight.
CourseOK ==
    /\ course.at \in {"new", "load", "drain"} => parked = {} /\ \A u \in Searches : ~call[u].cut
    /\ \A u \in parked : call[u].cut
    /\ following \subseteq parked
    /\ course.at = "tidy" => following = {}
    /\ course.at \in {"harvest", "tidy", "closed"} =>
          \A u \in Searches : call[u].at \in {"new", "over"} \/ call[u].cut
    /\ course.at = "closed" =>
          parked = {} /\ \A u \in Searches : call[u].at \in {"new", "over"}

SettledInv == SettledType /\ CourseOK /\ \A u \in Searches : Tally(u)

\* A search moves, with what is known of it; the others rest.
LEMMA OneSearchMoves ==
    ASSUME SearchJobsInv, SettledInv, NEW u \in Searches, NEW c \in CallSet, Put(u, c),
           c.cut = call[u].cut, course.at # "closed",
           course'.at = course.at \/ (course.at = "load" /\ course'.at = "drain"),
           \/ c.at = "over" \/ call[u].at \notin {"new", "over"}
           \/ course.at = "load" \/ u \in parked,
           parked' = parked \/ (course.at = "tidy" /\ parked' = parked \ {u}),
           following' \subseteq following, SettledType',
           \A x \in Searches \ {u} :
              /\ dispatched'[x] = dispatched[x] /\ filed'[x] = filed[x]
              /\ x \in undeleted' <=> x \in undeleted
              /\ target'.job[x] = "none" <=> target.job[x] = "none",
           Tally(u)'
    PROVE  SettledInv'
<1>1. /\ call'[u] = c /\ \A x \in Searches \ {u} : call'[x] = call[x]
  BY DEF SearchJobsInv, SearchJobsType, Put
<1>2. ASSUME NEW x \in Searches \ {u} PROVE Tally(x)'
  <2>1. x \in parked' <=> x \in parked
    OBVIOUS
  <2>2. Tally(x) /\ call'[x] = call[x]
    BY <1>1 DEF SettledInv
  <2>3. QED
    BY <2>1, <2>2 DEF Tally
<1>3. ASSUME course.at = "load" \/ call[u].at \notin {"new", "over"} \/ u \in parked \/ c.at = "over"
      PROVE  course'.at \in {"harvest", "tidy", "closed"} => c.at \in {"new", "over"} \/ c.cut
  BY DEF SettledInv, CourseOK
<1>4. CourseOK'
  <2>1. course'.at \in {"new", "load", "drain"} => parked' = {} /\ \A x \in Searches : ~call'[x].cut
    BY <1>1 DEF SettledInv, CourseOK
  <2>2. \A x \in parked' : call'[x].cut
    BY <1>1 DEF SettledInv, SettledType, CourseOK
  <2>3. following' \subseteq parked' /\ (course'.at = "tidy" => following' = {})
    BY DEF SettledInv, CourseOK
  <2>4. course'.at \in {"harvest", "tidy", "closed"} =>
          \A x \in Searches : call'[x].at \in {"new", "over"} \/ call'[x].cut
    BY <1>1, <1>3 DEF SettledInv, CourseOK
  <2>5. course'.at # "closed"
    OBVIOUS
  <2>6. QED
    BY <2>1, <2>2, <2>3, <2>4, <2>5 DEF CourseOK
<1>5. QED
  BY <1>2, <1>4 DEF SettledInv

\* A search in flight is not of a closed engine.
LEMMA InFlightIsOpen ==
    ASSUME SearchJobsInv, SettledInv, NEW u \in Searches, call[u].at \notin {"new", "over"}
    PROVE  /\ course.at \notin {"new", "closed"} /\ Tally(u) /\ call[u] \in CallSet
           /\ dispatched[u] \in Nat /\ filed[u] \in Nat /\ target.job[u] \in JobStates
BY SearchType DEF SettledInv, SettledType, CourseOK, TargetSet

\* A call moves on and nothing else is counted.
LEMMA CallGoesOn ==
    ASSUME SearchJobsInv, SettledInv, NEW u \in Searches, NEW c \in CallSet, Put(u, c),
           c.cut = call[u].cut, c.at \notin {"new", "over"},
           Unsent(c) => Unsent(call[u]) /\ c.sid = call[u].sid,
           c.at = "answer" => c.asks # "delete",
           \/ call[u].at \notin {"new", "over"}
           \/ course.at = "load" /\ call[u].at = "new"
           \/ course.at \in {"harvest", "tidy"} /\ u \in parked,
           parked' = parked \/ (course.at = "tidy" /\ parked' = parked \ {u}),
           UNCHANGED <<course, following, dispatched, filed, undeleted>>, target'.job = target.job
    PROVE  SettledInv'
<1>1. course.at # "closed" /\ Tally(u) /\ SettledType'
  BY InFlightIsOpen DEF SettledInv, SettledType
<1>2. call'[u] = c
  BY DEF SearchJobsInv, SearchJobsType, Put
<1>3. ~c.cut => filed[u] = 0
  BY <1>1 DEF Tally, SettledInv, CourseOK
<1>4. Tally(u)'
  BY <1>1, <1>2, <1>3 DEF Tally
<1>5. QED
  BY <1>1, <1>4, OneSearchMoves

\* A search is over: it is filed now, or was when it was cut off, or is not to be.
LEMMA ReturnsSettles ==
    ASSUME SearchJobsInv, SettledInv, NEW u \in Searches, NEW c \in CallSet, Returns(u, c),
           c.cut = call[u].cut, c.sid = call[u].sid, call[u].at \notin {"new", "over"},
           UNCHANGED <<dispatched, parked, following>>, target'.job = target.job,
           undeleted \subseteq undeleted', undeleted' \subseteq undeleted \cup {u},
           c.sid /\ target.job[u] # "none" /\ u \notin undeleted' => u \in parked
    PROVE  SettledInv'
<1> DEFINE d == Idle(c, "over")
           k == IF c.out = "rejected" \/ c.cut THEN 0 ELSE 1
<1>1. /\ Put(u, d) /\ filed' = [filed EXCEPT ![u] = @ + k]
      /\ course' = course \/ (course.at = "load" /\ course' = [at |-> "drain", normal |-> FALSE])
  BY DEF Returns
<1>2. d \in CallSet /\ d.at = "over" /\ d.sid = c.sid /\ d.out = c.out /\ d.cut = c.cut
  BY IdleIsQuiet
<1> HIDE DEF d
<1>3. /\ course.at # "closed" /\ Tally(u) /\ dispatched[u] \in Nat /\ filed[u] \in Nat
  BY InFlightIsOpen
<1>4. call'[u] = d /\ filed'[u] = filed[u] + k /\ \A x \in Searches \ {u} : filed'[x] = filed[x]
  BY <1>1 DEF SearchJobsInv, SearchJobsType, SettledInv, SettledType, Put
<1>5. k \in Nat /\ filed[u] + k <= 1 /\ (filed[u] + k = 0 => c.cut \/ c.out = "rejected")
  BY <1>3 DEF Tally
<1>6. SettledType'
  <2>1. filed' \in [Searches -> Nat]
    BY <1>1, <1>5 DEF SettledInv, SettledType
  <2>2. QED
    BY <2>1 DEF SettledInv, SettledType
<1> HIDE DEF k
<1>7. Tally(u)'
  BY <1>2, <1>3, <1>4, <1>5 DEF Tally, Unsent
<1>8. course'.at = course.at \/ (course.at = "load" /\ course'.at = "drain")
  BY <1>1
<1>9. QED
  BY <1>1, <1>2, <1>3, <1>4, <1>6, <1>7, <1>8, OneSearchMoves

\* A search ends: its job is deleted first, if it has one.
LEMMA EndsWithSettles ==
    ASSUME SearchJobsInv, SettledInv, NEW u \in Searches, NEW out \in Outs,
           EndsWith(u, call[u], out), call[u].at \notin {"new", "over"},
           UNCHANGED <<dispatched, parked>>, target'.job = target.job
    PROVE  SettledInv'
<1> DEFINE r == [call[u] EXCEPT !.out = out]
<1>1. call[u] \in CallSet
  BY InFlightIsOpen
<1>2. r \in CallSet /\ r.sid = call[u].sid /\ r.cut = call[u].cut /\ r.sid \in BOOLEAN
  BY <1>1 DEF CallSet
<1>3. /\ UNCHANGED <<following, undeleted>>
      /\ \/ r.sid /\ Put(u, Asks(r, "delete")) /\ UNCHANGED <<filed, course>>
         \/ ~r.sid /\ Returns(u, r)
  BY DEF EndsWith, HasJob
<1> HIDE DEF r
<1>4. CASE r.sid /\ Put(u, Asks(r, "delete")) /\ UNCHANGED <<filed, course>>
  <2> DEFINE d == Asks(r, "delete")
  <2>1. d \in CallSet /\ d.at = "wire" /\ d.asks = "delete" /\ d.sid = r.sid /\ d.cut = r.cut
    BY <1>2, AsksIsQuiet DEF Requested
  <2>2. Put(u, d)
    BY <1>4
  <2> HIDE DEF d
  <2>3. ~Unsent(d)
    BY <2>1 DEF Unsent
  <2>4. QED
    BY <1>2, <1>3, <1>4, <2>1, <2>2, <2>3, CallGoesOn
<1>5. CASE ~r.sid /\ Returns(u, r)
  BY <1>2, <1>3, <1>5, ReturnsSettles
<1>6. QED
  BY <1>3, <1>4, <1>5

\* The harvest has heard the last of a search, or will look again.
LEMMA OverSettles ==
    ASSUME SearchJobsInv, SettledInv, NEW u \in Searches, u \in following,
           Put(u, Idle(call[u], "over")), call[u].at \notin {"new", "over"},
           following' \subseteq following,
           UNCHANGED <<course, dispatched, filed, undeleted, parked>>, target'.job = target.job
    PROVE  SettledInv'
<1> DEFINE d == Idle(call[u], "over")
<1>1. call[u] \in CallSet /\ Tally(u) /\ course.at # "closed" /\ SettledType'
  BY InFlightIsOpen DEF SettledInv, SettledType
<1>2. d \in CallSet /\ d.at = "over" /\ d.sid = call[u].sid /\ d.cut = call[u].cut
  BY <1>1, IdleIsQuiet
<1>3. Put(u, d)
  OBVIOUS
<1> HIDE DEF d
<1>4. u \in parked /\ call[u].cut /\ call'[u] = d
  BY <1>3 DEF SettledInv, CourseOK, SearchJobsInv, SearchJobsType, Put
<1>5. Tally(u)'
  BY <1>1, <1>2, <1>4 DEF Tally, Unsent
<1>6. QED
  BY <1>1, <1>2, <1>3, <1>5, OneSearchMoves

\* A request failed: a delete is given up, the harvest drops the search, or it ends.
LEMMA FailsSettles ==
    ASSUME SearchJobsInv, SettledInv, NEW u \in Searches, NEW out \in Outs, Fails(u, out),
           call[u].at \notin {"new", "over"},
           UNCHANGED <<dispatched, parked>>, target'.job = target.job
    PROVE  SettledInv'
<1>1. call[u] \in CallSet
  BY SearchType
<1>2. CASE call[u].asks = "delete"
  <2>1. Returns(u, call[u]) /\ undeleted' = undeleted \cup {u} /\ UNCHANGED following
    BY <1>2 DEF Fails
  <2>2. QED
    BY <1>1, <2>1, ReturnsSettles
<1>3. CASE call[u].asks # "delete" /\ u \in following
  <2>1. Settled(u)
    BY <1>3 DEF Fails
  <2>2. QED
    BY <1>3, <2>1, OverSettles DEF Settled
<1>4. CASE call[u].asks # "delete" /\ u \notin following
  <2>1. EndsWith(u, call[u], out)
    BY <1>4 DEF Fails
  <2>2. QED
    BY <2>1, EndsWithSettles
<1>5. QED
  BY <1>2, <1>3, <1>4

\* Admission makes no job and takes none away.
LEMMA AdmitMakesNone ==
    ASSUME NEW jobs \in [Searches -> JobStates], NEW x \in Searches
    PROVE  Admit(jobs)[x] = "none" <=> jobs[x] = "none"
<1> DEFINE queued == {u \in Searches : jobs[u] = "queued"}
           y == CHOOSE u \in queued : TRUE
<1>1. queued # {} => y \in Searches /\ jobs[y] = "queued"
  OBVIOUS
<1>2. Admit(jobs) = jobs \/ (queued # {} /\ Admit(jobs) = [jobs EXCEPT ![y] = "running"])
  BY DEF Admit
<1> HIDE DEF y
<1>3. QED
  BY <1>1, <1>2

\* Only a dispatch makes a job, and only a delete takes one away.
LEMMA ServedJobs ==
    ASSUME NEW u \in Searches, NEW asks \in Requested, NEW jobs \in [Searches -> JobStates]
    PROVE  /\ \A x \in Searches \ {u} : Served(u, asks, jobs)[2][x] = "none" <=> jobs[x] = "none"
           /\ Served(u, asks, jobs)[1] = "made" => asks \in {"create", "plain"}
           /\ asks = "delete" => Served(u, asks, jobs)[2][u] = "none"
<1> DEFINE q == [jobs EXCEPT ![u] = "queued"]
           n == [jobs EXCEPT ![u] = "none"]
<1>1. /\ q \in [Searches -> JobStates] /\ n \in [Searches -> JobStates] /\ n[u] = "none"
      /\ \A x \in Searches \ {u} : q[x] = jobs[x] /\ n[x] = jobs[x]
      /\ jobs[u] \in JobStates
  BY DEF JobStates
<1>2. CASE asks = "create" /\ ~setting.ids
  BY <1>2 DEF Served
<1>3. CASE asks = "plain" \/ (asks = "create" /\ setting.ids)
  <2>1. Served(u, asks, jobs) = <<"made", Admit(q)>>
    BY <1>3 DEF Served
  <2> HIDE DEF q
  <2>2. QED
    BY <1>1, <1>3, <2>1, AdmitMakesNone
<1>4. CASE asks = "poll"
  <2>1. Served(u, asks, jobs) = <<IF jobs[u] = "none" THEN "error" ELSE jobs[u], jobs>>
    BY <1>4 DEF Served
  <2>2. QED
    BY <1>1, <1>4, <2>1 DEF JobStates
<1>5. CASE asks = "delete"
  <2>1. Served(u, asks, jobs) = <<"ok", Admit(n)>>
    BY <1>5 DEF Served
  <2> HIDE DEF n
  <2>2. QED
    BY <1>1, <1>5, <2>1, AdmitMakesNone
<1>6. CASE asks \in {"results", "oneshot"}
  BY <1>6 DEF Served
<1>7. QED
  BY <1>2, <1>3, <1>4, <1>5, <1>6 DEF Requested

\* A request is answered: a dispatch is made once, a delete that is accepted takes the job.
LEMMA ServeSettles ==
    ASSUME SearchJobsInv, SettledInv, NEW u \in Searches, Serve(u) PROVE SettledInv'
<1> DEFINE c(status) == [call[u] EXCEPT !.at = "answer", !.answer = status]
<1>1. /\ call[u].at = "wire" /\ call[u] \in CallSet /\ call[u].asks \in Requested
      /\ course.at # "closed" /\ Tally(u) /\ dispatched[u] \in Nat
      /\ target \in TargetSet /\ target.job \in [Searches -> JobStates]
      /\ UNCHANGED <<setting, course, session, parked, following, filed, undeleted>>
  BY SearchType, InFlightIsOpen DEF Serve, CallOK, CallSet, TargetSet
<1>2. ASSUME NEW status \in Statuses
      PROVE  /\ c(status) \in CallSet /\ c(status).at = "answer" /\ c(status).answer = status
             /\ c(status).asks = call[u].asks /\ c(status).sid = call[u].sid
             /\ c(status).cut = call[u].cut
  BY <1>1, <1>2 DEF CallSet
<1>3. ASSUME NEW status \in Statuses, Answer(u, status), NEW k \in {0, 1},
             dispatched' = [dispatched EXCEPT ![u] = @ + k],
             status = "made" <=> k = 1, k = 1 => call[u].asks \in {"create", "plain"},
             \A x \in Searches \ {u} : target'.job[x] = "none" <=> target.job[x] = "none",
             call[u].asks = "delete" /\ status = "ok" => target'.job[u] = "none"
      PROVE  SettledInv'
  <2> DEFINE d == c(status)
  <2>1. /\ d \in CallSet /\ d.at = "answer" /\ d.answer = status
        /\ d.asks = call[u].asks /\ d.sid = call[u].sid /\ d.cut = call[u].cut
    BY <1>2, <1>3
  <2>2. Put(u, d)
    BY <1>3 DEF Answer
  <2> HIDE DEF d
  <2>3. call'[u] = d
    BY <2>2 DEF SearchJobsInv, SearchJobsType, Put
  <2>4. /\ dispatched' \in [Searches -> Nat] /\ dispatched'[u] = dispatched[u] + k
        /\ \A x \in Searches \ {u} : dispatched'[x] = dispatched[x]
    BY <1>1, <1>3 DEF SettledInv, SettledType
  <2>5. SettledType'
    BY <1>1, <2>4 DEF SettledInv, SettledType
  <2>6. Unsent(d) => Unsent(call[u]) /\ k = 0
    BY <1>1, <1>3, <2>1 DEF Unsent
  <2>7. k = 1 => Unsent(call[u])
    BY <1>1, <1>3 DEF Unsent
  <2>8. Tally(u)'
    BY <1>1, <1>3, <2>1, <2>3, <2>4, <2>6, <2>7 DEF Tally
  <2>9. QED
    BY <1>1, <1>3, <2>1, <2>2, <2>4, <2>5, <2>8, OneSearchMoves
<1> HIDE DEF c
<1> DEFINE served == Served(u, call[u].asks, target.job)
<1>4. CASE /\ Answer(u, served[1]) /\ target' = [target EXCEPT !.job = served[2]]
           /\ dispatched' = [dispatched EXCEPT ![u] = @ + IF served[1] = "made" THEN 1 ELSE 0]
  <2>1. /\ served[1] \in Statuses
        /\ \A x \in Searches \ {u} : served[2][x] = "none" <=> target.job[x] = "none"
        /\ served[1] = "made" => call[u].asks \in {"create", "plain"}
        /\ call[u].asks = "delete" => served[2][u] = "none"
    BY <1>1, ServedType, ServedJobs
  <2> HIDE DEF served
  <2>2. target'.job = served[2]
    BY <1>1, <1>4 DEF TargetSet
  <2> DEFINE k == IF served[1] = "made" THEN 1 ELSE 0
  <2>3. /\ k \in {0, 1} /\ (served[1] = "made" <=> k = 1)
        /\ dispatched' = [dispatched EXCEPT ![u] = @ + k]
    BY <1>4
  <2> HIDE DEF k
  <2>4. /\ k = 1 => call[u].asks \in {"create", "plain"}
        /\ \A x \in Searches \ {u} : target'.job[x] = "none" <=> target.job[x] = "none"
        /\ call[u].asks = "delete" /\ served[1] = "ok" => target'.job[u] = "none"
    BY <2>1, <2>2, <2>3
  <2>5. QED
    BY <1>3, <1>4, <2>1, <2>3, <2>4
<1>5. ASSUME NEW status \in {"401", "403", "bad", "error"}, Answer(u, status),
             UNCHANGED <<target, dispatched>>
      PROVE  SettledInv'
  <2>1. status \in Statuses /\ status \notin {"made", "ok"}
    BY <1>5 DEF Statuses
  <2>2. dispatched' = [dispatched EXCEPT ![u] = @ + 0]
    BY <1>1, <1>5 DEF SettledInv, SettledType
  <2>3. (status = "made" <=> 0 = 1) /\ 0 \in {0, 1} /\ target'.job = target.job
    BY <1>5, <2>1
  <2>4. ~(0 = 1)
    OBVIOUS
  <2>5. QED
    BY <1>3, <1>5, <2>1, <2>2, <2>3, <2>4
<1>6. QED
  BY <1>4, <1>5 DEF Serve

\* The steps in which a search hears from the target.
LEMMA AnswersSettle ==
    ASSUME SearchJobsInv, SettledInv, NEW u \in Searches,
           Created(u) \/ Polled(u) \/ Read(u) \/ Deleted(u) \/ Lose(u)
    PROVE  SettledInv'
<1>1. /\ call[u] \in CallSet /\ call[u].at \notin {"new", "over"} /\ Tally(u)
      /\ UNCHANGED <<dispatched, parked, target>>
  BY SearchType DEF Created, Polled, Read, Deleted, Lose, SettledInv
<1>2. ASSUME NEW at \in {"sleep", "over"}, Put(u, Idle(call[u], at)),
             at = "over" => u \in following, UNCHANGED <<course, filed, following, undeleted>>
      PROVE  SettledInv'
  <2>1. CASE at = "over"
    BY <1>1, <1>2, <2>1, OverSettles
  <2>2. CASE at = "sleep"
    <3> DEFINE i == Idle(call[u], at)
    <3>1. i \in CallSet /\ i.at = "sleep" /\ i.cut = call[u].cut
      BY <1>1, <2>2, IdleIsQuiet
    <3>2. Put(u, i)
      BY <1>2
    <3> HIDE DEF i
    <3>3. ~Unsent(i)
      BY <3>1 DEF Unsent
    <3>4. QED
      BY <1>1, <1>2, <3>1, <3>2, <3>3, CallGoesOn
  <2>3. QED
    BY <2>1, <2>2
<1>3. ASSUME NEW what \in Requested, Put(u, Asks(call[u], what)),
             what \in {"create", "plain"} => Unsent(call[u]),
             UNCHANGED <<course, filed, following, undeleted>>
      PROVE  SettledInv'
  <2> DEFINE i == Asks(call[u], what)
  <2>1. /\ i \in CallSet /\ i.at = "wire" /\ i.asks = what
        /\ i.cut = call[u].cut /\ i.sid = call[u].sid
    BY <1>1, AsksIsQuiet
  <2>2. Put(u, i)
    BY <1>3
  <2> HIDE DEF i
  <2>3. Unsent(i) => Unsent(call[u])
    BY <1>3, <2>1 DEF Unsent
  <2>4. QED
    BY <1>1, <1>3, <2>1, <2>2, <2>3, CallGoesOn
<1>4. ASSUME NEW out \in Outs, EndsWith(u, call[u], out) \/ Fails(u, out) PROVE SettledInv'
  BY <1>1, <1>4, EndsWithSettles, FailsSettles
<1>5. CASE Created(u)
  <2>1. call[u].at = "answer" /\ call[u].asks \in {"create", "plain"}
    BY <1>5 DEF Created
  <2>2. ASSUME Put(u, [Idle(call[u], "sleep") EXCEPT !.sid = TRUE]),
               UNCHANGED <<course, filed, following, undeleted>>
        PROVE  SettledInv'
    <3> DEFINE i == Idle(call[u], "sleep")
               c == [i EXCEPT !.sid = TRUE]
    <3>1. i \in CallSet /\ i.at = "sleep" /\ i.cut = call[u].cut
      BY <1>1, IdleIsQuiet
    <3>2. Put(u, c)
      BY <2>2
    <3> HIDE DEF i
    <3>3. c \in CallSet /\ c.at = "sleep" /\ c.cut = call[u].cut
      BY <3>1 DEF CallSet
    <3> HIDE DEF c
    <3>4. ~Unsent(c)
      BY <3>3 DEF Unsent
    <3>5. QED
      BY <1>1, <2>2, <3>2, <3>3, <3>4, CallGoesOn
  <2>3. ASSUME call[u].answer = "bad", Put(u, Asks(call[u], "plain")),
               UNCHANGED <<course, filed, following, undeleted>>
        PROVE  SettledInv'
    BY <1>3, <2>1, <2>3 DEF Requested, Unsent
  <2>4. ASSUME EndsWith(u, call[u], "http") PROVE SettledInv'
    BY <1>4, <2>4 DEF Outs
  <2>5. QED
    BY <1>5, <2>2, <2>3, <2>4 DEF Created
<1>6. CASE Polled(u)
  <2>1. ASSUME call[u].answer \in {"queued", "running"} PROVE SettledInv'
    BY <1>2, <1>6, <2>1 DEF Polled
  <2>2. ASSUME call[u].answer \notin {"queued", "running"}, u \in following PROVE SettledInv'
    <3>1. Settled(u)
      BY <1>6, <2>2 DEF Polled
    <3>2. QED
      BY <1>1, <2>2, <3>1, OverSettles DEF Settled
  <2>3. ASSUME call[u].answer = "done", u \notin following PROVE SettledInv'
    <3>1. \/ Put(u, Asks(call[u], "results")) /\ UNCHANGED <<course, filed, following, undeleted>>
          \/ EndsWith(u, call[u], "ok")
      BY <1>6, <2>3 DEF Polled
    <3>2. QED
      BY <1>3, <1>4, <3>1 DEF Requested, Outs
  <2>4. ASSUME call[u].answer \notin {"queued", "running", "done"}, u \notin following
        PROVE  SettledInv'
    <3>1. \E out \in {"failed", "http"} : EndsWith(u, call[u], out)
      BY <1>6, <2>4 DEF Polled
    <3>2. QED
      BY <1>4, <3>1 DEF Outs
  <2>5. QED
    BY <2>1, <2>2, <2>3, <2>4
<1>7. CASE Read(u)
  <2>1. \E out \in {"ok", "http"} : EndsWith(u, call[u], out)
    BY <1>7 DEF Read
  <2>2. QED
    BY <1>4, <2>1 DEF Outs
<1>8. CASE Deleted(u)
  <2>1. /\ Returns(u, call[u]) /\ UNCHANGED following
        /\ undeleted' = IF call[u].answer = "ok" THEN undeleted ELSE undeleted \cup {u}
        /\ call[u].at = "answer" /\ call[u].asks = "delete"
    BY <1>8 DEF Deleted
  <2>2. target.job[u] # "none" => u \in undeleted'
    BY <1>1, <2>1 DEF Tally
  <2>3. QED
    BY <1>1, <2>1, <2>2, ReturnsSettles
<1>9. CASE Lose(u)
  <2>1. \E out \in {"timeout", "client"} : Fails(u, out)
    BY <1>9 DEF Lose
  <2>2. QED
    BY <1>4, <2>1 DEF Outs
<1>10. QED
  BY <1>1, <1>5, <1>6, <1>7, <1>8, <1>9

\* The steps of a login.
LEMMA LoginsSettle ==
    ASSUME SearchJobsInv, SettledInv, NEW u \in Searches,
           Refused(u) \/ TakeLock(u) \/ LoginAccepted(u) \/ LoginFails(u)
    PROVE  SettledInv'
<1>1. /\ call[u] \in CallSet /\ call[u].at \in {"answer", "lock", "login"}
      /\ target \in TargetSet /\ session \in SessionSet /\ session.gen \in Nat
      /\ UNCHANGED <<dispatched, parked>>
  BY SearchType DEF Refused, TakeLock, LoginAccepted, LoginFails, SessionSet
<1>2. target'.job = target.job
  BY <1>1 DEF Refused, TakeLock, LoginAccepted, LoginFails, TargetSet
<1>3. ASSUME NEW c \in CallSet, Put(u, c), c.at \in {"wire", "lock", "login"},
             c.cut = call[u].cut, c.sid = call[u].sid, c.asks = call[u].asks,
             call[u].at = "answer" => call[u].answer # "made",
             UNCHANGED <<course, filed, following, undeleted>>
      PROVE  SettledInv'
  <2>1. Unsent(c) => Unsent(call[u])
    BY <1>1, <1>3 DEF Unsent
  <2>2. QED
    BY <1>1, <1>2, <1>3, <2>1, CallGoesOn
<1>4. ASSUME NEW at \in {"lock", "login"}, Put(u, [call[u] EXCEPT !.at = at]),
             call[u].at = "answer" => call[u].answer # "made",
             UNCHANGED <<course, filed, following, undeleted>>
      PROVE  SettledInv'
  <2> DEFINE c == [call[u] EXCEPT !.at = at]
  <2>1. /\ c \in CallSet /\ c.at = at /\ c.cut = call[u].cut /\ c.sid = call[u].sid
        /\ c.asks = call[u].asks
    BY <1>1 DEF CallSet
  <2>2. Put(u, c)
    BY <1>4
  <2> HIDE DEF c
  <2>3. QED
    BY <1>3, <1>4, <2>1, <2>2
<1>5. ASSUME NEW gen \in Nat, Put(u, Resent(call[u], gen)), call[u].at # "answer",
             UNCHANGED <<course, filed, following, undeleted>>
      PROVE  SettledInv'
  <2> DEFINE c == Resent(call[u], gen)
  <2>1. /\ c \in CallSet /\ c.at = "wire" /\ c.cut = call[u].cut /\ c.sid = call[u].sid
        /\ c.asks = call[u].asks
    BY <1>1, ResentIsQuiet
  <2>2. Put(u, c)
    BY <1>5
  <2> HIDE DEF c
  <2>3. QED
    BY <1>3, <1>5, <2>1, <2>2
<1>6. ASSUME NEW out \in Outs, Fails(u, out) PROVE SettledInv'
  BY <1>1, <1>2, <1>6, FailsSettles
<1>7. CASE Refused(u)
  BY <1>4, <1>6, <1>7 DEF Refused, Outs
<1>8. CASE TakeLock(u)
  <2>1. call[u].at = "lock" /\ UNCHANGED <<course, filed, following, undeleted>>
    BY <1>8 DEF TakeLock
  <2>2. \/ Put(u, Resent(call[u], session.gen)) \/ Put(u, [call[u] EXCEPT !.at = "login"])
    BY <1>8 DEF TakeLock
  <2>3. QED
    BY <1>1, <1>4, <1>5, <2>1, <2>2
<1>9. CASE LoginAccepted(u)
  <2>1. session.gen + 1 \in Nat
    BY <1>1
  <2>2. QED
    BY <1>5, <1>9, <2>1 DEF LoginAccepted
<1>10. CASE LoginFails(u)
  BY <1>6, <1>10 DEF LoginFails, Outs
<1>11. QED
  BY <1>7, <1>8, <1>9, <1>10

\* The steps that send a request of their own accord: the parked ones' are the harvest's.
LEMMA SendsSettle ==
    ASSUME SearchJobsInv, SettledInv, NEW u \in Searches,
           Begin(u) \/ Poll(u) \/ HarvestPolls(u) \/ TidyParked(u)
    PROVE  SettledInv'
<1>1. /\ call[u] \in CallSet /\ target'.job = target.job
      /\ UNCHANGED <<course, following, dispatched, filed, undeleted>>
  BY SearchType DEF Begin, Poll, HarvestPolls, TidyParked
<1>2. PICK what \in Requested :
        /\ Put(u, Asks(call[u], what))
        /\ call[u].at # "new" => what \in {"poll", "delete"}
        /\ Begin(u) \/ what \in {"poll", "delete"}
  <2>1. CASE Begin(u)
    BY <2>1 DEF Begin, Requested
  <2>2. CASE Poll(u) \/ HarvestPolls(u)
    BY <2>2 DEF Poll, HarvestPolls, Requested
  <2>3. CASE TidyParked(u)
    BY <2>3 DEF TidyParked, Requested
  <2>4. QED
    BY <2>1, <2>2, <2>3
<1>3. /\ \/ call[u].at \notin {"new", "over"}
         \/ course.at = "load" /\ call[u].at = "new"
         \/ course.at \in {"harvest", "tidy"} /\ u \in parked
      /\ parked' = parked \/ (course.at = "tidy" /\ parked' = parked \ {u})
      /\ Begin(u) => call[u].at = "new"
  BY DEF Begin, Poll, HarvestPolls, TidyParked, SettledInv, CourseOK
<1> DEFINE c == Asks(call[u], what)
<1>4. /\ c \in CallSet /\ c.at = "wire" /\ c.asks = what
      /\ c.cut = call[u].cut /\ c.sid = call[u].sid
  BY <1>1, AsksIsQuiet
<1>5. Put(u, c)
  BY <1>2
<1> HIDE DEF c
<1>6. Unsent(c) => Unsent(call[u])
  BY <1>2, <1>3, <1>4 DEF Unsent
<1>7. QED
  BY <1>1, <1>3, <1>4, <1>5, <1>6, CallGoesOn

\* The run or the target goes on, and no search moves.
LEMMA CourseGoes ==
    ASSUME SettledInv, CourseOK', UNCHANGED <<call, dispatched, filed, undeleted, parked>>,
           \A x \in Searches : target'.job[x] = "none" <=> target.job[x] = "none"
    PROVE  SettledInv'
<1>1. SettledType'
  BY DEF SettledInv, SettledType
<1>2. ASSUME NEW x \in Searches PROVE Tally(x)'
  <2>1. Tally(x)
    BY DEF SettledInv
  <2>2. QED
    BY <2>1 DEF Tally
<1>3. QED
  BY <1>1, <1>2 DEF SettledInv

\* What the drain's deadline makes of a search, of which nothing was filed if it is in flight.
LEMMA CancelledIs ==
    ASSUME SearchJobsInv, NEW u \in Searches
    PROVE  /\ u \notin InFlight => Cancelled(u) = call[u]
           /\ u \in Tidying =>
                 /\ Cancelled(u).at = call[u].at /\ Cancelled(u).asks = call[u].asks
                 /\ Cancelled(u).answer = call[u].answer /\ Cancelled(u).sid = call[u].sid
                 /\ Cancelled(u).out = call[u].out /\ Cancelled(u).cut
           /\ u \in Harvested => Cancelled(u).at = "over" /\ Cancelled(u).cut
           /\ u \in InFlight \ (Tidying \cup Harvested) =>
                 /\ Cancelled(u).cut = call[u].cut
                 /\ \/ Cancelled(u).at = "wire" /\ Cancelled(u).asks = "delete"
                    \/ Cancelled(u).at = "over" /\ ~Cancelled(u).sid
<1> DEFINE c == [call[u] EXCEPT !.out = "cancelled"]
           o == Idle(c, "over")
<1>1. call[u] \in CallSet
  BY SearchType
<1>2. c \in CallSet /\ c.sid = call[u].sid /\ c.cut = call[u].cut /\ c.sid \in BOOLEAN
  BY <1>1 DEF CallSet, Outs
<1>3. CASE u \in Tidying
  <2>1. u \in InFlight /\ u \notin Harvested
    BY <1>3 DEF Tidying, Harvested
  <2>2. Cancelled(u) = [call[u] EXCEPT !.cut = TRUE]
    BY <1>3, <2>1 DEF Cancelled
  <2>3. QED
    BY <1>1, <1>3, <2>1, <2>2 DEF CallSet
<1>4. CASE u \in Harvested
  <2>1. u \notin Tidying /\ u \in InFlight
    BY <1>4 DEF Harvested
  <2>2. Cancelled(u) = [o EXCEPT !.cut = TRUE]
    BY <1>4, <2>1 DEF Cancelled
  <2>3. o \in CallSet /\ o.at = "over"
    BY <1>2, IdleIsQuiet
  <2> HIDE DEF o
  <2>4. Cancelled(u).at = "over" /\ Cancelled(u).cut
    BY <2>2, <2>3 DEF CallSet
  <2>5. QED
    BY <1>4, <2>1, <2>4
<1>5. CASE u \in InFlight \ (Tidying \cup Harvested)
  <2>1. Cancelled(u) = IF c.sid THEN Asks(c, "delete") ELSE o
    BY <1>5 DEF Cancelled
  <2>2. /\ Asks(c, "delete").at = "wire" /\ Asks(c, "delete").asks = "delete"
        /\ Asks(c, "delete").cut = c.cut
    BY <1>2, AsksIsQuiet DEF Requested
  <2>3. o.at = "over" /\ o.sid = c.sid /\ o.cut = c.cut
    BY <1>2, IdleIsQuiet
  <2> HIDE DEF c, o
  <2>4. QED
    BY <1>2, <1>5, <2>1, <2>2, <2>3
<1>6. CASE u \notin InFlight
  <2>1. u \notin Tidying /\ u \notin Harvested
    BY <1>6 DEF Tidying, Harvested
  <2>2. Cancelled(u) = call[u]
    BY <1>6, <2>1 DEF Cancelled
  <2>3. QED
    BY <1>6, <2>1, <2>2
<1>7. QED
  BY <1>3, <1>4, <1>5, <1>6

\* Who is cancelled is filed now, or asks for its job to be deleted; who is cut off was tidying
\* up or is the harvest's.
LEMMA CancelSettles == ASSUME SearchJobsInv, SettledInv, Cancel PROVE SettledInv'
<1> DEFINE k(u) == IF u \in InFlight /\ call'[u].at = "over" THEN 1 ELSE 0
<1>1. /\ course.at = "drain" /\ course' = [course EXCEPT !.at = "cancelled"]
      /\ call' = [u \in Searches |-> Cancelled(u)] /\ parked' = Harvested
      /\ filed' = [u \in Searches |-> filed[u] + k(u)]
      /\ UNCHANGED <<following, target, dispatched, undeleted>>
  BY DEF Cancel
<1>2. course'.at = "cancelled"
  BY <1>1, CancelKeeps DEF SearchJobsInv, SearchJobsType, CourseSet
<1>3. parked = {} /\ following = {} /\ \A u \in Searches : ~call[u].cut
  BY <1>1 DEF SettledInv, CourseOK
<1>4. Harvested \subseteq InFlight /\ InFlight \subseteq Searches /\ Tidying \subseteq InFlight
  BY DEF Harvested, InFlight, Tidying
<1>5. ASSUME NEW u \in Searches
      PROVE  k(u) \in {0, 1} /\ filed'[u] = filed[u] + k(u) /\ call'[u] = Cancelled(u)
             /\ filed[u] \in Nat
             /\ k(u) = (IF u \in InFlight /\ Cancelled(u).at = "over" THEN 1 ELSE 0)
  BY <1>1 DEF SettledInv, SettledType
<1>6. filed' \in [Searches -> Nat]
  <2>1. \A u \in Searches : filed[u] + k(u) \in Nat
    BY <1>5
  <2>2. QED
    BY <1>1, <2>1
<1> HIDE DEF k
<1>7. SettledType'
  BY <1>1, <1>4, <1>6 DEF SettledInv, SettledType
<1>8. CourseOK'
  <2>1. \A u \in parked' : call'[u].cut
    BY <1>1, <1>4, <1>5, CancelledIs
  <2>2. QED
    BY <1>1, <1>2, <1>3, <2>1 DEF CourseOK
<1>9. ASSUME NEW u \in Searches PROVE Tally(u)'
  <2>1. Tally(u) /\ call[u] \in CallSet /\ call'[u] = Cancelled(u) /\ ~call[u].cut
    BY <1>3, <1>5, SearchType DEF SettledInv
  <2>2. CASE u \notin InFlight
    <3>1. call'[u] = call[u] /\ k(u) = 0 /\ filed'[u] = filed[u]
      BY <1>5, <2>1, <2>2, CancelledIs
    <3>2. QED
      BY <1>1, <1>3, <2>1, <3>1 DEF Tally
  <2>3. CASE u \in Tidying
    <3>1. u \in InFlight /\ call[u].at # "over"
      BY <1>4, <2>3 DEF InFlight
    <3>2. /\ call'[u].at = call[u].at /\ call'[u].asks = call[u].asks
          /\ call'[u].answer = call[u].answer /\ call'[u].sid = call[u].sid /\ call'[u].cut
      BY <2>1, <2>3, CancelledIs
    <3>3. filed'[u] = filed[u]
      BY <1>5, <2>1, <3>1, <3>2
    <3>4. Unsent(call[u])' => Unsent(call[u])
      BY <3>2 DEF Unsent
    <3>5. QED
      BY <1>1, <2>1, <3>1, <3>2, <3>3, <3>4 DEF Tally
  <2>4. CASE u \in Harvested
    <3>1. u \in InFlight /\ call[u].at # "over"
      BY <1>4, <2>4 DEF InFlight
    <3>2. call'[u].at = "over" /\ call'[u].cut
      BY <2>1, <2>4, CancelledIs
    <3>3. filed[u] = 0 /\ filed'[u] = 1
      BY <1>5, <2>1, <3>1, <3>2 DEF Tally
    <3>4. QED
      BY <1>1, <2>1, <2>4, <3>2, <3>3 DEF Tally, Unsent
  <2>5. CASE u \in InFlight \ (Tidying \cup Harvested)
    <3>1. call[u].at # "over" /\ filed[u] = 0
      BY <2>1, <2>5 DEF InFlight, Tally
    <3>2. \/ call'[u].at = "wire" /\ call'[u].asks = "delete"
          \/ call'[u].at = "over" /\ ~call'[u].sid
      BY <2>1, <2>5, CancelledIs
    <3>3. filed'[u] = IF call'[u].at = "over" THEN 1 ELSE 0
      BY <1>5, <2>1, <2>5, <3>1
    <3>4. QED
      BY <1>1, <2>1, <3>2, <3>3 DEF Tally, Unsent
  <2>6. QED
    BY <2>2, <2>3, <2>4, <2>5
<1>10. QED
  BY <1>7, <1>8, <1>9 DEF SettledInv

\* Who is still deleting its job when the engine is closed was cut off, and its job stays.
LEMMA CloseSettles == ASSUME SearchJobsInv, SettledInv, Close PROVE SettledInv'
<1>1. /\ course.at = "tidy" /\ parked = {} /\ course' = [course EXCEPT !.at = "closed"]
      /\ call' = [u \in Searches |-> IF u \in InFlight THEN Idle(call[u], "over") ELSE call[u]]
      /\ undeleted' = undeleted \cup InFlight
      /\ UNCHANGED <<parked, following, target, dispatched, filed>>
  BY DEF Close
<1>2. course'.at = "closed"
  BY <1>1 DEF SearchJobsInv, SearchJobsType, CourseSet
<1>3. InFlight \subseteq Searches /\ following = {}
  BY <1>1 DEF InFlight, SettledInv, CourseOK
<1>4. SettledType'
  BY <1>1, <1>3 DEF SettledInv, SettledType
<1>5. ASSUME NEW u \in Searches
      PROVE  Tally(u)' /\ call'[u].at \in {"new", "over"}
  <2>1. Tally(u) /\ call[u] \in CallSet
    BY SearchType DEF SettledInv
  <2>2. CASE u \in InFlight
    <3>1. call[u].cut
      BY <1>1, <2>2 DEF InFlight, SettledInv, CourseOK
    <3>2. call'[u].at = "over" /\ call'[u].cut
      BY <1>1, <2>1, <2>2, <3>1, IdleIsQuiet
    <3>3. QED
      BY <1>1, <2>1, <2>2, <3>2 DEF Tally, Unsent
  <2>3. CASE u \notin InFlight
    <3>1. call'[u] = call[u] /\ call[u].at \in {"new", "over"}
      BY <1>1, <2>3 DEF InFlight
    <3>2. u \in undeleted' <=> u \in undeleted
      BY <1>1, <2>3
    <3>3. QED
      BY <1>1, <2>1, <3>1, <3>2 DEF Tally
  <2>4. QED
    BY <2>2, <2>3
<1>6. CourseOK'
  BY <1>1, <1>2, <1>3, <1>5 DEF CourseOK
<1>7. QED
  BY <1>4, <1>5, <1>6 DEF SettledInv

\* At first nothing is dispatched, filed or parked.
LEMMA SettledStarts == SearchJobsInit => SettledInv
<1> SUFFICES ASSUME SearchJobsInit PROVE SettledInv
  OBVIOUS
<1>1. SettledType /\ CourseOK
  BY DEF SearchJobsInit, SettledType, CourseOK, NewCall
<1>2. ASSUME NEW u \in Searches PROVE Tally(u)
  BY DEF SearchJobsInit, Tally, Unsent, NewCall
<1>3. QED
  BY <1>1, <1>2 DEF SettledInv

\* Every step keeps the invariant.
LEMMA SettledKeep ==
    SearchJobsInv /\ SettledInv /\ [SearchJobsNext]_searchVars => SettledInv'
<1> SUFFICES ASSUME SearchJobsInv, SettledInv, [SearchJobsNext]_searchVars PROVE SettledInv'
  OBVIOUS
<1>1. /\ course \in CourseSet /\ target \in TargetSet /\ CourseOK
      /\ target.job \in [Searches -> JobStates]
  BY DEF SearchJobsInv, SearchJobsType, TargetSet, SettledInv
<1>2. ASSUME NEW u \in Searches, SearchStep(u) PROVE SettledInv'
  BY <1>2, AnswersSettle, LoginsSettle, SendsSettle DEF SearchStep
<1>3. ASSUME NEW u \in Searches, JobEnds(u) PROVE SettledInv'
  <2>1. PICK end \in {"done", "failed"} :
          target' = [target EXCEPT !.job = Admit([@ EXCEPT ![u] = end])]
    BY <1>3 DEF JobEnds
  <2> DEFINE ended == [target.job EXCEPT ![u] = end]
  <2>2. /\ ended \in [Searches -> JobStates] /\ target' = [target EXCEPT !.job = Admit(ended)]
        /\ \A x \in Searches : ended[x] = "none" <=> target.job[x] = "none"
    BY <1>1, <1>3, <2>1 DEF JobEnds, JobStates
  <2> HIDE DEF ended
  <2>3. target'.job = Admit(ended)
    BY <1>1, <2>2 DEF TargetSet
  <2>4. \A x \in Searches : target'.job[x] = "none" <=> target.job[x] = "none"
    BY <2>2, <2>3, AdmitMakesNone
  <2>5. CourseOK'
    BY <1>1, <1>3 DEF JobEnds, CourseOK
  <2>6. QED
    BY <1>3, <2>4, <2>5, CourseGoes DEF JobEnds
<1>4. ASSUME NEW s \in Settings, StartEngine(s) PROVE SettledInv'
  <2>1. course.at = "new" /\ course'.at = "load" /\ target'.job = target.job
    BY <1>1, <1>4 DEF StartEngine, CourseSet, TargetSet
  <2>2. CourseOK'
    BY <1>1, <1>4, <2>1 DEF StartEngine, CourseOK
  <2>3. QED
    BY <1>4, <2>1, <2>2, CourseGoes DEF StartEngine
<1>5. CASE KeysExpire
  <2>1. target'.job = target.job
    BY <1>1, <1>5 DEF KeysExpire, TargetSet
  <2>2. CourseOK'
    BY <1>1, <1>5 DEF KeysExpire, CourseOK
  <2>3. QED
    BY <1>5, <2>1, <2>2, CourseGoes DEF KeysExpire
<1>6. CASE LoadEnds
  <2>1. course.at = "load" /\ course'.at = "drain"
    BY <1>6 DEF LoadEnds
  <2>2. CourseOK'
    BY <1>1, <1>6, <2>1 DEF LoadEnds, CourseOK
  <2>3. QED
    BY <1>6, <2>2, CourseGoes DEF LoadEnds
<1>7. CASE AfterDrain
  <2>1. course'.at \in {"harvest", "tidy"} /\ (course'.at = "tidy" => following' = {})
        /\ following' \subseteq parked
    BY <1>1, <1>7 DEF AfterDrain, CourseSet
  <2>2. \A u \in Searches : call[u].at \in {"new", "over"} \/ call[u].cut
    BY <1>7 DEF AfterDrain, InFlight
  <2>3. CourseOK'
    BY <1>1, <1>7, <2>1, <2>2 DEF AfterDrain, CourseOK
  <2>4. QED
    BY <1>7, <2>3, CourseGoes DEF AfterDrain
<1>8. CASE HarvestEnds
  <2>1. course.at = "harvest" /\ course'.at = "tidy" /\ following' = {}
    BY <1>1, <1>8 DEF HarvestEnds, CourseSet
  <2>2. CourseOK'
    BY <1>1, <1>8, <2>1 DEF HarvestEnds, CourseOK
  <2>3. QED
    BY <1>8, <2>2, CourseGoes DEF HarvestEnds
<1>9. CASE UNCHANGED searchVars
  <2>1. CourseOK'
    BY <1>1, <1>9 DEF searchVars, CourseOK
  <2>2. QED
    BY <1>9, <2>1, CourseGoes DEF searchVars
<1>10. QED
  BY <1>2, <1>3, <1>4, <1>5, <1>6, <1>7, <1>8, <1>9, ServeSettles, CancelSettles, CloseSettles
     DEF SearchJobsNext

\* When the engine is closed each search that began ran at most once on the target and was filed
\* once, but for one whose login was refused or that was cut off in its tidy-up; and its job is
\* gone, unless the delete failed or the dispatch's answer never arrived (api.py's execute and
\* _tidy, scheduler.py's drain and harvest).
THEOREM SearchesAreSettledHolds == SearchJobsSpec => []SearchesAreSettled
<1>1. SearchJobsInv /\ SettledInv => SearchesAreSettled
  <2> SUFFICES ASSUME SearchJobsInv, SettledInv, course.at = "closed", NEW u \in Searches
               PROVE  /\ dispatched[u] <= 1 /\ filed[u] <= 1
                      /\ filed[u] = 0 =>
                            call[u].at = "new" \/ call[u].out = "rejected" \/ call[u].cut
                      /\ target.job[u] # "none" => ~call[u].sid \/ u \in undeleted
    BY DEF SearchesAreSettled
  <2>1. Tally(u) /\ call[u].at \in {"new", "over"} /\ parked = {} /\ call[u] \in CallSet
    BY SearchType DEF SettledInv, CourseOK
  <2>2. call[u].at = "new" => ~call[u].sid
    BY <2>1 DEF Tally, Unsent
  <2>3. QED
    BY <2>1, <2>2 DEF Tally
<1>2. SearchJobsInit => SearchJobsInv /\ SettledInv
  BY SearchJobsStarts, SettledStarts
<1>3. SearchJobsInv /\ SettledInv /\ [SearchJobsNext]_searchVars => (SearchJobsInv /\ SettledInv)'
  BY SearchJobsKeep, SettledKeep
<1>4. QED
  BY <1>1, <1>2, <1>3, PTL DEF SearchJobsSpec

-----------------------------------------------------------------------------
(* Library. *)

Steps == {"make", "write", "check", "clear", "land", "retire", "swap", "move", "commit",
          "removeOld", "export", "put", "unpublish", "remove"}
Stages == Answers \cup Steps \cup {"asked"}
LibraryType ==
    /\ story \in AnyStory /\ tree \in [ScenarioNames -> Contents]
    /\ bucket \in [ScenarioNames -> Versions \cup {NoCopy}] /\ named \in ScenarioNames
    /\ stage \in [Requests -> Stages] /\ held \in [Requests -> Contents]

\* Which requests come to which stage.
IsAt(i, stages) == stage[i] \in stages
PlaceOK(i) ==
    /\ IsAt(i, {"move", "commit", "removeOld"}) => Req(i).kind = "rename" /\ Req(i).to # Req(i).name
    /\ IsAt(i, {"make", "write", "check", "clear", "land", "retire", "swap"}) =>
          Req(i).kind \in {"create", "edit", "duplicate", "upload"}
    /\ IsAt(i, {"export", "put"}) => Req(i).kind # "delete"
    /\ IsAt(i, {"remove"}) => Req(i).kind = "delete"
    /\ IsAt(i, {"unpublish"}) => Req(i).kind \in {"rename", "delete"}
    /\ IsAt(i, {"move", "commit", "put"}) => held[i] \in Versions
InTurn(i) == ~story.overlap /\ stage[i] # "asked" => \A j \in 1..(i - 1) : stage[j] \in Answers

Spared(n) == Touched(n) \/ Tangled(n)
\* A rename that has still to remove the directory of a name.
Removes(j, n) == IsAt(j, {"removeOld"}) /\ Req(j).name = n
\* While a rename is on its way from a name to which another one will go, the name is in use,
\* unless a third took it.
Third(j, k, n) == \E i \in Requests \ {j, k} : Renames(i, n)
MeetOK(j, k, n) ==
    /\ j # k /\ IsAt(j, {"move", "commit", "removeOld"}) /\ Req(j).name = n
    /\ Req(k).kind = "rename" /\ IsAt(k, {"asked", "move"}) /\ Req(k).to = n
    => Found(n) \/ Touched(n) \/ Third(j, k, n)
\* A rename that has its copy in place finds it there when its rows are committed, and nobody
\* removes it afterwards.
CommitOK(i) ==
    IsAt(i, {"commit"}) =>
        LET n == Req(i).to
        IN  /\ Found(n) \/ Spared(n)
            /\ (\E j \in Requests : Removes(j, n)) \/ named = n => Spared(n)
            /\ \A j \in Requests : IsAt(j, {"commit"}) => j = i
HistoryInv ==
    /\ Found(named) \/ Spared(named)
    /\ (\E j \in Requests : Removes(j, named)) => Spared(named)
    /\ \A i \in Requests : CommitOK(i)
    /\ \A j, k \in Requests, n \in ScenarioNames : MeetOK(j, k, n)

LibraryRuns == LibraryType /\ (\A i \in Requests : PlaceOK(i) /\ InTurn(i)) /\ HistoryInv
LibraryInv ==
    /\ tree \in [ScenarioNames -> Contents] /\ bucket \in [ScenarioNames -> Versions \cup {NoCopy}]
    /\ named \in ScenarioNames
    /\ IF story = NoStory THEN named = FirstNamed ELSE LibraryRuns

\* What there is of a request.
LEMMA RequestType ==
    ASSUME LibraryType, NEW i \in Requests
    PROVE  /\ Req(i) \in AnyRequest /\ Req(i).name \in ScenarioNames /\ Req(i).to \in ScenarioNames
           /\ Target(i) \in ScenarioNames /\ stage[i] \in Stages /\ held[i] \in Contents /\ i \in Nat
           /\ Req(i).kind \in {"create", "edit", "rename", "duplicate", "upload", "publish", "delete"}
<1>1. story.requests \in Seq(AnyRequest)
  BY DEF LibraryType, AnyStory
<1>2. Req(i) \in AnyRequest /\ i \in Nat
  BY <1>1 DEF Requests, Req
<1>3. QED
  BY <1>2 DEF AnyRequest, LibraryType, Target

\* A request that was served stays served, and its story is what it was.
GoesOn(i) ==
    \/ stage'[i] = stage[i] \/ stage[i] = "asked"
    \/ /\ stage[i] \in Steps /\ stage'[i] \notin {"asked", "absent"}
       /\ Req(i).kind = "rename" => stage'[i] # "refused"
SameStory == story'.requests = story.requests /\ story'.overlap = story.overlap
\* What is said of a request that was served is said of it after every later step.
LEMMA ServedStays ==
    ASSUME SameStory, \A i \in Requests : GoesOn(i), NEW n \in ScenarioNames
    PROVE  /\ Requests' = Requests /\ \A i \in Requests : Req(i)' = Req(i) /\ Target(i)' = Target(i)
           /\ \A i \in Requests : Renames(i, n) => Renames(i, n)'
           /\ Touched(n) => Touched(n)'
           /\ Tangled(n) => Tangled(n)'
           /\ Spared(n) => Spared(n)'
           /\ \A j, k \in Requests : Third(j, k, n) => Third(j, k, n)'
<1>1. /\ Requests' = Requests
      /\ \A i \in Requests : Req(i)' = Req(i) /\ Target(i)' = Target(i)
  BY DEF SameStory, Requests, Req, Target
<1>2. \A i \in Requests : Renames(i, n) => Renames(i, n)'
  BY <1>1 DEF Renames, GoesOn, Steps
<1>3. \A i \in Requests : Touches(i, n) => Touches(i, n)'
  BY <1>1 DEF Touches, GoesOn, Steps
<1>4. Tangled(n) => Tangled(n)'
  BY <1>1, <1>2 DEF Tangled, SameStory
<1>5. QED
  BY <1>1, <1>2, <1>3, <1>4 DEF Touched, Spared, Third

\* One request moves, in its turn.
LEMMA OneServed ==
    ASSUME LibraryRuns, NEW i \in Requests, NEW s \in Stages, stage' = [stage EXCEPT ![i] = s],
           stage[i] \notin Answers, stage[i] = "asked" => Turn(i), SameStory,
           \A j \in Requests \ {i} : held'[j] = held[j], PlaceOK(i)'
    PROVE  \A j \in Requests' : PlaceOK(j)' /\ InTurn(j)'
<1>1. Requests' = Requests /\ \A j \in Requests : Req(j)' = Req(j)
  BY DEF SameStory, Requests, Req
<1>2. /\ stage \in [Requests -> Stages] /\ stage'[i] = s
      /\ \A j \in Requests \ {i} : stage'[j] = stage[j]
  BY DEF LibraryRuns, LibraryType
<1>3. ASSUME NEW j \in Requests, j # i PROVE PlaceOK(j)' /\ InTurn(j)'
  <2>1. PlaceOK(j) /\ InTurn(j)
    BY DEF LibraryRuns
  <2>2. PlaceOK(j)'
    BY <1>1, <1>2, <1>3, <2>1 DEF PlaceOK, IsAt
  <2>3. ASSUME ~story.overlap, stage[j] # "asked", NEW m \in 1..(j - 1) PROVE stage'[m] \in Answers
    <3>1. stage[m] \in Answers /\ m \in Requests
      BY <2>1, <2>3 DEF InTurn, Requests
    <3>2. m # i
      BY <3>1
    <3>3. QED
      BY <1>2, <3>1, <3>2
  <2>4. QED
    BY <1>2, <1>3, <2>2, <2>3 DEF InTurn, SameStory
<1>4. InTurn(i)'
  <2>1. ASSUME ~story.overlap, NEW m \in 1..(i - 1) PROVE stage'[m] \in Answers
    <3>1. stage[m] \in Answers
      BY <2>1 DEF LibraryRuns, InTurn, Turn
    <3>2. m # i /\ m \in Requests
      BY DEF Requests
    <3>3. QED
      BY <1>2, <3>1, <3>2
  <2>2. QED
    BY <2>1 DEF InTurn, SameStory
<1>5. QED
  BY <1>1, <1>3, <1>4

\* A step that starts no rename on its way and takes no name's scenario unless it touches it.
LEMMA HistoryKeeps ==
    ASSUME LibraryRuns, SameStory, \A i \in Requests : GoesOn(i), named' = named,
           \A n \in ScenarioNames : Found(n) => Found(n)' \/ Touched(n)',
           \A i \in Requests : /\ stage'[i] \in {"move", "commit", "removeOld"} => stage'[i] = stage[i]
                               /\ stage'[i] = "asked" => stage[i] = "asked"
    PROVE  HistoryInv'
<1>1. /\ Requests' = Requests /\ named \in ScenarioNames
      /\ \A i \in Requests : Req(i)' = Req(i) /\ Req(i).to \in ScenarioNames
  BY ServedStays, RequestType DEF LibraryRuns, LibraryType
<1>2. ASSUME NEW n \in ScenarioNames
      PROVE  /\ Spared(n) => Spared(n)'
             /\ Found(n) => Found(n)' \/ Spared(n)'
             /\ (\E j \in Requests : Removes(j, n)') => \E j \in Requests : Removes(j, n)
  BY <1>1, ServedStays DEF Spared, Removes, IsAt
<1>3. /\ Found(named)' \/ Spared(named)'
      /\ (\E j \in Requests : Removes(j, named)') => Spared(named)'
  BY <1>1, <1>2 DEF LibraryRuns, HistoryInv
<1>4. ASSUME NEW i \in Requests PROVE CommitOK(i)'
  <2>1. CommitOK(i)
    BY DEF LibraryRuns, HistoryInv
  <2> SUFFICES ASSUME stage'[i] = "commit" PROVE CommitOK(i)'
    BY DEF CommitOK, IsAt
  <2>0. PICK n \in ScenarioNames : n = Req(i).to
    BY <1>1
  <2>2. /\ Found(n) \/ Spared(n)
        /\ (\E j \in Requests : Removes(j, n)) \/ named = n => Spared(n)
        /\ \A j \in Requests : IsAt(j, {"commit"}) => j = i
    BY <1>1, <2>0, <2>1 DEF CommitOK, IsAt
  <2>3. n = Req(i).to /\ n = Req(i)'.to
    BY <1>1, <2>0
  <2>4. /\ Found(n)' \/ Spared(n)'
        /\ (\E j \in Requests : Removes(j, n)') \/ named' = n => Spared(n)'
        /\ \A j \in Requests : IsAt(j, {"commit"})' => j = i
    BY <1>1, <1>2, <2>2, <2>3 DEF IsAt
  <2>5. QED
    BY <1>1, <2>3, <2>4 DEF CommitOK
<1>5. ASSUME NEW j \in Requests, NEW k \in Requests, NEW n \in ScenarioNames PROVE MeetOK(j, k, n)'
  <2>1. MeetOK(j, k, n)
    BY DEF LibraryRuns, HistoryInv
  <2>2. /\ Touched(n) => Touched(n)'
        /\ Third(j, k, n) => Third(j, k, n)'
        /\ Found(n) => Found(n)' \/ Touched(n)'
    BY ServedStays
  <2>3. QED
    BY <1>1, <2>1, <2>2 DEF MeetOK, IsAt
<1>6. QED
  BY <1>1, <1>3, <1>4, <1>5 DEF HistoryInv

\* What a step of a request does to the stages.
LEMMA MovesOn ==
    ASSUME LibraryRuns, NEW i \in Requests, NEW from \in Steps, NEW to \in Stages \ {"asked", "absent"},
           Moves(i, from, to), Req(i).kind = "rename" => to # "refused", SameStory
    PROVE  /\ stage[i] = from /\ stage' = [stage EXCEPT ![i] = to] /\ stage[i] \notin Answers
           /\ stage' \in [Requests -> Stages] /\ stage'[i] = to
           /\ \A j \in Requests \ {i} : stage'[j] = stage[j]
           /\ \A j \in Requests : GoesOn(j)
<1>1. stage[i] = from /\ stage' = [stage EXCEPT ![i] = to] /\ stage \in [Requests -> Stages]
  BY DEF Moves, LibraryRuns, LibraryType
<1>2. stage' \in [Requests -> Stages] /\ stage'[i] = to /\ \A j \in Requests \ {i} : stage'[j] = stage[j]
  BY <1>1
<1>3. \A j \in Requests : GoesOn(j)
  BY <1>1, <1>2 DEF GoesOn
<1>4. stage[i] \notin Answers
  BY <1>1 DEF Steps, Answers
<1>5. QED
  BY <1>1, <1>2, <1>3, <1>4

\* The steps in which a request writes the library, but for a rename's.
Writes(i) ==
    \/ MakeDirectory(i) \/ WriteFiles(i) \/ CheckInPlace(i) \/ ClearOld(i) \/ LandUpload(i)
    \/ Retire(i) \/ SwapIn(i) \/ RemoveLocal(i)
\* What such a step does.
LEMMA WritesIs ==
    ASSUME LibraryRuns, NEW i \in Requests, Writes(i)
    PROVE  /\ \E from \in {"make", "write", "check", "clear", "land", "retire", "swap", "remove"},
                 to \in {"write", "check", "land", "swap", "export", "ok", "refused", "failed"} :
                    /\ Moves(i, from, to)
                    /\ from # "remove" => Req(i).kind \in {"create", "edit", "duplicate", "upload"}
                    /\ from = "remove" => Req(i).kind = "delete" /\ to \in {"ok", "failed"}
           /\ \/ UNCHANGED tree
              \/ \E v \in Contents : tree' = [tree EXCEPT ![Target(i)] = v]
           /\ Req(i).kind \notin {"rename", "publish"}
           /\ UNCHANGED <<story, bucket, named, held>>
<1>1. /\ held[i] \in Contents /\ Req(i).what \in Contents /\ Req(i).name \in ScenarioNames
      /\ tree[Req(i).name] \in Contents /\ "empty" \in Contents /\ NoCopy \in Contents
      /\ PlaceOK(i)
  <2>1. Req(i) \in AnyRequest
    BY RequestType DEF LibraryRuns
  <2>2. QED
    BY <2>1, RequestType DEF LibraryRuns, LibraryType, Contents, AnyRequest
<1>2. CASE MakeDirectory(i)
  BY <1>1, <1>2 DEF MakeDirectory, Puts, Moves, PlaceOK, IsAt
<1>3. CASE WriteFiles(i)
  BY <1>1, <1>3 DEF WriteFiles, Puts, Moves, PlaceOK, IsAt
<1>4. CASE CheckInPlace(i)
  BY <1>1, <1>4 DEF CheckInPlace, Puts, Moves, PlaceOK, IsAt
<1>5. CASE ClearOld(i)
  BY <1>1, <1>5 DEF ClearOld, Puts, Moves, PlaceOK, IsAt
<1>6. CASE LandUpload(i)
  BY <1>1, <1>6 DEF LandUpload, Puts, Moves, PlaceOK, IsAt
<1>7. CASE Retire(i)
  BY <1>1, <1>7 DEF Retire, Puts, Moves, PlaceOK, IsAt
<1>8. CASE SwapIn(i)
  BY <1>1, <1>8 DEF SwapIn, Puts, Moves, PlaceOK, IsAt
<1>9. CASE RemoveLocal(i)
  <2>1. Req(i).kind = "delete" /\ Target(i) = Req(i).name
    BY <1>1, <1>9 DEF RemoveLocal, Moves, PlaceOK, IsAt, Target
  <2>2. QED
    BY <1>1, <1>9, <2>1 DEF RemoveLocal, Puts, Moves
<1>10. QED
  BY <1>2, <1>3, <1>4, <1>5, <1>6, <1>7, <1>8, <1>9 DEF Writes

\* Who writes a name has touched it.
LEMMA WritesKeep == ASSUME LibraryRuns, NEW i \in Requests, Writes(i) PROVE LibraryRuns'
<1>1. PICK from \in {"make", "write", "check", "clear", "land", "retire", "swap", "remove"},
           to \in {"write", "check", "land", "swap", "export", "ok", "refused", "failed"} :
              /\ Moves(i, from, to)
              /\ from # "remove" => Req(i).kind \in {"create", "edit", "duplicate", "upload"}
              /\ from = "remove" => Req(i).kind = "delete" /\ to \in {"ok", "failed"}
  BY WritesIs
<1>2. /\ \/ UNCHANGED tree
         \/ \E v \in Contents : tree' = [tree EXCEPT ![Target(i)] = v]
      /\ Req(i).kind \notin {"rename", "publish"}
      /\ UNCHANGED <<story, bucket, named, held>>
  BY WritesIs
<1>3. from \in Steps /\ to \in Stages \ {"asked", "absent"} /\ SameStory
  BY <1>2 DEF Steps, Stages, Answers, SameStory
<1>4. /\ stage[i] = from /\ stage' = [stage EXCEPT ![i] = to] /\ stage[i] \notin Answers
      /\ stage' \in [Requests -> Stages] /\ stage'[i] = to
      /\ \A j \in Requests \ {i} : stage'[j] = stage[j]
      /\ \A j \in Requests : GoesOn(j)
  BY <1>1, <1>2, <1>3, MovesOn
<1>5. Requests' = Requests /\ \A j \in Requests : Req(j)' = Req(j) /\ Target(j)' = Target(j)
  BY <1>2 DEF Requests, Req, Target
<1>6. /\ tree' \in [ScenarioNames -> Contents]
      /\ \A n \in ScenarioNames \ {Target(i)} : tree'[n] = tree[n]
  BY <1>2 DEF LibraryRuns, LibraryType
<1>7. LibraryType'
  BY <1>2, <1>4, <1>5, <1>6 DEF LibraryRuns, LibraryType
<1>8. PlaceOK(i)'
  BY <1>1, <1>2, <1>4, <1>5 DEF PlaceOK, IsAt
<1>9. \A j \in Requests' : PlaceOK(j)' /\ InTurn(j)'
  BY <1>2, <1>3, <1>4, <1>8, OneServed DEF Answers
<1>10. ASSUME NEW n \in ScenarioNames, n = Target(i) PROVE Touched(n)'
  <2>1. Touches(i, n)'
    BY <1>2, <1>4, <1>5, <1>10 DEF Touches
  <2>2. QED
    BY <1>5, <2>1 DEF Touched
<1>11. ASSUME NEW n \in ScenarioNames, Found(n) PROVE Found(n)' \/ Touched(n)'
  BY <1>6, <1>10, <1>11 DEF Found
<1>12. HistoryInv'
  <2>1. \A j \in Requests : /\ stage'[j] \in {"move", "commit", "removeOld"} => stage'[j] = stage[j]
                            /\ stage'[j] = "asked" => stage[j] = "asked"
    BY <1>4
  <2>2. QED
    BY <1>2, <1>3, <1>4, <1>11, <2>1, HistoryKeeps
<1>13. QED
  BY <1>7, <1>9, <1>12 DEF LibraryRuns

\* The steps at the bucket move no directory.
LEMMA BucketKeeps ==
    ASSUME LibraryRuns, NEW i \in Requests, ExportOld(i) \/ PutArchive(i) \/ Unpublish(i)
    PROVE  LibraryRuns'
<1>0. /\ LibraryType /\ PlaceOK(i)
      /\ Req(i).kind \in {"create", "edit", "rename", "duplicate", "upload", "publish", "delete"}
      /\ Target(i) \in ScenarioNames /\ Req(i).name \in ScenarioNames /\ held[i] \in Contents
      /\ story \in AnyStory /\ UNCHANGED <<tree, named>>
  BY RequestType DEF LibraryRuns, LibraryType, ExportOld, PutArchive, Unpublish
<1>1. story' \in AnyStory /\ SameStory
  BY <1>0 DEF ExportOld, PutArchive, Unpublish, Fault, AnyStory, SameStory
<1>2. PICK from \in {"export", "put", "unpublish"},
           to \in {"put", "unpublish", "remove", "ok", "warned", "refused"} :
              /\ Moves(i, from, to) /\ (Req(i).kind = "rename" => to # "refused")
              /\ to = "remove" => Req(i).kind = "delete"
              /\ to = "put" => Req(i).kind # "delete"
              /\ to = "unpublish" => Req(i).kind = "rename"
              /\ to = "put" => Found(Target(i)) /\ held' = [held EXCEPT ![i] = tree[Target(i)]]
              /\ to # "put" => UNCHANGED held
  <2>1. /\ Unmirrored(i) \in {"warned", "refused", "ok"}
        /\ Req(i).kind = "rename" => Unmirrored(i) = "warned"
    BY DEF Unmirrored
  <2>2. CASE ExportOld(i)
    <3>1. Req(i).kind # "delete"
      BY <1>0, <2>2 DEF ExportOld, Moves, PlaceOK, IsAt
    <3>2. QED
      BY <2>1, <2>2, <3>1 DEF ExportOld, Keeps
  <2>3. CASE PutArchive(i)
    BY <2>1, <2>3 DEF PutArchive
  <2>4. CASE Unpublish(i)
    <3>1. Req(i).kind \in {"rename", "delete"}
      BY <1>0, <2>4 DEF Unpublish, Moves, PlaceOK, IsAt
    <3>2. QED
      BY <2>4, <3>1 DEF Unpublish, AfterUnpublish, WithoutUnpublish
  <2>5. QED
    BY <2>2, <2>3, <2>4
<1>3. from \in Steps /\ to \in Stages \ {"asked", "absent"}
  BY DEF Steps, Stages, Answers
<1>4. /\ stage[i] = from /\ stage' = [stage EXCEPT ![i] = to] /\ stage[i] \notin Answers
      /\ stage' \in [Requests -> Stages] /\ stage'[i] = to
      /\ \A j \in Requests \ {i} : stage'[j] = stage[j]
      /\ \A j \in Requests : GoesOn(j)
  BY <1>1, <1>2, <1>3, MovesOn
<1>5. Requests' = Requests /\ \A j \in Requests : Req(j)' = Req(j) /\ Target(j)' = Target(j)
  BY <1>1 DEF SameStory, Requests, Req, Target
<1>6. /\ held' \in [Requests -> Contents] /\ \A j \in Requests \ {i} : held'[j] = held[j]
      /\ to = "put" => held'[i] \in Versions
  BY <1>0, <1>2 DEF LibraryType, Found, Contents
<1>7. bucket' \in [ScenarioNames -> Versions \cup {NoCopy}]
  <2>1. PutArchive(i) => held[i] \in Versions
    BY <1>0 DEF PutArchive, Moves, PlaceOK, IsAt
  <2>2. QED
    BY <1>0, <2>1 DEF ExportOld, PutArchive, Unpublish, LibraryType
<1>8. LibraryType'
  BY <1>0, <1>1, <1>4, <1>5, <1>6, <1>7 DEF LibraryType
<1>9. PlaceOK(i)'
  BY <1>2, <1>4, <1>5, <1>6 DEF PlaceOK, IsAt
<1>10. \A j \in Requests' : PlaceOK(j)' /\ InTurn(j)'
  BY <1>1, <1>3, <1>4, <1>6, <1>9, OneServed DEF Steps
<1>11. HistoryInv'
  <2>1. \A j \in Requests : /\ stage'[j] \in {"move", "commit", "removeOld"} => stage'[j] = stage[j]
                            /\ stage'[j] = "asked" => stage[j] = "asked"
    BY <1>4
  <2>2. \A n \in ScenarioNames : Found(n) => Found(n)'
    BY <1>0 DEF Found
  <2>3. QED
    BY <1>0, <1>1, <1>4, <2>1, <2>2, HistoryKeeps
<1>12. QED
  BY <1>8, <1>10, <1>11 DEF LibraryRuns

\* A request is served at once, or starts: a rename from a name that has a scenario.
LEMMA ArchiveKeeps == ASSUME LibraryRuns, NEW i \in Requests, ServeArchive(i) PROVE LibraryRuns'
<1>0. /\ LibraryType /\ UNCHANGED <<story, tree, bucket, named>> /\ SameStory
      /\ Req(i) \in AnyRequest /\ Req(i).name \in ScenarioNames /\ Req(i).to \in ScenarioNames
  BY RequestType DEF LibraryRuns, ServeArchive, SameStory
<1>1. PICK to \in {"absent", "refused", "make", "move", "retire", "clear", "export", "remove",
                 "unpublish"} :
         /\ Moves(i, "asked", to)
         /\ to = "move" => /\ Req(i).kind = "rename" /\ Req(i).to # Req(i).name /\ Found(Req(i).name)
         /\ to \in {"make", "retire", "clear"} => Req(i).kind \in {"create", "edit", "duplicate", "upload"}
         /\ to = "export" => Req(i).kind = "publish"
         /\ to = "remove" => Req(i).kind = "delete"
         /\ to = "unpublish" => Req(i).kind = "delete"
  <2>1. Req(i).kind \in {"create", "edit", "rename", "duplicate", "upload", "publish", "delete"}
    BY RequestType DEF LibraryRuns
  <2>2. QED
    BY <2>1 DEF ServeArchive, FirstStage
<1>2. /\ stage \in [Requests -> Stages] /\ to \in Stages /\ stage[i] = "asked"
      /\ stage' = [stage EXCEPT ![i] = to] /\ stage' \in [Requests -> Stages] /\ stage'[i] = to
      /\ \A j \in Requests \ {i} : stage'[j] = stage[j]
      /\ \A j \in Requests : GoesOn(j)
  BY <1>1 DEF LibraryRuns, LibraryType, Moves, Stages, Steps, Answers, GoesOn
<1>3. Requests' = Requests /\ \A j \in Requests : Req(j)' = Req(j) /\ Target(j)' = Target(j)
  BY <1>0 DEF Requests, Req, Target
<1>4. /\ held' \in [Requests -> Contents] /\ \A j \in Requests \ {i} : held'[j] = held[j]
      /\ to = "move" => held'[i] \in Versions
  <2>1. Req(i).what \in Contents /\ tree[Req(i).name] \in Contents
    BY <1>0 DEF AnyRequest, Contents, LibraryType
  <2>2. QED
    BY <1>0, <1>1, <2>1 DEF ServeArchive, Keeps, LibraryType, Found, Contents
<1>5. LibraryType'
  BY <1>0, <1>2, <1>3, <1>4 DEF LibraryType
<1>6. PlaceOK(i)'
  BY <1>1, <1>2, <1>3, <1>4 DEF PlaceOK, IsAt
<1>7. \A j \in Requests' : PlaceOK(j)' /\ InTurn(j)'
  BY <1>0, <1>2, <1>4, <1>6, OneServed DEF Answers, ServeArchive
<1>8. HistoryInv'
  <2>1. ASSUME NEW n \in ScenarioNames
        PROVE  /\ Spared(n) => Spared(n)'
               /\ Found(n)' = Found(n)
               /\ Touched(n) => Touched(n)'
               /\ \A j, k \in Requests : Third(j, k, n) => Third(j, k, n)'
               /\ (\E j \in Requests : Removes(j, n)') => \E j \in Requests : Removes(j, n)
    BY <1>0, <1>1, <1>2, <1>3, ServedStays DEF Removes, IsAt, Found
  <2>2. /\ Found(named)' \/ Spared(named)'
        /\ (\E j \in Requests : Removes(j, named)') => Spared(named)'
    BY <1>0, <2>1 DEF LibraryRuns, LibraryType, HistoryInv
  <2>3. ASSUME NEW j \in Requests PROVE CommitOK(j)'
    <3>1. CommitOK(j) /\ Req(j).to \in ScenarioNames
      BY RequestType DEF LibraryRuns, HistoryInv
    <3> SUFFICES ASSUME stage'[j] = "commit" PROVE CommitOK(j)'
      BY DEF CommitOK, IsAt
    <3>2. PICK n \in ScenarioNames : n = Req(j).to
      BY <3>1
    <3>3. /\ Found(n) \/ Spared(n)
          /\ (\E k \in Requests : Removes(k, n)) \/ named = n => Spared(n)
          /\ \A k \in Requests : IsAt(k, {"commit"}) => k = j
      BY <1>1, <1>2, <3>1, <3>2 DEF CommitOK, IsAt
    <3>4. /\ Found(n)' \/ Spared(n)'
          /\ (\E k \in Requests : Removes(k, n)') \/ named' = n => Spared(n)'
          /\ \A k \in Requests : IsAt(k, {"commit"})' => k = j
      BY <1>0, <1>1, <1>2, <2>1, <3>3 DEF IsAt
    <3>5. n = Req(j)'.to
      BY <1>3, <3>2
    <3>6. QED
      BY <1>3, <3>4, <3>5 DEF CommitOK
  <2>4. ASSUME NEW j \in Requests, NEW k \in Requests, NEW n \in ScenarioNames PROVE MeetOK(j, k, n)'
    <3>1. MeetOK(j, k, n)
      BY DEF LibraryRuns, HistoryInv
    <3>2. CASE j = i
      BY <1>0, <1>1, <1>2, <1>3, <2>1, <3>2 DEF MeetOK, IsAt
    <3>3. CASE j # i
      BY <1>1, <1>2, <1>3, <2>1, <3>1, <3>3 DEF MeetOK, IsAt
    <3>4. QED
      BY <3>2, <3>3
  <2>5. QED
    BY <1>3, <2>2, <2>3, <2>4 DEF HistoryInv
<1>9. QED
  BY <1>5, <1>7, <1>8 DEF LibraryRuns

\* Two requests that are under way have taken no turns.
LEMMA MeetingOverlaps ==
    ASSUME LibraryRuns, NEW i \in Requests, NEW j \in Requests, i # j,
           stage[i] \in Steps, stage[j] \in Steps
    PROVE  story.overlap
<1>1. i \in Nat /\ j \in Nat /\ Requests = 1..Len(story.requests)
  BY RequestType DEF LibraryRuns, Requests
<1>2. stage[i] \notin Answers \cup {"asked"} /\ stage[j] \notin Answers \cup {"asked"}
  BY DEF Steps, Answers
<1>3. InTurn(i) /\ InTurn(j)
  BY DEF LibraryRuns
<1>4. i \in 1..(j - 1) \/ j \in 1..(i - 1)
  BY <1>1
<1>5. QED
  BY <1>2, <1>3, <1>4 DEF InTurn

\* The copy of a rename appears: if the name it goes to is the one the rows name, or is one
\* that another rename still has to remove, three of them overlap.
LEMMA MoveInKeeps == ASSUME LibraryRuns, NEW i \in Requests, MoveIn(i) PROVE LibraryRuns'
<1>0. /\ LibraryType /\ UNCHANGED <<story, bucket, named, held>> /\ SameStory
      /\ Req(i).name \in ScenarioNames /\ Req(i).to \in ScenarioNames /\ held[i] \in Contents
      /\ PlaceOK(i) /\ \A j \in Requests : stage[j] # "commit"
  BY RequestType DEF LibraryRuns, MoveIn, SameStory
<1>1. stage[i] = "move" /\ Req(i).kind = "rename" /\ Req(i).to # Req(i).name /\ held[i] \in Versions
  BY <1>0 DEF MoveIn, Moves, PlaceOK, IsAt
<1>2. PICK n \in ScenarioNames : n = Req(i).to /\ n = Target(i) /\ n # Req(i).name
  BY <1>0, <1>1 DEF Target
<1>3. PICK to \in {"commit", "failed"} :
         /\ Moves(i, "move", to)
         /\ to = "commit" => IsFree(n) /\ tree' = [tree EXCEPT ![n] = held[i]]
         /\ to = "failed" => UNCHANGED tree
  BY <1>2 DEF MoveIn, Puts
<1>4. /\ stage \in [Requests -> Stages] /\ to \in Stages
      /\ stage' = [stage EXCEPT ![i] = to] /\ stage' \in [Requests -> Stages] /\ stage'[i] = to
      /\ \A j \in Requests \ {i} : stage'[j] = stage[j]
      /\ \A j \in Requests : GoesOn(j)
  BY <1>0, <1>1, <1>3, MovesOn DEF LibraryType, Stages, Steps, Answers
<1>5. Requests' = Requests /\ \A j \in Requests : Req(j)' = Req(j) /\ Target(j)' = Target(j)
  BY <1>0 DEF Requests, Req, Target
<1>6. /\ tree' \in [ScenarioNames -> Contents] /\ \A m \in ScenarioNames \ {n} : tree'[m] = tree[m]
      /\ to = "commit" => tree'[n] \in Versions /\ ~Found(n)
      /\ to = "failed" => tree' = tree
  BY <1>0, <1>1, <1>3 DEF LibraryType, IsFree, Found
<1>7. LibraryType'
  BY <1>0, <1>4, <1>5, <1>6 DEF LibraryType
<1>8. PlaceOK(i)'
  BY <1>0, <1>1, <1>4, <1>5 DEF PlaceOK, IsAt
<1>9. \A j \in Requests' : PlaceOK(j)' /\ InTurn(j)'
  BY <1>0, <1>1, <1>4, <1>8, OneServed DEF Answers
<1>10. ASSUME NEW m \in ScenarioNames
       PROVE  /\ Spared(m) => Spared(m)'
              /\ Found(m) => Found(m)'
              /\ Touched(m) => Touched(m)'
              /\ \A j, k \in Requests : Third(j, k, m) => Third(j, k, m)'
              /\ (\E j \in Requests : Removes(j, m)') => \E j \in Requests : Removes(j, m)
  <2>1. Found(m) => Found(m)'
    BY <1>6, LibraryAssumption DEF Found
  <2>2. QED
    BY <1>0, <1>3, <1>4, <1>5, <2>1, ServedStays DEF Removes, IsAt
<1>11. /\ Found(named)' \/ Spared(named)'
       /\ (\E j \in Requests : Removes(j, named)') => Spared(named)'
  BY <1>0, <1>10 DEF LibraryRuns, LibraryType, HistoryInv
<1>12. to = "commit" => CommitOK(i)'
  <2> SUFFICES ASSUME to = "commit" PROVE CommitOK(i)'
    OBVIOUS
  <2>1. Found(n)'
    BY <1>6, LibraryAssumption DEF Found
  <2>2. named = n => Spared(n)
    BY <1>6 DEF LibraryRuns, HistoryInv
  <2>3. ASSUME NEW j \in Requests, Removes(j, n) PROVE Spared(n)
    <3>1. j # i /\ stage[j] = "removeOld" /\ Req(j).name = n /\ PlaceOK(j) /\ MeetOK(j, i, n)
      BY <1>1, <1>2, <2>3 DEF Removes, IsAt, LibraryRuns, HistoryInv
    <3>2. Touched(n) \/ Third(j, i, n)
      BY <1>1, <1>2, <1>6, <3>1 DEF MeetOK, IsAt
    <3>3. Renames(i, n) /\ Renames(j, n)
      BY <1>1, <1>2, <3>1 DEF Renames, PlaceOK, IsAt
    <3>4. story.overlap
      BY <1>1, <3>1, MeetingOverlaps DEF Steps
    <3>5. Third(j, i, n) => Tangled(n)
      BY <3>1, <3>3, <3>4 DEF Third, Tangled
    <3>6. QED
      BY <3>2, <3>5 DEF Spared
  <2>4. /\ (\E j \in Requests : Removes(j, n)') \/ named' = n => Spared(n)'
        /\ \A j \in Requests : IsAt(j, {"commit"})' => j = i
    BY <1>0, <1>4, <1>10, <2>2, <2>3 DEF IsAt
  <2>5. n = Req(i)'.to
    BY <1>2, <1>5
  <2>6. QED
    BY <1>5, <2>1, <2>4, <2>5 DEF CommitOK
<1>13. ASSUME NEW j \in Requests PROVE CommitOK(j)'
  BY <1>0, <1>4, <1>12, <1>13 DEF CommitOK, IsAt
<1>14. ASSUME NEW j \in Requests, NEW k \in Requests, NEW m \in ScenarioNames PROVE MeetOK(j, k, m)'
  <2>1. MeetOK(j, k, m)
    BY DEF LibraryRuns, HistoryInv
  <2>2. QED
    BY <1>1, <1>4, <1>5, <1>10, <2>1 DEF MeetOK, IsAt
<1>15. HistoryInv'
  BY <1>5, <1>11, <1>13, <1>14 DEF HistoryInv
<1>16. QED
  BY <1>7, <1>9, <1>15 DEF LibraryRuns

\* The rows follow the copy, or the copy goes.
LEMMA CommitKeeps == ASSUME LibraryRuns, NEW i \in Requests, CommitRename(i) PROVE LibraryRuns'
<1>0. /\ LibraryType /\ UNCHANGED <<bucket, held>> /\ story' \in AnyStory /\ SameStory
      /\ Req(i).name \in ScenarioNames /\ Req(i).to \in ScenarioNames
      /\ PlaceOK(i) /\ CommitOK(i)
  <2>1. story' \in AnyStory /\ SameStory
    <3>1. story \in AnyStory
      BY DEF LibraryRuns, LibraryType
    <3>2. story' = story \/ Fault
      BY DEF CommitRename
    <3>3. QED
      BY <3>1, <3>2 DEF SameStory, Fault, AnyStory
  <2>2. QED
    BY <2>1, RequestType DEF LibraryRuns, HistoryInv, CommitRename
<1>1. stage[i] = "commit" /\ Req(i).kind = "rename"
  BY <1>0 DEF CommitRename, Moves, PlaceOK, IsAt
<1>2. PICK n \in ScenarioNames, old \in ScenarioNames : n = Req(i).to /\ old = Req(i).name /\ n # old
  BY <1>0, <1>1 DEF PlaceOK, IsAt
<1>3. /\ Found(n) \/ Spared(n)
      /\ (\E j \in Requests : Removes(j, n)) \/ named = n => Spared(n)
      /\ \A j \in Requests : stage[j] = "commit" => j = i
  BY <1>0, <1>1, <1>2 DEF CommitOK, IsAt
<1>4. PICK to \in {"removeOld", "failed"} :
         /\ Moves(i, "commit", to)
         /\ to = "removeOld" => tree' = tree /\ named' = IF named = old THEN n ELSE named
         /\ to = "failed" => named' = named /\ tree' = [tree EXCEPT ![n] = NoCopy]
  BY <1>2 DEF CommitRename, Puts
<1>5. /\ stage \in [Requests -> Stages] /\ to \in Stages
      /\ stage' = [stage EXCEPT ![i] = to] /\ stage' \in [Requests -> Stages] /\ stage'[i] = to
      /\ \A j \in Requests \ {i} : stage'[j] = stage[j]
      /\ \A j \in Requests : GoesOn(j)
  BY <1>0, <1>1, <1>4, MovesOn DEF LibraryType, Stages, Steps, Answers
<1>6. Requests' = Requests /\ \A j \in Requests : Req(j)' = Req(j) /\ Target(j)' = Target(j)
  BY <1>0 DEF SameStory, Requests, Req, Target
<1>7. /\ tree' \in [ScenarioNames -> Contents] /\ named' \in ScenarioNames
      /\ \A m \in ScenarioNames \ {n} : tree'[m] = tree[m]
  BY <1>0, <1>4 DEF LibraryType, Contents
<1>8. LibraryType'
  BY <1>0, <1>5, <1>6, <1>7 DEF LibraryType
<1>9. PlaceOK(i)'
  BY <1>0, <1>1, <1>2, <1>5, <1>6 DEF PlaceOK, IsAt
<1>10. \A j \in Requests' : PlaceOK(j)' /\ InTurn(j)'
  BY <1>0, <1>1, <1>5, <1>9, OneServed DEF Answers
<1>11. ASSUME NEW m \in ScenarioNames
       PROVE  /\ Spared(m) => Spared(m)'
              /\ m # n \/ to = "removeOld" => Found(m)' = Found(m)
              /\ Touched(m) => Touched(m)'
              /\ \A j, k \in Requests : Third(j, k, m) => Third(j, k, m)'
              /\ (\E j \in Requests : Removes(j, m)') =>
                    (\E j \in Requests : Removes(j, m)) \/ (to = "removeOld" /\ m = old)
  <2>1. m # n \/ to = "removeOld" => Found(m)' = Found(m)
    BY <1>4, <1>7 DEF Found
  <2>2. QED
    BY <1>0, <1>2, <1>4, <1>5, <1>6, <2>1, ServedStays DEF Removes, IsAt
<1>12. /\ Found(named)' \/ Spared(named)'
       /\ (\E j \in Requests : Removes(j, named)') => Spared(named)'
  <2>1. PICK m \in ScenarioNames : m = named
    BY <1>0 DEF LibraryType
  <2>2. /\ Found(m) \/ Spared(m)
        /\ (\E j \in Requests : Removes(j, m)) => Spared(m)
    BY <2>1 DEF LibraryRuns, HistoryInv
  <2>3. PICK q \in ScenarioNames : q = named'
    BY <1>7
  <2>4. /\ Found(q)' \/ Spared(q)'
        /\ (\E j \in Requests : Removes(j, q)') => Spared(q)'
    BY <1>2, <1>3, <1>4, <1>11, <2>1, <2>2, <2>3
  <2>5. QED
    BY <2>3, <2>4 DEF Found, Spared, Removes, Touched, Touches, Tangled, Renames
<1>13. \A j \in Requests : CommitOK(j)'
  BY <1>3, <1>4, <1>5 DEF CommitOK, IsAt
<1>14. ASSUME NEW j \in Requests, NEW k \in Requests, NEW m \in ScenarioNames PROVE MeetOK(j, k, m)'
  <2>1. MeetOK(j, k, m)
    BY DEF LibraryRuns, HistoryInv
  <2>2. CASE m # n \/ to = "removeOld"
    BY <1>1, <1>4, <1>5, <1>6, <1>11, <2>1, <2>2 DEF MeetOK, IsAt
  <2>3. CASE m = n /\ to = "failed"
    <3>1. Renames(i, m)'
      BY <1>1, <1>2, <1>5, <1>6, <2>3 DEF Renames
    <3>2. j # i /\ k # i => Third(j, k, m)'
      BY <1>6, <3>1 DEF Third
    <3>3. QED
      BY <1>5, <2>3, <3>2 DEF MeetOK, IsAt
  <2>4. QED
    BY <1>4, <2>2, <2>3
<1>15. HistoryInv'
  BY <1>6, <1>12, <1>13, <1>14 DEF HistoryInv
<1>16. QED
  BY <1>8, <1>10, <1>15 DEF LibraryRuns

\* The old directory goes: nobody counts on it any more.
LEMMA RemoveOldKeeps == ASSUME LibraryRuns, NEW i \in Requests, RemoveOld(i) PROVE LibraryRuns'
<1>0. /\ LibraryType /\ UNCHANGED <<story, bucket, named, held>> /\ SameStory
      /\ Req(i).name \in ScenarioNames /\ PlaceOK(i)
  BY RequestType DEF LibraryRuns, RemoveOld, SameStory
<1>1. stage[i] = "removeOld" /\ Req(i).kind = "rename"
  BY <1>0 DEF RemoveOld, Moves, PlaceOK, IsAt
<1>2. PICK n \in ScenarioNames : n = Req(i).name
  BY <1>0
<1>3. PICK to \in {"export", "warned"} : Moves(i, "removeOld", to) /\ tree' = [tree EXCEPT ![n] = NoCopy]
  BY <1>2 DEF RemoveOld, Puts
<1>4. /\ stage \in [Requests -> Stages] /\ to \in Stages
      /\ stage' = [stage EXCEPT ![i] = to] /\ stage' \in [Requests -> Stages] /\ stage'[i] = to
      /\ \A j \in Requests \ {i} : stage'[j] = stage[j]
      /\ \A j \in Requests : GoesOn(j)
  BY <1>0, <1>1, <1>3, MovesOn DEF LibraryType, Stages, Steps, Answers
<1>5. Requests' = Requests /\ \A j \in Requests : Req(j)' = Req(j) /\ Target(j)' = Target(j)
  BY <1>0 DEF Requests, Req, Target
<1>6. tree' \in [ScenarioNames -> Contents] /\ \A m \in ScenarioNames \ {n} : tree'[m] = tree[m]
  BY <1>0, <1>3 DEF LibraryType, Contents
<1>7. LibraryType'
  BY <1>0, <1>4, <1>5, <1>6 DEF LibraryType
<1>8. PlaceOK(i)'
  BY <1>0, <1>1, <1>4, <1>5 DEF PlaceOK, IsAt
<1>9. \A j \in Requests' : PlaceOK(j)' /\ InTurn(j)'
  BY <1>0, <1>1, <1>4, <1>8, OneServed DEF Answers
<1>10. Removes(i, n)
  BY <1>1, <1>2 DEF Removes, IsAt
<1>11. ASSUME NEW m \in ScenarioNames
       PROVE  /\ Spared(m) => Spared(m)'
              /\ m # n => Found(m)' = Found(m)
              /\ Touched(m) => Touched(m)'
              /\ \A j, k \in Requests : Third(j, k, m) => Third(j, k, m)'
              /\ (\E j \in Requests : Removes(j, m)') => \E j \in Requests : Removes(j, m)
  <2>1. m # n => Found(m)' = Found(m)
    BY <1>6 DEF Found
  <2>2. QED
    BY <1>0, <1>4, <1>5, <2>1, ServedStays DEF Removes, IsAt
<1>12. /\ Found(named)' \/ Spared(named)'
       /\ (\E j \in Requests : Removes(j, named)') => Spared(named)'
  BY <1>0, <1>10, <1>11 DEF LibraryRuns, LibraryType, HistoryInv
<1>13. ASSUME NEW j \in Requests PROVE CommitOK(j)'
  <2>1. CommitOK(j) /\ Req(j).to \in ScenarioNames
    BY RequestType DEF LibraryRuns, HistoryInv
  <2> SUFFICES ASSUME stage'[j] = "commit" PROVE CommitOK(j)'
    BY DEF CommitOK, IsAt
  <2>2. PICK m \in ScenarioNames : m = Req(j).to
    BY <2>1
  <2>3. /\ Found(m) \/ Spared(m)
        /\ (\E k \in Requests : Removes(k, m)) \/ named = m => Spared(m)
        /\ \A k \in Requests : IsAt(k, {"commit"}) => k = j
    BY <1>4, <2>1, <2>2 DEF CommitOK, IsAt
  <2>4. /\ Found(m)' \/ Spared(m)'
        /\ (\E k \in Requests : Removes(k, m)') \/ named' = m => Spared(m)'
        /\ \A k \in Requests : IsAt(k, {"commit"})' => k = j
    BY <1>0, <1>4, <1>10, <1>11, <2>3 DEF IsAt
  <2>5. m = Req(j)'.to
    BY <1>5, <2>2
  <2>6. QED
    BY <1>5, <2>4, <2>5 DEF CommitOK
<1>14. ASSUME NEW j \in Requests, NEW k \in Requests, NEW m \in ScenarioNames PROVE MeetOK(j, k, m)'
  <2>1. MeetOK(j, k, m)
    BY DEF LibraryRuns, HistoryInv
  <2>2. CASE m # n
    BY <1>4, <1>5, <1>11, <2>1, <2>2 DEF MeetOK, IsAt
  <2>3. CASE m = n
    <3>1. Renames(i, m)'
      BY <1>1, <1>2, <1>4, <1>5, <2>3 DEF Renames
    <3>2. j # i /\ k # i => Third(j, k, m)'
      BY <1>5, <3>1 DEF Third
    <3>3. QED
      BY <1>4, <3>2 DEF MeetOK, IsAt
  <2>4. QED
    BY <2>2, <2>3
<1>15. HistoryInv'
  BY <1>5, <1>12, <1>13, <1>14 DEF HistoryInv
<1>16. QED
  BY <1>7, <1>9, <1>15 DEF LibraryRuns

\* The server is killed: what was under way is, and the boot only adds scenarios.
LEMMA RestartKeeps == ASSUME LibraryRuns, Restart PROVE LibraryRuns'
<1>0. LibraryType /\ UNCHANGED <<bucket, named, held>>
  BY DEF LibraryRuns, Restart
<1>1. PICK missed \in SUBSET Lacking :
         /\ missed = {} \/ story.faults > 0
         /\ story' = [story EXCEPT !.crashes = @ - 1, !.faults = IF missed = {} THEN @ ELSE @ - 1]
         /\ tree' = [n \in ScenarioNames |-> IF n \in Lacking \ missed THEN bucket[n] ELSE tree[n]]
  BY DEF Restart
<1>2. story' \in AnyStory /\ SameStory
  <2>1. story \in AnyStory /\ story.crashes > 0
    BY <1>0 DEF LibraryType, Restart
  <2>2. PICK c \in Nat, f \in Nat : story' = [story EXCEPT !.crashes = c, !.faults = f]
    <3>1. story.crashes \in Nat /\ story.faults \in Nat
      BY <2>1 DEF AnyStory
    <3>2. story.crashes - 1 \in Nat /\ (IF missed = {} THEN story.faults ELSE story.faults - 1) \in Nat
      BY <1>1, <2>1, <3>1
    <3>3. QED
      BY <1>1, <3>2
  <2>3. QED
    BY <2>1, <2>2 DEF AnyStory, SameStory
<1>3. Requests' = Requests /\ \A j \in Requests : Req(j)' = Req(j) /\ Target(j)' = Target(j)
  BY <1>2 DEF SameStory, Requests, Req, Target
<1>4. \A n \in ScenarioNames : tree'[n] \in Contents /\ (Found(n) => Found(n)')
  BY <1>0, <1>1 DEF LibraryType, Lacking, Found, Contents
<1>5. stage' = [j \in Requests |-> IF stage[j] \in Answers \cup {"asked"} THEN stage[j] ELSE "killed"]
  BY DEF Restart
<1>6. /\ stage' \in [Requests -> Stages] /\ \A j \in Requests : GoesOn(j)
      /\ \A j \in Requests : stage'[j] \in Answers \cup {"asked"}
      /\ \A j \in Requests : stage'[j] = "asked" <=> stage[j] = "asked"
      /\ \A j \in Requests : stage[j] \in Answers => stage'[j] \in Answers
  BY <1>0, <1>5 DEF LibraryType, Stages, Answers, GoesOn, Steps
<1>7. LibraryType'
  <2>1. tree' \in [ScenarioNames -> Contents]
    BY <1>1, <1>4
  <2>2. QED
    BY <1>0, <1>2, <1>3, <1>6, <2>1 DEF LibraryType
<1>8. ASSUME NEW j \in Requests PROVE PlaceOK(j)' /\ InTurn(j)'
  <2>1. PlaceOK(j)'
    BY <1>6 DEF PlaceOK, IsAt, Answers
  <2>2. InTurn(j) /\ j \in Nat /\ \A m \in 1..(j - 1) : m \in Requests
    BY RequestType DEF LibraryRuns, Requests
  <2>3. InTurn(j)'
    BY <1>2, <1>6, <2>2 DEF InTurn, SameStory
  <2>4. QED
    BY <2>1, <2>3
<1>9. HistoryInv'
  BY <1>0, <1>2, <1>4, <1>6, HistoryKeeps DEF Answers
<1>10. QED
  BY <1>3, <1>7, <1>8, <1>9 DEF LibraryRuns

\* A story starts with every request to come and the scenario of the rows in the library.
LEMMA StoryStarts ==
    ASSUME LibraryInv, NEW s \in Stories, ChooseStory(s) PROVE LibraryRuns' /\ story' # NoStory
<1>1. /\ s \in AnyStory /\ s # NoStory /\ s.tree[FirstNamed] \in Versions /\ FirstNamed \in ScenarioNames
      /\ NoCopy \notin Versions /\ "empty" \notin Versions
  BY LibraryAssumption DEF FirstNamed
<1>2. /\ story' = s /\ tree' = s.tree /\ bucket' = s.bucket /\ named' = FirstNamed
      /\ stage' = [i \in 1..Len(s.requests) |-> "asked"]
      /\ held' = [i \in 1..Len(s.requests) |-> NoCopy]
  BY DEF ChooseStory, LibraryInv
<1>3. Requests' = 1..Len(s.requests)
  BY <1>2 DEF Requests
<1>4. LibraryType'
  <2>1. s.tree \in [ScenarioNames -> Contents] /\ s.bucket \in [ScenarioNames -> Versions \cup {NoCopy}]
    BY <1>1 DEF AnyStory
  <2>2. stage' \in [Requests' -> Stages] /\ held' \in [Requests' -> Contents]
    BY <1>2, <1>3 DEF Stages, Contents
  <2>3. QED
    BY <1>1, <1>2, <2>1, <2>2 DEF LibraryType
<1>5. \A i \in Requests' : stage'[i] = "asked"
  BY <1>2, <1>3
<1>6. Found(named)'
  BY <1>1, <1>2 DEF Found
<1>7. \A i \in Requests' : PlaceOK(i)' /\ InTurn(i)'
  BY <1>5 DEF PlaceOK, InTurn, IsAt
<1>8. HistoryInv'
  BY <1>5, <1>6 DEF HistoryInv, CommitOK, MeetOK, Removes, IsAt
<1>9. QED
  BY <1>1, <1>2, <1>4, <1>7, <1>8 DEF LibraryRuns

\* The invariant of the library holds before a story starts.
LEMMA LibraryStarts == LibraryInit => LibraryInv
<1> SUFFICES ASSUME LibraryInit PROVE LibraryInv
  OBVIOUS
<1>1. FirstNamed \in ScenarioNames
  BY LibraryAssumption DEF FirstNamed
<1>2. QED
  BY <1>1 DEF LibraryInit, LibraryInv, Contents

\* Every step keeps the invariant of the library.
LEMMA LibrarySteps == LibraryInv /\ [LibraryNext]_libraryVars => LibraryInv'
<1> SUFFICES ASSUME LibraryInv, [LibraryNext]_libraryVars PROVE LibraryInv'
  OBVIOUS
<1>1. ASSUME LibraryRuns', story' # NoStory PROVE LibraryInv'
  BY <1>1 DEF LibraryInv, LibraryRuns, LibraryType
<1>2. ASSUME NEW s \in Stories, ChooseStory(s) PROVE LibraryInv'
  BY <1>1, <1>2, StoryStarts
<1>3. ASSUME story # NoStory, NEW i \in Requests, Step(i) PROVE LibraryInv'
  <2>1. LibraryRuns
    BY <1>3 DEF LibraryInv
  <2>2. LibraryRuns'
    BY <1>3, <2>1, WritesKeep, BucketKeeps, ArchiveKeeps, MoveInKeeps, CommitKeeps, RemoveOldKeeps
       DEF Step, Writes
  <2>3. QED
    BY <2>2, <1>1, LibraryAssumption DEF LibraryRuns, LibraryType
<1>4. ASSUME story # NoStory, Restart PROVE LibraryInv'
  <2>1. LibraryRuns'
    BY <1>4, RestartKeeps DEF LibraryInv
  <2>2. QED
    BY <2>1, <1>1, LibraryAssumption DEF LibraryRuns, LibraryType
<1>5. CASE UNCHANGED libraryVars
  <2>1. /\ UNCHANGED <<story, tree, bucket, named, stage, held>> /\ SameStory /\ Requests' = Requests
        /\ \A i \in Requests : Req(i)' = Req(i) /\ Target(i)' = Target(i)
    BY <1>5 DEF libraryVars, SameStory, Requests, Req, Target
  <2>2. CASE story = NoStory
    BY <2>1, <2>2 DEF LibraryInv
  <2>3. CASE story # NoStory
    <3>1. LibraryRuns
      BY <2>3 DEF LibraryInv
    <3>2. \A i \in Requests : GoesOn(i)
      BY <2>1 DEF GoesOn
    <3>3. \A n \in ScenarioNames : Found(n) => Found(n)'
      BY <2>1 DEF Found
    <3>4. HistoryInv'
      BY <2>1, <3>1, <3>2, <3>3, HistoryKeeps
    <3>5. LibraryType' /\ \A i \in Requests : PlaceOK(i)' /\ InTurn(i)'
      BY <2>1, <3>1 DEF LibraryRuns, LibraryType, PlaceOK, InTurn, IsAt
    <3>6. LibraryRuns'
      BY <2>1, <3>4, <3>5 DEF LibraryRuns
    <3>7. QED
      BY <1>1, <2>1, <2>3, <3>6
  <2>4. QED
    BY <2>2, <2>3
<1>6. QED
  BY <1>2, <1>3, <1>4, <1>5 DEF LibraryNext

\* What the run rows name is in the library at every step of a rename, unless a request other
\* than a rename has touched that name or three renames of it overlap.
THEOREM HistoryFollowsHolds == LibrarySpec => []HistoryFollows
<1>1. LibraryInv => HistoryFollows
  BY DEF LibraryInv, LibraryRuns, HistoryInv, HistoryFollows, Spared
<1>2. QED
  BY LibraryStarts, LibrarySteps, <1>1, PTL DEF LibrarySpec

\* What a request leaves in the bucket while no other has touched its names.
DeletedOK(i) ==
    Req(i).kind = "delete" /\ Req(i).flag =>
        /\ ~IsAt(i, {"asked", "absent"}) /\ tree[Req(i).name] = NoCopy => bucket[Req(i).name] = NoCopy
        /\ IsAt(i, {"remove"}) => bucket[Req(i).name] = NoCopy
RenamedOK(i) ==
    Req(i).kind = "rename" =>
        /\ IsAt(i, {"export", "put", "unpublish", "ok"}) => tree[Req(i).name] = NoCopy
        /\ IsAt(i, {"export", "put", "unpublish"}) => Req(i).to # Req(i).name
        /\ IsAt(i, {"export"}) => story.writes
        /\ IsAt(i, {"unpublish"}) => bucket[Req(i).to] # NoCopy
        /\ IsAt(i, {"ok"}) => bucket[Req(i).name] = NoCopy
        /\ story.bucket[Req(i).name] # NoCopy =>
              bucket[Req(i).name] # NoCopy \/ bucket[Req(i).to] # NoCopy
RemoteOK(i) == Alone(i) => DeletedOK(i) /\ RenamedOK(i)
RemoteInv == story # NoStory => \A i \in Requests : RemoteOK(i)

\* A request writes its own names only.
LEMMA StepIsLocal ==
    ASSUME LibraryRuns, NEW j \in Requests, Step(j)
    PROVE  /\ story' \in AnyStory /\ Requests' = Requests
           /\ \A i \in Requests : Req(i)' = Req(i) /\ Target(i)' = Target(i)
           /\ story'.bucket = story.bucket /\ story'.writes = story.writes
           /\ stage'[j] # "asked" /\ \A i \in Requests \ {j} : stage'[i] = stage[i]
           /\ \A n \in ScenarioNames \ {Req(j).name, Target(j)} :
                 tree'[n] = tree[n] /\ bucket'[n] = bucket[n]
<1>0. /\ LibraryType /\ PlaceOK(j) /\ Target(j) \in ScenarioNames /\ Req(j).name \in ScenarioNames
      /\ story \in AnyStory /\ stage \in [Requests -> Stages]
      /\ tree \in [ScenarioNames -> Contents] /\ bucket \in [ScenarioNames -> Versions \cup {NoCopy}]
      /\ Req(j).kind \in {"create", "edit", "rename", "duplicate", "upload", "publish", "delete"}
  BY RequestType DEF LibraryRuns, LibraryType
<1>1. story' = story \/ Fault
  BY DEF Step, ServeArchive, MakeDirectory, WriteFiles, CheckInPlace, ClearOld, LandUpload, Retire,
     SwapIn, MoveIn, CommitRename, RemoveOld, ExportOld, PutArchive, Unpublish, RemoveLocal
<1>2. /\ story' \in AnyStory /\ story'.requests = story.requests
      /\ story'.bucket = story.bucket /\ story'.writes = story.writes
  <2>1. story.faults \in Nat
    BY <1>0 DEF AnyStory
  <2>2. CASE Fault
    <3>1. PICK f \in Nat : story' = [story EXCEPT !.faults = f]
      BY <2>1, <2>2 DEF Fault
    <3>2. QED
      BY <1>0, <3>1 DEF AnyStory
  <2>3. QED
    BY <1>0, <1>1, <2>2
<1>3. Requests' = Requests /\ \A i \in Requests : Req(i)' = Req(i) /\ Target(i)' = Target(i)
  BY <1>2 DEF Requests, Req, Target
<1>4. ASSUME NEW from, NEW to, to # "asked", Moves(j, from, to)
      PROVE  stage'[j] # "asked" /\ \A i \in Requests \ {j} : stage'[i] = stage[i]
  BY <1>0, <1>4 DEF Moves
<1>5. CASE Writes(j)
  <2>1. \/ UNCHANGED tree
        \/ \E v \in Contents : tree' = [tree EXCEPT ![Target(j)] = v]
    BY <1>5, WritesIs
  <2>2. UNCHANGED bucket /\ \E from, to : Moves(j, from, to) /\ to # "asked"
    BY <1>5, WritesIs
  <2>3. QED
    BY <1>0, <1>2, <1>3, <1>4, <2>1, <2>2
<1>6. CASE ServeArchive(j)
  <2>1. FirstStage(j) # "asked"
    BY <1>0 DEF FirstStage
  <2>2. QED
    BY <1>2, <1>3, <1>4, <1>6, <2>1 DEF ServeArchive
<1>7. CASE MoveIn(j)
  BY <1>0, <1>2, <1>3, <1>4, <1>7 DEF MoveIn, Puts
<1>8. CASE CommitRename(j)
  <2>1. Target(j) = Req(j).to
    BY <1>0, <1>8 DEF CommitRename, Moves, PlaceOK, IsAt, Target
  <2>2. QED
    BY <1>0, <1>2, <1>3, <1>4, <1>8, <2>1 DEF CommitRename, Puts
<1>9. CASE RemoveOld(j)
  BY <1>0, <1>2, <1>3, <1>4, <1>9 DEF RemoveOld, Puts
<1>10. CASE ExportOld(j)
  <2>1. Unmirrored(j) # "asked"
    BY DEF Unmirrored
  <2>2. QED
    BY <1>2, <1>3, <1>4, <1>10, <2>1 DEF ExportOld
<1>11. CASE PutArchive(j)
  <2>1. Unmirrored(j) # "asked"
    BY DEF Unmirrored
  <2>2. QED
    BY <1>0, <1>2, <1>3, <1>4, <1>11, <2>1 DEF PutArchive
<1>12. CASE Unpublish(j)
  BY <1>0, <1>2, <1>3, <1>4, <1>12 DEF Unpublish, AfterUnpublish, WithoutUnpublish
<1>13. QED
  BY <1>5, <1>6, <1>7, <1>8, <1>9, <1>10, <1>11, <1>12 DEF Step, Writes

\* A step of a request keeps its own part.
LEMMA OwnRemoteKeeps ==
    ASSUME LibraryRuns, NEW i \in Requests, Step(i), DeletedOK(i), RenamedOK(i)
    PROVE  DeletedOK(i)' /\ RenamedOK(i)'
<1>0. /\ LibraryType /\ PlaceOK(i) /\ Req(i).to \in ScenarioNames /\ Req(i).name \in ScenarioNames
      /\ stage \in [Requests -> Stages]
      /\ tree \in [ScenarioNames -> Contents] /\ bucket \in [ScenarioNames -> Versions \cup {NoCopy}]
      /\ Req(i).kind \in {"create", "edit", "rename", "duplicate", "upload", "publish", "delete"}
      /\ NoCopy \notin Versions
  BY RequestType, LibraryAssumption DEF LibraryRuns, LibraryType
<1>1. /\ Req(i)' = Req(i) /\ story'.bucket = story.bucket /\ story'.writes = story.writes
  BY StepIsLocal
<1>2. ASSUME NEW from, NEW to, Moves(i, from, to) PROVE stage[i] = from /\ stage'[i] = to
  BY <1>0, <1>2 DEF Moves
<1>3. CASE Req(i).kind \notin {"delete", "rename"}
  BY <1>1, <1>3 DEF DeletedOK, RenamedOK
<1>4. CASE Req(i).kind = "delete"
  <2>1. Target(i) = Req(i).name /\ RenamedOK(i)'
    BY <1>1, <1>4 DEF Target, RenamedOK
  <2>2. DeletedOK(i)'
    <3>1. CASE ServeArchive(i)
      <4>1. Moves(i, "asked", FirstStage(i)) /\ UNCHANGED <<tree, bucket>>
        BY <3>1 DEF ServeArchive
      <4>2. /\ Req(i).flag => FirstStage(i) # "remove"
            /\ FirstStage(i) = "absent" \/ tree[Req(i).name] # NoCopy
        BY <1>4 DEF FirstStage, Found
      <4>3. QED
        BY <1>1, <1>2, <4>1, <4>2 DEF DeletedOK, IsAt
    <3>2. CASE Writes(i)
      <4>1. RemoveLocal(i)
        BY <1>0, <1>4, <3>2 DEF Writes, MakeDirectory, WriteFiles, CheckInPlace, ClearOld, LandUpload,
           Retire, SwapIn, Moves, PlaceOK, IsAt
      <4>2. stage[i] = "remove" /\ stage'[i] \in {"ok", "failed"} /\ UNCHANGED bucket
        BY <1>2, <4>1 DEF RemoveLocal
      <4>3. QED
        BY <1>1, <4>2 DEF DeletedOK, IsAt
    <3>3. CASE MoveIn(i) \/ CommitRename(i) \/ RemoveOld(i)
      BY <1>0, <1>4, <3>3 DEF MoveIn, CommitRename, RemoveOld, Moves, PlaceOK, IsAt
    <3>4. CASE ExportOld(i) \/ PutArchive(i)
      BY <1>0, <1>4, <3>4 DEF ExportOld, PutArchive, Moves, PlaceOK, IsAt
    <3>5. CASE Unpublish(i)
      <4>1. \/ stage[i] = "unpublish" /\ stage'[i] = "remove" /\ bucket'[Req(i).name] = NoCopy
            \/ stage[i] = "unpublish" /\ stage'[i] = "refused" /\ UNCHANGED bucket
        BY <1>0, <1>2, <1>4, <3>5 DEF Unpublish, AfterUnpublish, WithoutUnpublish
      <4>2. UNCHANGED tree
        BY <3>5 DEF Unpublish
      <4>3. QED
        BY <1>1, <4>1, <4>2 DEF DeletedOK, IsAt
    <3>6. QED
      BY <3>1, <3>2, <3>3, <3>4, <3>5 DEF Step, Writes
  <2>3. QED
    BY <2>1, <2>2
<1>5. CASE Req(i).kind = "rename"
  <2>1. Target(i) = Req(i).to /\ DeletedOK(i)'
    BY <1>1, <1>5 DEF Target, DeletedOK
  <2>2. RenamedOK(i)'
    <3>1. CASE ServeArchive(i)
      <4>1. stage'[i] \in {"absent", "refused", "move"} /\ UNCHANGED <<tree, bucket>>
        BY <1>2, <1>5, <3>1 DEF ServeArchive, FirstStage
      <4>2. QED
        BY <1>1, <4>1 DEF RenamedOK, IsAt
    <3>2. CASE Writes(i)
      BY <1>5, <3>2, WritesIs
    <3>3. CASE MoveIn(i) \/ CommitRename(i)
      <4>1. stage'[i] \in {"commit", "failed", "removeOld"} /\ UNCHANGED bucket
        BY <1>2, <3>3 DEF MoveIn, CommitRename
      <4>2. QED
        BY <1>1, <4>1 DEF RenamedOK, IsAt
    <3>4. CASE RemoveOld(i)
      <4>1. /\ stage[i] = "removeOld" /\ stage'[i] = IF story.writes THEN "export" ELSE "warned"
            /\ tree'[Req(i).name] = NoCopy /\ UNCHANGED bucket
        BY <1>0, <1>2, <3>4 DEF RemoveOld, Puts
      <4>2. Req(i).to # Req(i).name
        BY <1>0, <4>1 DEF PlaceOK, IsAt
      <4>3. QED
        BY <1>1, <1>5, <4>1, <4>2 DEF RenamedOK, IsAt
    <3>5. CASE ExportOld(i)
      <4>1. stage[i] = "export" /\ UNCHANGED <<tree, bucket>>
        BY <1>2, <3>5 DEF ExportOld, Moves
      <4>2. story.writes
        BY <1>5, <4>1 DEF RenamedOK, IsAt
      <4>3. stage'[i] \in {"put", "warned"}
        BY <1>2, <1>5, <3>5, <4>2 DEF ExportOld, Unmirrored
      <4>4. QED
        BY <1>1, <1>5, <4>1, <4>3 DEF RenamedOK, IsAt
    <3>6. CASE PutArchive(i)
      <4>1. stage[i] = "put" /\ held[i] \in Versions /\ UNCHANGED tree
        BY <1>0, <1>2, <3>6 DEF PutArchive, PlaceOK, IsAt
      <4>2. \/ stage'[i] = "unpublish" /\ bucket'[Req(i).to] = held[i]
            \/ stage'[i] = "warned" /\ UNCHANGED bucket
        BY <1>0, <1>2, <1>5, <2>1, <3>6 DEF PutArchive, Unmirrored
      <4>3. QED
        BY <1>0, <1>1, <1>5, <4>1, <4>2 DEF RenamedOK, IsAt
    <3>7. CASE Unpublish(i)
      <4>1. stage[i] = "unpublish" /\ UNCHANGED tree
        BY <1>2, <3>7 DEF Unpublish, Moves
      <4>2. \/ stage'[i] = "ok" /\ bucket' = [bucket EXCEPT ![Req(i).name] = NoCopy]
            \/ stage'[i] = "warned" /\ UNCHANGED bucket
        BY <1>2, <1>5, <3>7 DEF Unpublish, AfterUnpublish, WithoutUnpublish
      <4>3. /\ Req(i).to # Req(i).name /\ bucket[Req(i).to] # NoCopy
            /\ tree[Req(i).name] = NoCopy
        BY <1>5, <4>1 DEF RenamedOK, IsAt
      <4>4. QED
        BY <1>0, <1>1, <4>1, <4>2, <4>3 DEF RenamedOK, IsAt
    <3>8. QED
      BY <3>1, <3>2, <3>3, <3>4, <3>5, <3>6, <3>7 DEF Step, Writes
  <2>3. QED
    BY <2>1, <2>2
<1>6. QED
  BY <1>0, <1>3, <1>4, <1>5

\* A step of another request, whose names are others, keeps it.
LEMMA OthersRemoteKeep ==
    ASSUME LibraryRuns, NEW i \in Requests, NEW j \in Requests, Step(j), RemoteOK(i)
    PROVE  RemoteOK(i)'
<1> SUFFICES ASSUME Alone(i)' PROVE DeletedOK(i)' /\ RenamedOK(i)'
  BY DEF RemoteOK
<1>0. /\ Requests' = Requests /\ \A k \in Requests : Req(k)' = Req(k) /\ Target(k)' = Target(k)
      /\ story'.bucket = story.bucket /\ story'.writes = story.writes
      /\ stage'[j] # "asked" /\ \A k \in Requests \ {j} : stage'[k] = stage[k]
      /\ \A n \in ScenarioNames \ {Req(j).name, Target(j)} : tree'[n] = tree[n] /\ bucket'[n] = bucket[n]
  BY StepIsLocal
<1>1. Alone(i)
  BY <1>0 DEF Alone
<1>2. DeletedOK(i) /\ RenamedOK(i)
  BY <1>1 DEF RemoteOK
<1>3. CASE i = j
  BY <1>2, <1>3, OwnRemoteKeeps
<1>4. CASE i # j
  <2>1. {Req(j).name, Target(j)} \cap {Req(i).name, Target(i)} = {}
    BY <1>0, <1>4 DEF Alone
  <2>2. Req(i).name \in ScenarioNames /\ Target(i) \in ScenarioNames
    BY RequestType DEF LibraryRuns
  <2>3. /\ tree'[Req(i).name] = tree[Req(i).name] /\ bucket'[Req(i).name] = bucket[Req(i).name]
        /\ Req(i).kind = "rename" => bucket'[Req(i).to] = bucket[Req(i).to]
    BY <1>0, <2>1, <2>2 DEF Target
  <2>4. DeletedOK(i)'
    BY <1>0, <1>2, <1>4, <2>3 DEF DeletedOK, IsAt
  <2>5. RenamedOK(i)'
    BY <1>0, <1>2, <1>4, <2>3 DEF RenamedOK, IsAt
  <2>6. QED
    BY <2>4, <2>5
<1>5. QED
  BY <1>3, <1>4

\* A restart brings back only what the bucket has.
LEMMA RestartRemoteKeeps ==
    ASSUME LibraryRuns, Restart, NEW i \in Requests, RemoteOK(i) PROVE RemoteOK(i)'
<1>0. LibraryType /\ UNCHANGED <<bucket, named, held>> /\ Req(i).name \in ScenarioNames
  BY RequestType DEF LibraryRuns, Restart
<1>1. PICK missed \in SUBSET Lacking :
         /\ story' = [story EXCEPT !.crashes = @ - 1, !.faults = IF missed = {} THEN @ ELSE @ - 1]
         /\ tree' = [n \in ScenarioNames |-> IF n \in Lacking \ missed THEN bucket[n] ELSE tree[n]]
  BY DEF Restart
<1>2. /\ story'.requests = story.requests /\ story'.bucket = story.bucket /\ story'.writes = story.writes
  BY <1>0, <1>1 DEF LibraryType, AnyStory
<1>3. Requests' = Requests /\ \A j \in Requests : Req(j)' = Req(j) /\ Target(j)' = Target(j)
  BY <1>2 DEF Requests, Req, Target
<1>4. \A j \in Requests : \/ stage[j] \in Answers \cup {"asked"} /\ stage'[j] = stage[j]
                          \/ stage[j] \notin Answers \cup {"asked"} /\ stage'[j] = "killed"
  BY DEF Restart
<1>5. /\ tree'[Req(i).name] = NoCopy => tree[Req(i).name] = NoCopy
      /\ bucket[Req(i).name] = NoCopy => tree'[Req(i).name] = tree[Req(i).name]
  BY <1>0, <1>1 DEF Lacking
<1> SUFFICES ASSUME Alone(i)' PROVE DeletedOK(i)' /\ RenamedOK(i)'
  BY DEF RemoteOK
<1>6. DeletedOK(i) /\ RenamedOK(i)
  <2>1. Alone(i)
    BY <1>3, <1>4 DEF Alone
  <2>2. QED
    BY <2>1 DEF RemoteOK
<1>7. DeletedOK(i)'
  BY <1>0, <1>3, <1>4, <1>5, <1>6 DEF DeletedOK, IsAt, Answers
<1>8. RenamedOK(i)'
  BY <1>0, <1>2, <1>3, <1>4, <1>5, <1>6 DEF RenamedOK, IsAt, Answers
<1>9. QED
  BY <1>7, <1>8

\* Every step keeps what requests leave in the bucket.
LEMMA RemoteSteps == LibraryInv /\ RemoteInv /\ [LibraryNext]_libraryVars => RemoteInv'
<1> SUFFICES ASSUME LibraryInv, RemoteInv, [LibraryNext]_libraryVars PROVE RemoteInv'
  OBVIOUS
<1>1. ASSUME NEW s \in Stories, ChooseStory(s) PROVE RemoteInv'
  <2>1. /\ story' = s /\ bucket' = s.bucket
        /\ Requests' = 1..Len(s.requests) /\ \A i \in Requests' : stage'[i] = "asked"
    BY <1>1 DEF ChooseStory, Requests
  <2>2. ASSUME NEW i \in Requests' PROVE DeletedOK(i)' /\ RenamedOK(i)'
    BY <2>1, <2>2 DEF DeletedOK, RenamedOK, IsAt
  <2>3. QED
    BY <2>2 DEF RemoteInv, RemoteOK
<1>2. ASSUME story # NoStory, NEW j \in Requests, Step(j) PROVE RemoteInv'
  <2>1. LibraryRuns /\ \A i \in Requests : RemoteOK(i)
    BY <1>2 DEF LibraryInv, RemoteInv
  <2>2. \A i \in Requests : RemoteOK(i)'
    BY <1>2, <2>1, OthersRemoteKeep
  <2>3. QED
    BY <1>2, <2>1, <2>2, StepIsLocal DEF RemoteInv
<1>3. ASSUME story # NoStory, Restart PROVE RemoteInv'
  <2>1. LibraryRuns /\ \A i \in Requests : RemoteOK(i)
    BY <1>3 DEF LibraryInv, RemoteInv
  <2>2. \A i \in Requests : RemoteOK(i)'
    BY <1>3, <2>1, RestartRemoteKeeps
  <2>3. Requests' = Requests
    BY <1>3, <2>1 DEF Restart, Requests, LibraryRuns, LibraryType, AnyStory
  <2>4. QED
    BY <2>2, <2>3 DEF RemoteInv
<1>4. CASE UNCHANGED libraryVars
  <2>1. /\ UNCHANGED <<story, tree, bucket, named, stage, held>> /\ Requests' = Requests
        /\ \A i \in Requests : Req(i)' = Req(i) /\ Target(i)' = Target(i)
    BY <1>4 DEF libraryVars, Requests, Req, Target
  <2>2. ASSUME NEW i \in Requests, RemoteOK(i) PROVE RemoteOK(i)'
    <3>1. Alone(i)' => Alone(i)
      BY <2>1 DEF Alone
    <3>2. (DeletedOK(i) => DeletedOK(i)') /\ (RenamedOK(i) => RenamedOK(i)')
      BY <2>1, <2>2 DEF DeletedOK, RenamedOK, IsAt
    <3>3. QED
      BY <2>2, <3>1, <3>2 DEF RemoteOK
  <2>3. QED
    BY <2>1, <2>2 DEF RemoteInv
<1>5. QED
  BY <1>1, <1>2, <1>3, <1>4 DEF LibraryNext

\* A deletion with its remote copy leaves none, a rename that answers without a warning leaves
\* nothing under the old name, and one in the bucket is there under one of its names.
THEOREM RemoteCopiesFollowHolds == LibrarySpec => []RemoteCopiesFollow
<1>1. LibraryInit => RemoteInv
  BY DEF LibraryInit, RemoteInv
<1>2. LibraryInv /\ RemoteInv => RemoteCopiesFollow
  BY DEF RemoteInv, RemoteOK, DeletedOK, RenamedOK, RemoteCopiesFollow, IsAt
<1>3. QED
  BY LibraryStarts, LibrarySteps, RemoteSteps, <1>1, <1>2, PTL DEF LibrarySpec

-----------------------------------------------------------------------------
(* TargetGuard. *)

Skipping == "skipped_searches_delta"
\* What a guard has counted and reached is left untyped.
GuardSet(s) == [live : BOOLEAN, readings : {s.readings}, peak : {s.peak}, breaches : Nat, reason : BOOLEAN]
GuardStages == {"new", "polling", "asleep", "none", "over"}
GuardType ==
    /\ situation \in AnySituation /\ past \in Seq([cpu : Int, skipped : Int]) /\ Len(past) > 0
    /\ asking \in Seq(situation.asks) /\ guarding \in GuardStages
    /\ DOMAIN guards = situation.asks /\ \A g \in situation.asks : guards[g] \in GuardSet(guards[g])
    /\ baseline \in Int \cup {NoValue} /\ stopFor \in situation.asks \cup {"none"}
    /\ readAt \in [GuardNames -> Seq(Nat)]
    /\ \A g \in GuardNames : \A k \in 1..Len(readAt[g]) : readAt[g][k] \in 1..Len(past)

\* The last readings, as many as are counted, were over the limit, and the one before was not.
CountsBreaches(g) ==
    LET n == Len(readAt[g])
        c == guards[g].breaches
    IN  /\ c <= n /\ \A j \in n - c + 1..n : Over(g, j)
        /\ c < n => ~Over(g, n - c)
\* The first count of skips is what the others are compared with.
BaselineOK ==
    /\ baseline = NoValue <=> readAt[Skipping] = <<>>
    /\ baseline # NoValue =>
          baseline = IF Skipping \in situation.readable THEN Skips(readAt[Skipping][1]) ELSE 0
Excused(g) == guards[g].live \/ guards[g].reason
ReasonsOK ==
    /\ guarding \in {"asleep", "none", "over"} => \A g \in situation.asks : Excused(g)
    /\ guarding = "polling" /\ Len(past) > 1 => \A g \in situation.asks : Excused(g)
    /\ guarding = "polling" =>
          \A g \in situation.asks : Excused(g) \/ \E k \in 1..Len(asking) : asking[k] = g
GuardRuns ==
    /\ GuardType /\ BaselineOK /\ ReasonsOK
    /\ guarding = "new" => Len(past) = 1 /\ \A g \in situation.asks : guards[g] = Unread
    /\ \A g \in situation.asks :
          /\ guards[g].live <=> readAt[g] # <<>>
          /\ CountsBreaches(g)
          /\ Sustained(g) => stopFor # "none"
    /\ stopFor # "none" => Sustained(stopFor)
GuardInv == IF situation = <<>> THEN GuardInit ELSE GuardRuns

\* What a reading said stays true when others follow.
GuardGoesOn ==
    /\ situation'.readable = situation.readable /\ situation'.limits = situation.limits
    /\ past' \in Seq([cpu : Int, skipped : Int]) /\ Len(past) <= Len(past')
    /\ \A i \in 1..Len(past) : past'[i] = past[i]
LEMMA TruthStays ==
    ASSUME GuardType, GuardGoesOn, NEW g \in GuardNames, NEW k \in 1..Len(readAt[g]),
           k \in 1..Len(readAt'[g]), readAt'[g][k] = readAt[g][k], readAt'[g][1] = readAt[g][1]
    PROVE  Over(g, k)' <=> Over(g, k)
<1>1. readAt[g][k] \in 1..Len(past) /\ readAt[g][1] \in 1..Len(past)
  BY DEF GuardType
<1>2. Lookback \in Nat
  BY GuardAssumption
<1>3. ASSUME NEW n \in 1..Len(past)
      PROVE  Busiest(n)' = Busiest(n) /\ Skips(n)' = Skips(n)
  <2>1. \A i \in 1..n : past'[i] = past[i]
    BY <1>3 DEF GuardGoesOn, GuardType
  <2>2. {past'[i].cpu : i \in Window(n)} = {past[i].cpu : i \in Window(n)}
    BY <2>1 DEF Window
  <2>3. Busiest(n)' = Busiest(n)
    BY <2>2 DEF Busiest, Window
  <2>4. n > Lookback => n - Lookback \in 1..n
    BY <1>2, <1>3 DEF GuardType
  <2>5. Skips(n)' = Skips(n)
    BY <2>1, <2>4 DEF Skips, SkippedBefore
  <2>6. QED
    BY <2>3, <2>5
<1>4. PICK n \in 1..Len(past), m \in 1..Len(past) : n = readAt[g][k] /\ m = readAt[g][1]
  BY <1>1
<1>5. Truth(g, k)' = Truth(g, k)
  BY <1>3, <1>4 DEF Truth, GuardGoesOn
<1>6. QED
  BY <1>5 DEF Over, GuardGoesOn

\* A guard of which nothing is read keeps its count, and one sustained stays so.
LEMMA NothingRead ==
    ASSUME GuardType, GuardGoesOn, NEW g \in situation.asks, readAt'[g] = readAt[g],
           guards'[g].breaches = guards[g].breaches
    PROVE  /\ CountsBreaches(g) => CountsBreaches(g)'
           /\ Sustained(g)' <=> Sustained(g)
<1>1. g \in GuardNames /\ readAt[g] \in Seq(Nat) /\ guards[g].breaches \in Nat
      /\ Len(readAt[g]) \in Nat /\ BreachSamples \in Nat \ {0}
  BY GuardAssumption DEF GuardType, AnySituation, GuardSet
<1>2. ASSUME NEW k \in 1..Len(readAt[g]) PROVE Over(g, k)' <=> Over(g, k)
  BY <1>1, <1>2, TruthStays
<1>3. Sustained(g)' <=> Sustained(g)
  <2>1. ASSUME NEW k \in BreachSamples..Len(readAt[g]), NEW j \in k - BreachSamples + 1..k
        PROVE  Over(g, j)' <=> Over(g, j)
    BY <1>1, <1>2
  <2>2. BreachSamples..Len(readAt'[g]) = BreachSamples..Len(readAt[g])
    OBVIOUS
  <2>3. QED
    BY <2>1, <2>2 DEF Sustained
<1>4. CountsBreaches(g) => CountsBreaches(g)'
  BY <1>1, <1>2 DEF CountsBreaches
<1>5. QED
  BY <1>3, <1>4

\* Counting back from one reading more.
LEMMA CountingBack ==
    ASSUME NEW n \in Nat, NEW c \in Nat, NEW B \in Nat \ {0}, c <= n
    PROVE  /\ \A j \in n + 1 - (c + 1) + 1..n + 1 : j = n + 1 \/ (j \in n - c + 1..n /\ j \in 1..n)
           /\ c + 1 < n + 1 => c < n /\ n - c \in 1..n /\ n + 1 - (c + 1) = n - c
           /\ c + 1 < B /\ B <= n + 1 => c < n /\ n - c \in 1..n /\ n - c \in n + 1 - B + 1..n + 1
           /\ B <= c + 1 =>
                 /\ n + 1 \in B..n + 1
                 /\ \A j \in n + 1 - B + 1..n + 1 : j = n + 1 \/ (j \in n - c + 1..n /\ j \in 1..n)
OBVIOUS

\* One reading more counts on from the last ones, or starts the count again.
LEMMA OneRead ==
    ASSUME GuardType, GuardGoesOn, NEW g \in situation.asks, CountsBreaches(g),
           NEW n \in Nat, n = Len(readAt[g]), readAt'[g] = Append(readAt[g], Len(past)),
           NEW over \in BOOLEAN, Over(g, n + 1)' <=> over,
           guards'[g].breaches = IF over THEN guards[g].breaches + 1 ELSE 0
    PROVE  /\ CountsBreaches(g)'
           /\ Sustained(g) => Sustained(g)'
           /\ Sustained(g)' => Sustained(g) \/ (over /\ guards'[g].breaches >= BreachSamples)
           /\ over /\ guards'[g].breaches >= BreachSamples => Sustained(g)'
<1>1. PICK c \in Nat, B \in Nat \ {0} : c = guards[g].breaches /\ B = BreachSamples
  BY GuardAssumption DEF GuardType, AnySituation, GuardSet
<1>2. /\ g \in GuardNames /\ readAt[g] \in Seq(Nat) /\ Len(past) \in Nat
      /\ Len(readAt'[g]) = n + 1
      /\ \A k \in 1..n : readAt'[g][k] = readAt[g][k]
  BY <1>1 DEF GuardType, AnySituation
<1>3. ASSUME NEW k \in 1..n PROVE Over(g, k)' <=> Over(g, k)
  <2>1. k \in 1..Len(readAt[g]) /\ k \in 1..Len(readAt'[g]) /\ 1 \in 1..n
    BY <1>2
  <2>2. readAt'[g][k] = readAt[g][k] /\ readAt'[g][1] = readAt[g][1]
    BY <1>2, <2>1
  <2>3. QED
    BY <1>2, <2>1, <2>2, TruthStays
<1>4. Over(g, n + 1)' <=> over
  OBVIOUS
<1>5. /\ c <= n /\ \A j \in n - c + 1..n : Over(g, j)
      /\ c < n => ~Over(g, n - c)
  BY <1>1 DEF CountsBreaches
<1>6. PICK d \in Nat : d = guards'[g].breaches /\ d = IF over THEN c + 1 ELSE 0
  BY <1>1
<1>7. CountsBreaches(g)'
  <2>1. ASSUME NEW j \in n + 1 - d + 1..n + 1 PROVE Over(g, j)'
    <3>1. over /\ d = c + 1
      BY <1>1, <1>6, <2>1
    <3>2. j = n + 1 \/ (j \in n - c + 1..n /\ j \in 1..n)
      BY <1>1, <1>5, <2>1, <3>1, CountingBack
    <3>3. QED
      BY <1>3, <1>4, <1>5, <3>1, <3>2
  <2>2. d < n + 1 => ~Over(g, n + 1 - d)'
    <3>1. CASE over
      <4>1. d = c + 1
        BY <1>6, <3>1
      <4>2. d < n + 1 => c < n /\ n - c \in 1..n /\ n + 1 - d = n - c
        BY <1>1, <1>5, <4>1, CountingBack
      <4>3. QED
        BY <1>3, <1>5, <4>2
    <3>2. CASE ~over
      <4>1. d = 0 /\ n + 1 - d = n + 1
        BY <1>6, <3>2
      <4>2. QED
        BY <1>4, <3>2, <4>1
    <3>3. QED
      BY <3>1, <3>2
  <2>3. QED
    <3>1. Len(readAt'[g]) = n + 1 /\ guards'[g].breaches = d /\ d <= n + 1
      BY <1>1, <1>2, <1>5, <1>6
    <3>2. QED
      BY <2>1, <2>2, <3>1 DEF CountsBreaches
<1>8. Sustained(g) <=> \E k \in B..n : \A j \in k - B + 1..k : Over(g, j)
  BY <1>1 DEF Sustained
<1>9. Sustained(g)' <=> \E k \in B..n + 1 : \A j \in k - B + 1..k : Over(g, j)'
  BY <1>1, <1>2 DEF Sustained
<1>10. Sustained(g) => Sustained(g)'
  <2> SUFFICES ASSUME Sustained(g) PROVE Sustained(g)'
    OBVIOUS
  <2>1. PICK k \in B..n : \A j \in k - B + 1..k : Over(g, j)
    BY <1>8
  <2>2. \A j \in k - B + 1..k : Over(g, j)'
    BY <1>3, <2>1
  <2>3. QED
    BY <1>9, <2>2
<1>11. Sustained(g)' => Sustained(g) \/ (over /\ d >= B)
  <2> SUFFICES ASSUME Sustained(g)', ~(over /\ d >= B) PROVE Sustained(g)
    OBVIOUS
  <2>1. PICK k \in B..n + 1 : \A j \in k - B + 1..k : Over(g, j)'
    BY <1>9
  <2>2. CASE k \in B..n
    <3>1. \A j \in k - B + 1..k : Over(g, j)
      BY <1>3, <2>1, <2>2
    <3>2. QED
      BY <1>8, <2>2, <3>1
  <2>3. CASE k = n + 1
    <3>1. over
      BY <1>4, <2>1, <2>3
    <3>2. c + 1 < B /\ B <= n + 1
      BY <1>6, <2>3, <3>1
    <3>3. c < n /\ n - c \in n + 1 - B + 1..n + 1 /\ n - c \in 1..n
      BY <1>1, <1>5, <3>2, CountingBack
    <3>4. ASSUME NEW j \in n + 1 - B + 1..n + 1 PROVE Over(g, j)'
      <4>1. j \in k - B + 1..k
        BY <2>3, <3>4
      <4>2. QED
        BY <2>1, <4>1
    <3>5. PICK j \in 1..n : j = n - c /\ Over(g, j)'
      BY <3>3, <3>4
    <3>6. QED
      BY <1>3, <1>5, <3>3, <3>5
  <2>4. QED
    BY <2>2, <2>3
<1>12. over /\ d >= B => Sustained(g)'
  <2> SUFFICES ASSUME over, d >= B PROVE Sustained(g)'
    OBVIOUS
  <2>1. B <= c + 1
    BY <1>1, <1>6
  <2>2. /\ n + 1 \in B..n + 1
        /\ \A j \in n + 1 - B + 1..n + 1 : j = n + 1 \/ (j \in n - c + 1..n /\ j \in 1..n)
    BY <1>1, <1>5, <2>1, CountingBack
  <2>3. ASSUME NEW j \in n + 1 - B + 1..n + 1 PROVE Over(g, j)'
    BY <1>3, <1>4, <1>5, <2>2, <2>3
  <2>4. PICK k \in B..n + 1 : k = n + 1
    BY <2>2
  <2>5. \A j \in k - B + 1..k : Over(g, j)'
    BY <2>3, <2>4
  <2>6. QED
    BY <1>9, <2>5
<1>13. QED
  BY <1>1, <1>6, <1>7, <1>10, <1>11, <1>12

\* A sequence of one member.
LEMMA OneOf == ASSUME NEW S, NEW x \in S PROVE <<x>> \in Seq(S)
OBVIOUS

\* A poll asks each guard the scenario declares.
LEMMA AskedIs ==
    ASSUME situation \in AnySituation
    PROVE  /\ Wanted \in Seq(situation.asks)
           /\ \A g \in situation.asks : \E k \in 1..Len(Wanted) : Wanted[k] = g
<1> DEFINE first  == IfAsked("sut_cpu_pct")
           second == IfAsked(Skipping)
<1>1. situation.asks \subseteq {"sut_cpu_pct", Skipping}
  BY DEF AnySituation, GuardNames, Skipping
<1>2. ASSUME NEW g
      PROVE  /\ IfAsked(g) \in Seq(situation.asks)
             /\ g \in situation.asks => Len(IfAsked(g)) = 1 /\ IfAsked(g)[1] = g
  <2>1. CASE g \in situation.asks
    <3>1. IfAsked(g) = <<g>>
      BY <2>1 DEF IfAsked
    <3>2. <<g>> \in Seq(situation.asks)
      BY <2>1, OneOf
    <3>3. Len(<<g>>) = 1 /\ <<g>>[1] = g
      OBVIOUS
    <3>4. QED
      BY <3>1, <3>2, <3>3
  <2>2. CASE g \notin situation.asks
    BY <2>2 DEF IfAsked
  <2>3. QED
    BY <2>1, <2>2
<1>3. Wanted = first \o second
  BY DEF Wanted, Skipping
<1>4. first \in Seq(situation.asks) /\ second \in Seq(situation.asks)
  BY <1>2
<1> HIDE DEF first, second
<1>5. /\ Wanted \in Seq(situation.asks) /\ Len(Wanted) = Len(first) + Len(second)
      /\ \A k \in 1..Len(first) : Wanted[k] = first[k]
      /\ \A k \in 1..Len(second) : Wanted[Len(first) + k] = second[k]
  BY <1>3, <1>4
<1>6. ASSUME NEW g \in situation.asks PROVE \E k \in 1..Len(Wanted) : Wanted[k] = g
  <2>1. CASE g = "sut_cpu_pct"
    <3>1. Len(first) = 1 /\ first[1] = g
      BY <1>2, <1>6, <2>1 DEF first
    <3>2. QED
      BY <1>4, <1>5, <3>1
  <2>2. CASE g = Skipping
    <3>1. Len(second) = 1 /\ second[1] = g
      BY <1>2, <1>6, <2>2 DEF second
    <3>2. Len(first) + 1 \in 1..Len(Wanted) /\ Wanted[Len(first) + 1] = g
      BY <1>4, <1>5, <3>1
    <3>3. QED
      BY <3>2
  <2>3. QED
    BY <1>1, <1>6, <2>1, <2>2
<1>7. QED
  BY <1>5, <1>6

\* The larger of two, of which one is 0.
LEMMA AtLeastZero == Max({0, 0}) = 0 /\ \A x \in Int : Max({0, x - x}) = 0
  BY DEF Max

\* A step in which nothing is read keeps the counts.
LEMMA CountsStay ==
    ASSUME GuardRuns, GuardType', GuardGoesOn, situation'.asks = situation.asks,
           UNCHANGED <<baseline, stopFor, readAt>>,
           \A g \in situation.asks : guards'[g].breaches = guards[g].breaches
                                     /\ guards'[g].live = guards[g].live
    PROVE  /\ BaselineOK'
           /\ \A g \in situation'.asks :
                 /\ guards'[g].live <=> readAt'[g] # <<>>
                 /\ CountsBreaches(g)'
                 /\ Sustained(g)' => stopFor' # "none"
           /\ stopFor' # "none" => Sustained(stopFor)'
<1>1. ASSUME NEW g \in situation.asks
      PROVE  /\ CountsBreaches(g) => CountsBreaches(g)'
             /\ Sustained(g)' <=> Sustained(g)
  BY NothingRead DEF GuardRuns
<1>2. BaselineOK'
  <2>1. readAt[Skipping] \in Seq(Nat) /\ Skipping \in GuardNames
    <3>1. GuardType
      BY DEF GuardRuns
    <3>2. readAt \in [GuardNames -> Seq(Nat)]
      BY <3>1 DEF GuardType
    <3>3. Skipping \in GuardNames
      BY DEF Skipping, GuardNames
    <3>4. QED
      BY <3>2, <3>3
  <2>2. ASSUME readAt[Skipping] # <<>> PROVE Skips(readAt[Skipping][1])' = Skips(readAt[Skipping][1])
    <3>0. 1 \in 1..Len(readAt[Skipping]) /\ Len(past) \in Nat
      BY <2>1, <2>2 DEF GuardRuns, GuardType
    <3>1. PICK n \in 1..Len(past) : n = readAt[Skipping][1]
      BY <2>1, <3>0 DEF GuardRuns, GuardType
    <3>2. n > Lookback => n - Lookback \in 1..Len(past)
      BY <3>0, <3>1, GuardAssumption
    <3>3. Skips(n)' = Skips(n)
      BY <3>2 DEF Skips, SkippedBefore, GuardGoesOn
    <3>4. QED
      BY <3>1, <3>3
  <2>3. QED
    BY <2>2 DEF BaselineOK, GuardRuns, GuardGoesOn
<1>3. stopFor # "none" => stopFor \in situation.asks
  BY DEF GuardRuns, GuardType
<1>4. stopFor' # "none" => Sustained(stopFor)'
  <2>1. ASSUME stopFor # "none" PROVE Sustained(stopFor)'
    <3>1. PICK g \in situation.asks : g = stopFor
      BY <1>3, <2>1
    <3>2. Sustained(g)'
      BY <1>1, <2>1, <3>1 DEF GuardRuns
    <3>3. QED
      BY <3>1, <3>2 DEF Sustained, Over, Truth
  <2>2. QED
    BY <2>1
<1>5. QED
  BY <1>1, <1>2, <1>4 DEF GuardRuns

\* A scenario is not the empty one.
LEMMA SituationsAreGiven == <<>> \notin AnySituation
<1> SUFFICES ASSUME <<>> \in AnySituation PROVE FALSE
  OBVIOUS
<1>1. "asks" \in DOMAIN <<>>
  BY DEF AnySituation
<1>2. QED
  BY <1>1

\* The scenario is chosen: nothing is read yet.
LEMMA GuardsStart ==
    ASSUME GuardInit, NEW s \in Situations, ChooseGuards(s) PROVE GuardRuns' /\ situation' # <<>>
<1>1. /\ s \in AnySituation /\ s # <<>> /\ situation' = s /\ past' = <<s.busy>> /\ stopFor' = "none"
      /\ guards' = [g \in s.asks |-> Unread] /\ asking' = <<>> /\ baseline' = NoValue
      /\ guarding' = "new" /\ readAt' = [g \in GuardNames |-> <<>>]
  BY GuardAssumption, SituationsAreGiven DEF GuardInit, ChooseGuards
<1>2. past' \in Seq([cpu : Int, skipped : Int]) /\ Len(past') = 1
  <2>1. s.busy \in [cpu : Int, skipped : Int]
    BY <1>1 DEF AnySituation, Interval
  <2>2. QED
    BY <1>1, <2>1
<1>3. GuardType'
  BY <1>1, <1>2 DEF GuardType, GuardSet, Unread, GuardStages
<1>4. ASSUME NEW g \in s.asks
      PROVE  CountsBreaches(g)' /\ ~Sustained(g)' /\ readAt'[g] = <<>> /\ guards'[g] = Unread
  <2>1. g \in GuardNames
    BY <1>1 DEF AnySituation
  <2>2. readAt'[g] = <<>> /\ guards'[g].breaches = 0 /\ guards'[g] = Unread
    BY <1>1, <2>1 DEF Unread
  <2>3. BreachSamples \in Nat \ {0}
    BY GuardAssumption
  <2>4. Len(readAt'[g]) = 0
    BY <2>2
  <2>5. QED
    BY <2>2, <2>3, <2>4 DEF CountsBreaches, Sustained
<1>5. BaselineOK'
  BY <1>1 DEF BaselineOK, Skipping, GuardNames
<1>6. QED
  BY <1>1, <1>3, <1>4, <1>5 DEF GuardRuns, ReasonsOK, Unread

\* Polling starts, or there is nothing to poll.
LEMMA GuardsBegin ==
    ASSUME GuardRuns, situation # <<>>, StartGuard PROVE GuardRuns'
<1>1. /\ guarding = "new" /\ UNCHANGED <<situation, past, baseline, stopFor, readAt>>
      /\ situation \in AnySituation
  BY DEF StartGuard, GuardRuns, GuardType
<1>2. \A g \in situation.asks : guards[g] = Unread
  BY <1>1 DEF GuardRuns
<1>3. CASE situation.asks = {} \/ ~situation.client
  <2> DEFINE Named == [live |-> FALSE, readings |-> 0, peak |-> 0, breaches |-> 0, reason |-> TRUE]
  <2>1. /\ guarding' = "none" /\ asking' = asking
        /\ guards' = [g \in situation.asks |-> Unavailable(guards[g])]
    BY <1>3 DEF StartGuard
  <2>2. \A g \in situation.asks : guards'[g] = Named
    <3>1. ASSUME NEW g \in situation.asks PROVE guards'[g] = Named
      <4>1. guards[g] = Unread /\ guards'[g] = Unavailable(guards[g])
        BY <1>2, <2>1
      <4>2. Unavailable(Unread) = Named
        BY DEF Unavailable, Unread
      <4>3. QED
        BY <4>1, <4>2
    <3>2. QED
      BY <3>1
  <2>3. GuardType'
    <3>1. Named \in GuardSet(Named)
      BY DEF GuardSet
    <3>2. \A g \in situation'.asks : guards'[g] \in GuardSet(guards'[g])
      BY <1>1, <2>2, <3>1
    <3>3. DOMAIN guards' = situation'.asks
      BY <1>1, <2>1
    <3> HIDE DEF Named
    <3>4. QED
      BY <1>1, <2>1, <3>2, <3>3 DEF GuardRuns, GuardType, GuardSet, GuardStages
  <2>4. ReasonsOK'
    <3>1. ASSUME NEW g \in situation.asks PROVE guards'[g].reason
      <4>1. guards'[g] = Named /\ Named.reason
        BY <2>2
      <4>2. QED
        BY <4>1
    <3>2. \A g \in situation'.asks : Excused(g)'
      BY <1>1, <3>1 DEF Excused
    <3>3. guarding' = "none"
      BY <2>1
    <3>4. QED
      BY <3>2, <3>3 DEF ReasonsOK
  <2>5. \A g \in situation.asks : guards'[g].breaches = guards[g].breaches
                                  /\ guards'[g].live = guards[g].live
    <3>1. Named.breaches = Unread.breaches /\ Named.live = Unread.live
      BY DEF Unread
    <3>2. QED
      BY <1>2, <2>2, <3>1
  <2>6. GuardGoesOn
    BY <1>1 DEF GuardGoesOn, GuardRuns, GuardType
  <2>7. QED
    BY <1>1, <2>1, <2>3, <2>4, <2>5, <2>6, CountsStay DEF GuardRuns
<1>4. CASE ~(situation.asks = {} \/ ~situation.client)
  <2>1. guarding' = "polling" /\ asking' = Wanted /\ guards' = guards
    BY <1>4 DEF StartGuard
  <2>2. GuardType'
    BY <1>1, <2>1, AskedIs DEF GuardRuns, GuardType, GuardStages
  <2>3. ReasonsOK'
    <3>1. Len(past') = 1 => ReasonsOK'
      BY <1>1, <2>1, AskedIs DEF ReasonsOK, GuardType
    <3>2. QED
      BY <1>1, <3>1 DEF GuardRuns
  <2>4. GuardGoesOn
    BY <1>1 DEF GuardGoesOn, GuardRuns, GuardType
  <2>5. QED
    BY <1>1, <2>1, <2>2, <2>3, <2>4, CountsStay DEF GuardRuns
<1>5. QED
  BY <1>3, <1>4

\* A poll has one guard less to ask about.
LEMMA OneIsAsked ==
    ASSUME GuardRuns, PollOnce, NEW g, g = Head(asking)
    PROVE  /\ g \in situation.asks /\ asking' = Tail(asking) /\ asking' \in Seq(situation.asks)
           /\ \A h : (\E k \in 1..Len(asking) : asking[k] = h)
                        => h = g \/ \E k \in 1..Len(asking') : asking'[k] = h
<1>1. asking \in Seq(situation.asks) /\ asking # <<>> /\ asking' = Tail(asking)
  BY DEF PollOnce, GuardRuns, GuardType
<1>2. ASSUME NEW k \in 1..Len(asking), asking[k] # g
      PROVE  \E i \in 1..Len(asking') : asking'[i] = asking[k]
  <2>1. k > 1 /\ k - 1 \in 1..Len(Tail(asking)) /\ Tail(asking)[k - 1] = asking[k]
    BY <1>1, <1>2
  <2>2. QED
    BY <1>1, <2>1
<1>3. QED
  BY <1>1, <1>2

\* What the guard that was asked reports goes with what the others had.
LEMMA ReasonsStay ==
    ASSUME GuardRuns, PollOnce, NEW g, g = Head(asking), situation'.asks = situation.asks,
           NEW r, guards' = [guards EXCEPT ![g] = r], r.live \/ r.reason
    PROVE  ReasonsOK'
<1>1. /\ guarding = "polling" /\ guarding' = "polling" /\ past' = past
      /\ DOMAIN guards = situation.asks
  BY DEF PollOnce, GuardRuns, GuardType
<1>2. /\ g \in situation.asks
      /\ \A h : (\E k \in 1..Len(asking) : asking[k] = h)
                   => h = g \/ \E k \in 1..Len(asking') : asking'[k] = h
  BY OneIsAsked
<1>3. \A h \in situation.asks : Excused(h) \/ h = g => Excused(h)'
  BY <1>1, <1>2 DEF Excused
<1>4. QED
  BY <1>1, <1>2, <1>3 DEF ReasonsOK, GuardRuns

\* A poll that fails or finds nothing.
LEMMA NothingIsRead ==
    ASSUME GuardRuns, PollOnce, NEW g, g = Head(asking), PollFails(g) \/ PollIsEmpty(g)
    PROVE  GuardRuns'
<1>1. /\ guards' = [guards EXCEPT ![g] = Unavailable(guards[g])]
      /\ UNCHANGED <<past, guarding, baseline, stopFor, readAt>> /\ guarding = "polling"
  BY DEF PollOnce, PollFails, PollIsEmpty
<1>2. /\ situation' \in AnySituation /\ situation'.asks = situation.asks
      /\ situation'.readable = situation.readable /\ situation'.limits = situation.limits
  <2>1. CASE PollFails(g)
    <3>1. situation.faults - 1 \in Nat
      BY <2>1 DEF PollFails, GuardRuns, GuardType, AnySituation
    <3>2. QED
      BY <2>1, <3>1 DEF PollFails, GuardRuns, GuardType, AnySituation
  <2>2. CASE PollIsEmpty(g)
    BY <2>2 DEF PollIsEmpty, GuardRuns, GuardType
  <2>3. QED
    BY <2>1, <2>2
<1>3. g \in situation.asks /\ asking' \in Seq(situation.asks) /\ DOMAIN guards = situation.asks
  BY OneIsAsked DEF GuardRuns, GuardType
<1>4. PICK r : r = Unavailable(guards[g])
  OBVIOUS
<1>5. /\ r \in GuardSet(r) /\ (r.live \/ r.reason)
      /\ r.breaches = guards[g].breaches /\ r.live = guards[g].live
  <2>1. guards[g] \in GuardSet(guards[g])
    BY <1>3 DEF GuardRuns, GuardType
  <2>2. QED
    BY <1>4, <2>1 DEF Unavailable, GuardSet
<1>6. ASSUME NEW h \in situation.asks
      PROVE  /\ guards'[h] \in GuardSet(guards'[h])
             /\ guards'[h].breaches = guards[h].breaches /\ guards'[h].live = guards[h].live
  <2>1. CASE h = g
    <3>1. guards'[h] = r
      BY <1>1, <1>3, <1>4, <2>1
    <3>2. QED
      BY <1>5, <2>1, <3>1
  <2>2. CASE h # g
    <3>1. guards'[h] = guards[h]
      BY <1>1, <1>3, <2>2
    <3>2. QED
      BY <3>1 DEF GuardRuns, GuardType
  <2>3. QED
    BY <2>1, <2>2
<1>7. GuardType'
  BY <1>1, <1>2, <1>3, <1>6 DEF GuardRuns, GuardType
<1>8. ReasonsOK'
  BY <1>1, <1>2, <1>4, <1>5, ReasonsStay
<1>9. GuardGoesOn
  BY <1>1, <1>2 DEF GuardGoesOn, GuardRuns, GuardType
<1>10. QED
  BY <1>1, <1>2, <1>6, <1>7, <1>8, <1>9, CountsStay DEF GuardRuns

\* What the target has skipped is counted in whole searches.
LEMMA SkipsAreCounted ==
    ASSUME GuardType, NEW n \in 1..Len(past) PROVE Skips(n) \in Int
<1>1. Lookback \in Nat /\ Len(past) \in Nat
  BY GuardAssumption DEF GuardType
<1>2. ASSUME NEW m \in 1..Len(past) PROVE past[m].skipped \in Int
  <2>1. past[m] \in [cpu : Int, skipped : Int]
    BY <1>2, ElementOfSeq DEF GuardType
  <2>2. QED
    BY <2>1
<1>3. n > Lookback => n - Lookback \in 1..Len(past)
  BY <1>1
<1>4. SkippedBefore(n) \in Int
  BY <1>2, <1>3 DEF SkippedBefore
<1>5. QED
  BY <1>2, <1>4 DEF Skips

\* A poll that reads keeps the counts of its guard and of the others.
LEMMA ReadingsAreCounted ==
    ASSUME GuardRuns, UNCHANGED <<situation, past>>, NEW g \in situation.asks,
           NEW r, r \in GuardSet(r), r.live, guards' = [guards EXCEPT ![g] = r],
           NEW n \in Nat, n = Len(readAt[g]),
           readAt' = [readAt EXCEPT ![g] = Append(readAt[g], Len(past))],
           NEW over \in BOOLEAN, Over(g, n + 1)' <=> over,
           r.breaches = IF over THEN guards[g].breaches + 1 ELSE 0,
           stopFor' = IF over /\ r.breaches >= BreachSamples /\ stopFor = "none" THEN g ELSE stopFor
    PROVE  /\ \A h \in situation.asks :
                 /\ guards'[h] \in GuardSet(guards'[h])
                 /\ guards'[h].live <=> readAt'[h] # <<>>
                 /\ CountsBreaches(h)'
                 /\ Sustained(h)' => stopFor' # "none"
           /\ stopFor' # "none" => Sustained(stopFor)'
           /\ DOMAIN guards' = situation.asks /\ stopFor' \in situation.asks \cup {"none"}
           /\ readAt' \in [GuardNames -> Seq(Nat)]
           /\ \A h \in GuardNames : \A k \in 1..Len(readAt'[h]) : readAt'[h][k] \in 1..Len(past)
<1>1. /\ GuardType /\ situation.asks \subseteq GuardNames /\ "none" \notin GuardNames
      /\ DOMAIN guards = situation.asks /\ DOMAIN readAt = GuardNames
      /\ Len(past) \in Nat /\ Len(past) > 0 /\ Len(past) \in 1..Len(past)
  <2>1. GuardType
    BY DEF GuardRuns
  <2>2. situation.asks \subseteq GuardNames
    BY <2>1 DEF GuardType, AnySituation
  <2>3. "none" \notin GuardNames
    BY DEF GuardNames
  <2>4. Len(past) \in Nat /\ Len(past) > 0
    BY <2>1 DEF GuardType
  <2>5. QED
    BY <2>1, <2>2, <2>3, <2>4 DEF GuardType
<1>2. guards'[g] = r /\ readAt'[g] = Append(readAt[g], Len(past)) /\ readAt[g] \in Seq(Nat)
  BY <1>1 DEF GuardType
<1>3. ASSUME NEW h \in GuardNames, h # g PROVE readAt'[h] = readAt[h]
  BY <1>1, <1>3
<1>4. ASSUME NEW h \in situation.asks, h # g PROVE guards'[h] = guards[h]
  BY <1>1, <1>4
<1>5. GuardGoesOn
  BY DEF GuardGoesOn, GuardRuns, GuardType
<1>6. /\ CountsBreaches(g)'
      /\ Sustained(g) => Sustained(g)'
      /\ Sustained(g)' => Sustained(g) \/ (over /\ r.breaches >= BreachSamples)
      /\ over /\ r.breaches >= BreachSamples => Sustained(g)'
  BY <1>1, <1>2, <1>5, OneRead DEF GuardRuns
<1>7. ASSUME NEW h \in situation.asks, h # g
      PROVE  CountsBreaches(h)' /\ (Sustained(h)' <=> Sustained(h))
  <2>1. readAt'[h] = readAt[h] /\ guards'[h].breaches = guards[h].breaches
    BY <1>1, <1>3, <1>4, <1>7
  <2>2. QED
    BY <1>1, <1>5, <2>1, NothingRead DEF GuardRuns
<1>8. /\ stopFor \in situation.asks \cup {"none"} /\ stopFor' \in situation.asks \cup {"none"}
      /\ stopFor # "none" => stopFor' = stopFor
  BY <1>1 DEF GuardType
<1>9. ASSUME NEW h \in situation.asks
      PROVE  /\ guards'[h] \in GuardSet(guards'[h])
             /\ guards'[h].live <=> readAt'[h] # <<>>
             /\ CountsBreaches(h)'
             /\ Sustained(h)' => stopFor' # "none"
  <2>1. CASE h = g
    <3>1. readAt'[g] # <<>>
      <4>1. Len(Append(readAt[g], Len(past))) = Len(readAt[g]) + 1 /\ Len(readAt[g]) \in Nat
        BY <1>2
      <4>2. QED
        BY <1>2, <4>1
    <3>2. Sustained(g)' => stopFor' # "none"
      BY <1>1, <1>6, <1>8 DEF GuardRuns
    <3>3. QED
      BY <1>2, <1>6, <2>1, <3>1, <3>2
  <2>2. CASE h # g
    <3>1. guards'[h] = guards[h] /\ readAt'[h] = readAt[h]
      BY <1>1, <1>3, <1>4, <2>2
    <3>2. QED
      BY <1>7, <1>8, <2>2, <3>1 DEF GuardRuns, GuardType
  <2>3. QED
    BY <2>1, <2>2
<1>10. stopFor' # "none" => Sustained(stopFor)'
  <2>1. ASSUME stopFor' # "none" PROVE Sustained(stopFor)'
    <3>1. PICK h \in situation.asks : h = stopFor'
      BY <1>8, <2>1
    <3>2. Sustained(h)'
      <4>1. CASE stopFor # "none"
        <5>1. h = stopFor
          BY <1>8, <3>1, <4>1
        <5>2. Sustained(h)
          <6>1. Sustained(stopFor)
            BY <4>1 DEF GuardRuns
          <6>2. QED
            BY <5>1, <6>1
        <5>3. QED
          BY <1>6, <1>7, <5>2
      <4>2. CASE stopFor = "none"
        BY <1>6, <2>1, <3>1, <4>2
      <4>3. QED
        BY <4>1, <4>2
    <3>3. QED
      BY <3>1, <3>2 DEF Sustained, Over, Truth
  <2>2. QED
    BY <2>1
<1>11. readAt' \in [GuardNames -> Seq(Nat)]
  BY <1>1, <1>2 DEF GuardType
<1>12. ASSUME NEW h \in GuardNames, NEW k \in 1..Len(readAt'[h]) PROVE readAt'[h][k] \in 1..Len(past)
  <2>1. CASE h = g
    <3>1. k \in 1..Len(readAt[g]) + 1
      BY <1>2, <1>12, <2>1
    <3>2. QED
      BY <1>1, <1>2, <2>1, <3>1 DEF GuardType
  <2>2. CASE h # g
    BY <1>1, <1>3, <1>12, <2>2 DEF GuardType
  <2>3. QED
    BY <2>1, <2>2
<1>13. DOMAIN guards' = situation.asks
  BY <1>1
<1>14. QED
  BY <1>8, <1>9, <1>10, <1>11, <1>12, <1>13

\* A poll that takes the baseline.
LEMMA BaselineIsRead ==
    ASSUME GuardRuns, PollOnce, NEW g, g = Head(asking), PollIsBaseline(g)
    PROVE  GuardRuns'
<1> DEFINE r == [Recorded(guards[g], 0, FALSE) EXCEPT !.breaches = guards[g].breaches]
<1>1. /\ g = Skipping /\ baseline = NoValue /\ baseline' = Rows(g) /\ guards' = [guards EXCEPT ![g] = r]
      /\ readAt' = [readAt EXCEPT ![g] = Append(readAt[g], Len(past))]
      /\ UNCHANGED <<past, guarding, situation, stopFor>> /\ guarding = "polling"
  BY DEF PollOnce, PollIsBaseline, Skipping
<1>2. /\ g \in situation.asks /\ asking' \in Seq(situation.asks) /\ DOMAIN guards = situation.asks
      /\ GuardType /\ g \in GuardNames /\ Len(past) \in 1..Len(past)
  <2>1. Len(past) \in Nat /\ Len(past) > 0
    BY DEF GuardRuns, GuardType
  <2>2. QED
    <3>1. g \in situation.asks /\ asking' \in Seq(situation.asks)
      BY OneIsAsked
    <3>2. GuardType /\ DOMAIN guards = situation.asks
      BY DEF GuardRuns, GuardType
    <3>3. g \in GuardNames /\ Len(past) \in 1..Len(past)
      BY <1>1, <2>1 DEF Skipping, GuardNames
    <3>4. QED
      BY <3>1, <3>2, <3>3
<1>3. readAt[g] = <<>> /\ Len(readAt[g]) = 0
  BY <1>1 DEF GuardRuns, BaselineOK
<1>4. guards[g].breaches = 0
  <2>1. CountsBreaches(g)
    BY <1>2 DEF GuardRuns
  <2>2. guards[g].breaches <= 0
    BY <1>3, <2>1 DEF CountsBreaches
  <2>3. guards[g] \in GuardSet(guards[g])
    BY <1>2 DEF GuardType
  <2>4. guards[g].breaches \in Nat
    BY <2>3 DEF GuardSet
  <2>5. QED
    BY <2>2, <2>4
<1>5. r \in GuardSet(r) /\ r.live /\ r.breaches = 0
  <2>1. guards[g] \in GuardSet(guards[g])
    BY <1>2 DEF GuardType
  <2>2. PICK s : s = guards[g]
    OBVIOUS
  <2>3. QED
    BY <1>4, <2>1, <2>2 DEF Recorded, Breaches, GuardSet
<1> HIDE DEF r
<1>6. readAt'[g] = <<Len(past)>> /\ readAt'[g][1] = Len(past) /\ readAt'[g] # <<>>
  <2>1. readAt'[g] = Append(<<>>, Len(past))
    BY <1>1, <1>2, <1>3 DEF GuardType
  <2>2. QED
    BY <2>1
<1>7. Over(g, 0 + 1)' <=> FALSE
  BY <1>1 DEF Over, Skipping
<1>8. /\ \A h \in situation.asks :
            /\ guards'[h] \in GuardSet(guards'[h])
            /\ guards'[h].live <=> readAt'[h] # <<>>
            /\ CountsBreaches(h)'
            /\ Sustained(h)' => stopFor' # "none"
      /\ stopFor' # "none" => Sustained(stopFor)'
      /\ DOMAIN guards' = situation.asks /\ stopFor' \in situation.asks \cup {"none"}
      /\ readAt' \in [GuardNames -> Seq(Nat)]
      /\ \A h \in GuardNames : \A k \in 1..Len(readAt'[h]) : readAt'[h][k] \in 1..Len(past)
  <2>1. PICK over \in BOOLEAN : over = FALSE
    OBVIOUS
  <2>2. PICK n \in Nat : n = 0
    OBVIOUS
  <2>3. QED
    BY <1>1, <1>2, <1>3, <1>5, <1>7, <2>1, <2>2, ReadingsAreCounted
<1>9. Rows(g) = IF Skipping \in situation.readable THEN Skips(Len(past)) ELSE 0
  BY <1>1 DEF Rows, Skipping
<1>10. Rows(g) \in Int
  BY <1>2, <1>9, SkipsAreCounted
<1>11. BaselineOK'
  <2>1. baseline' # NoValue /\ readAt'[Skipping] # <<>>
    BY <1>1, <1>6, <1>10, GuardAssumption
  <2>2. Skips(readAt[Skipping][1])' = Skips(Len(past))
    BY <1>1, <1>6 DEF Skips, SkippedBefore
  <2>3. QED
    BY <1>1, <1>9, <2>1, <2>2 DEF BaselineOK
<1>12. GuardType'
  BY <1>1, <1>2, <1>8, <1>10 DEF GuardType
<1>13. ReasonsOK'
  BY <1>1, <1>5, ReasonsStay
<1>14. QED
  BY <1>1, <1>8, <1>11, <1>12, <1>13 DEF GuardRuns

\* What a reading makes of its guard.
LEMMA ReadingIs ==
    ASSUME NEW s, s \in GuardSet(s), NEW value, NEW over \in BOOLEAN,
           NEW r, r = Recorded(s, value, over)
    PROVE  /\ r \in GuardSet(r) /\ r.live
           /\ r.breaches = IF over THEN s.breaches + 1 ELSE 0
<1>1. PICK readings, peak, breaches :
          /\ r = [s EXCEPT !.live = TRUE, !.reason = FALSE, !.readings = readings,
                           !.peak = peak, !.breaches = breaches]
          /\ breaches = IF over THEN s.breaches + 1 ELSE 0
  BY DEF Recorded, Breaches
<1>2. breaches \in Nat
  BY <1>1 DEF GuardSet
<1>3. r = [live |-> TRUE, readings |-> readings, peak |-> peak, breaches |-> breaches, reason |-> FALSE]
  BY <1>1 DEF GuardSet
<1>4. QED
  BY <1>1, <1>2, <1>3 DEF GuardSet

\* A poll that reads a value: it is what the target did.
LEMMA ValueIsRead ==
    ASSUME GuardRuns, PollOnce, NEW g, g = Head(asking), PollReads(g)
    PROVE  GuardRuns'
<1> DEFINE value == IF g = "sut_cpu_pct" THEN Rows(g) ELSE Max({0, Rows(g) - baseline})
           read == value > situation.limits[g]
           r == Recorded(guards[g], value, read)
<1>0. PICK n \in Nat : n = Len(readAt[g])
  <2>1. g \in GuardNames
    BY OneIsAsked DEF GuardRuns, GuardType, AnySituation
  <2>2. readAt[g] \in Seq(Nat)
    BY <2>1 DEF GuardRuns, GuardType
  <2>3. Len(readAt[g]) \in Nat
    BY <2>2
  <2>4. QED
    BY <2>3
<1>1. /\ guarding = "polling" /\ Rows(g) # NoValue /\ (g = "sut_cpu_pct" \/ baseline # NoValue)
      /\ guards' = [guards EXCEPT ![g] = r]
      /\ stopFor' = IF read /\ guards'[g].breaches >= BreachSamples /\ stopFor = "none"
                    THEN g ELSE stopFor
      /\ readAt' = [readAt EXCEPT ![g] = Append(readAt[g], Len(past))]
      /\ UNCHANGED <<past, guarding, situation, baseline>>
  BY DEF PollOnce, PollReads
<1>2. /\ g \in situation.asks /\ asking' \in Seq(situation.asks) /\ DOMAIN guards = situation.asks
      /\ GuardType /\ g \in {"sut_cpu_pct", Skipping} /\ g \in GuardNames
      /\ Len(past) \in 1..Len(past) /\ readAt[g] \in Seq(Nat)
  <2>1. Len(past) \in Nat /\ Len(past) > 0 /\ situation.asks \subseteq GuardNames /\ GuardType
    <3>1. GuardType
      BY DEF GuardRuns
    <3>2. Len(past) \in Nat /\ Len(past) > 0 /\ situation \in AnySituation
      BY <3>1 DEF GuardType
    <3>3. situation.asks \subseteq GuardNames
      BY <3>2 DEF AnySituation
    <3>4. QED
      BY <3>1, <3>2, <3>3
  <2>2. g \in situation.asks /\ asking' \in Seq(situation.asks)
    BY OneIsAsked
  <2>3. g \in GuardNames /\ g \in {"sut_cpu_pct", Skipping}
    BY <2>1, <2>2 DEF GuardNames, Skipping
  <2>4. readAt[g] \in Seq(Nat)
    BY <2>1, <2>3 DEF GuardType
  <2>5. QED
    BY <2>1, <2>2, <2>3, <2>4 DEF GuardType
<1>3. /\ Len(readAt'[g]) = n + 1 /\ readAt'[g][n + 1] = Len(past)
      /\ n > 0 => readAt'[g][1] = readAt[g][1]
      /\ n = 0 <=> readAt[g] = <<>>
  <2>1. readAt'[g] = Append(readAt[g], Len(past))
    BY <1>1, <1>2 DEF GuardType
  <2>2. QED
    BY <1>0, <1>2, <2>1
<1>4. r \in GuardSet(r) /\ r.live /\ r.breaches = (IF read THEN guards[g].breaches + 1 ELSE 0)
      /\ guards'[g] = r
  <2>1. guards[g] \in GuardSet(guards[g])
    BY <1>2 DEF GuardType
  <2>2. PICK over \in BOOLEAN : over <=> read
    OBVIOUS
  <2>3. r = Recorded(guards[g], value, over)
    BY <2>2 DEF Recorded, Breaches
  <2>4. guards'[g] = r
    BY <1>1, <1>2
  <2> HIDE DEF value, read, r
  <2>5. QED
    BY <2>1, <2>2, <2>3, <2>4, ReadingIs
<1>5. Truth(g, n + 1)' = value
  <2>1. CASE g = "sut_cpu_pct"
    <3>1. Rows(g) = Busiest(Len(past))
      BY <1>1, <2>1 DEF Rows
    <3>2. Busiest(Len(past))' = Busiest(Len(past))
      BY <1>1 DEF Busiest, Window
    <3>3. Truth(g, n + 1)' = Busiest(Len(past))'
      BY <1>1, <1>3, <2>1 DEF Truth
    <3>4. QED
      BY <2>1, <3>1, <3>2, <3>3
  <2>2. CASE g = Skipping
    <3>1. baseline # NoValue /\ g # "sut_cpu_pct"
      BY <1>1, <2>2 DEF Skipping
    <3>2. /\ n > 0
          /\ baseline = IF Skipping \in situation.readable THEN Skips(readAt[Skipping][1]) ELSE 0
      BY <1>2, <1>3, <2>2, <3>1 DEF GuardRuns, BaselineOK
    <3>3. Rows(g) = IF Skipping \in situation.readable THEN Skips(Len(past)) ELSE 0
      BY <2>2 DEF Rows, Skipping
    <3>4. CASE Skipping \in situation.readable
      <4>1. value = Max({0, Skips(Len(past)) - Skips(readAt[g][1])})
        BY <2>2, <3>1, <3>2, <3>3, <3>4
      <4>2. Truth(g, n + 1)' = Max({0, Skips(Len(past))' - Skips(readAt[g][1])'})
        BY <1>1, <1>3, <2>2, <3>1, <3>4 DEF Truth
      <4>3. Skips(Len(past))' = Skips(Len(past)) /\ Skips(readAt[g][1])' = Skips(readAt[g][1])
        BY <1>1, <1>3, <3>2 DEF Skips, SkippedBefore
      <4>4. QED
        BY <4>1, <4>2, <4>3
    <3>5. CASE Skipping \notin situation.readable
      <4>1. value = Max({0, 0 - 0})
        BY <3>1, <3>2, <3>3, <3>5
      <4>2. value = 0
        BY <4>1, AtLeastZero
      <4>3. QED
        BY <1>1, <2>2, <3>1, <3>5, <4>2 DEF Truth
    <3>6. QED
      BY <3>4, <3>5
  <2>3. QED
    BY <1>2, <2>1, <2>2
<1>6. g = "sut_cpu_pct" \/ n + 1 > 1
  BY <1>1, <1>2, <1>3 DEF GuardRuns, BaselineOK
<1>7. Over(g, n + 1)' <=> read
  BY <1>1, <1>5, <1>6 DEF Over
<1> HIDE DEF value, read, r
<1>8. PICK over \in BOOLEAN : over <=> read
  OBVIOUS
<1>9. /\ \A h \in situation.asks :
            /\ guards'[h] \in GuardSet(guards'[h])
            /\ guards'[h].live <=> readAt'[h] # <<>>
            /\ CountsBreaches(h)'
            /\ Sustained(h)' => stopFor' # "none"
      /\ stopFor' # "none" => Sustained(stopFor)'
      /\ DOMAIN guards' = situation.asks /\ stopFor' \in situation.asks \cup {"none"}
      /\ readAt' \in [GuardNames -> Seq(Nat)]
      /\ \A h \in GuardNames : \A k \in 1..Len(readAt'[h]) : readAt'[h][k] \in 1..Len(past)
  <2>1. /\ n = Len(readAt[g]) /\ (Over(g, n + 1)' <=> over)
        /\ r.breaches = (IF over THEN guards[g].breaches + 1 ELSE 0)
        /\ stopFor' = IF over /\ r.breaches >= BreachSamples /\ stopFor = "none" THEN g ELSE stopFor
    BY <1>0, <1>1, <1>4, <1>7, <1>8
  <2>2. QED
    BY <1>1, <1>2, <1>4, <2>1, ReadingsAreCounted
<1>10. BaselineOK'
  <2>1. (readAt'[Skipping] = <<>>) <=> (readAt[Skipping] = <<>>)
    <3>1. CASE g = Skipping
      <4>1. baseline # NoValue /\ readAt'[g] = Append(readAt[g], Len(past))
        BY <1>1, <1>2, <3>1 DEF GuardType, Skipping
      <4>2. readAt[Skipping] # <<>>
        BY <4>1 DEF GuardRuns, BaselineOK
      <4>3. readAt'[g] # <<>>
        <5>1. Len(readAt'[g]) = n + 1
          BY <1>3
        <5>2. n + 1 # 0
          OBVIOUS
        <5>3. QED
          BY <5>1, <5>2
      <4>4. QED
        BY <3>1, <4>1, <4>2, <4>3
    <3>2. CASE g # Skipping
      BY <1>1, <1>2, <3>2 DEF GuardType, Skipping
    <3>3. QED
      BY <3>1, <3>2
  <2>2. readAt[Skipping] # <<>> => readAt'[Skipping][1] = readAt[Skipping][1]
    BY <1>1, <1>2, <1>3 DEF GuardType, Skipping
  <2>3. readAt[Skipping] # <<>> => Skips(readAt[Skipping][1])' = Skips(readAt[Skipping][1])
    BY <1>1, <2>2 DEF Skips, SkippedBefore
  <2>4. QED
    BY <1>1, <2>1, <2>2, <2>3 DEF GuardRuns, BaselineOK
<1>11. GuardType'
  BY <1>1, <1>2, <1>9 DEF GuardType
<1>12. ReasonsOK'
  BY <1>1, <1>4, ReasonsStay
<1>13. QED
  BY <1>1, <1>9, <1>10, <1>11, <1>12 DEF GuardRuns

\* The other steps read nothing.
LEMMA GuardsGoOn ==
    ASSUME GuardRuns, situation # <<>>,
           GuardSleeps \/ StopGuard \/ UNCHANGED guardVars \/ \E does \in situation.does : GuardWakes(does)
    PROVE  GuardRuns'
<1> USE DEF GuardStages
<1>1. /\ UNCHANGED <<situation, guards, baseline, stopFor, readAt>>
      /\ GuardType /\ ReasonsOK /\ Len(past) \in Nat /\ Len(past) > 0
      /\ asking \in Seq(situation.asks)
  <2>1. UNCHANGED <<situation, guards, baseline, stopFor, readAt>>
    BY DEF GuardSleeps, StopGuard, guardVars, GuardWakes
  <2>2. GuardType /\ ReasonsOK
    BY DEF GuardRuns
  <2>3. Len(past) \in Nat /\ Len(past) > 0 /\ asking \in Seq(situation.asks)
    BY <2>2 DEF GuardType
  <2>4. QED
    BY <2>1, <2>2, <2>3
<1>2. ASSUME GuardType', GuardGoesOn, ReasonsOK', guarding' = "new" => UNCHANGED <<guarding, past>>
      PROVE  GuardRuns'
  BY <1>1, <1>2, CountsStay DEF GuardRuns
<1>3. CASE GuardSleeps
  <2>1. Len(asking) = 0
    BY <1>3 DEF GuardSleeps
  <2>2. ReasonsOK'
    BY <1>1, <1>3, <2>1 DEF ReasonsOK, Excused, GuardSleeps
  <2>3. GuardType' /\ GuardGoesOn
    BY <1>1, <1>3 DEF GuardType, GuardGoesOn, GuardSleeps
  <2>4. QED
    BY <1>2, <1>3, <2>2, <2>3 DEF GuardSleeps
<1>4. CASE StopGuard
  <2>1. ReasonsOK'
    BY <1>1, <1>4 DEF ReasonsOK, Excused, StopGuard
  <2>2. GuardType' /\ GuardGoesOn
    BY <1>1, <1>4 DEF GuardType, GuardGoesOn, StopGuard
  <2>3. QED
    BY <1>2, <1>4, <2>1, <2>2 DEF StopGuard
<1>5. CASE UNCHANGED guardVars
  <2>1. ReasonsOK'
    BY <1>1, <1>5 DEF ReasonsOK, Excused, guardVars
  <2>2. GuardType' /\ GuardGoesOn
    <3>1. UNCHANGED <<situation, past, asking, guards, baseline, guarding, stopFor, readAt>>
      BY <1>5 DEF guardVars
    <3>2. GuardType'
      BY <1>1, <3>1 DEF GuardType, GuardSet
    <3>3. GuardGoesOn
      BY <1>1, <3>1 DEF GuardType, GuardGoesOn
    <3>4. QED
      BY <3>2, <3>3
  <2>3. QED
    BY <1>2, <1>5, <2>1, <2>2 DEF guardVars
<1>6. ASSUME NEW does \in situation.does, GuardWakes(does) PROVE GuardRuns'
  <2>1. /\ guarding = "asleep" /\ guarding' = "polling" /\ asking' = Wanted
        /\ past' = Append(past, [does EXCEPT !.skipped = @ + past[Len(past)].skipped])
    BY <1>6 DEF GuardWakes
  <2>2. does \in [cpu : Int, skipped : Int] /\ past[Len(past)] \in [cpu : Int, skipped : Int]
    <3>1. does \in Interval
      BY <1>1, <1>6 DEF GuardType, AnySituation
    <3>2. does \in [cpu : Int, skipped : Int]
      BY <3>1 DEF Interval
    <3>3. past \in Seq([cpu : Int, skipped : Int]) /\ Len(past) \in 1..Len(past)
      BY <1>1 DEF GuardType
    <3>4. QED
      BY <3>2, <3>3, ElementOfSeq
  <2>3. PICK last \in [cpu : Int, skipped : Int] :
            last = [does EXCEPT !.skipped = @ + past[Len(past)].skipped]
    <3>1. does.skipped \in Int /\ past[Len(past)].skipped \in Int
      BY <2>2
    <3>2. PICK total \in Int : total = does.skipped + past[Len(past)].skipped
      BY <3>1
    <3>3. [does EXCEPT !.skipped = total] \in [cpu : Int, skipped : Int]
      BY <2>2
    <3>4. [does EXCEPT !.skipped = @ + past[Len(past)].skipped] = [does EXCEPT !.skipped = total]
      BY <3>2
    <3>5. QED
      BY <3>3, <3>4
  <2>4. /\ past' \in Seq([cpu : Int, skipped : Int]) /\ Len(past') = Len(past) + 1
        /\ \A i \in 1..Len(past) : past'[i] = past[i]
    BY <1>1, <2>1, <2>3 DEF GuardType
  <2>5. Wanted \in Seq(situation.asks)
    BY <1>1, AskedIs DEF GuardType
  <2>6. GuardType' /\ GuardGoesOn
    <3>1. \A g \in GuardNames : \A k \in 1..Len(readAt'[g]) : readAt'[g][k] \in 1..Len(past')
      <4>1. \A g \in GuardNames : \A k \in 1..Len(readAt[g]) : readAt[g][k] \in 1..Len(past)
        BY <1>1 DEF GuardType
      <4>2. 1..Len(past) \subseteq 1..Len(past') /\ readAt' = readAt
        BY <1>1, <2>4
      <4>3. QED
        BY <4>1, <4>2
    <3>2. GuardType'
      <4>1. UNCHANGED <<situation, guards, baseline, stopFor, readAt>> /\ guarding' \in GuardStages
        BY <1>1, <2>1 DEF GuardStages
      <4>2. Len(past') > 0 /\ asking' \in Seq(situation'.asks)
        BY <1>1, <2>1, <2>4, <2>5, <4>1 DEF GuardType
      <4>3. \A g \in situation'.asks : guards'[g] \in GuardSet(guards'[g])
        <5>1. \A g \in situation.asks : guards[g] \in GuardSet(guards[g])
          BY <1>1 DEF GuardType
        <5>2. QED
          BY <4>1, <5>1
      <4>4. QED
        BY <1>1, <2>4, <3>1, <4>1, <4>2, <4>3 DEF GuardType
    <3>3. GuardGoesOn
      BY <1>1, <2>4 DEF GuardGoesOn
    <3>4. QED
      BY <3>2, <3>3
  <2>7. ReasonsOK'
    BY <1>1, <2>1 DEF ReasonsOK, Excused
  <2>8. QED
    BY <1>2, <2>1, <2>6, <2>7
<1>7. QED
  BY <1>3, <1>4, <1>5, <1>6

\* Every step of the guards and of the target keeps the counts.
LEMMA GuardsStep == ASSUME GuardInv, [GuardNext]_guardVars PROVE GuardInv'
<1>1. CASE situation = <<>>
  <2>1. GuardInit
    BY <1>1 DEF GuardInv
  <2>2. CASE UNCHANGED guardVars
    BY <1>1, <2>1, <2>2 DEF GuardInv, GuardInit, guardVars
  <2>3. CASE GuardNext
    <3>1. PICK s \in Situations : ChooseGuards(s)
      BY <1>1, <2>1, <2>3 DEF GuardNext, GuardInit, StartGuard, PollOnce, GuardSleeps, StopGuard
    <3>2. QED
      BY <2>1, <3>1, GuardsStart DEF GuardInv
  <2>4. QED
    BY <2>2, <2>3
<1>2. CASE situation # <<>>
  <2> SUFFICES GuardRuns'
    BY SituationsAreGiven DEF GuardInv, GuardRuns, GuardType
  <2>1. GuardRuns
    BY <1>2 DEF GuardInv
  <2>2. CASE StartGuard
    BY <1>2, <2>1, <2>2, GuardsBegin
  <2>3. CASE PollOnce
    <3>1. PICK g : /\ g = Head(asking)
                   /\ PollFails(g) \/ PollIsEmpty(g) \/ PollIsBaseline(g) \/ PollReads(g)
      BY <2>3 DEF PollOnce
    <3>2. QED
      BY <2>1, <2>3, <3>1, NothingIsRead, BaselineIsRead, ValueIsRead
  <2>4. CASE GuardSleeps \/ StopGuard \/ UNCHANGED guardVars
             \/ \E does \in situation.does : GuardWakes(does)
    BY <1>2, <2>1, <2>4, GuardsGoOn
  <2>5. QED
    BY <1>2, <2>2, <2>3, <2>4 DEF GuardNext, ChooseGuards
<1>3. QED
  BY <1>1, <1>2

\* A guard stops the run exactly on two readings in a row over its limit, and the guards
\* named as unevaluated are those of which nothing was read (targetguard.py _breach, status).
THEOREM StopIsEarnedHolds == GuardSpec => []StopIsEarned
<1>1. GuardInit => GuardInv
  BY DEF GuardInit, GuardInv
<1>2. GuardInv /\ [GuardNext]_guardVars => GuardInv'
  BY GuardsStep
<1>3. GuardInv => StopIsEarned
  <2>1. CASE situation = <<>>
    <3> SUFFICES ASSUME GuardInit PROVE StopIsEarned
      BY <2>1 DEF GuardInv
    <3>1. guards = <<>> /\ stopFor = "none" /\ guarding = "new"
      BY DEF GuardInit
    <3>2. DOMAIN guards = {}
      BY <3>1
    <3>3. QED
      BY <3>1, <3>2 DEF StopIsEarned, Unevaluated
  <2>2. CASE situation # <<>>
    <3> SUFFICES ASSUME GuardRuns PROVE StopIsEarned
      BY <2>2 DEF GuardInv
    <3>1. DOMAIN guards = situation.asks
      BY DEF GuardRuns, GuardType
    <3>2. \A g \in DOMAIN guards : guards[g].live <=> readAt[g] # <<>>
      BY <3>1 DEF GuardRuns
    <3>3. guarding = "over" => \A g \in Unevaluated : guards[g].reason
      BY <3>1 DEF GuardRuns, ReasonsOK, Excused, Unevaluated
    <3>4. QED
      BY <3>1, <3>2, <3>3 DEF GuardRuns, StopIsEarned, Unevaluated
  <2>3. QED
    BY <2>1, <2>2
<1>4. QED
  BY <1>1, <1>2, <1>3, PTL DEF GuardSpec

-----------------------------------------------------------------------------
(* Verdict. *)

\* What a function makes of a finite set is finite.
LEMMA ImageIsFinite ==
    ASSUME NEW S, IsFiniteSet(S), NEW f PROVE IsFiniteSet({f[x] : x \in S})
<1> DEFINE T == {f[x] : x \in S}
           g == [x \in S |-> f[x]]
<1>1. g \in Surjection(S, T)
  BY DEF Surjection
<1>2. QED
  BY <1>1, FS_Surjection

\* A finite set of numbers that is not empty has a greatest one.
LEMMA MaxOfFinite ==
    ASSUME NEW T \in SUBSET Int, IsFiniteSet(T), T # {}
    PROVE  Max(T) \in T /\ \A y \in T : y <= Max(T)
<1> DEFINE Above(x) == {y \in T : y > x}
           Sets == {Above(x) : x \in T}
<1>1. Sets \subseteq FiniteSubsetsOf(T) /\ Sets # {}
  <2>1. ASSUME NEW x \in T PROVE Above(x) \in FiniteSubsetsOf(T)
    <3>1. Above(x) \in SUBSET T
      OBVIOUS
    <3> HIDE DEF Above
    <3>2. IsFiniteSet(Above(x))
      BY <3>1, FS_Subset
    <3>3. QED
      BY <3>1, <3>2 DEF FiniteSubsetsOf
  <2> HIDE DEF Above
  <2>2. QED
    BY <2>1
<1>2. IsWellFoundedOn(StrictSubsetOrdering(T), FiniteSubsetsOf(T))
  BY FS_StrictSubsetOrderingWellFounded
<1>3. PICK A \in Sets : \A B \in Sets : ~(<<B, A>> \in StrictSubsetOrdering(T))
  <2> HIDE DEF Sets
  <2> QED
    BY <1>1, <1>2, WFMin
<1>4. PICK x \in T : A = Above(x)
  OBVIOUS
<1>5. ASSUME NEW y \in T, y > x PROVE FALSE
  <2>1. y \in Above(x) /\ y \notin Above(y)
    BY <1>5
  <2>2. Above(y) \subseteq Above(x)
    <3>1. ASSUME NEW z \in T, z > y PROVE z > x
      <4>1. x \in Int /\ y \in Int /\ z \in Int
        OBVIOUS
      <4>2. QED
        BY <1>5, <3>1, <4>1
    <3>2. QED
      BY <3>1
  <2>3. <<Above(y), Above(x)>> \in StrictSubsetOrdering(T)
    BY <2>1, <2>2 DEF StrictSubsetOrdering
  <2>4. QED
    BY <1>3, <1>4, <2>3
<1>6. \A y \in T : x >= y
  BY <1>5
<1>7. Max(T) \in T /\ \A y \in T : Max(T) >= y
  BY <1>6 DEF Max
<1>8. QED
  BY <1>7

\* The latencies a run's workers saw of a step.
LatenciesOf(reports, step) == UNION {p[2].latencies : p \in Entries(reports, step)}

\* They are finitely many numbers: so are the steps and the latencies of a report.
LEMMA LatenciesAreFinite ==
    ASSUME NEW reports \in Endings, NEW step
    PROVE  /\ LatenciesOf(reports, step) \in SUBSET Nat
           /\ IsFiniteSet(LatenciesOf(reports, step))
<1> DEFINE Of(s) == {<<s, e>> : e \in {x \in reports[s].steps : step \in {Whole, x.step}}}
           family == {Of(s) : s \in Reporting(reports)}
           es == Entries(reports, step)
<1>1. es = UNION family
  BY DEF Entries
<1>2. ASSUME NEW s \in Reporting(reports)
      PROVE  /\ IsFiniteSet(Of(s))
             /\ \A p \in Of(s) : p[2].latencies \in SUBSET Nat /\ IsFiniteSet(p[2].latencies)
  <2> DEFINE D == {x \in reports[s].steps : step \in {Whole, x.step}}
             f == [e \in D |-> <<s, e>>]
  <2>1. s \in SlotIds /\ reports[s] # Lost
    BY DEF Reporting
  <2>2. /\ IsFiniteSet(reports[s].steps)
        /\ \A e \in reports[s].steps : e.latencies \in SUBSET Nat /\ IsFiniteSet(e.latencies)
    BY <2>1, VerdictAssumption
  <2>3. IsFiniteSet(D)
    BY <2>2, FS_Subset
  <2>4. IsFiniteSet({f[e] : e \in D})
    <3> HIDE DEF f, D
    <3> QED
      BY <2>3, ImageIsFinite
  <2>5. {f[e] : e \in D} = Of(s)
    OBVIOUS
  <2>6. \A p \in Of(s) : p[2] \in reports[s].steps
    OBVIOUS
  <2>7. QED
    BY <2>2, <2>4, <2>5, <2>6
<1>3. IsFiniteSet(family)
  <2> DEFINE R == Reporting(reports)
             g == [s \in R |-> Of(s)]
  <2>1. IsFiniteSet(R)
    BY VerdictAssumption, FS_Subset DEF Reporting
  <2>2. IsFiniteSet({g[s] : s \in R})
    <3> HIDE DEF g, R
    <3> QED
      BY <2>1, ImageIsFinite
  <2>3. {g[s] : s \in R} = family
    OBVIOUS
  <2>4. QED
    BY <2>2, <2>3
<1>4. IsFiniteSet(es)
  <2>1. \A T \in family : IsFiniteSet(T)
    BY <1>2
  <2> HIDE DEF family, es
  <2>2. QED
    BY <1>1, <1>3, <2>1, FS_UNION
<1>5. \A p \in es : p[2].latencies \in SUBSET Nat /\ IsFiniteSet(p[2].latencies)
  <2>1. \A p \in es : \E s \in Reporting(reports) : p \in Of(s)
    BY <1>1
  <2> HIDE DEF es, Of
  <2>2. QED
    BY <1>2, <2>1
<1> HIDE DEF es
<1>6. IsFiniteSet({p[2].latencies : p \in es})
  <2> DEFINE h == [p \in es |-> p[2].latencies]
  <2>1. IsFiniteSet({h[p] : p \in es})
    <3> HIDE DEF h
    <3> QED
      BY <1>4, ImageIsFinite
  <2>2. {h[p] : p \in es} = {p[2].latencies : p \in es}
    OBVIOUS
  <2>3. QED
    BY <2>1, <2>2
<1>7. \A L \in {p[2].latencies : p \in es} : L \in SUBSET Nat /\ IsFiniteSet(L)
  BY <1>5
<1>8. QED
  <2> DEFINE F == {p[2].latencies : p \in es}
  <2>1. LatenciesOf(reports, step) = UNION F
    BY DEF LatenciesOf, es
  <2> HIDE DEF F
  <2>2. UNION F \in SUBSET Nat /\ IsFiniteSet(UNION F)
    <3>1. IsFiniteSet(F) /\ \A L \in F : L \in SUBSET Nat /\ IsFiniteSet(L)
      BY <1>6, <1>7 DEF F
    <3>2. QED
      BY <3>1, FS_UNION
  <2>3. QED
    BY <2>1, <2>2

\* A latency that was measured is the greatest of those seen, and there are some.
LEMMA MeasuredIsSeen ==
    ASSUME NEW reports \in Endings, NEW g \in Gates, g.metric = "max",
           Measured(MergeSummaries(reports), g) # Unknown
    PROVE  /\ LatenciesOf(reports, g.step) \in SUBSET Nat
           /\ Measured(MergeSummaries(reports), g) \in LatenciesOf(reports, g.step)
           /\ \A v \in LatenciesOf(reports, g.step) : v <= Measured(MergeSummaries(reports), g)
<1> DEFINE summary == MergeSummaries(reports)
           seen == LatenciesOf(reports, g.step)
<1>1. summary.whole = Merged(reports, Whole) /\ DOMAIN summary.steps = StepsOf(reports)
      /\ \A t \in StepsOf(reports) : summary.steps[t] = Merged(reports, t)
  BY DEF MergeSummaries
<1>2. ~(g.step # Whole /\ g.step \notin DOMAIN summary.steps)
  BY DEF Measured
<1>3. Measured(summary, g) = Statistic(SectionOf(summary, g.step).latencies)
  BY <1>2 DEF Measured
<1>4. SectionOf(summary, g.step) = Merged(reports, g.step)
  BY <1>1, <1>2 DEF SectionOf
<1>5. SectionOf(summary, g.step).latencies = seen
  BY <1>4 DEF Merged, LatenciesOf
<1> HIDE DEF summary
<1>6. Measured(summary, g) # Unknown
  BY DEF summary
<1> HIDE DEF seen
<1>7. seen # {} /\ Measured(summary, g) = Max(seen)
  BY <1>3, <1>5, <1>6 DEF Statistic
<1>8. seen \in SUBSET Nat /\ IsFiniteSet(seen)
  BY LatenciesAreFinite DEF seen
<1>9. Max(seen) \in seen /\ \A v \in seen : v <= Max(seen)
  BY <1>7, <1>8, MaxOfFinite
<1>10. QED
  BY <1>7, <1>8, <1>9 DEF seen, summary

VerdictType ==
    /\ reportsOf \in [RunIds -> Endings \cup {Unknown}]
    /\ DOMAIN summaryOf = RunIds

SummaryOf(r) == IF r = Unknown THEN Unknown ELSE summaryOf[r]

\* A summary is the merge of the run's reports, and the verdict that stands is what its two
\* runs, neither of them deleted since, still say.
VerdictInv ==
    /\ VerdictType
    /\ \A r \in RunIds : summaryOf[r] # Unknown =>
          reportsOf[r] \in Endings /\ summaryOf[r] = MergeSummaries(reportsOf[r])
    /\ verdict # Unknown =>
          /\ verdict.candidate \in RunIds /\ summaryOf[verdict.candidate] # Unknown
          /\ verdict.baseline # Unknown =>
                verdict.baseline \in RunIds /\ summaryOf[verdict.baseline] # Unknown
          /\ verdict.gates \in SUBSET Gates
          /\ verdict.says = CompareRuns(summaryOf[verdict.candidate], SummaryOf(verdict.baseline),
                                        verdict.gates, verdict.allow)

\* Initially no run has a summary.
LEMMA VerdictStarts == VerdictInit => VerdictInv
  BY DEF VerdictInit, VerdictInv, VerdictType

\* A run that ends has the merge of its reports, and no verdict on it stood.
LEMMA RunIsFinished ==
    ASSUME VerdictInv, NEW r \in RunIds, NEW reports \in Endings, FinishRun(r, reports)
    PROVE  VerdictInv'
<1>1. summaryOf[r] = Unknown
  BY VerdictAssumption DEF FinishRun, VerdictInv
<1>2. VerdictType'
  BY DEF FinishRun, VerdictInv, VerdictType
<1>3. /\ reportsOf'[r] = reports /\ summaryOf'[r] = MergeSummaries(reports) /\ verdict' = verdict
      /\ \A q \in RunIds \ {r} : reportsOf'[q] = reportsOf[q] /\ summaryOf'[q] = summaryOf[q]
  BY DEF FinishRun, VerdictInv, VerdictType
<1>4. \A q \in RunIds : summaryOf'[q] # Unknown =>
          reportsOf'[q] \in Endings /\ summaryOf'[q] = MergeSummaries(reportsOf'[q])
  BY <1>3 DEF VerdictInv
<1>5. verdict # Unknown =>
          /\ verdict.candidate # r /\ summaryOf'[verdict.candidate] = summaryOf[verdict.candidate]
          /\ SummaryOf(verdict.baseline)' = SummaryOf(verdict.baseline)
          /\ verdict.baseline # Unknown => summaryOf'[verdict.baseline] = summaryOf[verdict.baseline]
  BY <1>1, <1>3 DEF VerdictInv, SummaryOf
<1>6. QED
  BY <1>2, <1>3, <1>4, <1>5 DEF VerdictInv

\* A run that is deleted takes the verdicts on it along.
LEMMA RunIsDeleted == ASSUME VerdictInv, NEW r \in RunIds, DeleteRun(r) PROVE VerdictInv'
<1>1. VerdictType'
  BY DEF DeleteRun, VerdictInv, VerdictType
<1>2. /\ summaryOf'[r] = Unknown
      /\ \A q \in RunIds \ {r} : reportsOf'[q] = reportsOf[q] /\ summaryOf'[q] = summaryOf[q]
  BY DEF DeleteRun, VerdictInv, VerdictType
<1>3. \A q \in RunIds : summaryOf'[q] # Unknown =>
          reportsOf'[q] \in Endings /\ summaryOf'[q] = MergeSummaries(reportsOf'[q])
  BY <1>2 DEF VerdictInv
<1>4. verdict' # Unknown => /\ verdict' = verdict
                            /\ verdict.candidate # r /\ verdict.baseline # r
  BY DEF DeleteRun
<1>5. verdict' # Unknown =>
          /\ summaryOf'[verdict.candidate] = summaryOf[verdict.candidate]
          /\ SummaryOf(verdict.baseline)' = SummaryOf(verdict.baseline)
          /\ verdict.baseline # Unknown => summaryOf'[verdict.baseline] = summaryOf[verdict.baseline]
  BY <1>2, <1>4 DEF VerdictInv, SummaryOf
<1>6. QED
  BY <1>1, <1>3, <1>4, <1>5 DEF VerdictInv

\* A verdict says what the two summaries say.
LEMMA RunsAreCompared ==
    ASSUME VerdictInv, NEW r \in RunIds, NEW base, NEW gates \in SUBSET Gates, NEW allow,
           Compare(r, base, gates, allow)
    PROVE  VerdictInv'
<1>1. /\ verdict'.candidate = r /\ verdict'.baseline = base /\ verdict'.gates = gates
      /\ verdict'.allow = allow
      /\ verdict'.says = CompareRuns(summaryOf[r], SummaryOf(base), gates, allow)
      /\ summaryOf[r] # Unknown /\ base # Unknown => base \in RunIds /\ summaryOf[base] # Unknown
      /\ UNCHANGED <<reportsOf, summaryOf, labelled>>
  BY DEF Compare, SummaryOf
<1>2. QED
  BY <1>1 DEF VerdictInv, VerdictType, SummaryOf, Compare

\* Every step keeps the invariant.
LEMMA VerdictKeeps == VerdictInv /\ [VerdictNext]_verdictVars => VerdictInv'
<1> SUFFICES ASSUME VerdictInv, [VerdictNext]_verdictVars PROVE VerdictInv'
  OBVIOUS
<1>1. ASSUME NEW r \in RunIds, NEW reports \in Endings, FinishRun(r, reports) PROVE VerdictInv'
  BY <1>1, RunIsFinished
<1>2. ASSUME NEW r \in RunIds, Promote(r) PROVE VerdictInv'
  BY <1>2 DEF Promote, VerdictInv, VerdictType, SummaryOf
<1>3. ASSUME NEW r \in RunIds, DeleteRun(r) PROVE VerdictInv'
  BY <1>3, RunIsDeleted
<1>4. ASSUME NEW r \in RunIds, NEW base, NEW g \in Gates, NEW allow, Compare(r, base, {g}, allow)
      PROVE  VerdictInv'
  <2>1. {g} \in SUBSET Gates
    OBVIOUS
  <2>2. QED
    BY <1>4, <2>1, RunsAreCompared
<1>5. CASE DeleteBaseline
  BY <1>5 DEF DeleteBaseline, VerdictInv, VerdictType, SummaryOf
<1>6. CASE UNCHANGED verdictVars
  BY <1>6 DEF verdictVars, VerdictInv, VerdictType, SummaryOf
<1>7. QED
  BY <1>1, <1>2, <1>3, <1>4, <1>5, <1>6 DEF VerdictNext

\* A valid summary: every slot reported, and measured the target.
LEMMA ValidIsApplied ==
    ASSUME VerdictInv, NEW r \in RunIds, summaryOf[r] # Unknown, summaryOf[r].valid
    PROVE  Applied(r)
<1>1. IsValid(reportsOf[r])
  <2>1. summaryOf[r] = MergeSummaries(reportsOf[r])
    BY DEF VerdictInv
  <2>2. MergeSummaries(reportsOf[r]).valid <=> IsValid(reportsOf[r])
    BY Zenon DEF MergeSummaries
  <2>3. QED
    BY <2>1, <2>2
<1>2. QED
  BY <1>1 DEF IsValid, AllValid, LostSlots, Reporting, Applied

\* A verdict that stands and says ok was earned.
LEMMA OkIsEarned == VerdictInv => VerdictIsEarned
<1> SUFFICES ASSUME VerdictInv, verdict # Unknown, verdict.says = "ok" PROVE VerdictIsEarned
  BY DEF VerdictIsEarned
<1> DEFINE r == verdict.candidate
           base == verdict.baseline
<1>1. /\ r \in RunIds /\ summaryOf[r] # Unknown /\ verdict.gates \in SUBSET Gates
      /\ base # Unknown => base \in RunIds /\ summaryOf[base] # Unknown
      /\ "ok" = CompareRuns(summaryOf[r], SummaryOf(base), verdict.gates, verdict.allow)
  BY DEF VerdictInv
<1>2. /\ ~Blocked(summaryOf[r], SummaryOf(base), verdict.allow)
      /\ \A g \in verdict.gates : Meets(g, summaryOf[r], SummaryOf(base))
  BY <1>1 DEF CompareRuns
<1>3. verdict.allow \/ (Applied(r) /\ (base # Unknown => Applied(base)))
  <2>1. ~verdict.allow => /\ summaryOf[r].valid
                          /\ SummaryOf(base) # Unknown => SummaryOf(base).valid
    BY <1>2 DEF Blocked
  <2>2. QED
    BY <1>1, <2>1, ValidIsApplied DEF SummaryOf
<1>4. ASSUME NEW g \in verdict.gates, g.metric = "max"
      PROVE  /\ Seen(r, g.step) # {}
             /\ g.form = "at most" => \A v \in Seen(r, g.step) : v <= g.amount
             /\ IsRelative(g) => \A v \in Seen(r, g.step) : \E w \in Seen(base, g.step) :
                   100 * v <= (IF g.form = "baseline plus" THEN 100 * (w + g.amount) ELSE w * (100 + g.amount))
  <2> DEFINE actual == Measured(summaryOf[r], g)
             limit == LimitOf(g, SummaryOf(base))
  <2>1. g \in Gates /\ g.amount \in Int
    BY <1>1, VerdictAssumption
  <2>2. /\ actual # Unknown /\ limit # Unknown
        /\ g.form # "bare" => actual <= limit
    BY <1>2 DEF Meets
  <2>3. summaryOf[r] = MergeSummaries(reportsOf[r]) /\ reportsOf[r] \in Endings
    BY <1>1 DEF VerdictInv
  <2>4. /\ LatenciesOf(reportsOf[r], g.step) \in SUBSET Nat
        /\ actual \in LatenciesOf(reportsOf[r], g.step)
        /\ \A v \in LatenciesOf(reportsOf[r], g.step) : v <= actual
    BY <1>4, <2>1, <2>2, <2>3, MeasuredIsSeen
  <2>5. \A q, step : Seen(q, step) = LatenciesOf(reportsOf[q], step)
    BY DEF Seen, LatenciesOf
  <2> HIDE DEF actual, limit
  <2>6. actual \in Nat /\ \A v \in Seen(r, g.step) : v \in Nat /\ v <= actual
    BY <2>4, <2>5
  <2>7. ASSUME g.form = "at most", NEW v \in Seen(r, g.step) PROVE v <= g.amount
    <3>1. limit = g.amount
      BY <2>7 DEF limit, LimitOf, IsRelative
    <3>2. actual <= g.amount
      BY <2>2, <2>7, <3>1
    <3>3. v \in Nat /\ v <= actual
      BY <2>6, <2>7
    <3>4. PICK a \in Int : a = g.amount
      BY <2>1
    <3>5. QED
      BY <2>6, <3>2, <3>3, <3>4
  <2>8. ASSUME IsRelative(g), NEW v \in Seen(r, g.step)
        PROVE  \E w \in Seen(base, g.step) :
                 100 * v <= (IF g.form = "baseline plus" THEN 100 * (w + g.amount) ELSE w * (100 + g.amount))
    <3> DEFINE w == Measured(SummaryOf(base), g)
    <3>1. SummaryOf(base) # Unknown /\ w # Unknown
      BY <2>2, <2>8 DEF limit, LimitOf
    <3>2. base # Unknown /\ SummaryOf(base) = summaryOf[base]
      BY <3>1 DEF SummaryOf
    <3>3. summaryOf[base] = MergeSummaries(reportsOf[base]) /\ reportsOf[base] \in Endings
      BY <1>1, <3>2 DEF VerdictInv
    <3>4. /\ LatenciesOf(reportsOf[base], g.step) \in SUBSET Nat
          /\ w \in LatenciesOf(reportsOf[base], g.step)
      BY <1>4, <2>1, <3>1, <3>2, <3>3, MeasuredIsSeen
    <3>5. limit = IF g.form = "baseline plus" THEN w + g.amount ELSE (w * (100 + g.amount)) \div 100
      BY <2>8, <3>1 DEF limit, LimitOf
    <3>6. actual <= limit
      BY <2>2, <2>8 DEF IsRelative
    <3> HIDE DEF w
    <3>7. w \in Nat /\ w \in Seen(base, g.step)
      BY <2>5, <3>4
    <3>8. v \in Nat /\ v <= actual
      BY <2>6
    <3> PICK a \in Int : a = g.amount
      BY <2>1
    <3>9. CASE g.form = "baseline plus"
      <4>1. limit = w + a
        BY <3>5, <3>9
      <4>2. v <= w + a
        BY <2>6, <3>6, <3>7, <3>8, <4>1
      <4>3. 100 * v <= 100 * (w + a)
        BY <3>7, <3>8, <4>2
      <4>4. QED
        BY <3>7, <3>9, <4>3
    <3>10. CASE g.form # "baseline plus"
      <4>1. PICK c \in Int : c = w * (100 + a)
        BY <3>7
      <4>2. limit = c \div 100
        BY <3>5, <3>10, <4>1
      <4>3. v <= c \div 100
        BY <2>6, <3>6, <3>8, <4>2
      <4>4. 100 * v <= c
        BY <3>8, <4>3
      <4>5. QED
        BY <3>7, <3>10, <4>1, <4>4
    <3>11. QED
      BY <3>9, <3>10
  <2>9. QED
    BY <2>4, <2>5, <2>7, <2>8
<1>5. QED
  BY <1>3, <1>4 DEF VerdictIsEarned

\* Ok is said of no run that lost a worker or measured something else, and no latency gate is
\* met by the absence of a measurement, for any runs, reports and gates.
THEOREM VerdictIsEarnedHolds == VerdictSpec => []VerdictIsEarned
<1>1. QED
  BY VerdictStarts, VerdictKeeps, OkIsEarned, PTL DEF VerdictSpec
=============================================================================
