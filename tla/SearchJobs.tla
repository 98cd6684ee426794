----------------------------- MODULE SearchJobs -----------------------------
(***************************************************************************)
(* The API engine and its splunkd client (engines/api.py, splunk.py):      *)
(* searches dispatched, polled, read and deleted over one shared client,   *)
(* with a session key that expires, a drain that cancels what is left and  *)
(* a harvest that follows it.                                              *)
(*                                                                         *)
(* One event loop runs a task per search; an action is what runs between   *)
(* two awaits, or the target serving a request.  The target is the one     *)
(* fake_splunk.py plays, and may refuse, fail or not answer besides, as    *)
(* often as `faults` allows.                                               *)
(***************************************************************************)
EXTENDS Integers, FiniteSets

CONSTANTS
    Searches,
    Settings,       \* [token, ids, harvest, oneshot, faults]: the credential, whether the target
                    \* takes search ids, whether to follow up, who dispatches without a job
    MaxConcurrent

Nobody == "nobody"
AnySetting == [token : BOOLEAN, ids : BOOLEAN, harvest : BOOLEAN, oneshot : SUBSET Searches,
               faults : Nat]

ASSUME SearchJobsAssumption ==
    /\ IsFiniteSet(Searches) /\ Nobody \notin Searches /\ MaxConcurrent \in Nat \ {0}
    /\ Settings \subseteq AnySetting

VARIABLES
    setting,
    course,     \* new, load, drain, cancelled, harvest, tidy, closed; whether it ended normally
    call,       \* per search: what its task awaits
    session,    \* _auth_generation, who holds _auth_lock, and the logins that were refused
    customSid,  \* _custom_sid
    parked, following,   \* _parked, and those the harvest still follows
    target,     \* its jobs, the session keys it takes, whether the password is right
    faults,     \* bound: what the target and the network may still do wrong
    dispatched, filed, undeleted  \* history: jobs made, records filed, deletes that failed

searchVars == <<setting, course, call, session, customSid, parked, following, target, faults,
                dispatched, filed, undeleted>>

NewCall == [at |-> "new", asks |-> "none", gen |-> 0, retried |-> FALSE, answer |-> "none",
            sid |-> FALSE, out |-> "none", cut |-> FALSE]
NoSetting == [token |-> TRUE, ids |-> TRUE, harvest |-> FALSE, oneshot |-> {}, faults |-> 0]

Put(u, c) == call' = [call EXCEPT ![u] = c]
OneFault == faults > 0 /\ faults' = faults - 1

-----------------------------------------------------------------------------
(* The target. *)

\* _pump_locked: a queued job is admitted when there is room.
Admit(jobs) ==
    LET queued == {u \in Searches : jobs[u] = "queued"}
        running == {u \in Searches : jobs[u] = "running"}
    IN  IF queued # {} /\ Cardinality(running) < MaxConcurrent
        THEN [jobs EXCEPT ![CHOOSE u \in queued : TRUE] = "running"] ELSE jobs

JobEnds(u) ==
    /\ target.job[u] = "running"
    /\ \E end \in {"done", "failed"} :
          target' = [target EXCEPT !.job = Admit([@ EXCEPT ![u] = end])]
    /\ UNCHANGED <<setting, course, call, session, customSid, parked, following, faults,
                   dispatched, filed, undeleted>>

\* The session key ages out; the password may have been changed as well.
KeysExpire ==
    /\ course.at = "load" /\ target.keys # {} /\ OneFault
    /\ \E password \in {target.password, FALSE} :
          target' = [target EXCEPT !.keys = {}, !.password = password]
    /\ UNCHANGED <<setting, course, call, session, customSid, parked, following, dispatched,
                   filed, undeleted>>

\* What a request it accepts does to the target's jobs, and the answer.
Served(u, asks, jobs) ==
    CASE asks = "create" /\ ~setting.ids -> <<"bad", jobs>>
      [] asks = "plain" \/ (asks = "create" /\ setting.ids) ->
            <<"made", Admit([jobs EXCEPT ![u] = "queued"])>>
      [] asks = "poll" -> <<IF jobs[u] = "none" THEN "error" ELSE jobs[u], jobs>>
      [] asks = "delete" -> <<"ok", Admit([jobs EXCEPT ![u] = "none"])>>
      [] asks \in {"results", "oneshot"} -> <<"ok", jobs>>

Authorised(c) == setting.token \/ c.gen \in target.keys
Answer(u, status) == Put(u, [call[u] EXCEPT !.at = "answer", !.answer = status])

Serve(u) ==
    /\ call[u].at = "wire"
    /\ \/ LET served == Served(u, call[u].asks, target.job)
          IN  /\ Authorised(call[u])
              /\ Answer(u, served[1])
              /\ target' = [target EXCEPT !.job = served[2]]
              /\ dispatched' = [dispatched EXCEPT ![u] = @ + IF served[1] = "made" THEN 1 ELSE 0]
              /\ UNCHANGED faults
       \/ /\ ~Authorised(call[u]) /\ Answer(u, "401")
          /\ UNCHANGED <<target, dispatched, faults>>
       \/ /\ OneFault /\ \E status \in {"401", "403", "bad", "error"} : Answer(u, status)
          /\ UNCHANGED <<target, dispatched>>
    /\ UNCHANGED <<setting, course, session, customSid, parked, following, filed, undeleted>>

-----------------------------------------------------------------------------
(* How a request and its search end. *)

\* A call that awaits no answer; and one that does.
Idle(c, at) == [NewCall EXCEPT !.at = at, !.sid = c.sid, !.out = c.out, !.cut = c.cut]
Asks(c, what) == [c EXCEPT !.at = "wire", !.asks = what, !.gen = session.gen,
                           !.retried = FALSE, !.answer = "none"]

\* execute is over. A refused login is raised and ends the run; any other record is filed,
\* unless the task was cut off while it tidied up, or its record is filed already.
Returns(u, c) ==
    /\ Put(u, Idle(c, "over"))
    /\ filed' = [filed EXCEPT ![u] = @ + IF c.out = "rejected" \/ c.cut THEN 0 ELSE 1]
    /\ course' = IF c.out = "rejected" /\ course.at = "load"
                 THEN [at |-> "drain", normal |-> FALSE] ELSE course

\* The search is over, well or not: _tidy deletes its job as soon as there is a sid.
ReadToTheEnd(c) == c.sid /\ c.out = "ok"
HasJob(c) == c.sid
EndsWith(u, c, out) ==
    LET r == [c EXCEPT !.out = out]
    IN  /\ IF HasJob(r) THEN Put(u, Asks(r, "delete")) /\ UNCHANGED <<filed, course>>
           ELSE Returns(u, r)
        /\ UNCHANGED <<following, undeleted>>

\* The harvest has heard the last of a search.
Settled(u) ==
    /\ Put(u, Idle(call[u], "over")) /\ following' = following \ {u}
    /\ UNCHANGED <<course, filed, undeleted>>

\* A request failed: a delete that fails is let be, and the harvest drops what it cannot
\* read. A dispatch that was not answered is not sent again.
Fails(u, out) ==
    CASE call[u].asks = "delete" ->
            Returns(u, call[u]) /\ undeleted' = undeleted \cup {u} /\ UNCHANGED following
      [] call[u].asks # "delete" /\ u \in following -> Settled(u)
      [] OTHER -> EndsWith(u, call[u], out)

\* A request or its answer is lost, or takes too long.
Lose(u) ==
    /\ call[u].at \in {"wire", "answer"} /\ OneFault
    /\ \E out \in {"timeout", "client"} : Fails(u, out)
    /\ UNCHANGED <<setting, session, customSid, parked, target, dispatched>>

\* _request: a first 401 in session mode leads to a login; no other status does.
Refused(u) ==
    /\ call[u].at = "answer" /\ call[u].answer \in {"401", "403"}
    /\ IF call[u].answer = "401" /\ ~setting.token /\ ~call[u].retried
       THEN /\ Put(u, [call[u] EXCEPT !.at = "lock"])
            /\ UNCHANGED <<course, filed, following, undeleted>>
       ELSE Fails(u, "auth")
    /\ UNCHANGED <<setting, session, customSid, parked, target, faults, dispatched>>

-----------------------------------------------------------------------------
(* _refresh_session: one login at a time, and none for a generation that is over. *)

Resent(c, gen) == [c EXCEPT !.at = "wire", !.gen = gen, !.retried = TRUE, !.answer = "none"]

NeverRenewed(c) == FALSE
Renewed(c) == session.gen # c.gen

TakeLock(u) ==
    /\ call[u].at = "lock" /\ session.lock = Nobody
    /\ IF Renewed(call[u])
       THEN Put(u, Resent(call[u], session.gen)) /\ UNCHANGED session
       ELSE Put(u, [call[u] EXCEPT !.at = "login"]) /\ session' = [session EXCEPT !.lock = u]
    /\ UNCHANGED <<setting, course, customSid, parked, following, target, faults, dispatched,
                   filed, undeleted>>

LoginAccepted(u) ==
    /\ call[u].at = "login" /\ target.password
    /\ session' = [session EXCEPT !.gen = @ + 1, !.lock = Nobody]
    /\ target' = [target EXCEPT !.keys = @ \cup {session.gen + 1}]
    /\ Put(u, Resent(call[u], session.gen + 1))
    /\ UNCHANGED <<setting, course, customSid, parked, following, faults, dispatched, filed,
                   undeleted>>

LoginFails(u) ==
    /\ call[u].at = "login"
    /\ \/ /\ ~target.password /\ Fails(u, "rejected") /\ UNCHANGED faults
          /\ session' = [session EXCEPT !.lock = Nobody, !.refused = @ + 1]
       \/ /\ OneFault /\ Fails(u, "client") /\ session' = [session EXCEPT !.lock = Nobody]
    /\ UNCHANGED <<setting, customSid, parked, target, dispatched>>

-----------------------------------------------------------------------------
(* execute: a job is made, polled to its end, read and deleted. *)

Begin(u) ==
    /\ course.at = "load" /\ call[u].at = "new"
    /\ Put(u, Asks(call[u], IF u \in setting.oneshot THEN "oneshot"
                            ELSE IF customSid = "no" THEN "plain" ELSE "create"))
    /\ UNCHANGED <<setting, course, session, customSid, parked, following, target, faults,
                   dispatched, filed, undeleted>>

\* _create_job: until an id was accepted once, a 400 is tried again without one.
Created(u) ==
    LET c == call[u]
    IN  /\ c.at = "answer" /\ c.asks \in {"create", "plain"} /\ c.answer \in {"made", "bad", "error"}
        /\ CASE c.answer = "made" ->
                   /\ Put(u, [Idle(c, "sleep") EXCEPT !.sid = TRUE])
                   /\ customSid' = IF c.asks = "create" THEN "yes" ELSE "no"
                   /\ UNCHANGED <<course, filed, following, undeleted>>
             [] c.answer = "bad" /\ c.asks = "create" /\ customSid # "yes" ->
                   /\ Put(u, Asks(c, "plain"))
                   /\ UNCHANGED <<course, customSid, filed, following, undeleted>>
             [] OTHER -> EndsWith(u, c, "http") /\ UNCHANGED customSid
        /\ UNCHANGED <<setting, session, parked, target, faults, dispatched>>

Poll(u) ==
    /\ call[u].at = "sleep" /\ Put(u, Asks(call[u], "poll"))
    /\ UNCHANGED <<setting, course, session, customSid, parked, following, target, faults,
                   dispatched, filed, undeleted>>

\* A job that is done is read if the step wants results; one that failed is not.
Polled(u) ==
    LET c == call[u]
        Later == Put(u, Idle(c, IF u \in following THEN "over" ELSE "sleep"))
                 /\ UNCHANGED <<course, filed, following, undeleted>>
    IN  /\ c.at = "answer" /\ c.asks = "poll" /\ c.answer \notin {"401", "403"}
        /\ CASE c.answer \in {"queued", "running"} -> Later
             [] c.answer \notin {"queued", "running"} /\ u \in following -> Settled(u)
             [] c.answer = "done" /\ u \notin following ->
                   \/ Put(u, Asks(c, "results")) /\ UNCHANGED <<course, filed, following, undeleted>>
                   \/ EndsWith(u, c, "ok")
             [] OTHER -> EndsWith(u, c, IF c.answer = "failed" THEN "failed" ELSE "http")
        /\ UNCHANGED <<setting, session, customSid, parked, target, faults, dispatched>>

Read(u) ==
    LET c == call[u]
    IN  /\ c.at = "answer" /\ c.asks \in {"results", "oneshot"} /\ c.answer \notin {"401", "403"}
        /\ EndsWith(u, c, IF c.answer = "ok" THEN "ok" ELSE "http")
        /\ UNCHANGED <<setting, session, customSid, parked, target, faults, dispatched>>

Deleted(u) ==
    /\ call[u].at = "answer" /\ call[u].asks = "delete" /\ call[u].answer \notin {"401", "403"}
    /\ Returns(u, call[u])
    /\ undeleted' = IF call[u].answer = "ok" THEN undeleted ELSE undeleted \cup {u}
    /\ UNCHANGED <<setting, session, customSid, parked, following, target, faults, dispatched>>

-----------------------------------------------------------------------------
(* The end of the run: the drain, its cancellations, the harvest, close. *)

LoadEnds ==
    /\ course.at = "load"
    /\ \E normal \in BOOLEAN : course' = [at |-> "drain", normal |-> normal]
    /\ UNCHANGED <<setting, call, session, customSid, parked, following, target, faults,
                   dispatched, filed, undeleted>>

\* The drain's deadline: every task still there is cancelled. One that is tidying up is cut
\* off from its delete, which goes on; a job with a sid is left to the harvest.
InFlight == {u \in Searches : call[u].at \notin {"new", "over"}}
Tidying == {u \in InFlight : call[u].asks = "delete"}
Harvested == {u \in InFlight \ Tidying : call[u].sid /\ setting.harvest}
Cancelled(u) ==
    LET c == [call[u] EXCEPT !.out = "cancelled"]
    IN  CASE u \in Tidying -> [call[u] EXCEPT !.cut = TRUE]
          [] u \in Harvested -> [Idle(c, "over") EXCEPT !.cut = TRUE]
          [] u \in InFlight \ (Tidying \cup Harvested) ->
                IF c.sid THEN Asks(c, "delete") ELSE Idle(c, "over")
          [] OTHER -> call[u]
Cancel ==
    /\ course.at = "drain" /\ InFlight # {}
    /\ course' = [course EXCEPT !.at = "cancelled"]
    /\ call' = [u \in Searches |-> Cancelled(u)]
    /\ parked' = Harvested
    /\ filed' = [u \in Searches |->
                   filed[u] + IF u \in InFlight /\ call'[u].at = "over" THEN 1 ELSE 0]
    /\ session' = [session EXCEPT !.lock = IF @ \in InFlight \ Tidying THEN Nobody ELSE @]
    /\ UNCHANGED <<setting, customSid, following, target, faults, dispatched, undeleted>>

\* Scheduler._harvest: followed after a normal end, otherwise deleted at once.
AfterDrain ==
    /\ course.at \in {"drain", "cancelled"} /\ \A u \in InFlight : call[u].cut
    /\ LET follow == course.normal /\ setting.harvest
       IN  /\ course' = [course EXCEPT !.at = IF follow THEN "harvest" ELSE "tidy"]
           /\ following' = IF follow THEN parked ELSE {}
    /\ UNCHANGED <<setting, call, session, customSid, parked, target, faults, dispatched, filed,
                   undeleted>>

Waiting == InFlight \cap (parked \cup following) = {}
HarvestPolls(u) ==
    /\ course.at = "harvest" /\ u \in following /\ Waiting
    /\ Put(u, Asks(call[u], "poll"))
    /\ UNCHANGED <<setting, course, session, customSid, parked, following, target, faults,
                   dispatched, filed, undeleted>>

\* Nothing is left to follow, time is up, or a stop has come.
HarvestEnds ==
    /\ course.at = "harvest" /\ Waiting
    /\ following' = {} /\ course' = [course EXCEPT !.at = "tidy"]
    /\ UNCHANGED <<setting, call, session, customSid, parked, target, faults, dispatched, filed,
                   undeleted>>

TidyParked(u) ==
    /\ course.at = "tidy" /\ u \in parked /\ \A v \in InFlight : call[v].cut /\ call[v].out # "cancelled"
    /\ Put(u, Asks(call[u], "delete")) /\ parked' = parked \ {u}
    /\ UNCHANGED <<setting, course, session, customSid, following, target, faults, dispatched,
                   filed, undeleted>>

\* close(): what is still being deleted then is not.
Close ==
    /\ course.at = "tidy" /\ parked = {} /\ \A u \in InFlight : call[u].out # "cancelled"
    /\ course' = [course EXCEPT !.at = "closed"]
    /\ call' = [u \in Searches |-> IF u \in InFlight THEN Idle(call[u], "over") ELSE call[u]]
    /\ undeleted' = undeleted \cup InFlight
    /\ UNCHANGED <<setting, session, customSid, parked, following, target, faults, dispatched, filed>>

-----------------------------------------------------------------------------

SearchJobsInit ==
    /\ setting = NoSetting /\ course = [at |-> "new", normal |-> TRUE]
    /\ call = [u \in Searches |-> NewCall]
    /\ session = [gen |-> 0, lock |-> Nobody, refused |-> 0] /\ customSid = "unknown"
    /\ parked = {} /\ following = {}
    /\ target = [job |-> [u \in Searches |-> "none"], keys |-> {}, password |-> TRUE]
    /\ faults = 0 /\ undeleted = {}
    /\ dispatched = [u \in Searches |-> 0] /\ filed = [u \in Searches |-> 0]

\* start(): the pool is built and, in session mode, the first login made.
StartEngine(s) ==
    /\ course.at = "new" /\ course' = [course EXCEPT !.at = "load"]
    /\ setting' = s /\ faults' = s.faults
    /\ session' = [session EXCEPT !.gen = IF s.token THEN 0 ELSE 1]
    /\ target' = [target EXCEPT !.keys = IF s.token THEN {} ELSE {1}]
    /\ UNCHANGED <<call, customSid, parked, following, dispatched, filed, undeleted>>

SearchStep(u) ==
    \/ Begin(u) \/ Created(u) \/ Poll(u) \/ Polled(u) \/ Read(u) \/ Deleted(u)
    \/ Refused(u) \/ TakeLock(u) \/ LoginAccepted(u) \/ LoginFails(u) \/ Lose(u)
    \/ HarvestPolls(u) \/ TidyParked(u)

SearchJobsNext ==
    \/ \E s \in Settings : StartEngine(s)
    \/ \E u \in Searches : SearchStep(u) \/ Serve(u) \/ JobEnds(u)
    \/ KeysExpire \/ LoadEnds \/ Cancel \/ AfterDrain \/ HarvestEnds \/ Close

SearchJobsSpec == SearchJobsInit /\ [][SearchJobsNext]_searchVars

-----------------------------------------------------------------------------

\* However many requests are refused at once, one login follows a key that aged out or a
\* 401 that came by itself (splunk.py:13-22: the lock and the generation counter).
OneLoginPerRefusal ==
    course.at # "new" /\ ~setting.token => session.gen - 1 + faults <= setting.faults

\* When the engine is closed each search that began ran at most once on the target and was
\* filed once, but for one whose login was refused or that was cut off in its tidy-up; and
\* its job is gone, unless the delete failed or the dispatch's answer never arrived.
SearchesAreSettled ==
    course.at = "closed" =>
        \A u \in Searches :
            /\ dispatched[u] <= 1 /\ filed[u] <= 1
            /\ filed[u] = 0 => call[u].at = "new" \/ call[u].out = "rejected" \/ call[u].cut
            /\ target.job[u] # "none" => ~call[u].sid \/ u \in undeleted

(* What the comments say and TLC refutes (README, "Findings"). *)

\* A refused login is not repeated: it ends the run (api.py:567-574).
RefusedLoginIsNotRepeated == session.refused <= 1

\* A search that got its answer is filed, the tail of the run too (scheduler.py:969-983).
AnsweredIsFiled ==
    \A u \in Searches : course.at = "closed" /\ call[u].out = "ok" => filed[u] = 1
=============================================================================
