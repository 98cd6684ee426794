-------------------------- MODULE RunControlProofs --------------------------
(***************************************************************************)
(* What holds of RunControl for any number of concurrent requests: the     *)
(* stop handshake, and the outcome a run thread has written.               *)
(***************************************************************************)
EXTENDS RunControl, TLAPS

States == {"pending", "running"} \cup Terminal
Steps  == {"idle", "lookup", "tell", "reread", "commit"}
Kinds  == {"none", "stop", "pause", "resume"}

ReqSet   == [step : Steps, kind : Kinds, saw : {"none"} \cup States]
SchedSet == [built : BOOLEAN, paused : BOOLEAN, stopping : BOOLEAN]

TypeOK ==
    /\ state \in States /\ paused \in BOOLEAN
    /\ stage \in Stages
    /\ entry \in BOOLEAN /\ stopFlag \in BOOLEAN
    /\ sched \in SchedSet
    /\ sawPause \in BOOLEAN
    /\ req \in [Requests -> ReqSet]

-----------------------------------------------------------------------------
(* The inductive invariant. *)

Published   == {"reading", "pausing", "checking", "loading", "finishing"}
SaidRunning == {"probing", "building"} \cup Published
Over        == {"popping", "gone"}

\* The entry is there from the registration to the pop.
EntryOK == entry <=> stage \in Executing \cup {"popping"}

\* The scheduler is published before the thread looks for a pause or a stop.
SchedOK == stage \in Published => sched.built

\* Only the thread says "running", and it has said how the run ended by the time
\* the entry goes.
StateOK ==
    /\ state = "running" => stage \in SaidRunning
    /\ stage \in Over => state \in Terminal

\* A stop that saw "running" found the entry, or comes when the outcome is
\* written; so the only stop that goes on to commit saw "pending".
RequestOK(q) ==
    /\ req[q].saw = "running" => stage \in SaidRunning \cup Over
    /\ At(q, "stop", "reread") /\ req[q].saw = "running" => stage = "gone"
    /\ At(q, "stop", "commit") => req[q].saw = "pending"
    /\ req[q].step \in {"lookup", "reread"} => req[q].saw \in {"pending", "running"}

\* A stop the thread did not see is still to be told to the scheduler.
HandshakeOK ==
    stage = "loading" /\ stopFlag /\ ~sched.stopping
        => \E q \in Requests : At(q, "stop", "tell")

ControlInv ==
    /\ TypeOK /\ EntryOK /\ SchedOK /\ StateOK /\ HandshakeOK
    /\ \A q \in Requests : RequestOK(q)

-----------------------------------------------------------------------------
(* The launch and the thread do not touch the requests. *)

ThreadStep == Launch \/ RunThread \/ ExecuteFails \/ EndLoad \/ LoadCutShort

\* Every step of the launch and of the run's thread keeps the invariant.
LEMMA ThreadKeeps ==
    ASSUME ControlInv, ThreadStep
    PROVE  ControlInv'
<1> USE DEF ControlInv, Thread, row
<1>1. req' = req
  BY DEF ThreadStep, Launch, RunThread, Prepare, Reject, Register, EngineStarts,
     SetRunning, ExecuteFails, Probe, PublishScheduler, ReadPause, HonourPause,
     HonourStop, EndLoad, LoadCutShort, Finish, Pop
<1>2. CASE Prepare
  <2>1. TypeOK'
    BY <1>1, <1>2 DEF Prepare, TypeOK, SchedSet, States, Stages, Terminal
  <2>2. EntryOK' /\ SchedOK' /\ StateOK' /\ HandshakeOK'
    BY <1>1, <1>2 DEF Prepare, TypeOK, SchedSet, EntryOK, SchedOK, StateOK, HandshakeOK,
       At, Executing, Published, SaidRunning, Over, Terminal
  <2>3. \A q \in Requests : RequestOK(q)'
    BY <1>1, <1>2 DEF Prepare, RequestOK, At, SaidRunning, Published, Over, Executing
  <2> QED
    BY <2>1, <2>2, <2>3
<1>3. CASE Reject
  <2>1. TypeOK'
    BY <1>1, <1>3 DEF Reject, TypeOK, SchedSet, States, Stages, Terminal
  <2>2. EntryOK' /\ SchedOK' /\ StateOK' /\ HandshakeOK'
    BY <1>1, <1>3 DEF Reject, TypeOK, SchedSet, EntryOK, SchedOK, StateOK, HandshakeOK,
       At, Executing, Published, SaidRunning, Over, Terminal
  <2>3. \A q \in Requests : RequestOK(q)'
    BY <1>1, <1>3 DEF Reject, RequestOK, At, SaidRunning, Published, Over, Executing
  <2> QED
    BY <2>1, <2>2, <2>3
<1>4. CASE Register
  <2>1. TypeOK'
    BY <1>1, <1>4 DEF Register, TypeOK, SchedSet, States, Stages, Terminal
  <2>2. EntryOK' /\ SchedOK' /\ StateOK' /\ HandshakeOK'
    BY <1>1, <1>4 DEF Register, TypeOK, SchedSet, EntryOK, SchedOK, StateOK, HandshakeOK,
       At, Executing, Published, SaidRunning, Over, Terminal
  <2>3. \A q \in Requests : RequestOK(q)'
    BY <1>1, <1>4 DEF Register, RequestOK, At, SaidRunning, Published, Over, Executing
  <2> QED
    BY <2>1, <2>2, <2>3
<1>5. CASE EngineStarts
  <2>1. TypeOK'
    BY <1>1, <1>5 DEF EngineStarts, TypeOK, SchedSet, States, Stages, Terminal
  <2>2. EntryOK' /\ SchedOK' /\ StateOK' /\ HandshakeOK'
    BY <1>1, <1>5 DEF EngineStarts, TypeOK, SchedSet, EntryOK, SchedOK, StateOK, HandshakeOK,
       At, Executing, Published, SaidRunning, Over, Terminal
  <2>3. \A q \in Requests : RequestOK(q)'
    BY <1>1, <1>5 DEF EngineStarts, RequestOK, At, SaidRunning, Published, Over, Executing
  <2> QED
    BY <2>1, <2>2, <2>3
<1>6. CASE SetRunning
  <2>1. TypeOK'
    BY <1>1, <1>6 DEF SetRunning, TypeOK, SchedSet, States, Stages, Terminal
  <2>2. EntryOK' /\ SchedOK' /\ StateOK' /\ HandshakeOK'
    BY <1>1, <1>6 DEF SetRunning, TypeOK, SchedSet, EntryOK, SchedOK, StateOK, HandshakeOK,
       At, Executing, Published, SaidRunning, Over, Terminal
  <2>3. \A q \in Requests : RequestOK(q)'
    BY <1>1, <1>6 DEF SetRunning, RequestOK, At, SaidRunning, Published, Over, Executing
  <2> QED
    BY <2>1, <2>2, <2>3
<1>7. CASE ExecuteFails
  <2>1. TypeOK'
    BY <1>1, <1>7 DEF ExecuteFails, TypeOK, SchedSet, States, Stages, Terminal
  <2>2. EntryOK' /\ SchedOK' /\ StateOK' /\ HandshakeOK'
    BY <1>1, <1>7 DEF ExecuteFails, TypeOK, SchedSet, EntryOK, SchedOK, StateOK, HandshakeOK,
       At, Executing, Published, SaidRunning, Over, Terminal
  <2>3. \A q \in Requests : RequestOK(q)'
    BY <1>1, <1>7 DEF ExecuteFails, RequestOK, At, SaidRunning, Published, Over, Executing
  <2> QED
    BY <2>1, <2>2, <2>3
<1>8. CASE Probe
  <2>1. TypeOK'
    BY <1>1, <1>8 DEF Probe, TypeOK, SchedSet, States, Stages, Terminal
  <2>2. EntryOK' /\ SchedOK' /\ StateOK' /\ HandshakeOK'
    BY <1>1, <1>8 DEF Probe, TypeOK, SchedSet, EntryOK, SchedOK, StateOK, HandshakeOK,
       At, Executing, Published, SaidRunning, Over, Terminal
  <2>3. \A q \in Requests : RequestOK(q)'
    BY <1>1, <1>8 DEF Probe, RequestOK, At, SaidRunning, Published, Over, Executing
  <2> QED
    BY <2>1, <2>2, <2>3
<1>9. CASE PublishScheduler
  <2>1. TypeOK'
    BY <1>1, <1>9 DEF PublishScheduler, TypeOK, SchedSet, States, Stages, Terminal
  <2>2. EntryOK' /\ SchedOK' /\ StateOK' /\ HandshakeOK'
    BY <1>1, <1>9 DEF PublishScheduler, TypeOK, SchedSet, EntryOK, SchedOK, StateOK, HandshakeOK,
       At, Executing, Published, SaidRunning, Over, Terminal
  <2>3. \A q \in Requests : RequestOK(q)'
    BY <1>1, <1>9 DEF PublishScheduler, RequestOK, At, SaidRunning, Published, Over, Executing
  <2> QED
    BY <2>1, <2>2, <2>3
<1>10. CASE ReadPause
  <2>1. TypeOK'
    BY <1>1, <1>10 DEF ReadPause, TypeOK, SchedSet, States, Stages, Terminal
  <2>2. EntryOK' /\ SchedOK' /\ StateOK' /\ HandshakeOK'
    BY <1>1, <1>10 DEF ReadPause, TypeOK, SchedSet, EntryOK, SchedOK, StateOK, HandshakeOK,
       At, Executing, Published, SaidRunning, Over, Terminal
  <2>3. \A q \in Requests : RequestOK(q)'
    BY <1>1, <1>10 DEF ReadPause, RequestOK, At, SaidRunning, Published, Over, Executing
  <2> QED
    BY <2>1, <2>2, <2>3
<1>11. CASE HonourPause
  <2>1. TypeOK'
    BY <1>1, <1>11 DEF HonourPause, ApplyPause, TypeOK, SchedSet, States, Stages, Terminal
  <2>2. EntryOK' /\ SchedOK' /\ StateOK' /\ HandshakeOK'
    BY <1>1, <1>11 DEF HonourPause, ApplyPause, TypeOK, SchedSet, EntryOK, SchedOK, StateOK, HandshakeOK,
       At, Executing, Published, SaidRunning, Over, Terminal
  <2>3. \A q \in Requests : RequestOK(q)'
    BY <1>1, <1>11 DEF HonourPause, RequestOK, At, SaidRunning, Published, Over, Executing
  <2> QED
    BY <2>1, <2>2, <2>3
<1>12. CASE HonourStop
  <2>1. TypeOK'
    BY <1>1, <1>12 DEF HonourStop, StopAsked, TypeOK, SchedSet, States, Stages, Terminal
  <2>2. EntryOK' /\ SchedOK' /\ StateOK' /\ HandshakeOK'
    BY <1>1, <1>12 DEF HonourStop, StopAsked, TypeOK, SchedSet, EntryOK, SchedOK, StateOK, HandshakeOK,
       At, Executing, Published, SaidRunning, Over, Terminal
  <2>3. \A q \in Requests : RequestOK(q)'
    BY <1>1, <1>12 DEF HonourStop, RequestOK, At, SaidRunning, Published, Over, Executing
  <2> QED
    BY <2>1, <2>2, <2>3
<1>13. CASE EndLoad
  <2>1. TypeOK'
    BY <1>1, <1>13 DEF EndLoad, TypeOK, SchedSet, States, Stages, Terminal
  <2>2. EntryOK' /\ SchedOK' /\ StateOK' /\ HandshakeOK'
    BY <1>1, <1>13 DEF EndLoad, TypeOK, SchedSet, EntryOK, SchedOK, StateOK, HandshakeOK,
       At, Executing, Published, SaidRunning, Over, Terminal
  <2>3. \A q \in Requests : RequestOK(q)'
    BY <1>1, <1>13 DEF EndLoad, RequestOK, At, SaidRunning, Published, Over, Executing
  <2> QED
    BY <2>1, <2>2, <2>3
<1>14. CASE LoadCutShort
  <2>1. TypeOK'
    BY <1>1, <1>14 DEF LoadCutShort, TypeOK, SchedSet, States, Stages, Terminal
  <2>2. EntryOK' /\ SchedOK' /\ StateOK' /\ HandshakeOK'
    BY <1>1, <1>14 DEF LoadCutShort, TypeOK, SchedSet, EntryOK, SchedOK, StateOK, HandshakeOK,
       At, Executing, Published, SaidRunning, Over, Terminal
  <2>3. \A q \in Requests : RequestOK(q)'
    BY <1>1, <1>14 DEF LoadCutShort, RequestOK, At, SaidRunning, Published, Over, Executing
  <2> QED
    BY <2>1, <2>2, <2>3
<1>15. CASE Finish
  <2>1. TypeOK'
    BY <1>1, <1>15 DEF Finish, SummaryOutcomes, TypeOK, SchedSet, States, Stages, Terminal
  <2>2. EntryOK' /\ SchedOK' /\ StateOK' /\ HandshakeOK'
    BY <1>1, <1>15 DEF Finish, SummaryOutcomes, TypeOK, SchedSet, EntryOK, SchedOK, StateOK, HandshakeOK,
       At, Executing, Published, SaidRunning, Over, Terminal
  <2>3. \A q \in Requests : RequestOK(q)'
    BY <1>1, <1>15 DEF Finish, RequestOK, At, SaidRunning, Published, Over, Executing
  <2> QED
    BY <2>1, <2>2, <2>3
<1>16. CASE Pop
  <2>1. TypeOK'
    BY <1>1, <1>16 DEF Pop, TypeOK, SchedSet, States, Stages, Terminal
  <2>2. EntryOK' /\ SchedOK' /\ StateOK' /\ HandshakeOK'
    BY <1>1, <1>16 DEF Pop, TypeOK, SchedSet, EntryOK, SchedOK, StateOK, HandshakeOK,
       At, Executing, Published, SaidRunning, Over, Terminal
  <2>3. \A q \in Requests : RequestOK(q)'
    BY <1>1, <1>16 DEF Pop, RequestOK, At, SaidRunning, Published, Over, Executing
  <2> QED
    BY <2>1, <2>2, <2>3
<1> QED
  BY <1>2, <1>3, <1>4, <1>5, <1>6, <1>7, <1>8, <1>9, <1>10, <1>11, <1>12, <1>13, <1>14, <1>15, <1>16
  DEF ThreadStep, Launch, RunThread

-----------------------------------------------------------------------------
(* The requests. *)

\* A request that moves leaves the other requests where they are.
LEMMA MoveOnly ==
    ASSUME TypeOK, NEW q \in Requests, NEW to \in ReqSet, Goes(q, to)
    PROVE  /\ req' \in [Requests -> ReqSet] /\ req'[q] = to
           /\ \A p \in Requests \ {q} : req'[p] = req[p]
BY DEF TypeOK, Goes

\* Going on to the next step keeps what the request is and what it read.
LEMMA OnwardOnly ==
    ASSUME TypeOK, NEW q \in Requests, NEW step \in Steps, Onward(q, step)
    PROVE  /\ req' \in [Requests -> ReqSet]
           /\ req'[q] = [req[q] EXCEPT !.step = step]
           /\ req'[q].step = step /\ req'[q].kind = req[q].kind
           /\ req'[q].saw = req[q].saw
           /\ \A p \in Requests \ {q} : req'[p] = req[p]
<1>1. req[q] \in ReqSet
  BY DEF TypeOK
<1>2. [req[q] EXCEPT !.step = step] \in ReqSet
  BY <1>1 DEF ReqSet
<1>3. Goes(q, [req[q] EXCEPT !.step = step])
  BY DEF Onward
<1>4. /\ req' \in [Requests -> ReqSet] /\ req'[q] = [req[q] EXCEPT !.step = step]
      /\ \A p \in Requests \ {q} : req'[p] = req[p]
  BY <1>2, <1>3, MoveOnly
<1> QED
  BY <1>1, <1>4 DEF ReqSet

\* A handler at rest is a request like any other.
LEMMA IdleType == Idle \in ReqSet
BY DEF Idle, ReqSet, Steps, Kinds

\* Every step of a handler keeps the invariant.
LEMMA HandlerKeeps ==
    ASSUME ControlInv, NEW q \in Requests,
           Handler(q) \/ \E kind \in {"stop", "pause", "resume"} : Arrive(q, kind)
    PROVE  ControlInv'
<1> USE DEF ControlInv, row
<1>1. ASSUME NEW kind \in {"stop", "pause", "resume"}, Arrive(q, kind)
      PROVE  ControlInv'
  <2>1. /\ req' \in [Requests -> ReqSet]
        /\ req'[q] = [step |-> "lookup", kind |-> kind, saw |-> state]
        /\ \A p \in Requests \ {q} : req'[p] = req[p]
    <3>1. [step |-> "lookup", kind |-> kind, saw |-> state] \in ReqSet
      BY DEF TypeOK, ReqSet, Steps, Kinds
    <3> QED
      BY <1>1, <3>1, MoveOnly DEF Arrive
  <2>2. TypeOK'
    BY <1>1, <2>1 DEF Arrive, TypeOK, SchedSet, States, Terminal
  <2>3. EntryOK' /\ SchedOK' /\ StateOK'
    BY <1>1 DEF Arrive, TypeOK, SchedSet, EntryOK, SchedOK, StateOK, Terminal
  <2>4. HandshakeOK'
    BY <1>1, <2>1 DEF Arrive, TypeOK, SchedSet, SchedOK, HandshakeOK, At, Published, Idle
  <2>5. \A p \in Requests : RequestOK(p)'
    BY <1>1, <2>1 DEF Arrive, TypeOK, EntryOK, StateOK, RequestOK, At, Idle, Executing,
       SaidRunning, Published, Over, Terminal, States
  <2> QED
    BY <2>2, <2>3, <2>4, <2>5
<1>2. CASE StopFinds(q)
  <2>1. /\ req' \in [Requests -> ReqSet]
        /\ req'[q].step = "tell" /\ req'[q].kind = req[q].kind
        /\ req'[q].saw = req[q].saw
        /\ \A p \in Requests \ {q} : req'[p] = req[p]
    BY <1>2, OnwardOnly DEF StopFinds, Steps
  <2>2. TypeOK'
    BY <1>2, <2>1 DEF StopFinds, TypeOK, SchedSet, States, Terminal
  <2>3. EntryOK' /\ SchedOK' /\ StateOK'
    BY <1>2 DEF StopFinds, TypeOK, SchedSet, EntryOK, SchedOK, StateOK, Terminal
  <2>4. HandshakeOK'
    BY <1>2, <2>1 DEF StopFinds, TypeOK, SchedSet, SchedOK, HandshakeOK, At, Published, Idle
  <2>5. \A p \in Requests : RequestOK(p)'
    BY <1>2, <2>1 DEF StopFinds, TypeOK, EntryOK, StateOK, RequestOK, At, Idle, Executing,
       SaidRunning, Published, Over, Terminal, States
  <2> QED
    BY <2>2, <2>3, <2>4, <2>5
<1>3. CASE StopTells(q)
  <2>1. /\ req' \in [Requests -> ReqSet] /\ req'[q] = Idle
        /\ \A p \in Requests \ {q} : req'[p] = req[p]
    BY <1>3, MoveOnly, IdleType DEF StopTells
  <2>2. TypeOK'
    BY <1>3, <2>1 DEF StopTells, TypeOK, SchedSet, States, Terminal
  <2>3. EntryOK' /\ SchedOK' /\ StateOK'
    BY <1>3 DEF StopTells, TypeOK, SchedSet, EntryOK, SchedOK, StateOK, Terminal
  <2>4. HandshakeOK'
    BY <1>3, <2>1 DEF StopTells, TypeOK, SchedSet, SchedOK, HandshakeOK, At, Published, Idle
  <2>5. \A p \in Requests : RequestOK(p)'
    BY <1>3, <2>1 DEF StopTells, TypeOK, EntryOK, StateOK, RequestOK, At, Idle, Executing,
       SaidRunning, Published, Over, Terminal, States
  <2> QED
    BY <2>2, <2>3, <2>4, <2>5
<1>4. CASE StopMisses(q)
  <2>1. /\ req' \in [Requests -> ReqSet]
        /\ req'[q].step = "reread" /\ req'[q].kind = req[q].kind
        /\ req'[q].saw = req[q].saw
        /\ \A p \in Requests \ {q} : req'[p] = req[p]
    BY <1>4, OnwardOnly DEF StopMisses, Steps
  <2>2. TypeOK'
    BY <1>4, <2>1 DEF StopMisses, TypeOK, SchedSet, States, Terminal
  <2>3. EntryOK' /\ SchedOK' /\ StateOK'
    BY <1>4 DEF StopMisses, TypeOK, SchedSet, EntryOK, SchedOK, StateOK, Terminal
  <2>4. HandshakeOK'
    BY <1>4, <2>1 DEF StopMisses, TypeOK, SchedSet, SchedOK, HandshakeOK, At, Published, Idle
  <2>5. \A p \in Requests : RequestOK(p)'
    BY <1>4, <2>1 DEF StopMisses, TypeOK, EntryOK, StateOK, RequestOK, At, Idle, Executing,
       SaidRunning, Published, Over, Terminal, States
  <2> QED
    BY <2>2, <2>3, <2>4, <2>5
<1>5. CASE StopRereads(q)
  <2>1. /\ req' \in [Requests -> ReqSet]
        /\ \A p \in Requests \ {q} : req'[p] = req[p]
        /\ \/ req'[q] = Idle
           \/ /\ req'[q].kind = "stop" /\ req'[q].step = "commit"
              /\ req'[q].saw = req[q].saw /\ state \notin Terminal
    <3>1. CASE state \in Terminal
      BY <1>5, <3>1, MoveOnly, IdleType DEF StopRereads, AlreadyOver
    <3>2. CASE state \notin Terminal
      BY <1>5, <3>2, OnwardOnly DEF StopRereads, AlreadyOver, Steps, At
    <3> QED
      BY <3>1, <3>2
  <2>2. TypeOK'
    BY <1>5, <2>1 DEF StopRereads, TypeOK, SchedSet, States, Terminal
  <2>3. EntryOK' /\ SchedOK' /\ StateOK'
    BY <1>5 DEF StopRereads, TypeOK, SchedSet, EntryOK, SchedOK, StateOK, Terminal
  <2>4. HandshakeOK'
    BY <1>5, <2>1 DEF StopRereads, TypeOK, SchedSet, SchedOK, HandshakeOK, At, Published, Idle
  <2>5. \A p \in Requests : RequestOK(p)'
    BY <1>5, <2>1 DEF StopRereads, TypeOK, EntryOK, StateOK, RequestOK, At, Idle, Executing,
       SaidRunning, Published, Over, Terminal, States
  <2> QED
    BY <2>2, <2>3, <2>4, <2>5
<1>6. CASE StopCommits(q)
  <2>1. /\ req' \in [Requests -> ReqSet] /\ req'[q] = Idle
        /\ \A p \in Requests \ {q} : req'[p] = req[p]
    BY <1>6, MoveOnly, IdleType DEF StopCommits
  <2>2. TypeOK'
    BY <1>6, <2>1 DEF StopCommits, TypeOK, SchedSet, States, Terminal
  <2>3. EntryOK' /\ SchedOK' /\ StateOK'
    BY <1>6 DEF StopCommits, TypeOK, SchedSet, EntryOK, SchedOK, StateOK, Terminal
  <2>4. HandshakeOK'
    BY <1>6, <2>1 DEF StopCommits, TypeOK, SchedSet, SchedOK, HandshakeOK, At, Published, Idle
  <2>5. \A p \in Requests : RequestOK(p)'
    BY <1>6, <2>1 DEF StopCommits, TypeOK, EntryOK, StateOK, RequestOK, At, Idle, Executing,
       SaidRunning, Published, Over, Terminal, States
  <2> QED
    BY <2>2, <2>3, <2>4, <2>5
<1>7. CASE ControlRefused(q)
  <2>1. /\ req' \in [Requests -> ReqSet] /\ req'[q] = Idle
        /\ \A p \in Requests \ {q} : req'[p] = req[p]
    BY <1>7, MoveOnly, IdleType DEF ControlRefused
  <2>2. TypeOK'
    BY <1>7, <2>1 DEF ControlRefused, TypeOK, SchedSet, States, Terminal
  <2>3. EntryOK' /\ SchedOK' /\ StateOK'
    BY <1>7 DEF ControlRefused, TypeOK, SchedSet, EntryOK, SchedOK, StateOK, Terminal
  <2>4. HandshakeOK'
    BY <1>7, <2>1 DEF ControlRefused, TypeOK, SchedSet, SchedOK, HandshakeOK, At, Published, Idle
  <2>5. \A p \in Requests : RequestOK(p)'
    BY <1>7, <2>1 DEF ControlRefused, TypeOK, EntryOK, StateOK, RequestOK, At, Idle, Executing,
       SaidRunning, Published, Over, Terminal, States
  <2> QED
    BY <2>2, <2>3, <2>4, <2>5
<1>8. CASE PauseTells(q)
  <2>1. /\ req' \in [Requests -> ReqSet]
        /\ req'[q].step = "commit" /\ req'[q].kind = req[q].kind
        /\ req'[q].saw = req[q].saw
        /\ \A p \in Requests \ {q} : req'[p] = req[p]
    BY <1>8, OnwardOnly DEF PauseTells, Steps
  <2>2. TypeOK'
    BY <1>8, <2>1 DEF PauseTells, TypeOK, SchedSet, States, Terminal
  <2>3. EntryOK' /\ SchedOK' /\ StateOK'
    BY <1>8 DEF PauseTells, TypeOK, SchedSet, EntryOK, SchedOK, StateOK, Terminal
  <2>4. HandshakeOK'
    BY <1>8, <2>1 DEF PauseTells, TypeOK, SchedSet, SchedOK, HandshakeOK, At, Published, Idle
  <2>5. \A p \in Requests : RequestOK(p)'
    BY <1>8, <2>1 DEF PauseTells, TypeOK, EntryOK, StateOK, RequestOK, At, Idle, Executing,
       SaidRunning, Published, Over, Terminal, States
  <2> QED
    BY <2>2, <2>3, <2>4, <2>5
<1>9. CASE ResumeTells(q)
  <2>1. /\ req' \in [Requests -> ReqSet]
        /\ req'[q].step = "commit" /\ req'[q].kind = req[q].kind
        /\ req'[q].saw = req[q].saw
        /\ \A p \in Requests \ {q} : req'[p] = req[p]
    BY <1>9, OnwardOnly DEF ResumeTells, Steps
  <2>2. TypeOK'
    BY <1>9, <2>1 DEF ResumeTells, TypeOK, SchedSet, States, Terminal
  <2>3. EntryOK' /\ SchedOK' /\ StateOK'
    BY <1>9 DEF ResumeTells, TypeOK, SchedSet, EntryOK, SchedOK, StateOK, Terminal
  <2>4. HandshakeOK'
    BY <1>9, <2>1 DEF ResumeTells, TypeOK, SchedSet, SchedOK, HandshakeOK, At, Published, Idle
  <2>5. \A p \in Requests : RequestOK(p)'
    BY <1>9, <2>1 DEF ResumeTells, TypeOK, EntryOK, StateOK, RequestOK, At, Idle, Executing,
       SaidRunning, Published, Over, Terminal, States
  <2> QED
    BY <2>2, <2>3, <2>4, <2>5
<1>10. CASE ControlCommits(q)
  <2>1. /\ req' \in [Requests -> ReqSet] /\ req'[q] = Idle
        /\ \A p \in Requests \ {q} : req'[p] = req[p]
    BY <1>10, MoveOnly, IdleType DEF ControlCommits
  <2>2. TypeOK'
    BY <1>10, <2>1 DEF ControlCommits, TypeOK, SchedSet, States, Terminal
  <2>3. EntryOK' /\ SchedOK' /\ StateOK'
    BY <1>10 DEF ControlCommits, TypeOK, SchedSet, EntryOK, SchedOK, StateOK, Terminal
  <2>4. HandshakeOK'
    BY <1>10, <2>1 DEF ControlCommits, TypeOK, SchedSet, SchedOK, HandshakeOK, At, Published, Idle
  <2>5. \A p \in Requests : RequestOK(p)'
    BY <1>10, <2>1 DEF ControlCommits, TypeOK, EntryOK, StateOK, RequestOK, At, Idle, Executing,
       SaidRunning, Published, Over, Terminal, States
  <2> QED
    BY <2>2, <2>3, <2>4, <2>5
<1> QED
  BY <1>1, <1>2, <1>3, <1>4, <1>5, <1>6, <1>7, <1>8, <1>9, <1>10 DEF Handler

-----------------------------------------------------------------------------
(* The theorems. *)

\* Nothing is running and nobody asks for anything.
LEMMA InitHolds == Init => ControlInv
<1> SUFFICES ASSUME Init
             PROVE  ControlInv
  OBVIOUS
<1>1. TypeOK
  BY IdleType DEF Init, TypeOK, NoScheduler, SchedSet, States, Stages
<1>2. EntryOK /\ SchedOK /\ StateOK /\ HandshakeOK
  BY DEF Init, EntryOK, SchedOK, StateOK, HandshakeOK, Executing, Published, Over
<1>3. \A q \in Requests : RequestOK(q)
  BY DEF Init, RequestOK, At, Idle
<1> QED
  BY <1>1, <1>2, <1>3 DEF ControlInv

\* Every step of a thread or a request keeps the invariant.
LEMMA StepKeeps == ControlInv /\ [Next]_vars => ControlInv'
<1> SUFFICES ASSUME ControlInv, [Next]_vars
             PROVE  ControlInv'
  OBVIOUS
<1>1. CASE UNCHANGED vars
  BY <1>1 DEF vars, ControlInv, TypeOK, EntryOK, SchedOK, StateOK, HandshakeOK,
     RequestOK, At
<1>2. CASE ThreadStep
  BY <1>2, ThreadKeeps
<1>3. CASE \E q \in Requests :
             \/ \E kind \in {"stop", "pause", "resume"} : Arrive(q, kind)
             \/ Handler(q)
  BY <1>3, HandlerKeeps
<1> QED
  BY <1>1, <1>2, <1>3 DEF Next, ThreadStep

\* Whatever the requests and the thread do between each other's reads and
\* commits, the invariant holds.
THEOREM ControlHolds == Spec => []ControlInv
BY InitHolds, StepKeeps, PTL DEF Spec

\* Once a stop that found the run has been answered and the thread generates
\* load, the scheduler knows (runner.py request_stop, _run_scenario): flag before
\* look on one side, publish before read on the other.
THEOREM StopReachesLoadHolds == Spec => []StopReachesLoad
<1>1. ControlInv => StopReachesLoad
  BY DEF ControlInv, HandshakeOK, StopReachesLoad, TypeOK, SchedSet
<1> QED
  BY <1>1, ControlHolds, PTL

\* The outcome the run thread wrote is not changed by a stop that was pressed
\* while the run showed as running (routes/runs.py stop_run).
THEOREM OutcomeIsKeptHolds == Spec => OutcomeIsKept
<1> DEFINE Kept == state' # state /\ stage \in {"popping", "gone"} =>
                     \E q \in Requests : At(q, "stop", "commit") /\ req[q].saw = "pending"
<1>1. ControlInv /\ [Next]_vars => [Kept]_vars
  <2> SUFFICES ASSUME ControlInv, Next, state' # state, stage \in {"popping", "gone"}
               PROVE  \E q \in Requests :
                        At(q, "stop", "commit") /\ req[q].saw = "pending"
    OBVIOUS
  <2>1. ~ThreadStep
    BY DEF ThreadStep, Launch, RunThread, Thread, row, Prepare, Reject, Register,
       EngineStarts, SetRunning, ExecuteFails, Probe, PublishScheduler, ReadPause,
       HonourPause, HonourStop, EndLoad, LoadCutShort, Finish, Pop, Executing
  <2>2. PICK q \in Requests : StopCommits(q)
    BY <2>1 DEF Next, ThreadStep, Handler, Arrive, StopFinds, StopTells, StopMisses,
       StopRereads, ControlRefused, PauseTells, ResumeTells, ControlCommits, row
  <2> QED
    BY <2>2 DEF StopCommits, ControlInv, RequestOK
<1> QED
  BY <1>1, ControlHolds, PTL DEF Spec, OutcomeIsKept

=============================================================================
