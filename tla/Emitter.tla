------------------------------- MODULE Emitter -------------------------------
(***************************************************************************)
(* Telemetry (hec.py HecEmitter): step records are queued by the load and  *)
(* posted in batches, by the background loop and by the run's own flushes. *)
(* One event loop; an action is what runs between two awaits.  A batch is  *)
(* the number of records in it.  The collector may accept a post, refuse   *)
(* it, fail or not answer.                                                 *)
(***************************************************************************)
EXTENDS Integers

CONSTANTS
    MaxRecords,   \* bound: records the load emits
    RetryAttempts

ASSUME EmitterAssumption == MaxRecords \in Nat /\ RetryAttempts \in Nat \ {0}

Flushers == {"loop", "run"}   \* _flush_loop, and the run's flush() and close()

VARIABLES
    queue,        \* _pending
    post,         \* per flusher: the batch it holds, the attempts made, what it awaits
    telling,      \* how far the run is with its telemetry
    looping,      \* the background task exists
    sent, dropped,
    reported,     \* the counters read for the summary
    emitted, cut  \* history: records emitted; records in a batch close() cut off

emitterVars == <<queue, post, telling, looping, sent, dropped, reported, emitted, cut>>

Resting == [size |-> 0, tries |-> 0, at |-> "idle"]

-----------------------------------------------------------------------------

\* start(): the background loop exists from here on.
StartEmitter ==
    /\ telling = "new" /\ telling' = "load" /\ looping' = TRUE
    /\ UNCHANGED <<queue, post, sent, dropped, reported, emitted, cut>>

\* emit, and the summary's own event: appended, never refused.
Emit ==
    /\ telling = "load" /\ emitted < MaxRecords
    /\ queue' = queue + 1 /\ emitted' = emitted + 1
    /\ UNCHANGED <<post, telling, looping, sent, dropped, reported, cut>>

\* _flush takes the whole queue before it first awaits.
LeftBehind == queue
Emptied == 0
Takes(f) ==
    /\ post' = [post EXCEPT ![f] = [size |-> queue, tries |-> 0, at |-> "post"]]
    /\ queue' = Emptied

\* The loop wakes up with something to send.
LoopFlushes ==
    /\ looping /\ post["loop"].at = "idle" /\ queue > 0
    /\ Takes("loop")
    /\ UNCHANGED <<telling, looping, sent, dropped, reported, emitted, cut>>

\* The answer to a post, or none. Only a failure of the collector or the network is
\* tried again, until the attempts are spent.
Answered(f) ==
    /\ post[f].at = "post"
    /\ \/ /\ sent' = sent + post[f].size /\ post' = [post EXCEPT ![f] = Resting]
          /\ UNCHANGED dropped
       \/ /\ dropped' = dropped + post[f].size /\ post' = [post EXCEPT ![f] = Resting]
          /\ UNCHANGED sent
       \/ /\ post[f].tries + 1 < RetryAttempts
          /\ post' = [post EXCEPT ![f].tries = @ + 1, ![f].at = "backoff"]
          /\ UNCHANGED <<sent, dropped>>
    /\ UNCHANGED <<queue, telling, looping, reported, emitted, cut>>

Retries(f) ==
    /\ post[f].at = "backoff"
    /\ post' = [post EXCEPT ![f].at = "post"]
    /\ UNCHANGED <<queue, telling, looping, sent, dropped, reported, emitted, cut>>

\* The run's steps: flush, read the counters and queue the summary, flush, close. A flush
\* waits for its own batch, not for one the loop has in flight.
RunIdle == post["run"].at = "idle"
RunFlushes(from, to) ==
    /\ telling = from /\ RunIdle
    /\ telling' = to
    /\ IF queue > 0 THEN Takes("run") ELSE UNCHANGED <<post, queue>>
    /\ UNCHANGED <<looping, sent, dropped, reported, emitted, cut>>

EmitSummary ==
    /\ telling = "summary" /\ RunIdle
    /\ reported' = sent + dropped
    /\ queue' = queue + 1 /\ emitted' = emitted + 1 /\ telling' = "last"
    /\ UNCHANGED <<post, looping, sent, dropped, cut>>

RunFails ==
    /\ telling = "load" /\ telling' = "close"
    /\ UNCHANGED <<queue, post, looping, sent, dropped, reported, emitted, cut>>

\* close(): the background task is cancelled, with the batch it may be posting.
CutOff == post["loop"].size
CancelLoop ==
    /\ telling = "close" /\ RunIdle
    /\ telling' = "rest" /\ looping' = FALSE
    /\ cut' = cut + CutOff
    /\ post' = [post EXCEPT !["loop"] = Resting]
    /\ UNCHANGED <<queue, sent, dropped, reported, emitted>>

Closes ==
    /\ telling = "last-rest" /\ RunIdle
    /\ telling' = "closed"
    /\ UNCHANGED <<queue, post, looping, sent, dropped, reported, emitted, cut>>

EmitterInit ==
    /\ queue = 0 /\ post = [f \in Flushers |-> Resting] /\ telling = "new" /\ looping = FALSE
    /\ sent = 0 /\ dropped = 0 /\ reported = 0 /\ emitted = 0 /\ cut = 0

EmitterNext ==
    \/ StartEmitter \/ Emit \/ LoopFlushes \/ EmitSummary \/ RunFails \/ CancelLoop \/ Closes
    \/ RunFlushes("load", "summary") \/ RunFlushes("last", "close")
    \/ RunFlushes("rest", "last-rest")
    \/ \E f \in Flushers : Answered(f) \/ Retries(f)

EmitterSpec == EmitterInit /\ [][EmitterNext]_emitterVars

-----------------------------------------------------------------------------

\* Once the emitter is closed every record was sent or counted as dropped, once, but for
\* the batch the background task was posting when close() cancelled it; and nothing is
\* left in the queue (_flush, close).
RecordsAreCounted ==
    telling = "closed" => /\ queue = 0 /\ \A f \in Flushers : post[f] = Resting
                        /\ sent + dropped + cut = emitted
=============================================================================
