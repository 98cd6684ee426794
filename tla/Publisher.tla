------------------------------- MODULE Publisher -------------------------------
(***************************************************************************)
(* The shared copy of the configuration and of the run history             *)
(* (configsource.py, configio.py, runarchive.py): pulled at boot and by a  *)
(* button, pushed by a thread that compares every few seconds and by       *)
(* another button.  The pull, the publisher and the push are threads of    *)
(* one process; they share the database, the object store and the four     *)
(* fields of `_state`, and the operator edits meanwhile.                   *)
(*                                                                         *)
(* A document maps the names of its rows (targets, baseline labels) to     *)
(* what they hold: a target's version, the uid of a baseline's run.        *)
(***************************************************************************)
EXTENDS Naturals, FiniteSets

CONSTANTS
    TargetNames,   \* rows of section "targets" (scenarios travel the same way)
    Labels,        \* rows of section "baselines"
    Versions,      \* what a target row may say
    Uids,          \* runs, here or archived by an earlier instance
    Missing404,    \* no row, no document, nobody
    Sources        \* the situations explored: [copy, archive, ours, writes, remote,
                   \*   edits, faults, rebuilds, buttons], each of the numbers a bound;
                   \*   remote: an object store, not a directory

Names == TargetNames \cup Labels
Blank == [k \in Names |-> Missing404]
Documents ==
    {d \in [Names -> Versions \cup Uids \cup {Missing404}] :
        \A k \in Names : d[k] \in {Missing404} \cup IF k \in Labels THEN Uids ELSE Versions}
Threads == {"pull", "push", "publisher"}
Situations == [copy : Documents \cup {Missing404}, archive : SUBSET Uids, ours : SUBSET Uids,
               writes : BOOLEAN, remote : BOOLEAN, edits : Nat, faults : Nat, rebuilds : Nat,
               buttons : SUBSET {"pull", "push"}]

ASSUME PublisherAssumption ==
    /\ TargetNames \cap Labels = {}
    /\ Missing404 \notin Threads \cup Uids \cup Versions \cup Documents \cup Situations
    /\ Sources \subseteq Situations /\ \A s \in Sources : s.archive \cap s.ours = {}

VARIABLES
    source,      \* the situation, from OpenSource on
    serving,     \* the boot pull is over
    config,      \* the database's configuration: targets, and what each label points at
    history,     \* of each uid: "none", "ended" (terminal) or "settled" (30 s later)
    archivedAt,  \* the runs whose archived_at is set
    copy,        \* regulator-config.json, or Missing404
    archive,     \* runs/<uid>.json
    synced,      \* _state["synced"]: the document (its digest), or Missing404
    carried,     \* _state["carried"]
    writer,      \* the thread whose transaction holds the database's write lock
    thread,      \* of each thread: where it is, and its locals
    deleting,    \* the run a delete request has forgotten and not yet committed
    promised,    \* history: rows the boot pull found, not removed by the operator since
    pressed      \* history: the buttons pressed since the boot

publisherVars == <<source, serving, config, history, archivedAt, copy, archive, synced,
                   carried, writer, thread, deleting, promised, pressed>>
sharedState == <<source, history, archivedAt, archive, deleting, pressed>>

AtRest == [at |-> "idle", doc |-> Missing404, kept |-> <<>>, marks |-> {}, todo |-> {}]

\* The rows of d, and those of e under names d has no row for.
LaidOver(d, e) == [k \in Names |-> IF d[k] # Missing404 THEN d[k] ELSE e[k]]
Rows(doc) == IF doc = Missing404 THEN Blank ELSE doc
NamedRows(doc) == {k \in Names : Rows(doc)[k] # Missing404}
Has(u) == history[u] # "none"

Goes(t, at) == thread' = [thread EXCEPT ![t].at = at]
Stops(t) == thread' = [thread EXCEPT ![t] = AtRest] /\ writer' = IF writer = t THEN Missing404 ELSE writer
Fails(t) == source.faults > 0 /\ source' = [source EXCEPT !.faults = @ - 1] /\ Stops(t)
\* What a put that raises may leave: a directory is as it was, an object store may have done it.
MayLeave(old, new) == {old} \cup IF source.remote THEN {new} ELSE {}
Edit == serving /\ writer = Missing404 /\ source.edits > 0 /\ source' = [source EXCEPT !.edits = @ - 1]

-----------------------------------------------------------------------------
(* Pull: at boot before anything is served, and on the button. *)

PullGet ==
    /\ thread["pull"].at = "get"
    /\ \/ /\ thread' = [thread EXCEPT !["pull"] = [AtRest EXCEPT
                !.at = "apply", !.doc = copy]]
          /\ UNCHANGED <<source, writer, serving, pressed>>
       \/ Fails("pull") /\ serving' = TRUE  \* load_from_env never raises
    /\ UNCHANGED <<config, history, archivedAt, copy, archive, synced, carried, deleting, promised, pressed>>

\* import_config: the first flush takes the write lock for the rest of the session.
PullApply ==
    /\ thread["pull"].at = "apply" /\ writer = Missing404
    /\ writer' = "pull" /\ Goes("pull", "runs")
    /\ UNCHANGED <<sharedState, serving, config, copy, synced, carried, promised>>

\* pull_runs: every archived run that is not here; a failed listing imports none.
PullRuns ==
    /\ thread["pull"].at = "runs"
    /\ \/ /\ thread' = [thread EXCEPT !["pull"].at = "mark", !["pull"].marks = {u \in archive : ~Has(u)}]
          /\ UNCHANGED source
       \/ /\ source.faults > 0 /\ source' = [source EXCEPT !.faults = @ - 1]
          /\ Goes("pull", "mark")
    /\ UNCHANGED <<serving, config, history, archivedAt, copy, archive, synced, carried,
                   writer, deleting, promised, pressed>>

\* The configuration once the pull commits: an upsert by name, and the baselines whose run
\* is here or was imported with it.
Lands(k, v) == v # Missing404 /\ (k \in Labels => Has(v) \/ v \in thread["pull"].marks)
Pulled ==
    LET doc == Rows(thread["pull"].doc) IN [k \in Names |-> IF Lands(k, doc[k]) THEN doc[k] ELSE config[k]]

\* Rows that could not be applied are carried. The state is set before the commit.
NoneLeftOver(doc, here) == Blank
LeftOverRows(doc, here) == [k \in Names |-> IF here[k] = Missing404 THEN Rows(doc)[k] ELSE Missing404]
PullMark ==
    LET doc == thread["pull"].doc IN
    /\ thread["pull"].at = "mark"
    /\ carried' = LeftOverRows(doc, Pulled)
    /\ synced' = IF doc = Missing404 THEN synced ELSE doc
    /\ promised' = IF serving THEN promised ELSE NamedRows(doc)
    /\ Goes("pull", "commit")
    /\ UNCHANGED <<sharedState, serving, config, copy, writer>>

PullCommit ==
    LET marks == thread["pull"].marks IN
    /\ thread["pull"].at = "commit"
    /\ config' = Pulled
    /\ history' = [u \in Uids |-> IF u \in marks THEN "settled" ELSE history[u]]
    /\ archivedAt' = archivedAt \cup marks
    /\ serving' = TRUE
    /\ Stops("pull")
    /\ UNCHANGED <<source, copy, archive, synced, carried, deleting, promised, pressed>>

-----------------------------------------------------------------------------
(* The publisher's tick (maybe_push) and the button's push. *)

\* The rows this instance's document has: a baseline whose run is gone is left out.
Exported == [k \in Names |->
    IF k \in Labels /\ config[k] # Missing404 /\ ~Has(config[k]) THEN Missing404 ELSE config[k]]

\* archive_runs: the button does not wait for a run to settle.
Ripe(t) == IF t = "push" THEN {"ended", "settled"} ELSE {"settled"}
StartPush(t) ==
    /\ serving /\ source.writes /\ thread[t].at = "idle"
    /\ thread' = [thread EXCEPT ![t] = [AtRest EXCEPT
          !.at = "archive", !.todo = {u \in Uids : history[u] \in Ripe(t) /\ u \notin archivedAt}]]
    /\ UNCHANGED <<source, serving, config, history, archivedAt, copy, archive, synced, carried,
                   writer, deleting, promised>>

ArchiveRun(t, u) ==
    /\ thread[t].at = "archive" /\ u \in thread[t].todo
    /\ \/ /\ archive' = archive \cup {u}
          /\ thread' = [thread EXCEPT ![t].todo = @ \ {u}, ![t].marks = @ \cup {u}]
          /\ UNCHANGED <<source, writer>>
       \/ Fails(t) /\ archive' \in MayLeave(archive, archive \cup {u})
    /\ UNCHANGED <<serving, config, history, archivedAt, copy, synced, carried, deleting, promised, pressed>>

\* session.flush, where a run was written: it fails when the row is gone.
FlushMarks(t) ==
    /\ thread[t].at = "archive" /\ thread[t].todo = {}
    /\ IF thread[t].marks = {}
       THEN Goes(t, "document") /\ UNCHANGED writer
       ELSE /\ writer = Missing404
            /\ IF \A u \in thread[t].marks : Has(u)
               THEN Goes(t, "document") /\ writer' = t
               ELSE Stops(t)
    /\ UNCHANGED <<sharedState, serving, config, copy, synced, carried, promised>>

\* document: the export, and what is carried under names it does not have. A section that
\* carried anything is then written back as it was read, less what is here by now.
Sections == {TargetNames, Labels}
ToKeep == [k \in UNION {S \in Sections : \E j \in S : carried[j] # Missing404} |->
    IF Exported[k] # Missing404 THEN Missing404 ELSE carried[k]]
ReadDocument(t) ==
    /\ thread[t].at \in {"document", "again"}
    /\ thread' = [thread EXCEPT ![t].at = IF @ = "again" THEN "keepAgain" ELSE "keep",
                                ![t].doc = LaidOver(Exported, carried), ![t].kept = ToKeep]
    /\ UNCHANGED <<sharedState, serving, config, copy, synced, carried, writer, promised>>

\* maybe_push then compares, and push_config builds a changed document again.
NeverPushed(doc) == synced = Missing404
Changed(doc) == synced # doc
KeepCarried(t) ==
    LET kept == thread[t].kept IN
    /\ thread[t].at \in {"keep", "keepAgain"}
    /\ carried' = [k \in Names |-> IF k \in DOMAIN kept THEN kept[k] ELSE carried[k]]
    /\ Goes(t, IF t = "push" \/ thread[t].at = "keepAgain" THEN "put"
               ELSE IF Changed(thread[t].doc) THEN "again" ELSE "commit")
    /\ UNCHANGED <<sharedState, serving, config, copy, synced, writer, promised>>

PutDocument(t) ==
    /\ thread[t].at = "put"
    /\ \/ copy' = thread[t].doc /\ Goes(t, "note") /\ UNCHANGED <<source, writer>>
       \/ Fails(t) /\ copy' \in MayLeave(copy, thread[t].doc)
    /\ UNCHANGED <<serving, config, history, archivedAt, archive, synced, carried, deleting, promised, pressed>>

NoteSynced(t) ==
    /\ thread[t].at = "note"
    /\ synced' = thread[t].doc
    /\ Goes(t, "commit")
    /\ UNCHANGED <<sharedState, serving, config, copy, carried, writer, promised>>

CommitPush(t) ==
    /\ thread[t].at = "commit"
    /\ archivedAt' = archivedAt \cup thread[t].marks
    /\ Stops(t)
    /\ UNCHANGED <<source, serving, config, history, copy, archive, synced, carried, deleting, promised, pressed>>
-----------------------------------------------------------------------------
(* The operator, the runs, and the instance itself. *)

\* The upsert and the delete of a target, and of a baseline of a run that is over.
EditConfig(k, v) ==
    /\ Edit /\ v # config[k]
    /\ IF k \in TargetNames THEN v \in Versions \cup {Missing404}
       ELSE v = Missing404 \/ (v \in Uids /\ Has(v))
    /\ config' = [config EXCEPT ![k] = v]
    /\ promised' = IF v = Missing404 THEN promised \ {k} ELSE promised
    /\ UNCHANGED <<serving, history, archivedAt, copy, archive, synced, carried, writer, thread, deleting, pressed>>

RunIsOver(u) ==
    /\ serving /\ writer = Missing404
    /\ \/ history[u] = "none" /\ u \in source.ours /\ history' = [history EXCEPT ![u] = "ended"]
             /\ source' = [source EXCEPT !.ours = @ \ {u}]
       \/ history[u] = "ended" /\ history' = [history EXCEPT ![u] = "settled"] /\ UNCHANGED source
    /\ UNCHANGED <<serving, config, archivedAt, copy, archive, synced, carried, writer, thread,
                   deleting, promised, pressed>>

\* delete_run: refused while a baseline names the run; the archive goes first (a failure is
\* logged), the row when the request's transaction commits, and its baselines with it.
ForgetRun(u) ==
    /\ Edit /\ deleting = Missing404 /\ Has(u)
    /\ \A l \in Labels : config[l] # u
    /\ deleting' = u
    /\ archive' \in {archive, IF source.writes THEN archive \ {u} ELSE archive}
    /\ UNCHANGED <<serving, config, history, archivedAt, copy, synced, carried, writer, thread, promised, pressed>>
DeleteCommits ==
    /\ deleting # Missing404 /\ writer = Missing404
    /\ history' = [history EXCEPT ![deleting] = "none"]
    /\ archivedAt' = archivedAt \ {deleting}
    /\ config' = [k \in Names |-> IF k \in Labels /\ config[k] = deleting THEN Missing404 ELSE config[k]]
    /\ promised' = promised \ {l \in Labels : config[l] = deleting}
    /\ deleting' = Missing404
    /\ UNCHANGED <<source, serving, copy, archive, synced, carried, writer, thread, pressed>>

\* The two buttons, each once.
PressPull ==
    /\ serving /\ "pull" \in source.buttons \ pressed /\ pressed' = pressed \cup {"pull"}
    /\ thread["pull"].at = "idle" /\ Goes("pull", "get")
    /\ UNCHANGED <<source, serving, config, history, archivedAt, copy, archive, synced, carried,
                   writer, deleting, promised>>
PressPush ==
    /\ serving /\ "push" \in source.buttons \ pressed /\ pressed' = pressed \cup {"push"}
    /\ StartPush("push")

\* The instance is torn down, with or without its database, and boots again.
BootAgain(keeps) ==
    /\ source.rebuilds > 0 /\ source' = [source EXCEPT !.rebuilds = @ - 1]
    /\ IF keeps THEN UNCHANGED <<config, history, archivedAt>>
       ELSE config' = Blank /\ history' = [u \in Uids |-> "none"] /\ archivedAt' = {}
    /\ serving' = FALSE /\ synced' = Missing404 /\ carried' = Blank /\ promised' = {} /\ pressed' = {}
    /\ writer' = Missing404 /\ deleting' = Missing404
    /\ thread' = [t \in Threads |-> IF t = "pull" THEN [AtRest EXCEPT !.at = "get"] ELSE AtRest]
    /\ UNCHANGED <<copy, archive>>

OpenSource(s) ==
    /\ source = Missing404
    /\ source' = s /\ copy' = s.copy /\ archive' = s.archive
    /\ Goes("pull", "get")
    /\ UNCHANGED <<serving, config, history, archivedAt, synced, carried, writer, deleting, promised, pressed>>

PublisherInit ==
    /\ source = Missing404 /\ copy = Missing404 /\ archive = {}
    /\ serving = FALSE /\ config = Blank /\ history = [u \in Uids |-> "none"] /\ archivedAt = {}
    /\ synced = Missing404 /\ carried = Blank /\ promised = {} /\ pressed = {}
    /\ writer = Missing404 /\ deleting = Missing404
    /\ thread = [t \in Threads |-> AtRest]

PullSteps == PullGet \/ PullApply \/ PullRuns \/ PullMark \/ PullCommit
PushSteps(t) ==
    \/ \E u \in Uids : ArchiveRun(t, u)
    \/ FlushMarks(t) \/ ReadDocument(t) \/ KeepCarried(t)
    \/ PutDocument(t) \/ NoteSynced(t) \/ CommitPush(t)
\* _publish_forever: another interval is over.
TickComes == StartPush("publisher") /\ UNCHANGED pressed
Operator ==
    \/ \E k \in Names, v \in Versions \cup Uids \cup {Missing404} : EditConfig(k, v)
    \/ \E u \in Uids : RunIsOver(u) \/ ForgetRun(u)
    \/ PressPull \/ PressPush \/ \E keeps \in BOOLEAN : BootAgain(keeps)

PublisherNext ==
    \/ \E s \in Sources : OpenSource(s)
    \/ source # Missing404 /\
         \/ PullSteps \/ DeleteCommits \/ TickComes
         \/ \E t \in {"publisher", "push"} : PushSteps(t)
         \/ Operator

\* The threads run; operators, rebuilds and faults need not come. A put that fails ends the
\* tick, and there is always another one.
PublisherFairness ==
    /\ WF_publisherVars(PullSteps) /\ WF_publisherVars(DeleteCommits)
    /\ WF_publisherVars(TickComes)
    /\ \A t \in {"publisher", "push"} : WF_publisherVars(PushSteps(t))
PublisherSpec == PublisherInit /\ [][PublisherNext]_publisherVars /\ PublisherFairness

-----------------------------------------------------------------------------
\* The instance has the row, or will once the pull that is writing commits.
HasIt(k) == config[k] # Missing404 \/ (thread["pull"].at = "commit" /\ Pulled[k] # Missing404)

\* Whatever the instance's own rows, a row its boot pull found in the shared copy is still
\* there, applied or carried, until the operator removes it here (configsource.py:40-43).
\* Only one that a later pull has landed may be missing from the copy.
BootRowsAreKept ==
    \A k \in promised : k \in NamedRows(copy) \/ ("pull" \in pressed /\ HasIt(k))

\* When the edits are over what was last put is what this instance says, and so is a copy in
\* a directory: a change is never forgotten, whatever failed while it was pushed
\* (configsource.py:33-38). Of the publisher alone: a pull or a push beside it can leave
\* `synced` ahead of the copy.
PublisherAlone == serving /\ source.writes /\ pressed = {}
OwnDocument == LaidOver(Exported, carried)
CopyCatchesUp == <>[](PublisherAlone => synced = OwnDocument /\ (~source.remote => copy = OwnDocument))

-----------------------------------------------------------------------------
(* What the comments say and TLC refutes (README, "Findings"). *)

\* The same of the copy in an object store (configsource.py:34-37): after a put that raised
\* and was done, an edit back to the document last synced finds nothing to push.
SharedCopyIsCurrent == <>[](PublisherAlone => copy = OwnDocument)

\* Rows a pull skipped are kept in every push until this instance has them itself
\* (configsource.py:42-43): one is no longer carried from before the pull that lands it
\* commits, and the document read in between has it neither way.
SkippedRowsAreKept == promised \subseteq NamedRows(copy)

\* A baseline in the document never names a run that is not in the source yet
\* (configsource.py:550-551): a run that has not settled can already be a baseline.
BaselinesNameArchivedRuns ==
    source # Missing404 /\ copy \notin {Missing404, source.copy} =>
        \A l \in Labels : copy[l] \in archive \cup {Missing404} \/ carried[l] = copy[l]

\* The archive of a deleted run is removed, so that the next pull does not bring it back
\* (configsource.py:563): the publisher may be writing it.
DeletedRunsStayDeleted ==
    source # Missing404 /\ thread["publisher"].at = "idle" =>
        \A u \in archive : Has(u) \/ u \in source.archive \/ deleting = u

\* An instance that could not pull starts unconfigured (configsource.py:417-420), and the
\* publisher then writes its empty document over the shared one.
FailedBootKeepsTheCopy ==
    source # Missing404 /\ source.copy # Missing404 /\ config = Blank => copy # Blank
=============================================================================
