-------------------------------- MODULE Library --------------------------------
(***************************************************************************)
(* The operator's scenario library (routes/scenarios.py, scenarioarchive.py,*)
(* scenariosource.py): one directory per scenario name, a bucket with one   *)
(* archive per name, and the run rows that name a scenario.  Requests are   *)
(* served by threads and take several steps; the server may be killed       *)
(* between any two, and on the next boot imports what the bucket has and    *)
(* the library lacks.  What a scenario says is a version.                   *)
(***************************************************************************)
EXTENDS Naturals, Sequences, SequencesExt

CONSTANTS
    ScenarioNames, Versions,
    Unloadable,   \* the versions load_scenario or lint refuses
    Uploads,      \* the archives that are uploaded
    Stories,      \* what is explored
    MaxMembers, MaxBytes,   \* ArchiveLimits: members, and bytes of one member
    NoCopy, NoStory

Contents == Versions \cup {NoCopy, "empty"}
AnyRequest ==
    [kind : {"create", "edit", "rename", "duplicate", "upload", "publish", "delete"},
     name : ScenarioNames, to : ScenarioNames, what : Versions \cup {NoCopy},
     flag : BOOLEAN, live : BOOLEAN, archive : Uploads]
AnyStory ==
    [tree : [ScenarioNames -> Contents], bucket : [ScenarioNames -> Versions \cup {NoCopy}],
     requests : Seq(AnyRequest), writes : BOOLEAN, overlap : BOOLEAN, faults : Nat, crashes : Nat]
\* The scenario the runs of before are of, which is in the library.
FirstNamed == CHOOSE n \in ScenarioNames : TRUE

ASSUME LibraryAssumption ==
    /\ MaxMembers \in Nat /\ MaxBytes \in Nat
    /\ ScenarioNames # {} /\ {NoCopy, "empty"} \cap Versions = {} /\ NoCopy # "empty"
    /\ Stories \subseteq AnyStory /\ NoStory \notin AnyStory
    /\ \A s \in Stories : s.tree[FirstNamed] \in Versions

VARIABLES
    story,        \* the situation, with the faults and crashes still to come
    tree,         \* the directory of each name: NoCopy, "empty", or the version it holds
    bucket,       \* the archive of each name: NoCopy or its version
    named,        \* the scenario the run rows name
    stage,        \* per request: how far it is, or its answer
    held          \* per request: what it has read, in a dot-directory or in memory

libraryVars == <<story, tree, bucket, named, stage, held>>

Answers == {"ok", "warned", "absent", "refused", "failed", "killed"}
Requests == 1..Len(story.requests)
Req(i) == story.requests[i]
\* scenario_path: there is a scenario where scenario.yaml is a file.
Found(n) == tree[n] \notin {NoCopy, "empty"}
\* A rename replaces nothing, or an empty directory.
IsFree(n) == tree[n] \in {NoCopy, "empty"}
\* The name a request ends up writing.
Target(i) == IF Req(i).kind \in {"rename", "duplicate"} THEN Req(i).to ELSE Req(i).name

Moves(i, from, to) == stage[i] = from /\ stage' = [stage EXCEPT ![i] = to]
Puts(n, v) == tree' = [tree EXCEPT ![n] = v]
Keeps(i, v) == held' = [held EXCEPT ![i] = v]
Fault == story.faults > 0 /\ story' = [story EXCEPT !.faults = @ - 1]
\* Requests that do not overlap are served in their order.
Turn(i) == story.overlap \/ \A j \in 1..(i - 1) : stage[j] \in Answers

-----------------------------------------------------------------------------
(* Archives: an upload is [format, members, version], a member is           *)
(* [type, escapes, bytes, at], "at" being where it lies: "root", or the     *)
(* top-level directory it is in.                                            *)

\* _extract_tar, _extract_zip: links and devices are refused, never skipped; no member
\* escapes; the bytes produced are capped, for each member and together.
MemberIsSafe(m) == m.type \in {"file", "dir"} /\ ~m.escapes /\ m.bytes <= MaxBytes
TotalBytes(ms) == FoldLeft(LAMBDA sum, m : sum + m.bytes, 0, ms)
\* find_scenario_root: scenario.yaml at the top, or in the only top-level directory.
OneRoot(ms) ==
    LET yamls == {m \in ToSet(ms) : m.yaml}
    IN  \/ \E m \in yamls : m.at = "root"
        \/ \E m \in yamls : \A o \in ToSet(ms) : o.at \in {m.at, "root"}
Extracts(a) ==
    /\ a.format \in {"zip", "tar"} /\ Len(a.members) <= MaxMembers
    /\ \A m \in ToSet(a.members) : MemberIsSafe(m)
    /\ TotalBytes(a.members) <= 4 * MaxBytes   \* the shipped caps: 8 MiB each, 32 MiB together
    /\ OneRoot(a.members)

-----------------------------------------------------------------------------
(* A request is answered at once, or takes its first step.                  *)

\* InUse: the name is in use, as a scenario or as a directory.
InUse(n) == tree[n] # NoCopy

FirstStage(i) ==
    LET r == Req(i)
        Admitted ==
            CASE r.kind = "create" -> IF InUse(r.name) THEN "refused" ELSE "make"
              [] r.kind = "duplicate" -> IF InUse(r.to) THEN "refused" ELSE "make"
              [] r.kind = "rename" ->
                    IF \/ r.to = r.name \/ InUse(r.to) \/ tree[r.name] \in Unloadable
                       \/ named = r.name /\ r.live
                    THEN "refused" ELSE "move"
              [] r.kind = "edit" ->
                    IF {tree[r.name], r.what} \cap Unloadable # {} THEN "refused" ELSE "retire"
              [] r.kind = "upload" ->
                    IF ~Extracts(r.archive) \/ (InUse(r.name) /\ ~r.flag) THEN "refused" ELSE "clear"
              [] r.kind = "publish" -> IF story.writes THEN "export" ELSE "refused"
              [] r.kind = "delete" ->
                    IF ~r.flag THEN "remove" ELSE IF story.writes THEN "unpublish" ELSE "refused"
    IN  IF r.kind \notin {"create", "upload"} /\ ~Found(r.name) THEN "absent" ELSE Admitted

\* What the request has of its own: an upload or an edit the new version, a rename a copy.
ServeArchive(i) ==
    /\ Turn(i) /\ Moves(i, "asked", FirstStage(i))
    /\ Keeps(i, IF Req(i).kind = "rename" THEN tree[Req(i).name] ELSE Req(i).what)
    /\ UNCHANGED <<story, tree, bucket, named>>

\* create_scenario and duplicate_scenario write in place: first the directory ...
MakeDirectory(i) ==
    /\ IF InUse(Target(i)) THEN Moves(i, "make", "failed") /\ UNCHANGED tree
       ELSE Moves(i, "make", "write") /\ Puts(Target(i), "empty")
    /\ UNCHANGED <<story, bucket, named, held>>

\* ... then the files.  A duplicate whose source went away leaves the directory behind.
WriteFiles(i) ==
    /\ \/ /\ Req(i).kind = "create" /\ InUse(Target(i))
          /\ Moves(i, "write", "check") /\ Puts(Target(i), Req(i).what)
       \/ /\ Req(i).kind = "duplicate" /\ Found(Req(i).name)
          /\ Moves(i, "write", "check") /\ Puts(Target(i), tree[Req(i).name])
       \/ /\ IF Req(i).kind = "create" THEN ~InUse(Target(i)) ELSE ~Found(Req(i).name)
          /\ Moves(i, "write", "failed") /\ UNCHANGED tree
    /\ UNCHANGED <<story, bucket, named, held>>

\* What was written is loaded and linted where it lies, and removed if it fails.
CheckInPlace(i) ==
    /\ IF Found(Target(i)) /\ tree[Target(i)] \notin Unloadable
       THEN Moves(i, "check", "export") /\ UNCHANGED tree
       ELSE Moves(i, "check", "refused") /\ Puts(Target(i), NoCopy)
    /\ UNCHANGED <<story, bucket, named, held>>

\* extract_scenario with overwrite: what was there is removed, the staged copy renamed in.
ClearOld(i) ==
    /\ Moves(i, "clear", "land") /\ Puts(Target(i), NoCopy)
    /\ UNCHANGED <<story, bucket, named, held>>
LandUpload(i) ==
    /\ IF IsFree(Target(i)) THEN Moves(i, "land", "check") /\ Puts(Target(i), held[i])
       ELSE Moves(i, "land", "failed") /\ UNCHANGED tree
    /\ UNCHANGED <<story, bucket, named, held>>

\* _check_and_swap: the live directory is renamed away, the edited copy renamed in.
Retire(i) ==
    /\ IF InUse(Target(i)) THEN Moves(i, "retire", "swap") /\ Puts(Target(i), NoCopy)
       ELSE Moves(i, "retire", "failed") /\ UNCHANGED tree
    /\ UNCHANGED <<story, bucket, named, held>>
SwapIn(i) ==
    /\ IF IsFree(Target(i)) THEN Moves(i, "swap", "export") /\ Puts(Target(i), held[i])
       ELSE Moves(i, "swap", "failed") /\ UNCHANGED tree
    /\ UNCHANGED <<story, bucket, named, held>>

\* rename_scenario: the rows follow and the copy appears under the new name, in one
\* transaction, which another rename's update of the rows waits for; then the old one goes.
MovesAway(i) ==
    /\ Moves(i, "move", "commit")
    /\ tree' = [tree EXCEPT ![Target(i)] = held[i], ![Req(i).name] = NoCopy]
    /\ UNCHANGED <<story, bucket, named, held>>
MoveIn(i) ==
    /\ \A j \in Requests : stage[j] # "commit"
    /\ IF IsFree(Target(i)) THEN Moves(i, "move", "commit") /\ Puts(Target(i), held[i])
       ELSE Moves(i, "move", "failed") /\ UNCHANGED tree
    /\ UNCHANGED <<story, bucket, named, held>>
CommitRename(i) ==
    /\ \/ /\ Moves(i, "commit", "removeOld")
          /\ named' = (IF named = Req(i).name THEN Req(i).to ELSE named) /\ UNCHANGED <<story, tree>>
       \/ /\ Fault /\ Moves(i, "commit", "failed")
          /\ Puts(Req(i).to, NoCopy) /\ UNCHANGED named
    /\ UNCHANGED <<bucket, held>>
RemoveOld(i) ==
    /\ Moves(i, "removeOld", IF story.writes THEN "export" ELSE "warned") /\ Puts(Req(i).name, NoCopy)
    /\ UNCHANGED <<story, bucket, named, held>>

-----------------------------------------------------------------------------
(* The bucket: publish_scenario never fails its caller, unpublish_scenario does. *)

Unmirrored(i) ==
    CASE Req(i).kind = "rename" -> "warned" [] Req(i).kind = "publish" -> "refused" [] OTHER -> "ok"
ExportOld(i) ==
    /\ IF ~story.writes \/ ~Found(Target(i))
       THEN Moves(i, "export", IF story.writes THEN Unmirrored(i) ELSE "ok") /\ UNCHANGED held
       ELSE Moves(i, "export", "put") /\ Keeps(i, tree[Target(i)])
    /\ UNCHANGED <<story, tree, bucket, named>>
PutArchive(i) ==
    /\ \/ /\ Moves(i, "put", IF Req(i).kind = "rename" THEN "unpublish" ELSE "ok")
          /\ bucket' = [bucket EXCEPT ![Target(i)] = held[i]] /\ UNCHANGED story
       \/ Fault /\ Moves(i, "put", Unmirrored(i)) /\ UNCHANGED bucket
    /\ UNCHANGED <<tree, named, held>>

\* A deletion goes on to the local copy only once the bucket's is gone.
AfterUnpublish(i) == IF Req(i).kind = "rename" THEN "ok" ELSE "remove"
RemovesAnyway(i) == IF Req(i).kind = "rename" THEN "warned" ELSE "remove"
WithoutUnpublish(i) == IF Req(i).kind = "rename" THEN "warned" ELSE "refused"
Unpublish(i) ==
    /\ \/ /\ Moves(i, "unpublish", AfterUnpublish(i))
          /\ bucket' = [bucket EXCEPT ![Req(i).name] = NoCopy] /\ UNCHANGED story
       \/ Fault /\ Moves(i, "unpublish", WithoutUnpublish(i)) /\ UNCHANGED bucket
    /\ UNCHANGED <<tree, named, held>>
RemoveLocal(i) ==
    /\ Moves(i, "remove", IF InUse(Req(i).name) THEN "ok" ELSE "failed") /\ Puts(Req(i).name, NoCopy)
    /\ UNCHANGED <<story, bucket, named, held>>

-----------------------------------------------------------------------------
(* The server is killed; its next boot imports what it lacks (sync_from_store). *)

Lacking == {n \in ScenarioNames : bucket[n] # NoCopy /\ ~Found(n)}
Restart ==
    /\ story.crashes > 0
    /\ \E missed \in SUBSET Lacking :
        /\ missed = {} \/ story.faults > 0
        /\ story' = [story EXCEPT !.crashes = @ - 1, !.faults = IF missed = {} THEN @ ELSE @ - 1]
        /\ tree' = [n \in ScenarioNames |-> IF n \in Lacking \ missed THEN bucket[n] ELSE tree[n]]
    /\ stage' = [i \in Requests |-> IF stage[i] \in Answers \cup {"asked"} THEN stage[i] ELSE "killed"]
    /\ UNCHANGED <<bucket, named, held>>

ChooseStory(s) ==
    /\ story = NoStory /\ story' = s
    /\ tree' = s.tree /\ bucket' = s.bucket /\ UNCHANGED named
    /\ stage' = [i \in 1..Len(s.requests) |-> "asked"]
    /\ held' = [i \in 1..Len(s.requests) |-> NoCopy]

LibraryInit ==
    /\ story = NoStory /\ stage = <<>> /\ held = <<>>
    /\ tree = [n \in ScenarioNames |-> NoCopy] /\ bucket = tree
    /\ named = FirstNamed

Step(i) ==
    \/ ServeArchive(i) \/ MakeDirectory(i) \/ WriteFiles(i) \/ CheckInPlace(i)
    \/ ClearOld(i) \/ LandUpload(i) \/ Retire(i) \/ SwapIn(i)
    \/ MoveIn(i) \/ CommitRename(i) \/ RemoveOld(i)
    \/ ExportOld(i) \/ PutArchive(i) \/ Unpublish(i) \/ RemoveLocal(i)
LibraryNext ==
    \/ \E s \in Stories : ChooseStory(s)
    \/ story # NoStory /\ ((\E i \in Requests : Step(i)) \/ Restart)
LibrarySpec == LibraryInit /\ [][LibraryNext]_libraryVars

-----------------------------------------------------------------------------
Touches(i, n) ==
    /\ Req(i).kind \notin {"rename", "publish"} /\ Target(i) = n
    /\ stage[i] \notin {"asked", "absent"}
Touched(n) == \E i \in Requests : Touches(i, n)
\* A rename from or to a name, which has been served.
Renames(i, n) ==
    /\ Req(i).kind = "rename" /\ n \in {Req(i).name, Req(i).to}
    /\ stage[i] \notin {"asked", "absent", "refused"}
\* Three renames of one name, which may overlap.
Tangled(n) ==
    /\ story.overlap
    /\ \E i, j, k \in Requests :
          /\ i # j /\ j # k /\ i # k
          /\ Renames(i, n) /\ Renames(j, n) /\ Renames(k, n)

\* What the run rows name is in the library at every step of a rename, a kill between two
\* of them, a refused commit and a restart included, unless a request other than a rename
\* has touched that name or three renames of it overlap ("All four move together",
\* routes/scenarios.py:636-644, 700-707).
HistoryFollows == story # NoStory => Found(named) \/ Touched(named) \/ Tangled(named)

Alone(i) == \A j \in Requests \ {i} : stage[j] = "asked" \/ {Req(j).name, Target(j)} \cap {Req(i).name, Target(i)} = {}

\* Of a request whose names no other request has touched, whatever call is refused and whenever
\* the server is killed: a scenario whose deletion with its remote copy has removed the local one is not
\* in the bucket, so no boot brings it back; a rename that answers without a warning leaves
\* nothing under the old name; and one that is in the bucket is in it under one of its two
\* names all the while (routes/scenarios.py:645-648, 771-776).
RemoteCopiesFollow ==
    story # NoStory => \A i \in Requests : Alone(i) =>
        LET r == Req(i) IN
        /\ (r.kind = "delete" /\ r.flag /\ stage[i] \notin {"asked", "absent"} /\ tree[r.name] = NoCopy)
              => bucket[r.name] = NoCopy
        /\ r.kind = "rename" /\ stage[i] = "ok" => tree[r.name] = NoCopy /\ bucket[r.name] = NoCopy
        /\ r.kind = "rename" /\ story.bucket[r.name] # NoCopy
              => bucket[r.name] # NoCopy \/ bucket[r.to] # NoCopy

(* What the comments say and TLC refutes (README, "Findings"). *)

\* A refused request leaves the scenario that was there (scenarioarchive.py:33-34).
\* It does not: an upload with replace removes the old one before it checks the new one.
RefusedKeepsTheOld ==
    (story # NoStory /\ ~story.overlap) => \A i \in Requests :
        (Alone(i) /\ stage[i] = "refused" /\ story.tree[Target(i)] \notin {NoCopy} \cup Unloadable)
            => Found(Target(i))

\* Renames alone never leave the run rows without their scenario (routes/scenarios.py:636-644).
\* Three can: the old directory one of them still has to remove may have been put back by
\* another in the meantime.
RenamesKeepHistory == story # NoStory => Found(named) \/ Touched(named)

\* A scenario deleted with its remote copy stays deleted (routes/scenarios.py:771-776).
\* It need not: the publish of an edit that overlaps puts the archive back.
DeletedStaysOut ==
    story # NoStory => \A i \in Requests :
        (Req(i).kind = "delete" /\ Req(i).flag /\ stage[i] = "ok")
            => \A j \in Requests : stage[j] \in Answers => bucket[Req(i).name] = NoCopy
=============================================================================
