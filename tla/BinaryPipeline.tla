--------------------------- MODULE BinaryPipeline ---------------------------
(***************************************************************************)
(* release-binary.yml: the runs of the workflow for one tag, from the       *)
(* mandatory checks to the publication.  Every target is built by a job of  *)
(* its own; the admit job admits and describes what they built; the publish *)
(* job admits it again, takes the SBOMs alone from the admit job, re-checks *)
(* the tag and publishes.  A run may be re-run, whole or in part; the jobs  *)
(* hand their files on as artefacts, which expire; the tag may move; and    *)
(* the publish jobs of the tag share a concurrency group.  What the publish *)
(* script does is the step of ReleaseContract, which ReleasePublication     *)
(* implements.                                                              *)
(***************************************************************************)
EXTENDS Naturals, FiniteSets

CONSTANTS
    Runs,        \* workflow runs of the tag
    Targets,     \* the build matrix
    Commits,     \* what the tag may peel to
    CommitOf,    \* GITHUB_SHA of every run
    MaxAttempts, \* bound: attempts of every run
    MaxMoves,    \* bound: how often the tag moves
    Nobody       \* no run

ASSUME PipelineAssumption ==
    /\ Targets # {} /\ Targets \cap {"checks", "admit", "admitted", "publish"} = {}
    /\ CommitOf \in [Runs -> Commits]
    /\ MaxAttempts \in [Runs -> Nat \ {0}] /\ MaxMoves \in Nat
    /\ Nobody \notin Runs

VARIABLES
    attempt,   \* the attempt every run is in, 0 before it starts
    job,       \* the state of every job of a run
    ran,       \* the attempt its state is from
    digests,   \* the outputs of the admit job
    store,     \* the artefacts
    step,      \* the publish job's next step
    held,      \* the archives the publish job admitted itself
    sboms,     \* the archives the SBOMs it accepted describe
    tag,       \* what the tag peels to
    moves,     \* how often it has moved
    assets,    \* the files of the public release
    owner, sealed, announced \* the release, as in ReleaseContract

Contract == INSTANCE ReleaseContract

release == <<owner, sealed, announced>>
jobs    == <<attempt, job, ran, digests>>
publish == <<step, held, sboms>>
vars    == <<jobs, store, publish, tag, moves, assets, release>>

-----------------------------------------------------------------------------
(* Values *)

Jobs == {"checks", "admit", "publish"} \cup Targets

\* The needs of every job, indirect ones included.
Needs(j) ==
    CASE j = "checks"   -> {}
      [] j \in Targets  -> {"checks"}
      [] j = "admit"    -> {"checks"} \cup Targets
      [] j = "publish"  -> {"checks", "admit"} \cup Targets

States == {"idle", "queued", "running", "success", "failure", "cancelled"}

Attempts == UNION {1 .. MaxAttempts[r] : r \in Runs}

\* An archive is known by the build that made it: no two builds agree on a
\* byte.  binary_release.py receive admits it or does not.  The admit job's
\* tools may leave another archive than the one it admitted.
Archives == [run : Runs, attempt : Attempts, sound : BOOLEAN, altered : BOOLEAN]

None == <<>>

Sets == [Targets -> Archives]

\* An artefact's name: run, attempt and kind; its content: archives, and the
\* archives its SBOMs describe.
Artefacts ==
    [name : Runs \X Attempts \X (Targets \cup {"admitted"}),
     files : Archives \cup Sets, about : Sets \cup {None}]

TypeOK ==
    /\ attempt \in [Runs -> {0} \cup Attempts]
    /\ job \in [Runs -> [Jobs -> States]]
    /\ ran \in [Runs -> [Jobs -> {0} \cup Attempts]]
    /\ digests \in [Runs -> Sets \cup {None}]
    /\ store \subseteq Artefacts
    /\ step \in [Runs -> {"gates", "receive", "accept", "recheck", "publish", "verify"}]
    /\ held \in [Runs -> Sets \cup {None}] /\ sboms \in [Runs -> Sets \cup {None}]
    /\ tag \in Commits \cup {"none"} /\ moves \in 0 .. MaxMoves
    /\ assets \in [files : Sets \cup {None}, about : Sets \cup {None}]
    /\ owner \in Runs \cup {Nobody} /\ sealed \in BOOLEAN /\ announced \subseteq Runs

Init ==
    /\ attempt = [r \in Runs |-> 0]
    /\ job = [r \in Runs |-> [j \in Jobs |-> "idle"]]
    /\ ran = [r \in Runs |-> [j \in Jobs |-> 0]]
    /\ digests = [r \in Runs |-> None]
    /\ store = {}
    /\ step = [r \in Runs |-> "gates"]
    /\ held = [r \in Runs |-> None] /\ sboms = [r \in Runs |-> None]
    /\ tag \in Commits /\ moves = 0
    /\ assets = [files |-> None, about |-> None]
    /\ Contract!Init

-----------------------------------------------------------------------------
(* Runs and their jobs *)

Ready(r, j) ==
    /\ attempt[r] > 0
    /\ job[r][j] = "idle"
    /\ \A n \in Needs(j) : job[r][n] = "success"

\* Nothing of the run is under way or will be.
Over(r) ==
    /\ attempt[r] > 0
    /\ \A j \in Jobs : job[r][j] \notin {"queued", "running"} /\ ~Ready(r, j)

Becomes(r, j, state) ==
    /\ job' = [job EXCEPT ![r] = [job[r] EXCEPT ![j] = state]]
    /\ ran' = [ran EXCEPT ![r] = [ran[r] EXCEPT ![j] = attempt[r]]]
    /\ UNCHANGED attempt

\* A push of the tag starts a run.
Start(r) ==
    /\ attempt[r] = 0
    /\ tag = CommitOf[r]
    /\ attempt' = [attempt EXCEPT ![r] = 1]
    /\ UNCHANGED <<job, ran, digests, store, publish, tag, moves, assets, release>>

\* A re-run of all jobs, of the failed ones or of one, with all that need them.
\* The other jobs keep their results and outputs.
Rerun(r) ==
    /\ Over(r)
    /\ attempt[r] < MaxAttempts[r]
    /\ attempt' = [attempt EXCEPT ![r] = @ + 1]
    /\ \E js \in {Jobs, {j \in Jobs : job[r][j] # "success"}} \cup {{j} : j \in Jobs} :
         /\ js # {}
         /\ job' = [job EXCEPT ![r] =
                [j \in Jobs |-> IF j \in js \/ Needs(j) \cap js # {} THEN "idle" ELSE job[r][j]]]
    /\ UNCHANGED <<ran, digests, store, publish, tag, moves, assets, release>>

\* Any job fails on a step of its own, or loses its runner.
JobFails(r, j) ==
    /\ IF j = "publish" THEN job[r][j] = "running" ELSE Ready(r, j)
    /\ Becomes(r, j, "failure")
    /\ UNCHANGED <<digests, store, publish, tag, moves, assets, release>>

\* The checks job.
Check(r) ==
    /\ Ready(r, "checks")
    /\ Becomes(r, "checks", "success")
    /\ UNCHANGED <<digests, store, publish, tag, moves, assets, release>>

\* Mutant: artefact names without the attempt; a later upload replaces the file.
NameOfRun(r, kind) == <<r, 1, kind>>

Name(r, kind) == <<r, attempt[r], kind>>

Stored(name) == {x \in store : x.name = name}

Upload(name, files, about) ==
    store' = {x \in store : x.name # name} \cup {[name |-> name, files |-> files, about |-> about]}

\* A build job.
Build(r, t) ==
    /\ Ready(r, t)
    /\ \E sound \in BOOLEAN :
         Upload(Name(r, t),
                [run |-> r, attempt |-> attempt[r], sound |-> sound, altered |-> FALSE], None)
    /\ Becomes(r, t, "success")
    /\ UNCHANGED <<digests, publish, tag, moves, assets, release>>

\* Both downloads, and binary_release.py receive on either.
Received(r, got) ==
    \A t \in Targets : \E x \in Stored(Name(r, t)) : x.files = got[t] /\ got[t].sound

\* The admit job: its SBOMs describe what it admitted; what it leaves beside
\* them for the publisher may have changed in between, its digests with it.
Admit(r) ==
    /\ Ready(r, "admit")
    /\ \E got \in Sets :
         /\ Received(r, got)
         /\ \E changed \in SUBSET Targets :
              LET left == [t \in Targets |->
                              IF t \in changed THEN [got[t] EXCEPT !.altered = TRUE] ELSE got[t]]
              IN  /\ Upload(Name(r, "admitted"), left, got)
                  /\ digests' = [digests EXCEPT ![r] = left]
    /\ Becomes(r, "admit", "success")
    /\ UNCHANGED <<publish, tag, moves, assets, release>>

-----------------------------------------------------------------------------
(* The publish job *)

\* The job enters its concurrency group; GitHub keeps the newest that waits.
Enqueue(r) ==
    /\ Ready(r, "publish")
    /\ job' = [q \in Runs |->
            IF q = r THEN [job[r] EXCEPT !["publish"] = "queued"]
            ELSE IF job[q]["publish"] = "queued" THEN [job[q] EXCEPT !["publish"] = "cancelled"]
            ELSE job[q]]
    /\ UNCHANGED <<attempt, ran, digests, store, publish, tag, moves, assets, release>>

\* Mutant: no concurrency group.
GroupIgnored == TRUE

\* Mutant: the calling workflow waits in the same group.
GroupHeldByCaller ==
    \A q \in Runs : job[q]["publish"] \notin {"queued", "running"}

\* cancel-in-progress: false.
GroupIsFree == \A q \in Runs : job[q]["publish"] # "running"

Dequeue(r) ==
    /\ job[r]["publish"] = "queued"
    /\ GroupIsFree
    /\ Becomes(r, "publish", "running")
    /\ step' = [step EXCEPT ![r] = "gates"]
    /\ held' = [held EXCEPT ![r] = None] /\ sboms' = [sboms EXCEPT ![r] = None]
    /\ UNCHANGED <<digests, store, tag, moves, assets, release>>

At(r, s) == job[r]["publish"] = "running" /\ step[r] = s

GoTo(r, s) == step' = [step EXCEPT ![r] = s]

\* The tag names the commit and nothing is released.
TagIsFree(r) == tag = CommitOf[r] /\ owner = Nobody

Gates(r) ==
    /\ At(r, "gates") /\ TagIsFree(r) /\ GoTo(r, "receive")
    /\ UNCHANGED <<jobs, store, held, sboms, tag, moves, assets, release>>

Receive(r) ==
    /\ At(r, "receive") /\ GoTo(r, "accept")
    /\ \E got \in Sets : Received(r, got) /\ held' = [held EXCEPT ![r] = got]
    /\ UNCHANGED <<jobs, store, sboms, tag, moves, assets, release>>

\* Mutant: the digests are compared, not the archives.
AcceptDigestsOnly(r) ==
    /\ At(r, "accept") /\ GoTo(r, "recheck")
    /\ \E x \in Stored(Name(r, "admitted")) :
         /\ x.files = digests[r]
         /\ sboms' = [sboms EXCEPT ![r] = x.about]
         /\ held' = [held EXCEPT ![r] = x.files]
    /\ UNCHANGED <<jobs, store, tag, moves, assets, release>>

\* binary_release.py accept: every file of the admit job has the digest it put
\* out, and its archives are this job's own.
Accept(r) ==
    /\ At(r, "accept") /\ GoTo(r, "recheck")
    /\ \E x \in Stored(Name(r, "admitted")) :
         /\ x.files = digests[r]
         /\ x.files = held[r]
         /\ sboms' = [sboms EXCEPT ![r] = x.about]
    /\ UNCHANGED <<jobs, store, held, tag, moves, assets, release>>

Recheck(r) ==
    /\ At(r, "recheck") /\ TagIsFree(r) /\ GoTo(r, "publish")
    /\ UNCHANGED <<jobs, store, held, sboms, tag, moves, assets, release>>

\* publish_binaries.sh, as ReleaseContract has it: its own last look at the tag
\* and at the releases, and the publication.
MakePublic(r) ==
    /\ At(r, "publish") /\ tag = CommitOf[r] /\ GoTo(r, "verify")
    /\ Contract!MakePublic(r)
    /\ assets' = [files |-> held[r], about |-> sboms[r]]
    /\ UNCHANGED <<jobs, store, held, sboms, tag, moves>>

Verify(r) ==
    /\ At(r, "verify") /\ owner = r
    /\ Contract!Announce
    /\ Becomes(r, "publish", "success")
    /\ UNCHANGED <<digests, store, publish, tag, moves, assets>>

-----------------------------------------------------------------------------
(* GitHub and its users *)

Seal ==
    /\ Contract!Seal
    /\ UNCHANGED <<jobs, store, publish, tag, moves, assets>>

MoveTag ==
    /\ moves < MaxMoves
    /\ moves' = moves + 1
    /\ tag' \in (Commits \cup {"none"}) \ {tag}
    /\ UNCHANGED <<jobs, store, publish, assets, release>>

\* retention-days is over, or the artefact is deleted.
Expire ==
    /\ \E x \in store : store' = store \ {x}
    /\ UNCHANGED <<jobs, publish, tag, moves, assets, release>>

-----------------------------------------------------------------------------

JobStep(r) ==
    \/ \E j \in Jobs : JobFails(r, j)
    \/ Check(r)
    \/ \E t \in Targets : Build(r, t)
    \/ Admit(r)
    \/ Enqueue(r) \/ Dequeue(r)
    \/ Gates(r) \/ Receive(r) \/ Accept(r) \/ Recheck(r)
    \/ MakePublic(r) \/ Verify(r)

Next ==
    \/ \E r \in Runs : Start(r) \/ Rerun(r) \/ JobStep(r)
    \/ Seal \/ MoveTag \/ Expire

Spec == Init /\ [][Next]_vars

FairSpec == Spec /\ \A r \in Runs : WF_vars(JobStep(r))

-----------------------------------------------------------------------------
(* Properties *)

\* The archives that become public were built and admitted by the run that
\* publishes them, in the very attempt that publishes them: a partial re-run
\* never mixes the files of two attempts (lines 231-243, 356-368, 592-631).
PublishedInOneAttempt ==
    [][owner' # owner =>
        /\ ran[owner']["admit"] = attempt[owner']
        /\ \A t \in Targets :
            /\ ran[owner'][t] = attempt[owner']
            /\ assets'.files[t].run = owner' /\ assets'.files[t].attempt = attempt[owner']]_vars

\* Every public archive was admitted by the publisher itself, unchanged since
\* its build, and is what its SBOM describes (lines 604-653).
PublishedIsDescribed ==
    owner # Nobody =>
        \A t \in Targets :
            /\ assets.files[t].sound /\ ~assets.files[t].altered
            /\ assets.about[t] = assets.files[t]

\* Past its last re-check no other run of the tag publishes (lines 482-484,
\* 780-798): the concurrency group keeps the re-check true.
RecheckStaysTrue == \A r \in Runs : At(r, "publish") => owner = Nobody

\* Every run comes to an end, also while others queue for the same group.
RunsEnd == \A r \in Runs : attempt[r] > 0 ~> Over(r)

=============================================================================
