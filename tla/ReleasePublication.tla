------------------------- MODULE ReleasePublication -------------------------
(***************************************************************************)
(* The publication of one release tag: the last step of every release      *)
(* workflow (scripts/publish_common.sh, called by publish_python.sh,       *)
(* publish_archives.sh and publish_binaries.sh), together with the         *)
(* re-check the workflow makes just before it.                             *)
(*                                                                         *)
(* Each run executes the shell script line by line against GitHub, which   *)
(* other runs for the same tag, maintainers and GitHub's own background    *)
(* work change between any two of its calls.  A call may fail, a write may *)
(* take effect although its response is lost, and the runner may disappear *)
(* without running the EXIT trap.  Nothing here relies on the workflow's   *)
(* concurrency group: the runs of Runs overlap freely.                     *)
(***************************************************************************)
EXTENDS Naturals, FiniteSets

CONSTANTS
    Runs,        \* executions of the publish script for this tag
    Ids,         \* numeric release ids GitHub can hand out
    Assets,      \* names in the script's assets array
    MaxAttempts, \* the "1 2 3 4 5" of every retry loop
    LatePatch,   \* may a PATCH whose client gave up be applied later?
    NoId         \* the empty string release_id starts as

ASSUME ConstantsAssumption ==
    /\ NoId \notin Ids \cup Runs
    /\ Assets # {}
    /\ MaxAttempts \in Nat \ {0, 1}
    /\ LatePatch \in BOOLEAN

VARIABLES
    pc,        \* the line each run is about to execute
    rid,       \* its release_id
    published, \* its published flag
    attempt,   \* rounds done of the retry loop it is in
    sent,      \* the assets it has uploaded
    late,      \* runs whose abandoned PATCH is still in flight
    release,   \* GitHub: the release behind every id
    tag,       \* GitHub: what the tag peels to
    main,      \* GitHub: how main stands to the release commit
    setting    \* GitHub: are published releases made immutable?

locals == <<pc, rid, published, attempt, sent>>
github == <<release, late>>
world  == <<tag, main, setting>>
vars   == <<locals, github, world>>

-----------------------------------------------------------------------------
(* Values *)

\* Lines of the workflow's re-check and of the script, in order.
Script ==
    {"recheck_tag", "recheck_main", "recheck_list", "create_tag",
     "create_post", "settle", "upload", "inspect", "final_tag", "final_main",
     "final_list", "patch", "confirm", "retag", "verify", "verify_assets"}

Trap == {"cleanup", "delete"}

\* "failed" says nothing of the draft, "refused" and "undeleted" complain of it.
Ended == {"succeeded", "failed", "refused", "undeleted", "killed"}

Release ==
    [status   : {"unused", "draft", "published", "deleted"},
     maker    : Runs \cup {NoId},  \* the run that created it
     tagged   : BOOLEAN,           \* tag_name has left its untagged-* placeholder
     assets   : SUBSET Assets,
     damaged  : SUBSET Assets,     \* stored bytes differ from the maker's file
     digested : SUBSET Assets,     \* GitHub has computed the digest
     sealed   : BOOLEAN,           \* immutable
     attested : BOOLEAN]           \* the release attestation exists

Unused ==
    [status |-> "unused", maker |-> NoId, tagged |-> FALSE, assets |-> {},
     damaged |-> {}, digested |-> {}, sealed |-> FALSE, attested |-> FALSE]

\* The annotated tag peels to the release commit, to another, or is missing.
TagStates == {"commit", "other", "none"}

\* main is at the commit, ahead of it with or without a change to the
\* component or its caller workflow, or no longer a descendant of it.
MainStates == {"head", "ahead", "drifted", "diverged"}

TypeOK ==
    /\ pc \in [Runs -> Script \cup Trap \cup Ended]
    /\ rid \in [Runs -> Ids \cup {NoId}]
    /\ published \in [Runs -> BOOLEAN]
    /\ attempt \in [Runs -> 0 .. MaxAttempts - 1]
    /\ sent \in [Runs -> SUBSET Assets]
    /\ late \in SUBSET Runs
    /\ release \in [Ids -> Release]
    /\ tag \in TagStates
    /\ main \in MainStates
    /\ setting \in BOOLEAN

Init ==
    /\ pc = [r \in Runs |-> "recheck_tag"]
    /\ rid = [r \in Runs |-> NoId]
    /\ published = [r \in Runs |-> FALSE]
    /\ attempt = [r \in Runs |-> 0]
    /\ sent = [r \in Runs |-> {}]
    /\ late = {}
    /\ release = [i \in Ids |-> Unused]
    /\ tag = "commit"
    /\ main \in {"head", "ahead"}
    /\ setting \in BOOLEAN

-----------------------------------------------------------------------------
(* What the script reads *)

TagIsCommit == tag = "commit"

MainContains == main \in {"head", "ahead"}

\* The ids the paginated listing shows for the tag, drafts included.
Listed == {i \in Ids : release[i].status \in {"draft", "published"} /\ release[i].tagged}

NoExistingRelease == Listed = {}

OnlyRelease(r) == Listed = {rid[r]}

\* Every name and digest GitHub reports equals the local file's.
InventoryMatches(rel) ==
    /\ rel.assets = Assets
    /\ rel.digested = Assets
    /\ rel.damaged = {}

\* Mutant: an asset whose digest is still null is taken as matching.
DraftReadyNullDigest(rel) ==
    /\ rel.status = "draft"
    /\ rel.tagged
    /\ rel.assets = Assets
    /\ rel.damaged \cap rel.digested = {}

DraftReady(rel) ==
    /\ rel.status = "draft"
    /\ rel.tagged
    /\ InventoryMatches(rel)

PublishedReady(rel) ==
    /\ rel.status = "published"
    /\ rel.sealed
    /\ rel.tagged
    /\ InventoryMatches(rel)

\* Mutant: the trap proves the tag name but not that the release is a draft.
ExactDraftAnyStatus(rel) == rel.tagged

\* The identity the EXIT trap must prove before it deletes.
ExactDraft(rel) == rel.status = "draft" /\ rel.tagged

-----------------------------------------------------------------------------
(* Steps of a run *)

Goto(r, line) == pc' = [pc EXCEPT ![r] = line]

\* A test under errexit: the next line, or the trap.
Gate(r, line, ok, next) ==
    /\ pc[r] = line
    /\ Goto(r, IF ok THEN next ELSE "cleanup")
    /\ UNCHANGED <<rid, published, attempt, sent, github, world>>

\* Mutant: a retry loop without its bound.
PollForever(r, line, ok, next) ==
    /\ pc[r] = line
    /\ Goto(r, IF ok THEN next ELSE line)
    /\ UNCHANGED <<rid, published, attempt, sent, github, world>>

\* One round of a "for _ in 1 2 3 4 5" loop.
Poll(r, line, ok, next) ==
    /\ pc[r] = line
    /\ \/ /\ ok
          /\ Goto(r, next)
          /\ attempt' = [attempt EXCEPT ![r] = 0]
       \/ /\ ~ok
          /\ attempt[r] + 1 < MaxAttempts
          /\ attempt' = [attempt EXCEPT ![r] = @ + 1]
          /\ UNCHANGED pc
       \/ /\ ~ok
          /\ attempt[r] + 1 >= MaxAttempts
          /\ Goto(r, "cleanup")
          /\ UNCHANGED attempt
    /\ UNCHANGED <<rid, published, sent, github, world>>

\* The workflow step "Re-check the remote tag, main and release absence".
RecheckTag(r)  == Gate(r, "recheck_tag", TagIsCommit, "recheck_main")
RecheckMain(r) == Gate(r, "recheck_main", MainContains, "recheck_list")
RecheckList(r) == Gate(r, "recheck_list", NoExistingRelease, "create_tag")

CreateTagCheck(r) == Gate(r, "create_tag", TagIsCommit, "create_post")

\* POST of the draft.  A lost response leaves release_id empty; a fresh draft
\* may still report the untagged-* placeholder, which the first round rejects.
CreateDraft(r) ==
    /\ pc[r] = "create_post"
    /\ \E i \in Ids, settled, answered \in BOOLEAN :
         /\ release[i].status = "unused"
         /\ release' = [release EXCEPT ![i] =
                [Unused EXCEPT !.status = "draft", !.maker = r, !.tagged = settled]]
         /\ rid' = [rid EXCEPT ![r] = IF answered THEN i ELSE NoId]
         /\ attempt' = [attempt EXCEPT ![r] = IF answered /\ ~settled THEN 1 ELSE 0]
         /\ Goto(r, IF ~answered THEN "cleanup"
                    ELSE IF settled THEN "upload" ELSE "settle")
    /\ UNCHANGED <<published, sent, late, world>>

Settle(r) == Poll(r, "settle", release[rid[r]].tagged, "upload")

\* POST of one asset.  The stored bytes may be damaged, the response lost.
UploadAsset(r) ==
    /\ pc[r] = "upload"
    /\ \E a \in Assets \ sent[r], whole, answered \in BOOLEAN :
         /\ release' = [release EXCEPT ![rid[r]] =
                [release[rid[r]] EXCEPT !.assets = @ \cup {a},
                                        !.damaged = IF whole THEN @ ELSE @ \cup {a}]]
         /\ sent' = [sent EXCEPT ![r] = @ \cup {a}]
         /\ Goto(r, IF ~answered THEN "cleanup"
                    ELSE IF sent[r] \cup {a} = Assets THEN "inspect" ELSE "upload")
    /\ UNCHANGED <<rid, published, attempt, late, world>>

Inspect(r) == Poll(r, "inspect", DraftReady(release[rid[r]]), "final_tag")

\* Mutants: main is not read again; the release list is not read again; the
\* published flag is set before the PATCH it speaks of.
FinalMainSkipped(r) == Gate(r, "final_main", TRUE, "final_list")
FinalListSkipped(r) == Gate(r, "final_list", TRUE, "patch")
FinalListFlagged(r) ==
    /\ pc[r] = "final_list"
    /\ Goto(r, IF OnlyRelease(r) THEN "patch" ELSE "cleanup")
    /\ published' = [published EXCEPT ![r] = OnlyRelease(r)]
    /\ UNCHANGED <<rid, attempt, sent, github, world>>

FinalTag(r)  == Gate(r, "final_tag", TagIsCommit, "final_main")
FinalMain(r) == Gate(r, "final_main", MainContains, "final_list")
FinalList(r) == Gate(r, "final_list", OnlyRelease(r), "patch")

Publish(i) == release' = [release EXCEPT ![i].status = "published"]

\* PATCH draft=false, and the flag set on the line after it: applied and
\* answered, applied but not answered, or (LatePatch) still in flight when the
\* client gives up.
Patch(r) ==
    /\ pc[r] = "patch"
    /\ \/ /\ Publish(rid[r])
          /\ published' = [published EXCEPT ![r] = TRUE]
          /\ Goto(r, "confirm")
          /\ UNCHANGED late
       \/ /\ Publish(rid[r])
          /\ Goto(r, "cleanup")
          /\ UNCHANGED <<published, late>>
       \/ /\ LatePatch
          /\ late' = late \cup {r}
          /\ Goto(r, "cleanup")
          /\ UNCHANGED <<published, release>>
    /\ UNCHANGED <<rid, attempt, sent, world>>

\* Mutant: the tag is not read again after publication.
RetagSkipped(r) == Gate(r, "retag", TRUE, "verify")

Confirm(r) == Poll(r, "confirm", PublishedReady(release[rid[r]]), "retag")
Retag(r)   == Gate(r, "retag", TagIsCommit, "verify")

\* gh release verify, and gh release verify-asset for every file.
Verify(r) == Poll(r, "verify", release[rid[r]].attested, "verify_assets")
VerifyAssets(r) ==
    Poll(r, "verify_assets",
         release[rid[r]].attested /\ release[rid[r]].damaged = {}, "succeeded")

\* Any command of the script fails before its call has an effect.
Abort(r) ==
    /\ pc[r] \in Script
    /\ Goto(r, "cleanup")
    /\ UNCHANGED <<rid, published, attempt, sent, github, world>>

\* cleanup_current_draft, up to the test of what it fetched.
Cleanup(r) ==
    /\ pc[r] = "cleanup"
    /\ \/ /\ rid[r] = NoId \/ published[r]
          /\ Goto(r, "failed")
       \/ /\ rid[r] # NoId /\ ~published[r]
          /\ ExactDraft(release[rid[r]])
          /\ Goto(r, "delete")
       \/ /\ rid[r] # NoId /\ ~published[r]  \* another identity, or no answer
          /\ Goto(r, "refused")
    /\ UNCHANGED <<rid, published, attempt, sent, github, world>>

\* Mutant: the trap deletes every draft that carries the tag.
DeleteByTag(r) ==
    /\ pc[r] = "delete"
    /\ release' = [i \in Ids |-> IF i \in Listed /\ release[i].status = "draft"
                      THEN [release[i] EXCEPT !.status = "deleted"] ELSE release[i]]
    /\ Goto(r, "failed")
    /\ UNCHANGED <<rid, published, attempt, sent, late, world>>

\* Its DELETE: applied, or not.
Delete(r) ==
    /\ pc[r] = "delete"
    /\ \/ /\ release' = [release EXCEPT ![rid[r]].status = "deleted"]
          /\ Goto(r, "failed")
       \/ /\ Goto(r, "undeleted")
          /\ UNCHANGED release
    /\ UNCHANGED <<rid, published, attempt, sent, late, world>>

\* The runner is lost: no trap runs.
Kill(r) ==
    /\ pc[r] \in Script \cup Trap
    /\ Goto(r, "killed")
    /\ UNCHANGED <<rid, published, attempt, sent, github, world>>

-----------------------------------------------------------------------------
(* GitHub and the maintainers *)

LatePatchLands(r) ==
    /\ r \in late
    /\ late' = late \ {r}
    /\ IF release[rid[r]].status = "draft"
         THEN Publish(rid[r])
         ELSE UNCHANGED release
    /\ UNCHANGED <<locals, world>>

TagSettles(i) ==
    /\ release[i].status = "draft" /\ ~release[i].tagged
    /\ release' = [release EXCEPT ![i].tagged = TRUE]
    /\ UNCHANGED <<locals, late, world>>

DigestComputed(i, a) ==
    /\ a \in release[i].assets \ release[i].digested
    /\ release' = [release EXCEPT ![i].digested = @ \cup {a}]
    /\ UNCHANGED <<locals, late, world>>

BecomesImmutable(i) ==
    /\ setting
    /\ release[i].status = "published" /\ ~release[i].sealed
    /\ release' = [release EXCEPT ![i].sealed = TRUE]
    /\ UNCHANGED <<locals, late, world>>

AttestationWritten(i) ==
    /\ release[i].status = "published"
    /\ release[i].sealed /\ ~release[i].attested
    /\ release' = [release EXCEPT ![i].attested = TRUE]
    /\ UNCHANGED <<locals, late, world>>

\* GitHub holds the tag of an immutable release still.
TagLocked == \E i \in Ids : release[i].status = "published" /\ release[i].sealed

TagMoves ==
    /\ ~TagLocked
    /\ tag' \in TagStates \ {tag}
    /\ UNCHANGED <<locals, github, main, setting>>

\* A merge, an exact revert or a force-push of main.
MainMoves ==
    /\ main' \in MainStates \ {main}
    /\ UNCHANGED <<locals, github, tag, setting>>

-----------------------------------------------------------------------------

\* A run's own progress: what its shell does next.
Step(r) ==
    \/ RecheckTag(r) \/ RecheckMain(r) \/ RecheckList(r)
    \/ CreateTagCheck(r) \/ CreateDraft(r) \/ Settle(r) \/ UploadAsset(r)
    \/ Inspect(r) \/ FinalTag(r) \/ FinalMain(r) \/ FinalList(r) \/ Patch(r)
    \/ Confirm(r) \/ Retag(r) \/ Verify(r) \/ VerifyAssets(r)
    \/ Cleanup(r) \/ Delete(r)

Environment ==
    \/ \E r \in Runs : LatePatchLands(r)
    \/ \E i \in Ids : \/ TagSettles(i)
                      \/ BecomesImmutable(i)
                      \/ AttestationWritten(i)
                      \/ \E a \in Assets : DigestComputed(i, a)
    \/ TagMoves
    \/ MainMoves

Next ==
    \/ \E r \in Runs : Step(r) \/ Abort(r) \/ Kill(r)
    \/ Environment

\* The shell runs on: its calls return or fail within the job's time limit.
Fairness == \A r \in Runs : WF_vars(Step(r))

Spec == Init /\ [][Next]_vars

FairSpec == Spec /\ Fairness

-----------------------------------------------------------------------------
(* Properties *)

\* Stretches of the script: before the draft exists, while it is filled and
\* inspected, the last gates, and once the PATCH was answered.
BeforeDraft == {"recheck_tag", "recheck_main", "recheck_list", "create_tag", "create_post"}
FinalGates == {"final_tag", "final_main", "final_list", "patch"}
Filling    == {"settle", "upload", "inspect"}
AfterPatch == {"confirm", "retag", "verify", "verify_assets", "succeeded"}

Candidate(i) == release[i].maker

PublishedIds == {i \in Ids : release[i].status = "published"}

\* A run that reports success owns an immutable release that holds exactly its
\* files, and the tag peels to the release commit from then on: the tag read
\* after immutability was observed (line 209) is what makes the last part true.
SuccessIsSound ==
    \A r \in Runs : pc[r] = "succeeded" =>
        /\ rid[r] \in PublishedIds
        /\ Candidate(rid[r]) = r
        /\ release[rid[r]].sealed /\ release[rid[r]].attested
        /\ InventoryMatches(release[rid[r]])
        /\ TagIsCommit

\* However runs for one tag overlap, they publish at most one release: each
\* lists the tag's releases after its own draft carries the tag (lines 172-176).
AtMostOnePublished == \A i, j \in PublishedIds : i = j

\* Whatever is public is one run's whole candidate, byte for byte, even when
\* that run then failed, lost an answer or was killed (lines 130-155).
PublishedIsExact ==
    \A i \in PublishedIds : release[i].tagged /\ InventoryMatches(release[i])

\* A run that fails without complaining about its draft leaves none behind: the
\* trap deletes it on every path on which the id is known (lines 29-52), unless
\* the release is already public.
QuietFailureLeavesNoDraft ==
    \A r \in Runs : pc[r] = "failed" /\ rid[r] # NoId =>
        release[rid[r]].status \in {"published", "deleted"}

\* "A published release is never rolled back": nothing a run does takes a
\* public release away or changes what it holds (lines 32, 40 and 184).
PublishedKept ==
    \A i \in PublishedIds :
        /\ release'[i].status = "published"
        /\ release'[i].assets = release[i].assets
        /\ release'[i].damaged = release[i].damaged

PublishedStays == [][PublishedKept]_vars

\* A release disappears only by the trap of the run that created it (lines
\* 33-46): no run removes another run's draft, although both carry one tag.
OwnDeletion ==
    \A i \in Ids :
        release[i].status # "deleted" /\ release'[i].status = "deleted" =>
            /\ pc[Candidate(i)] = "delete"
            /\ pc'[Candidate(i)] = "failed"

OnlyOwnDraftDeleted == [][OwnDeletion]_vars

NeverPublishes(r) == [](\A i \in PublishedIds : Candidate(i) # r)

BeforeFinalTag == BeforeDraft \cup Filling \cup {"final_tag"}

\* The re-check and the checks in create_draft do not settle it: a tag or a
\* main that goes stale while the draft is filled and inspected, and stays so,
\* withdraws the draft (lines 159-170).
NoStalePublication ==
    \A r \in Runs :
        /\ []((pc[r] \in BeforeFinalTag /\ [](tag # "commit")) => NeverPublishes(r))
        /\ []((pc[r] \in BeforeFinalTag \cup {"final_main"} /\ []~MainContains)
                 => NeverPublishes(r))

\* Every retry loop is bounded: each run ends.
RunsEnd == \A r \in Runs : <>(pc[r] \in Ended)

-----------------------------------------------------------------------------
(* Refinement *)

\* What a reader of the repository's releases can see of this tag.
owner == IF PublishedIds = {} THEN NoId
         ELSE Candidate(CHOOSE i \in PublishedIds : TRUE)
sealed == \E i \in PublishedIds : release[i].sealed
announced == {r \in Runs : pc[r] = "succeeded"}

Contract == INSTANCE ReleaseContract WITH Nobody <- NoId

\* The scripts implement the promise: one public release per tag, never taken
\* back or exchanged, announced once, by its own run, after it is immutable.
RefinesContract == Contract!Spec

=============================================================================
