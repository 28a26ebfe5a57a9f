----------------------------- MODULE CanaryAudit -----------------------------
(***************************************************************************)
(* The live audit of the release canaries: check_canaries.rs.              *)
(*                                                                         *)
(* canaries.json records, for each release family, a consumer repository,  *)
(* the policy commit its workflow is pinned to and one reviewed run as     *)
(* evidence.  check_live asks GitHub, one read after another, whether all  *)
(* of that still holds, while the repositories it asks about move on:      *)
(* consumers release, repin and run, runs expire, tags move unless a       *)
(* ruleset locks them, the history of release-policy is rewritten.         *)
(*                                                                         *)
(* A commit of release-policy is known by its history; a tag or branch of  *)
(* a consumer is a record [space, version], main being the space Main; a   *)
(* consumer's commits are numbered like the releases cut from them.  What  *)
(* a run listing returns are the runs of the canary's workflow, so their   *)
(* path needs no field.  Time counts the changes of the world.             *)
(***************************************************************************)
EXTENDS Integers, Sequences, FiniteSets, Functions

CONSTANTS
    Families,            \* FAMILIES
    ReleaseFamilies,     \* RELEASE_FAMILIES
    PrefixedFamilies,    \* the families parse_manifest lets have a namespace
    Spaces, Main, Plain, \* tag namespaces; the branch main; the empty prefix
    PolicyCommits,       \* commits of release-policy
    History,             \* History[c]: c and its ancestors, newest first
    Tree,                \* Tree[c]: the tree of commit c
    PolicyTags,          \* names of release tags of release-policy
    RulesetStates,       \* the lists of tag rulesets a repository may have
    RetentionDays, ExpiryMargin,               \* RETENTION_DAYS and its margin
    MaxRunPages, MaxHistoryPages, PageSize,    \* 10, 10 and 100 in the code
    Manifests,           \* the manifests audited
    Policies,            \* the states release-policy may begin in
    Calls,               \* the pins a consumer's workflow may name
    Estates,             \* the states the consumers may begin in
    StartTimes,          \* how long after the recorded runs it begins
    MaxChanges,          \* bound: changes of the world and failed reads
    NONE

VARIABLES
    policy,     \* [main, tags, rulesets] of release-policy
    estate,     \* estate[f]: [declared, runs, releases, rulesets]
    time,
    changes,    \* changes and faults so far, for the bound
    manifest,   \* canaries.json
    strict,     \* --require-current-evidence
    audit,      \* check_live: where it is and its local variables
    exit,       \* the exit status, NONE while it runs
    faulted,    \* history: a read failed
    loosened,   \* history: repositories whose tags were once not locked
                \* since the audit began (release-policy: since its rulesets
                \* were read)
    held        \* history: [tag, pin] admitted, while the tags stayed locked

world == <<policy, estate, time>>
vars == <<policy, estate, time, changes, manifest, strict, audit, exit,
          faulted, loosened, held>>

POLICY == "release-policy"

(***************************************************************************)
(* canaries.json: load_manifest and parse_manifest.                        *)
(***************************************************************************)
\* A canonical version tag of the namespace.
MatchesReleaseTag(ref, prefix) == ref.space = prefix /\ ref.version > 0

\* A mapping of exactly these keys; an optional one may be missing.
Mapping(value, keys, optional) == DOMAIN value \ optional = keys
PrefixOf(e) == IF "prefix" \in DOMAIN e THEN e.prefix ELSE Plain

\* One family of the manifest, its evidence written beside its other fields.
EntryIsValid(e) ==
    /\ Mapping(e, {"family", "pin", "run", "ref", "head", "policy", "started", "dated"}, {"prefix"})
    /\ e.family \in Families
    /\ PrefixOf(e) = Plain \/ (e.family \in PrefixedFamilies /\ PrefixOf(e) \in Spaces)
    /\ e.run >= 1
    /\ IF e.family = "verify" THEN e.ref.space = Main
       ELSE MatchesReleaseTag(e.ref, PrefixOf(e))

ParseManifest(doc) ==
    /\ doc.schema = 1
    /\ \A i \in DOMAIN doc.families : EntryIsValid(doc.families[i])
    /\ \A i, j \in DOMAIN doc.families :
           doc.families[i].family = doc.families[j].family => i = j

LoadManifest(doc) ==
    /\ doc.canonical
    /\ ParseManifest(doc)
    /\ { doc.families[i].family : i \in DOMAIN doc.families } = Families

(***************************************************************************)
(* What GitHub answers.                                                    *)
(***************************************************************************)
Reaches(c, pin) == \E i \in DOMAIN History[c] : History[c][i] = pin

\* A tag of release-policy from which the pin is reached.
Admits(tag, pin) ==
    tag \in PolicyTags /\ policy.tags[tag] # NONE /\ Reaches(policy.tags[tag], pin)

\* compare/base...head
CompareStatus(base, head) ==
    IF base = head THEN "identical"
    ELSE IF Reaches(base, head) THEN "behind"
    ELSE IF Reaches(head, base) THEN "ahead" ELSE "diverged"

Smaller(a, b) == IF a < b THEN a ELSE b
Page(s, n) == SubSeq(s, (n - 1) * PageSize + 1, Smaller(n * PageSize, Len(s)))
Successes(f) == { r \in Range(estate[f].runs) : r.success }
Place(f, r) == Cardinality({ s \in Successes(f) : s.started >= r.started })
\* A listing of the successes has the newest first.
SuccessPage(f, n) ==
    { r \in Successes(f) : Place(f, r) \in (n - 1) * PageSize + 1 .. n * PageSize }
RunsNamed(f, id) == { r \in Range(estate[f].runs) : r.id = id }
ReleasesAt(f, tag) == { r \in Range(estate[f].releases) : r.tag = tag /\ ~r.draft }
RulesetsOf(repo) == IF repo = POLICY THEN policy.rulesets ELSE estate[repo].rulesets

\* What the rulesets of a repository really stop.
Stops(repo, rule) ==
    \E r \in Range(RulesetsOf(repo)) : /\ r.enforcement = "active" /\ r.exact
                                       /\ r.bypass = "none" /\ rule \in r.rules
Locked(repo) == Stops(repo, "update") /\ Stops(repo, "deletion")

(***************************************************************************)
(* The decisions of the audit.                                             *)
(***************************************************************************)
ReachableStatuses == {"identical", "behind"}

ProtectsOnUpdateAlone(r) == \* mutant: deletion is not asked for
    r.enforcement = "active" /\ r.bypass \in {"none", "unseen"} /\ "update" \in r.rules /\ r.exact

\* A form it cannot read protects nothing; a bypass list the token may not
\* see is taken as empty and reported.
RulesetProtects(r) ==
    /\ r.enforcement = "active"
    /\ r.bypass \in {"none", "unseen"}
    /\ {"update", "deletion"} \subseteq r.rules
    /\ r.exact

\* The successes of the family's branch or namespace on one page.
RelevantRuns(runs, e) ==
    { r \in runs : IF e.family = "verify" THEN r.branch.space = Main
                     ELSE MatchesReleaseTag(r.branch, PrefixOf(e)) }

FirstRelevantRun(page, e) == \* mutant: the response is in some order of its own
    RelevantRuns(page, e)

\* One literal pin and no other; one referenced workflow and no other.
OnlyOne(pins) == IF Len(pins) = 1 THEN pins[1] ELSE NONE
ExtractPin(f) == OnlyOne(estate[f].declared)
ReferencedPolicySha(r) == OnlyOne(r.pins)

\* Newest by start time, whatever the order of the response.
LatestRelevantRun(page, e) ==
    LET relevant == RelevantRuns(page, e)
    IN  { r \in relevant : \A s \in relevant : s.started <= r.started }

PublishedIn(gathered, e) ==
    { r \in gathered : ~r.draft /\ MatchesReleaseTag(r.tag, PrefixOf(e)) }

IsFresh(gathered, e) ==
    LET relevant == PublishedIn(gathered, e)
    IN  /\ relevant # {}
        /\ \E newest \in relevant : /\ newest.tag = e.ref
                                    /\ \A r \in relevant : r.published <= newest.published

\* Each field of the run record is compared with the manifest's.
RunMatches(r, e) ==
    /\ r.success
    /\ r.branch = e.ref /\ r.commit = e.head
    /\ r.started = e.started
    /\ ReferencedPolicySha(r) = e.policy

HasExpired(e, now) == now - e.started > RetentionDays + ExpiryMargin

TagExists(r, e) == TRUE \* mutant: the tag is there, wherever it points
TagHolds(r, e) == r.at = e.head

\* The certificate's run invocation is exactly this run.
NamesRun(r, e) == r.signed.run = e.run
\* One archive, as released; gh verified the signer, the commits and the tag.
ProvenanceHolds(r, e) ==
    /\ r.assets = 1 /\ r.digest
    /\ r.signed.policy = e.policy /\ r.signed.tag = e.ref /\ r.signed.head = e.head
    /\ NamesRun(r, e)

\* The later success on main that stands in for an expired verification run.
IsUsable(latest, e) == latest.id # e.run /\ latest.started > e.started
ReplacesExpired(r, latest, e) ==
    /\ r.id = latest.id /\ r.success /\ r.branch.space = Main
    /\ r.started > e.started
    /\ ReferencedPolicySha(r) = e.pin
----------------------------------------------------------------------------
Idle == [pc |-> "Start", rest |-> <<>>, now |-> 0, failing |-> FALSE, warned |-> FALSE,
         expired |-> FALSE, page |-> 1, repo |-> POLICY, todo |-> <<>>, admitting |-> NONE,
         unseen |-> FALSE, gathered |-> {}, latest |-> NONE]

Init ==
    /\ policy \in Policies
    /\ estate \in Estates
    /\ time \in StartTimes
    /\ changes = 0
    /\ manifest \in Manifests
    /\ strict \in BOOLEAN
    /\ audit = Idle
    /\ exit = NONE
    /\ faulted = FALSE
    /\ loosened = {}
    /\ held = {}

entry == Head(audit.rest)
family == entry.family

(***************************************************************************)
(* One read of the audit: it goes on at pc, or the read fails, which is an *)
(* error of the report and ends that check only.                           *)
(***************************************************************************)
Reading(pc) == audit.pc = pc /\ UNCHANGED <<policy, estate, time, manifest, strict, exit>>
At(pc) == [audit EXCEPT !.pc = pc, !.page = 1]
Error(a) == [a EXCEPT !.failing = TRUE]
Checked(holds, a) == IF holds THEN a ELSE Error(a)
Continue(a) == audit' = a /\ UNCHANGED <<changes, faulted, loosened, held>>
\* A failed page of successes that adds nothing to the errors.
UnreadQuietly(pc) == \* mutant of Unread
    /\ changes < MaxChanges
    /\ changes' = changes + 1
    /\ faulted' = TRUE
    /\ audit' = At(pc)
    /\ UNCHANGED <<loosened, held>>

Unread(pc) ==
    /\ changes < MaxChanges
    /\ changes' = changes + 1
    /\ faulted' = TRUE
    /\ audit' = Error(At(pc))
    /\ UNCHANGED <<loosened, held>>

Start ==
    /\ audit.pc = "Start"
    /\ IF LoadManifest(manifest)
       THEN /\ audit' = [At("Pin") EXCEPT !.rest = manifest.families, !.now = time]
            /\ loosened' = { f \in Families : ~Locked(f) }
            /\ UNCHANGED exit
       ELSE /\ audit' = [audit EXCEPT !.pc = "Done"]
            /\ exit' = 1
            /\ UNCHANGED loosened
    /\ UNCHANGED <<policy, estate, time, changes, manifest, strict, faulted, held>>

\* The pin of the workflow on main; a file without exactly one fails.
ReadPin ==
    /\ Reading("Pin")
    /\ \/ Unread("Compare")
       \/ Continue(Checked(ExtractPin(family) = entry.pin, At("Compare")))

\* Only a pin reported off main may be admitted by a tag.
ReadCompare ==
    /\ Reading("Compare")
    /\ \/ Unread("Run")
       \/ Continue(IF CompareStatus(policy.main, entry.pin) \in ReachableStatuses
                   THEN At("Run")
                   ELSE [At("Rulesets") EXCEPT !.repo = POLICY])

(***************************************************************************)
(* tag_protection, for release-policy and for the consumer.                *)
(***************************************************************************)
AfterRulesets(protected) ==
    IF audit.repo = POLICY THEN IF protected THEN "Tags" ELSE "Run"
    ELSE IF audit.expired THEN "Finish" ELSE "Runs"

ReadRulesets ==
    LET active == SelectSeq(RulesetsOf(audit.repo), LAMBDA r : r.enforcement = "active")
    IN  /\ Reading("Rulesets")
        /\ \/ Unread(AfterRulesets(FALSE))
           \/ Continue(IF active = <<>> THEN Error(At(AfterRulesets(FALSE)))
                       ELSE [At("Ruleset") EXCEPT !.todo = [i \in DOMAIN active |-> active[i].id]])

\* A ruleset listed as active is read as it is now, if it is still there.
ReadRuleset ==
    LET current == { r \in Range(RulesetsOf(audit.repo)) : r.id = Head(audit.todo) }
    IN  /\ Reading("Ruleset")
        /\ \/ Unread(AfterRulesets(FALSE))
           \/ \E r \in current :
                 IF RulesetProtects(r)
                 THEN /\ audit' = [At(AfterRulesets(TRUE)) EXCEPT !.unseen = (r.bypass = "unseen")]
                      /\ loosened' = IF audit.repo = POLICY THEN loosened \ {POLICY} ELSE loosened
                      /\ UNCHANGED <<changes, faulted, held>>
                 ELSE Continue(IF Len(audit.todo) = 1 THEN Error(At(AfterRulesets(FALSE)))
                               ELSE [audit EXCEPT !.todo = Tail(audit.todo)])
           \/ /\ current = {}
              /\ Continue(Error(At(AfterRulesets(FALSE))))

(***************************************************************************)
(* locked_tag_admission, after its ruleset: a release tag that reaches the *)
(* pin, and a commit of main that carries the pin's tree.                  *)
(***************************************************************************)
ReadTags ==
    LET there == { t \in PolicyTags : policy.tags[t] # NONE }
    IN  /\ Reading("Tags")
        /\ \/ Unread("Run")
           \/ there = {} /\ Continue(Error(At("Run")))
           \/ /\ there # {}
              /\ \E order \in [1 .. Cardinality(there) -> there] :
                    /\ IsInjective(order)
                    /\ Continue([At("TagCompare") EXCEPT
                           !.todo = [i \in DOMAIN order |->
                                        [name |-> order[i], sha |-> policy.tags[order[i]]]]])

ReadTagCompare ==
    LET tag == Head(audit.todo)
    IN  /\ Reading("TagCompare")
        /\ \/ Unread("Run")
           \/ Continue(IF CompareStatus(tag.sha, entry.pin) \in ReachableStatuses
                       THEN [At("Tree") EXCEPT !.admitting = tag.name]
                       ELSE IF Len(audit.todo) = 1 THEN Error(At("Run"))
                       ELSE [audit EXCEPT !.todo = Tail(audit.todo)])

\* The commit record of the pin, whose tree never changes.
ReadTree ==
    /\ Reading("Tree")
    /\ \/ Unread("Run")
       \/ Continue(At("History"))

ReadHistory ==
    LET page == Page(History[policy.main], audit.page)
        carried == \E i \in DOMAIN page : Tree[page[i]] = Tree[entry.pin]
    IN  /\ Reading("History")
        /\ \/ Unread("Run")
           \/ /\ carried
              /\ audit' = At("Run")
              /\ held' = IF audit.unseen \/ POLICY \in loosened THEN held
                         ELSE held \cup {[tag |-> audit.admitting, pin |-> entry.pin]}
              /\ UNCHANGED <<changes, faulted, loosened>>
           \/ /\ ~carried
              /\ Continue(IF Len(page) < PageSize \/ audit.page = MaxHistoryPages
                          THEN Error(At("Run"))
                          ELSE [audit EXCEPT !.page = @ + 1])

(***************************************************************************)
(* The evidence: the run, the release and its provenance, what is newer.   *)
(***************************************************************************)
ReadRun ==
    LET next == IF family \in ReleaseFamilies THEN "Release" ELSE "Runs"
        found == RunsNamed(family, entry.run)
    IN  /\ Reading("Run")
        /\ \/ Unread(next)
           \/ \E r \in found : Continue(Checked(RunMatches(r, entry), At(next)))
           \/ /\ found = {} /\ entry.dated
              /\ Continue(IF HasExpired(entry, audit.now)
                          THEN [At(next) EXCEPT !.expired = TRUE] ELSE Error(At(next)))

\* The start time has the shape of one and is no time: the audit stops.
Abort ==
    /\ audit.pc = "Run" /\ RunsNamed(family, entry.run) = {} /\ ~entry.dated
    /\ audit' = At("Done")
    /\ exit' = 1
    /\ UNCHANGED <<policy, estate, time, changes, manifest, strict, faulted, loosened, held>>

\* verify_provenance: the release by its tag, the commit of the tag, the
\* signed asset.
ReadRelease ==
    LET found == { r \in ReleasesAt(family, entry.ref) : r.immutable }
    IN  /\ Reading("Release")
        /\ \/ Unread("Releases")
           \/ Continue(IF found = {} THEN Error(At("Releases")) ELSE At("TagCommit"))

ReadTagCommit ==
    /\ Reading("TagCommit")
    /\ \/ Unread("Releases")
       \/ \E r \in ReleasesAt(family, entry.ref) :
             Continue(IF TagHolds(r, entry) THEN At("Provenance") ELSE Error(At("Releases")))

ReadProvenance ==
    /\ Reading("Provenance")
    /\ \/ Unread("Releases")
       \/ \E r \in ReleasesAt(family, entry.ref) :
             Continue(Checked(ProvenanceHolds(r, entry), At("Releases")))

\* release_freshness_errors: every page is gathered before any is judged.
ReadReleases ==
    LET page == Page(estate[family].releases, audit.page)
        gathered == audit.gathered \cup Range(page)
        after == [At("Rulesets") EXCEPT !.repo = family, !.gathered = {}]
    IN  /\ Reading("Releases")
        /\ \/ changes < MaxChanges /\ changes' = changes + 1 /\ faulted' = TRUE
              /\ audit' = Error(after) /\ UNCHANGED <<loosened, held>>
           \/ Continue(IF Len(page) < PageSize THEN Checked(IsFresh(gathered, entry), after)
                       ELSE IF audit.page = MaxRunPages THEN Error(after)
                       ELSE [audit EXCEPT !.page = @ + 1, !.gathered = gathered])

\* Page by page until the relevant run appears or the pages run out.
ReadRuns ==
    LET page == SuccessPage(family, audit.page)
    IN  /\ Reading("Runs")
        /\ \/ Unread("Finish")
           \/ \E latest \in LatestRelevantRun(page, entry) :
                 Continue(IF family \in ReleaseFamilies
                          THEN Checked(latest.id = entry.run, At("Finish"))
                          ELSE IF ReferencedPolicySha(latest) # entry.pin THEN Error(At("Finish"))
                          ELSE IF ~audit.expired THEN At("Finish")
                          ELSE IF IsUsable(latest, entry)
                          THEN [At("Current") EXCEPT !.latest = latest]
                          ELSE Error(At("Finish")))
           \/ /\ LatestRelevantRun(page, entry) = {}
              /\ Continue(IF Cardinality(page) < PageSize \/ audit.page = MaxRunPages
                          THEN Error(At("Finish"))
                          ELSE [audit EXCEPT !.page = @ + 1])

\* expired_verify_errors: the listing nominates, the run's own record decides.
ReadCurrent ==
    LET found == RunsNamed(family, audit.latest.id)
    IN  /\ Reading("Current")
        /\ \/ Unread("Finish")
           \/ Continue(Checked(\E r \in found : ReplacesExpired(r, audit.latest, entry),
                               At("Finish")))

\* The end of one canary, and of the audit.
Finish ==
    /\ Reading("Finish")
    /\ Continue([At(IF Len(audit.rest) = 1 THEN "Render" ELSE "Pin") EXCEPT
                    !.rest = Tail(audit.rest), !.expired = FALSE, !.latest = NONE, !.repo = POLICY, !.admitting = NONE, !.unseen = FALSE,
                    !.warned = @ \/ (family \in ReleaseFamilies /\ entry.policy # entry.pin),
                    !.todo = <<>>])

Render ==
    /\ audit.pc = "Render"
    /\ exit' = IF audit.failing \/ (strict /\ audit.warned) THEN 1 ELSE 0
    /\ audit' = At("Done")
    /\ UNCHANGED <<policy, estate, time, changes, manifest, strict, faulted, loosened, held>>
----------------------------------------------------------------------------
(***************************************************************************)
(* What people, the consumers and GitHub do meanwhile.                     *)
(***************************************************************************)
Change ==
    /\ changes < MaxChanges /\ changes' = changes + 1
    /\ time' = time + 1
    /\ UNCHANGED <<manifest, strict, audit, exit, faulted>>
SameLocks == UNCHANGED <<loosened, held>>

\* The history of release-policy goes on, or is rewritten.
MoveMain ==
    /\ Change /\ SameLocks
    /\ \E c \in PolicyCommits \ {policy.main} : policy' = [policy EXCEPT !.main = c]
    /\ UNCHANGED estate

MovePolicyTag ==
    /\ Change /\ SameLocks
    /\ \E t \in PolicyTags, c \in PolicyCommits \cup {NONE} :
          /\ policy.tags[t] = NONE \/ ~Stops(POLICY, IF c = NONE THEN "deletion" ELSE "update")
          /\ policy' = [policy EXCEPT !.tags[t] = c]
    /\ UNCHANGED estate

SetRulesets ==
    /\ Change
    /\ \E rulesets \in RulesetStates, repo \in ReleaseFamilies \cup {POLICY} :
          /\ IF repo = POLICY
             THEN policy' = [policy EXCEPT !.rulesets = rulesets] /\ UNCHANGED estate
             ELSE estate' = [estate EXCEPT ![repo].rulesets = rulesets] /\ UNCHANGED policy
          /\ loosened' = IF Locked(repo)' THEN loosened ELSE loosened \cup {repo}
          /\ held' = IF repo # POLICY \/ Locked(repo)' THEN held ELSE {}

Repin ==
    /\ Change /\ SameLocks
    /\ \E f \in Families, c \in Calls :
          c # estate[f].declared /\ estate' = [estate EXCEPT ![f].declared = c]
    /\ UNCHANGED policy

NextId(f) == time + 10
NewRun(f, branch, commit) ==
    [id |-> NextId(f), branch |-> branch, commit |-> commit, started |-> time + 1,
     pins |-> estate[f].declared, success |-> FALSE, finished |-> 0]

\* A tag is pushed: its run starts and drafts the release.
StartRelease ==
    /\ Change /\ SameLocks
    /\ \E f \in ReleaseFamilies, space \in Spaces :
          LET tag == [space |-> space, version |-> time + 1]
          IN  estate' = [estate EXCEPT
                  ![f].runs = <<NewRun(f, tag, time + 1)>> \o @,
                  ![f].releases = << [tag |-> tag, draft |-> TRUE, immutable |-> FALSE, published |-> 0,
                                      at |-> time + 1, assets |-> 1, digest |-> TRUE,
                                      signed |-> [run |-> NextId(f), policy |-> ExtractPin(f),
                                                  tag |-> tag, head |-> time + 1]] >> \o @]
    /\ UNCHANGED policy

PublishRelease ==
    /\ Change /\ SameLocks
    /\ \E f \in ReleaseFamilies : \E i \in DOMAIN estate[f].releases :
          /\ estate[f].releases[i].draft
          /\ estate' = [estate EXCEPT ![f].releases[i] =
                            [@ EXCEPT !.draft = FALSE, !.immutable = TRUE, !.published = time + 1]]
    /\ UNCHANGED policy

StartVerification ==
    /\ Change /\ SameLocks
    /\ \E f \in Families \ ReleaseFamilies :
          estate' = [estate EXCEPT ![f].runs =
                        <<NewRun(f, [space |-> Main, version |-> 0], time + 1)>> \o @]
    /\ UNCHANGED policy

FinishRun ==
    /\ Change /\ SameLocks
    /\ \E f \in Families : \E i \in DOMAIN estate[f].runs :
          /\ ~estate[f].runs[i].success
          /\ estate' = [estate EXCEPT ![f].runs[i] = [@ EXCEPT !.success = TRUE, !.finished = time + 1]]
    /\ UNCHANGED policy

\* GitHub deletes the oldest run when its time is up; people may do so before.
DeleteRun ==
    /\ Change /\ SameLocks
    /\ \E f \in Families :
          /\ estate[f].runs # <<>>
          /\ estate' = [estate EXCEPT ![f].runs = SubSeq(@, 1, Len(@) - 1)]
    /\ UNCHANGED policy

MoveTag ==
    /\ Change /\ SameLocks
    /\ \E f \in ReleaseFamilies : \E i \in DOMAIN estate[f].releases :
          /\ ~Stops(f, "update")
          /\ estate' = [estate EXCEPT ![f].releases[i].at = 0]
    /\ UNCHANGED policy

Next ==
    \/ Start \/ ReadPin \/ ReadCompare \/ ReadRulesets \/ ReadRuleset
    \/ ReadTags \/ ReadTagCompare \/ ReadTree \/ ReadHistory
    \/ ReadRun \/ Abort \/ ReadRelease \/ ReadTagCommit \/ ReadProvenance \/ ReadReleases
    \/ ReadRuns \/ ReadCurrent \/ Finish \/ Render
    \/ MoveMain \/ MovePolicyTag \/ SetRulesets \/ Repin
    \/ StartRelease \/ PublishRelease \/ StartVerification \/ FinishRun \/ DeleteRun \/ MoveTag

Spec == Init /\ [][Next]_vars
----------------------------------------------------------------------------
(***************************************************************************)
(* What the exit status 0 of the audit means.                              *)
(***************************************************************************)
Recorded(families) == { e \in Range(manifest.families) : e.family \in families }

\* No release of the namespace published before the audit began is newer than
\* the recorded one.
NewestRelease(e) ==
    \E known \in ReleasesAt(e.family, e.ref) :
       \A r \in PublishedIn(Range(estate[e.family].releases), e) :
          r.published <= audit.now => r.published <= known.published

\* Nor is a run that had finished, unless the recorded one is long gone.
NewestRun(e) ==
    ~HasExpired(e, audit.now) =>
       \A r \in RelevantRuns(Successes(e.family), e) :
          r.finished <= audit.now => r.started <= e.started

\* The newest verification on main that had finished ran the recorded pin.
NewestVerification(e) ==
    \A r \in RelevantRuns(Successes(e.family), e) :
       r.finished <= audit.now /\ ReferencedPolicySha(r) # e.pin =>
          \E s \in RelevantRuns(Successes(e.family), e) :
             s.started > r.started /\ ReferencedPolicySha(s) = e.pin

\* A release published, or a run of the namespace finished, before the audit
\* began and newer than the recorded one is never passed over: pages, order of
\* the response, siblings in other namespaces and runs long deleted included.
\* Nor is a verification of another pin, whether the reviewed run can still be
\* read or not.
EvidenceIsCurrent ==
    exit = 0 =>
        /\ \A e \in Recorded(ReleaseFamilies) : NewestRelease(e) /\ NewestRun(e)
        /\ \A e \in Recorded(Families \ ReleaseFamilies) : NewestVerification(e)

\* No read fails without failing the audit, however many checks go on after it.
NoPassOverFailedRead == exit = 0 => ~faulted

\* The release at the recorded tag is published, immutable and signed by the
\* recorded run, and its tag names the recorded commit as long as the tags have
\* been locked since the audit began.
Holds(e) ==
    \E r \in ReleasesAt(e.family, e.ref) :
       /\ r.immutable
       /\ r.signed.run = e.run /\ r.signed.policy = e.policy
       /\ e.family \in loosened \/ r.at = e.head

\* When the audit passes, so is every recorded release, though the run, the
\* release, the tag and the signature are read one after another.
EvidenceHolds == exit = 0 => \A e \in Recorded(ReleaseFamilies) : Holds(e)

\* A pin off main that a locked tag admitted stays reachable until somebody
\* unlocks the tags: the ruleset is read before the tags it locks.
AdmittedPinStaysReachable == \A a \in held : Admits(a.tag, a.pin)
----------------------------------------------------------------------------
(***************************************************************************)
(* What the proofs assume of the constants and of the world.               *)
(***************************************************************************)
PolicyStates ==
    [main : PolicyCommits, tags : [PolicyTags -> PolicyCommits \cup {NONE}],
     rulesets : RulesetStates]

TagRecords == [name : PolicyTags, sha : PolicyCommits]

Refs == [space : Spaces \cup {Main}, version : Nat]
RunRecords ==
    [id : Nat, branch : Refs, commit : Nat, started : Nat, pins : Seq(PolicyCommits),
     success : BOOLEAN, finished : Nat]
ReleaseRecords ==
    [tag : Refs, draft : BOOLEAN, immutable : BOOLEAN, published : Nat, at : Nat,
     assets : Nat, digest : BOOLEAN,
     signed : [run : Nat, policy : PolicyCommits \cup {NONE}, tag : Refs, head : Nat]]
Consumers ==
    [declared : Seq(PolicyCommits), rulesets : RulesetStates, runs : Seq(RunRecords),
     releases : Seq(ReleaseRecords)]

\* At a time, what a consumer has is numbered in the order it came about, and
\* nothing comes from the future.
InOrder(c, t) ==
    /\ \A i \in DOMAIN c.runs : c.runs[i].started <= t /\ c.runs[i].id < t + 10
    /\ \A i, j \in DOMAIN c.runs :
           i < j => c.runs[j].started < c.runs[i].started /\ c.runs[j].id < c.runs[i].id
    /\ \A i \in DOMAIN c.releases : c.releases[i].tag.version <= t
    /\ \A i, j \in DOMAIN c.releases :
           i < j => c.releases[j].tag.version < c.releases[i].tag.version

CanaryAssumption ==
    /\ Families # {} /\ ReleaseFamilies \subseteq Families /\ POLICY \notin Families
    /\ IsFiniteSet(PolicyTags)
    /\ NONE # 0 /\ NONE # 1 /\ NONE \notin PolicyCommits
    /\ Policies \subseteq PolicyStates
    /\ \A c \in PolicyCommits : Reaches(c, c)
    /\ Calls \subseteq Seq(PolicyCommits) /\ Estates \subseteq [Families -> Consumers]
    /\ StartTimes \subseteq Nat
    /\ \A c \in Estates, f \in Families, t \in StartTimes : InOrder(c[f], t)
    /\ PageSize \in Nat \ {0}
    /\ \A doc \in Manifests : doc.families \in Seq(Range(doc.families))

=============================================================================
