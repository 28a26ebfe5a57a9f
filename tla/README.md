# Release policy, in TLA+

A verification development of `ryanduguid/release-policy`: the reusable GitHub
Actions workflows that check, build, attest and publish releases, the tools they
run, the audits that look at releases afterwards, and the workflows that review
pull requests and keep attribution current. The modules are read with the code
beside them; every mapped definition names its lines in `PROJECT.json`.

- [The system](#the-system): its components, their state and operations
- [How the parts interact](#how-the-parts-interact), and what is hard about them
- [The modules](#the-modules): what each models and how it corresponds to code
- [Runs](#runs): what is model-checked, with which bounds, and what it shows
- [Proofs](#proofs): what holds for every value of the constants, and why
- [Disagreements and races](#disagreements-and-races)
- [What is assumed](#what-is-assumed), [Not modelled](#not-modelled) and
  [Plan](#plan)

## The system

Paths are relative to `src/`. What runs in a release are shell and Python scripts
under `scripts/`, called by workflows under `.github/workflows/`. The Rust crate
under `src/` is the same set of tools again, with the behaviour of the Python ones,
test for test; where both exist the model is read from the Rust code.

| component | code | state it keeps | operations |
| --- | --- | --- | --- |
| publication | `scripts/publish_common.sh`, `publish_{python,archives,binaries}.sh` | `release_id`, `published`, loop counters; GitHub's releases, tag, main | create a draft, upload assets, inspect, last gates, PATCH, confirm immutability, verify; the EXIT trap |
| GitHub listings | `read_pages`, `paginate` in `src/required_checks.rs` | page, total, ids of a reading, the first reading | read page by page, twice; start over up to three times |
| required checks | `src/required_checks.rs` | a deadline, a per-round cache of job lists | list trusted runs, read their jobs, judge, wait |
| release gates | `scripts/gates.sh` | none; reads GitHub and the checkout | main matches / contains, tag, version, notes, clean tree, no existing release |
| binary release | `release-binary.yml`, `scripts/binary_release.py` | job results, artefacts, digests passed between jobs | checks, build per target, admit, publish |
| python candidate | `src/release.rs`, `release-python.yml` | one artefact directory: payloads, manifest, sums | create-candidate, verify-candidate |
| archives | `src/archives.rs`, `git_revision.rs` | the output directory | resolve, two preflights, ZIP and tar.gz, cleanup |
| PR review: statuses | `pr-review.yml`, `scripts/pr_review.py` | commit statuses, `identity.json`, the report | capture, review, publish, fallback |
| PR review: capture | `collect` in `scripts/pr_review.py` | the snapshot being collected | read the PR, its files page by page, contents, the PR again |
| PR review: receipts | `pr_review_agent.py`, `pr_review_receipts.py` | the receipt journal, money spent and reserved | reserve, intend, send, record, look up, accept or reject, report |
| attribution repin | `attribution-repin.yml`, `scripts/repin_issue.py` | one issue on GitHub | prepare a patch, test it, file or refresh the issue |
| attribution status | `src/attribution.rs` | a snapshot file, a result file, a commit status | prepare, scan, finish |
| review ledger | `src/check_reviews.rs` | index, verdict files, register of known unknowns | check a consumer, append-only against a base |
| canaries | `src/check_canaries.rs` | `canaries.json` | compare recorded evidence with GitHub, some fifteen reads per family |
| egress check | `src/egress.rs` | none | collect, exclude, read and scan files |
| pin families | `src/pin_families.rs` | none | closure of references at two commits, verdict per family |
| command line | `src/main.rs`, `cli_checks.rs`, `common.rs` | stdout's buffer | print, flush, exit status |
| Python in Rust | `src/pyjson.rs`, `py.rs`, `pyunicode.rs` | none | JSON, dates, strings, numbers as Python has them |
| skill releases, CI, installers | `verify_skills.rs`, `ci.yml`, `pr_review_install.py`, scanners | none between jobs | tests of files, lint, set-up |

What makes the stateful ones correct:

- *Publication.* One public release per tag, holding exactly what was built;
  success means immutable, attested and tagged at the commit; failure leaves no
  draft of its own and touches nobody else's; a public release is never taken back.
- *Listings.* What is returned was the listing at one instant.
- *Required checks.* No red, missing or running check authorises a release; green
  ones do, in time; the gate ends.
- *Gates on main.* A pass keeps the component and its workflow; an unrelated merge
  is no refusal.
- *Binary release.* The files of one attempt, admitted by the publisher, described
  by their SBOMs; overlapping runs neither race past a re-check nor block each other.
- *Python candidate.* It verifies if and only if it is, byte for byte, what one
  build of exactly this context made, however artefacts were mixed on the way.
- *Archives.* Both files are of the one commit the revision named, or nothing new
  is left and nothing old is lost.
- *PR review.* A clear commit is a reviewed commit; the latest run's word stands;
  nothing is left pending; a capture is the whole change of the head it names; the
  journal knows of every request that may have been paid for.
- *Repin.* One issue of the workflow's own, never an older patch, never in a
  person's issue, and no stale pin forgotten.
- *Attribution status.* Success is about the text that was scanned; when the runs
  are over it is about the text that is there.
- *Review ledger.* What is listed on main never changes, an unknown closes once and
  stays, a question stays registered, in whatever order pull requests are merged.
- *Canaries.* A passing audit read everything it had to, and what it accepted was
  the latest evidence and held while it looked.
- *Egress, pin families, command line, JSON.* Nothing is cleared that was not read;
  families re-pin exactly when a file of theirs differs; status 0 is earned, and all
  that was printed has arrived; a text is read as the grammar says and reads back.

## How the parts interact

A release workflow runs its `checks` job (required checks, gates on main and tag),
builds, hands files over as artefacts, repeats gates, and calls a publish script as
its last step. Between any two calls of any of these GitHub changes: other runs for
the same tag, merges and force pushes, moved tags, re-runs, background work such as
digests, immutability and attestations. The tools share no memory. All they have
in common is GitHub's state, and what a job hands to the next by outputs and
artefacts.

What is hard, therefore, and what the models are built around:

- state read in one call and relied on in a later one (tags, main, listings, a
  pull request's head, a ruleset, a branch);
- writes whose answer is lost: the release's POST and PATCH, an upload, a status,
  an issue, a paid request;
- traps, cleanups and fallback steps, which run when something else went wrong;
- concurrency groups, which serialise some runs and drop waiting ones;
- re-runs, whole or partial, which mix results of several attempts;
- checks of one step each (a pull request against its base) that are to add up to a
  property of a whole history;
- bounded waits and retries; a runner that dies; a stream that breaks.

Composition. `ReleaseContract` is what the publication promises to the rest.
`ReleasePublication` implements it (a refinement checked by TLC and proved), and
`BinaryPipeline` uses it as the step its publish job takes, so the pipeline need not
know the script. `Listing` justifies the one-instant reads of `RequiredChecks`;
`MainGate` justifies the one-bit `MainContains` of `ReleasePublication`; `PrCapture`
justifies the one-step capture of `PrReview`, and `ReceiptJournal` opens up the
review that is one step there; `JsonScalars` justifies the tokens of
`JsonDocument`; `ReviewLedger` judges dates with `PyDates`.

## The modules

Operators marked "Mutant" in the modules are faulty variants of the definition that
follows them. They are used by nothing, and show that a property fails when the code
has that fault.

### Publishing

**`ReleasePublication`** executes the re-check and the publish script line by line.
`pc[r]` is the line run `r` is about to execute, `rid`, `published` and `attempt`
are the script's variables, `release` is GitHub's record of every release id. Each
`test` under `errexit` is a `Gate`, each `for _ in 1 2 3 4 5` loop a `Poll`. Any
call may fail (`Abort`), a write may take effect unanswered, the runner may vanish
without its trap (`Kill`), and with `LatePatch` a PATCH may be applied after its
client gave up. Runs overlap freely: no concurrency group is assumed.

**`ReleaseContract`** is the reader's view: one owner, sealed, announced.

**`BinaryPipeline`** is the workflow's jobs with their `needs`, outputs and
artefacts. An archive is known by the build that made it and whether it is admitted;
the admit job may leave another archive than it admitted, digests included, which is
what the publisher's own admission defends against. A re-run restarts any set of
jobs GitHub can, with all that need them. Artefact names carry run and attempt.

**`ReleaseCandidate`** is a directory that jobs of several attempts write and read:
`create-candidate` in its order of reads and writes, `verify-candidate` with every
comparison, and files that are lost, emptied, added, re-serialised or taken from
another attempt in between. A file is its identity and size; a manifest is the record
of what it claims.

**`ArchiveBuild`** is the command as the sequence of git calls it makes: the branch
is resolved once, both preflights look at the disk, each write may fail half way, and
the cleanup removes what this command made.

### Gates and checks

**`Listing`** is a paginated listing read while entries appear and vanish. `seen`
and `first` are what the reading collected, `total` its first page's count;
`snapshot` and `still` are history variables for the properties. A page is served
by offset. Ids are never reused.

**`RequiredChecks`** is the gate's loop: list trusted runs, read the jobs of one
after another into `cache`, judge, sleep. What GitHub's runs do in between is free;
a re-run keeps the run's id and drops jobs until they are created again.

**`MainGate`** is `gate_main_matches` and then several `gate_main_contains`, over
trees, renames and cut listings. Paths are sequences of components, so that the
prefix test of `def owned` is what it is in the code.

**`PinFamilies`** walks the references from every family's workflow at the old
commit and at the new one, with a queue and a set of what was found, as the code
does; the property compares each verdict with reachability as a graph has it.

**`EgressCheck`** reads the terms, collects files below directories and links, sets
excluded ones aside and reads the rest line by line, with reads that fail.

### Reviewing

**`PrReview`** is one pull request and the runs that review it: three jobs and
their fallback steps, statuses on commits, the group of the pull request's own
events and dispatches, and the Dependabot bridge's run, whose group is its own.
`mishaps` are the runs that were killed or one of whose status writes got no answer.

**`PrCapture`** is `collect`: the head of the moment, its files page by page, the
contents at two fixed commits, the head again. A patch is the pair of contents it
leads from and to; GitHub pairs renames and may leave a patch out.

**`ReceiptJournal`** is `review_snapshot`: `data` is the journal in memory, `disk`
what the last atomic save left, `bills` what OpenRouter charged, known to the program
only as far as a response tells. Every `update` is a save that can fail, with the old
or the new file left, and that refuses a journal its own rules do not allow; the
runner can die before any step.

**`ReviewLedger`** is a consumer's `main` as a sequence of trees, and pull requests
whose trees people write at will. `CheckConsumer` judges a checkout and its base;
what it accepts may be merged later, when git joins the changes of both sides.
**`PyDates`** has the calendar, the ISO weeks and the texts `fromisoformat` reads.

**`AttributionStatus`** is one run per pull request, of the newest event waiting:
`prepare` takes a snapshot and posts pending, the scan binds its result to it,
`finish` reads the pull request again and posts. Titles are edited, heads pushed and
shared between pull requests, the base moves, and calls fail.

**`RepinIssue`** has main as a history of commits with the action's contents, the
pin, the other patched files and their ancestors. Runs check main out, compare, file
and give way to each other in their group; people merge, edit, rewrite main, open and
close issues.

### Auditing

**`CanaryAudit`** is `check_live`, one action per read, with its local variables in
`audit`; the world it reads (releases, runs and their expiry, tags, rulesets, the
history of release-policy) changes between any two of them, and any read may fail.
`faulted`, `loosened` and `held` are history variables: that a read failed, whose
tags were unlocked since, which pins were admitted under which tag.

### Underneath

**`CommandLine`** has every command with what it found, the texts it prints where,
the buffer of stdout, streams that break at any moment, and the exit status.

**`JsonDocument`** is the reader with its own stack, and the writer, over tokens;
**`JsonScalars`**, which it extends, scans numbers and strings character by character,
with variables of its own. Their properties compare with the grammar, stated as a
definition of its own.

### Instances

`MCRequiredChecks`, `MCReviewLedger`, `MCBinaryPipeline`, `MCPrReview` and
`MCPrCapture` hold values and symmetries. **`Audits`** and **`Tools`** put machines
that know nothing of each other side by side: a variable says which one moves, and
all others stand still, so their states add up and do not multiply. `Audits` is
`CanaryAudit` with an instance of `MainGate`; `Tools` is `Listing` with instances of
`ReleaseCandidate`, `ArchiveBuild`, `PinFamilies`, `AttributionStatus`,
`EgressCheck`, `RepinIssue`, `CommandLine`, `PrCapture` and `ReceiptJournal`, each with
its own constants and variables. Theorems are about these two modules. **`MCAudits`**
and **`MCTools`** give them their values; `MCTools` extends `JsonDocument` too, so that
the reader and writer of JSON and the scanner below them share the run as two more
machines. The theorems about those are about the two modules themselves. Each property
of `Tools` is guarded by the machine it is about; `JsonIsReadExactly` speaks of stages
that only the machines of JSON have.

## Runs

| run | instance | distinct states | shows |
| --- | --- | --- | --- |
| `publication_two` | 2 runs, 2 ids, 1 asset, 2 retry rounds | 614k | the safety of publication, and that it implements `ReleaseContract` |
| `publication_one` | 1 run, 2 assets, 3 rounds, late PATCH, fair | 12k | staleness withdraws the draft; every loop ends |
| `publication_late_patch` | 1 run, late PATCH | | a violation, see below |
| `checks` | 1 check, 2 trusted runs, wait 2, poll 3, 1 re-run, fair | 112k | red is never outvoted, green is seen, the gate ends in time |
| `checks_rerun` | as above with wait 1, poll 1 | | a violation, see below |
| `binary` | 2 runs for 2 commits, one with 2 attempts, 1 target, 1 tag move, fair | 751k | one attempt's files, admitted and described; runs end |
| `review` | 2 runs, 2 heads, 2 bases, 2 models, 2 changes of the PR | 5.1M | what clear means, who prevails, nothing left pending |
| `capture_return` | 3 files, pages of 2, a head may come back | | a violation, see below |
| `ledger` | 2 pull requests, 2 reviews, 2 unknowns, 3 commits of main | 111k | the ledger is append-only over the whole history |
| `ledger_weeks` | the same with week dates | | a violation, see below |
| `audits` | gates: 4 paths, 3 contents, limit 2, 2 later gates; canaries: 2 families, 5 policy commits, 2 changes | 4.5M | a pass keeps the component; an audit that passes has read all, and what it accepted held |
| `tools` | twelve machines, below | 3.5M | one property each |

The machines of `tools`, with their properties:

| machine | instance | property |
| --- | --- | --- |
| `Listing` | 4 ids, page size 1, 2 tries | `ReturnsASnapshot`: what is returned was the listing at one instant |
| `ReleaseCandidate` | 5 contexts (another attempt, commit, version, tag), 2 jobs, 3 file changes | `VerdictIsExact`: accepted exactly when it is what one build of this context made |
| `ArchiveBuild` | 2 commits, one of which turns a directory into a link; 2 places; 2 commands | `ArchivesAreExact` |
| `PinFamilies` | 2 families that share an action, a script and a module; pairs of trees over 5 paths, four of which are there at the second commit and one at the first | `VerdictsAreExact` |
| `AttributionStatus` | 2 pull requests, 2 heads, 2 events, and 1 base move or 1 failed call | `StatusIsTrue`: success is about clean text, nothing stays pending |
| `EgressCheck` | 4 files below directories and links, 4 requests, 3 term files, 1 failed read | `ClearedIsScanned` |
| `CommandLine` | every command, counts up to one or two, buffer of two | `ZeroMeansDone` |
| `JsonDocument`, `JsonScalars` | every text of up to 5 (4) symbols, and all one edit away from long ones | `JsonIsReadExactly` |
| `PrCapture` | 3 files, 2 heads, 2 pushes, pages of 1, no head comes back | `CaptureIsComplete` |
| `RepinIssue` | 3 runs, 2 contents, 4 commits, 2 issues, and 1 failure or rewrites of main | `FiledOnce`, `IssuesAreKept` |
| `ReceiptJournal` | 3 calls that reserve 2, 1 and 1; bills of 0 to 2 | `ReceiptsAreTrue`: the journal knows every bill it can, reservations hold, reports are backed |

Why the bounds are enough for what they are used for. The hazards are races of two
actors, so two runs (pull requests, jobs) show them; the theorems lift every
safety property to any number. Two retry rounds tell a first from a last one. A page
size of one makes every entry a page boundary. The main gate's limit of two has
listings below, at and above it. Two attempts of a run tell the current from
an earlier one. Two moves of a tag, a pull request or a repository leave a value and
come back. The repin history of four commits has a change, its repin and another
change or rewrite. The instance of the attribution status has one mishap, and that
of the repin workflow failures or rewrites, not both together; the theorems about
them have no such bound. Three calls let a first bill overrun, use the slack of
another, or leave the last one short. Short texts contain every prefix of the
grammar's rules; the edits of long ones reach each rule nested. Counters that the
code does not bound (clock, re-runs, pushes, moves, commits, issues, failures) are
bounded by the constants marked "bound" in each module.

Symmetry is used only in runs whose properties are invariants or action properties,
over sets no definition orders. Where interchangeable things are numbered, the
instance lets them turn up in the order of their numbers instead: entries of a
listing (`Numbered`, `InTurn`), runs of the repin workflow (`RunsInTurn`),
generation identifiers (`IdsInTurn`). Every behaviour is one of those up to
renaming, and no definition or property looks at the number.
`CHECK_DEADLOCK FALSE` stands where the program really ends.

Types are part of the inductive invariants below or stated as theorems; the runs
spend their properties on what could be wrong.

Fairness. `ReleasePublication!Fairness` says a shell goes on: every call returns or
fails, which the job's `timeout-minutes` enforces. It is not asked of GitHub, of
`Kill` or `Abort`; retry loops end because they count. In `RequiredChecks` the
gate's calls return and time passes; runs owe nothing, so `GateEnds` holds although
a check may stay pending for ever. In `BinaryPipeline` a job that can go on does, or
fails; queued jobs get no promise beyond their group becoming free. `PrReview`,
`AttributionStatus` and `RepinIssue` need none: that no commit is left pending and no
debt is forgotten are stated as invariants over runs that are over. The steps of a
run there do not loop.

## Proofs

TLAPS checks these for every value of the constants that meets the named assumptions
of each module, which TLC evaluates on the instances. The inductive invariants stand in
the proof modules, beside the lemmas that use them.

| theorem | says |
| --- | --- |
| `ReleasePublicationProofs!Invariance`, `TypeCorrect` | the inductive invariant, types, bounded counters |
| `!Exclusion` | any number of overlapping runs publish at most one release |
| `!Soundness` | reported success is an immutable, attested, exact release at its tag |
| `!Exactness` | whatever is public is one run's whole candidate |
| `!CleanFailure`, `!DeleteIsOwn` | a quiet failure leaves no draft; only the owner's trap deletes |
| `!NoRollback` | if no PATCH outlives its client, nothing public is taken back or changed |
| `!StaleIsWithdrawn` | a run that can hear that it is stale deletes its draft or has lost it, before it ends |
| `!Implements` | if no PATCH outlives its client, every step of any number of runs is a step of `ReleaseContract` or none |
| `ReleaseToolProofs!Snapshot` | `paginate` returns a listing of one instant, for every page size |
| `!ArchivesOfTheCommit` | for any commits, directories and overlapping moves of the branch: both archives are of the one commit, or nothing is left and nothing is lost |
| `!OnlyCandidatesVerify` | for any contexts, jobs and damage: what is accepted is, byte for byte, one build of the context asked for |
| `!ClearedWasScanned` | for any directories, links and requests: what check-egress clears was read in full |
| `!RepinsAreExact` | for any two trees of sources: a family is re-pinned if and only if a file it reaches differs |
| `!ZeroIsDone` | for any calls, buffer and streams that break: status 0 was earned, and all that was printed has arrived |
| `WorkflowProofs!StatusSettles` | for any pull requests and heads: success is about the text that is there, and nothing stays pending |
| `!DebtIsFiledOnce`, `!IssuesOnlyGoOn` | for any runs, failures and histories of main: one issue, for what main owes; never an earlier patch, never a person's issue |
| `!CapturedIsWhole` | for any trees, renames, page sizes and pushes of new heads: a confirmed capture is the whole change of the head it names |
| `!JournalKnowsTheBills` | for any reservations, bills and failures: whenever the runner dies the journal on disk knows what may have been billed, reservations hold, and a report is backed |
| `AuditProofs!GatesKeepTheComponent`, `!UnrelatedMergesPass` | the gates on main, for any trees, component, renames and limit |
| `!FailedReadsFail`, `!AdmissionLasts` | for any families, histories and rulesets: no audit with a failed read ends well; an admitted pin stays reachable while its tags stay locked |
| `!EvidenceIsReal` | whatever changes between the reads: what a passing audit accepts of a family held, at GitHub, at one moment of the audit |
| `!EvidenceIsTheNewest` | a family's accepted run was its latest success when the audit listed them |
| `BinaryPipelineProofs!PublicIsDescribed`, `!RecheckHolds`, `!OneAttemptOnly` | for any runs, targets and attempts: public archives are the described ones, the re-check does not go stale, no attempts are mixed |
| `PrReviewProofs!TypeCorrect`, `!ClearMeansReviewed`, `!PendingGetsSettled`, `!LaterRunsWin`, `!VerdictStands` | for any runs, heads, bases and models: what clear means, nothing left pending, the later run of a group prevails, no verdict is covered by its own run's failure |
| `ReviewLedgerProofs!ListedStays`, `!UnknownsKept` | for any pull requests in any order of merges: listed reviews never change, unknowns close at most once, questions stay registered |
| `ChecksAndJsonProofs!TypeCorrect`, `!NeverPassesOverFailure` | the gate never passes over a trusted run that was there and has not succeeded since |
| `!NumberIsLongest` | for any text over any characters: `match_number` takes the longest number the text begins with, and refuses only where there is none or its digits are too many |
| `!StringReadsBack` | for any text: `scanstring` returns the one string spelt up to the closing quote and refuses only what spells none; what `dump_str` writes of it spells that string and no other |
| `!TextReadByGrammar` | for any text over any keys: the document reader returns exactly the value the grammar gives the text, and refuses exactly the texts to which it gives none |
| `!WrittenIsReadBack` | for any options: what the writer writes of a value that was read denotes that value, with every key in its place unless keys were sorted, and then one that Python's `==` takes for it |
| `!JsonReadExactly` | the four together: `JsonIsReadExactly`, as the run `tools` checks it |

*Publication.* None of the properties is inductive. `IInv` adds what each line
knows of its release (`LineInv`: past `inspect` the draft is ready, past `confirm`
it is sealed), what a run owns (`OwnInv`), what is public (`ReleaseInv`), and the
part that gives exclusion: no two runs are *committed*, that is, have published or
can no longer be stopped from it. A run commits on a listing that shows its own
draft alone, and whatever a committed run owns is listed, so the second one sees
it. Steps fall into a few kinds (a gate, a poll, an end, a write to one's own
release, GitHub's background work, maintainers), each with one lemma.
`NoStalePublication` needs no more: from a line before the last gate that a stale tag
or main closes, only a pass of that gate leads to the PATCH (`WithdrawnStep`).

The refinement maps what a reader sees: the candidate that is public (`owner`), its
immutability, the runs that reported success. `Seen` says the invariant allows a
reader two kinds of state only, nothing public, or one release with its owner, and
`ContractStep` that a step between two such states is one of the contract's or a
stutter. It is where `LatePatch = FALSE` is needed: a PATCH that outlives its client is
how a public release can vanish.

*Listings.* `ReadingInv` relates the two readings to the history: an entry of the
first reading that is missing when the second begins is gone for good, so the
second, which found the same ids, cannot have seen it. With the count of the first
page that makes the ids the snapshot. The lemmas before it are about sequences:
entries of slices and of concatenations, and that distinct entries count.

*Required checks.* The property is temporal. What stays true while a run's check
has not succeeded is that the run is listed and its cached view, if read, is not a
success; from that no verdict is "passed". `FreshCache` says nothing is read before
the listing it belongs to.

*Main gate.* A pass follows from the names of a complete listing: every changed path
is an entry's name or its previous name, whatever renames GitHub pairs.

*Binary release.* `Traced` says what an artefact's name tells of its contents, and
that one of the last attempt's name was made by a job of that attempt; `Holds` says,
position by position, what the publish job has of it (archives it admitted itself,
then SBOMs about the same ones from an admit job that ran again), and `OneAtATime`
that the concurrency group keeps two publishers of a tag apart, which is what makes
the re-check last.

*Review.* `Local` says what a run knows where, `Written` what the status of a commit
tells of the run that wrote it, and `InOrder` that a group has one run under way, and
in its first attempt the last one that began: a writer is therefore never older than
the one it overwrites.

*Ledger.* The comparison of a tree with its base is a preorder (`RequireAppendOnly`
is reflexive and transitive), and git's join of two trees that both grew from a
commit grows from either one as it was listed. `HistoryInv` is then that every commit
of main grows from every earlier one. `BoundInv` ties each listed review to the text
its digest is of and to the register's headings, so that what the comparison keeps
(digests and headings) keeps texts and questions.

*Archives.* `FilesInv` ties what is on disk to what was there when git began to
write, and `CommitInv` what is in an archive to the commit that was resolved before
either preflight, whatever the branch does since.

*Python candidate.* Every manifest and every checksum file in the directory, wherever a
job took it from, was written by `create-candidate`, and each of those is the record of
one build (`IsCandidate`). As a manifest is the bytes of an inventory, equal manifests
are equal inventories, and a directory that agrees with its own manifest and the context
asked for can only be that build.

*Egress, pin families.* Both walk a graph with a queue. What they ought to find is
stated without a walk: a path counts if it is in every set that is closed under the
references (in the whole of what was asked for). `WalkInv` says that what was found or
waits is within every such set, and that what was found leaves nothing out that is not
found or waiting; when the queue is empty the set found is closed itself, hence the least
one. No induction over the graph is needed.

*Attribution status.* `FilesInv` ties snapshot, result and verdict of a run, `FreshInv`
says a run nobody has outdated judges the pull request as it is, `OpenInv` that who
posted pending has still to close it, and `JudgedInv` what a run that is over has left
on a commit of its own.

*Repin.* `RunInv` says what a working run knows: it checked out a commit whose pin was
stale, no filed patch is for a commit beyond it unless main dropped that one, and what it
will write is its own issue or there is none. `DebtInv` is the conservation law: what main
owes is filed, in a person's way, or some run's job, and the group never drops a waiting
run but for a newer one.

*Capture.* `IInv` is about the captures that will be confirmed: while the head is the one
the count was read for, and heads do not come back, every page was a page of its change.
What was read are then entries of that change, with or without their patches, of
different paths, and as many as it has changes; a one-to-one map between finite sets of
one size leaves nothing out. Where a page begins and in which order it comes makes no
difference, and the proof uses neither.

*Receipts.* `LiveInv` says that the journal in memory is the one on disk, and reads it
call by call: accepted before the one under way, untouched after it, and of the one under
way exactly what its line has recorded (`IsUnderWay`). Each line is one lemma, and a save
that fails leaves the old journal or the new one, either of which is true of the bills
(`BillsAreJournaled` asks nothing of an answer nobody has read). `MoneyInv` keeps the
account: what was spent and what is left of the reservation are sums over the calls
accepted. Sums are recursive functions; that they grow by the next amount and are
monotone is proved from the least counterexample, as no induction theorem can be used.

*Command line.* `IsPrinted(k)` is the account of the streams after `k` texts: each text of
stdout has arrived or is held back, each of stderr has arrived, unless the failure is
already noted in `pending` or `errFailed`. Shutdown empties the buffer or turns status 0
into a failure. That status 0 is earned is a fact about `Execute` for each command.

*Canaries.* `ReportInv`: an error is never taken out of the report. `LockInv`: the
ruleset is read before the tags it locks and the tags before the comparison, so that
what was read under the lock is still so. For the evidence, `WorldInv` is what the
world may not do: runs and releases stay in the order in which they came about, ids do
not come back, and a tag that was not locked is known. `Progress` says of every line of
`check_live` what the reads before it have established of the canary at hand, stated so
that it survives any later change of the world (the lemmas `GoesOn`), and `PassInv`
that what was established of the canaries before it still stands. A listing read page
by page is described by `Place`, the position of a run: what is at or above a place
never moves up, so a run that was not on the pages read is on those to come.

*JSON numbers and strings.* Texts are of any length, and no induction theorem can be
used, so each fact about them is proved from the shortest text without it. That
`Contents`, the strings a text spells, is well defined comes first: tables for texts up
to a length agree where both have a value (`StepsAgree`, `UnrolledExists`). The spellings
of characters are prefix-free (`PrefixFree`), hence a text that begins with one says that
character and then what is behind it (`ContentsBegin`), and one that begins with none says
nothing (`ContentsStuck`). The invariant of the scanner is `ReadTo`: however the text goes
on, it says what was read so far and then what is left. For a number, the grammar is
restated position by position (`IntegerAt`, `FloatAt`), and each phase of `match_number`
knows which of those positions no number can end beyond.

*JSON documents.* The grammar is about whole texts, blanks aside, and may split a list at
any comma; the reader goes from left to right through a text with blanks and keeps a stack.
Between the two stands `Stands(t, i)`, the values that may stand at a place and where each
of them ends. It unfolds as a reader would: at a bracket into the list behind it, a list
into its first element and what follows (`ContainerStarts`, `ListUnfolds`, `MembersFrom`).
A frame of the stack is then a context: `Outer` is what its container may become, and where
it may end, if its next value is one of a set. The invariant `Reading` says that what may
stand at the reader's place, put through every frame of the stack, is what may stand at the
beginning of the text. A step unfolds the innermost context or closes it; a refusal finds
nothing there, and of nothing every frame makes nothing (`LeadsNowhere`). That `Dict`, which
takes the pairs one by one, keeps what the grammar merges, is `DictIsMerged`. That the
grammar's equation has a solution at all is proved like that of `Contents`.

*Written documents.* The invariant `Writing` is about values only: what was written is what
`Dumps` gives for the value that was read and for some options. All the rest is about
`Dumps`, the grammar and `PyEq`, which recurse on how deep a value nests; `LevelsAre` gives
each of them a level in terms of the one below. Three facts carry it. A value that a text
of n tokens denotes is one of the n-th level, with no key twice (`MeantIsJson`,
`MergedMeant`), so that what is read can be written at all. What the writer lays between
brackets, whatever its line breaks and separators, is read as the list of what its items
are read as, wherever a text bears it (`ReadsAs`, `BracketedReads`); the blanks of the text
move places, not tokens. And the pairs of an object put in the order of their keys are the
same pairs (`InOrderIs`), which `Merged` leaves alone and Python's `==` takes for the same
object. `Back` puts the conclusions together: what is written of v is read as one value w,
which equals v and is v unless keys were sorted. A value that had no such w, of the least
level, would hold one that has none (`MeantReadsBack`).

What is assumed of the constants: `ConstantsAssumption` and its like, the named
assumption of each module, and in `Audits` and `Tools` the ones of the instances,
`CanaryAssumption`, `MainGateAssumption`, `EgressAssumption`, `PinAssumption`,
`RepinAssumption`, `LineAssumption`, `CaptureAssumption` and `ReceiptAssumption`. The
theorems about JSON have `ScalarAssumption` and `DocumentAssumption` as hypotheses, which
`MCTools` assumes of its instances. They say what sets and types the constants are, that
"none" is no value, that no key is a bracket, and, for the canaries, that the estates an
audit can begin with are in order. TLC evaluates all of them on the instances. Two theorems about publication also suppose `LatePatch = FALSE`,
and `CapturedIsWhole` that a head which was left is not pushed again; the runs
`publication_late_patch` and `capture_return` show that they have to.

Attempts that failed and what they showed:

- `VerdictIsExact`, `VerdictsAreExact` and `ClearedIsScanned` held; but the branches of
  three CASE expressions overlapped (a preflight of `ArchiveBuild`, the status of
  `EgressCheck`, the category of `ReceiptJournal`), of which TLA+ lets any apply where the
  code tries them in order. They are chains of IF now.
- The first conjunct of `SuccessIsClean` in `AttributionStatus` said that a commit with
  status success has a clean last reading once its run is past `close`. That is false
  with three events: a later run may read the same head while the earlier success stands.
  It now speaks of runs that are over, for which the reading and the snapshot agree.
- `PrCapture` put the listing in order with a CHOOSE over sequences, and `ReceiptJournal`
  summed with a fold; the proofs could see into neither. A page is now a set, told by each
  file's place among the names, that arrives in any order, and a sum a recursive function.
- `NoId` must be neither an id nor a run, or an id could be the owner of nothing.
- A canary's successes were a sequence, ordered by a CHOOSE the proofs could not see
  into. They are a set now, with `Place`; the order of the response is the order of
  start, as GitHub documents it.
- The writer, the grammar and equality of JSON documents were recursive operators, which
  a module with proofs must not reach, and the reader's dict a fold. They are recursive
  functions now, and the symbols the prover's backends stumble over have names.
- `PinFamilies` wrote `UNION A \cup B`, which the tools read differently; it has
  parentheses.

Only model-checked: all liveness (`RunsEnd` of two components, `GateEnds`, `GreenIsSeen`),
which the prover cannot do under fairness. Every safety property that a run checks has a
theorem.

## Disagreements and races

Four runs expect a violation of what the repository says:

- `publication_late_patch`: the trap tests a draft with one request and deletes it
  with another, so a PATCH applied in between makes it delete a public release
  ("a published release is never rolled back by mutation"). It takes a request that
  outlives its client.
- `checks_rerun`: a run listed as completed and re-run before its jobs are read is
  refused as "completed without reporting this check", although it has not finished
  reporting.
- `ledger_weeks`: "Both are YYYY-MM-DD, so string order is calendar order"
  (`check_reviews.rs`), but `date` accepts every text of ten characters that
  `fromisoformat` reads, and an ISO week date is one. A review dated after the
  commit that admits it passes.
- `capture_return`: the listing of files names no commit. A head that is left and
  pushed again during a capture can get the other head's list.

Narrower ones the models show, of the same kind as documented limits:

- `PrReview`: a verdict whose status write is applied but unanswered is replaced by
  the job's fallback failure. `VerdictIsKept` therefore excludes runs with a mishap.
- `PrReview`: the bridge's run and a dispatch for one pull request share no group,
  so either may write last; `LaterRunsPrevail` speaks of one group.
- `PrReview`: the base branch may advance between the last look and the write; a
  status of a commit cannot attest a base.
- `RepinIssue`: main may overtake the patch between `git fetch` and the POST or
  PATCH. `MergeRepin` shows why it is harmless: what a person merges must still
  apply and pass the tests the issue asks for.
- `BinaryPipeline`: a partial re-run keeps the verdict of the checks job.
- `ReleasePublication`: a POST whose answer is lost leaves a draft nobody knows;
  later runs refuse until a maintainer deletes it.
- `AttributionStatus`: an edit between the last read and the status write is judged
  only by the run that waits for it; until then success stands on an unread text.
- `ReceiptJournal`: a request that was sent before the runner died, or whose answer
  was lost, is in the journal as one that may have been billed; nothing can say more.

## What is assumed

What the models take for granted, beside the bounds, and why.

- Of GitHub: immutable releases and attestations are what they promise; a listing is
  served by offset from one state per page; a POST of a status is atomic; run
  retention deletes the oldest runs first (`CanaryAudit`).
- `CanaryAudit`: an answer of the wrong type is the same as a failed read; where an
  unexpected value ends the program instead of the check, that is `Abort`. Provenance
  is always looked at; the switch that leaves it out is for tests.
- `ArchiveBuild`: one command at a time per output directory, which the preflight's
  comment asks of callers.
- `ReviewLedger`: a verdict file comes with its entry, as the documentation asks; one
  that lies in the repository unlisted can be listed by one pull request and edited
  by another.
- `AttributionStatus`: a commit that two pull requests share has one status for both,
  as the documentation says; properties are about commits of one pull request, and
  leave out those whose closing call GitHub lost.
- `EgressCheck`: nobody changes the tree while it is scanned; a glob is given by the
  paths it matches. `PinFamilies`: names of scripts have no directories.
- `CommandLine`: Unix streams; a stdout that was closed before the program began takes
  what is printed nowhere, and help printed without a buffer is left out.
- `ReceiptJournal`: a bill that a response names is the bill. One command runs per
  journal: the workflow and the command both refuse re-runs. Lookups are on, as in
  both production commands.

## Not modelled

- Tests of single files on disk: version, notes header, clean tree, linkage, skill
  packs (`verify_skills.rs`), the metadata readers of `release.rs`.
- Text matching: attribution patterns, secret scanning, Markdown of verdicts (one
  record of what the checks tell apart), JSON field types of GitHub's answers.
- Pure data: strings, paths and number formatting of `py.rs`, the generated tables of
  `pyunicode.rs`, option parsing.
- The prompts and the parser of a review; the summary of old receipts
  (`pr_review_measurements.py`); the central, benchmark and install commands, which
  write no status.
- Repository CI, fuzzing and scanners, which no release depends on.
- The Python tools, where a Rust port was modelled: covered as far as the two agree,
  which the repository's own parity tests compare.

## Plan

What is left, in the order it is worth doing:

1. The hand-over of the python candidate between the jobs of `release-python.yml`
   beside `BinaryPipeline`, with attempts and partial re-runs.
2. `verify_skills.rs`, if it comes to keep state between jobs.
