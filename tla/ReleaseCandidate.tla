-------------------------- MODULE ReleaseCandidate --------------------------
(***************************************************************************)
(* src/release.rs, create-candidate and verify-candidate: the build job of  *)
(* a Python release writes a manifest and a checksum file around its three  *)
(* payloads, the candidate travels as an artefact, and the job that         *)
(* publishes it (and a consumer that uploads it to an index) verifies it    *)
(* against the context it expects.  In between, files may be lost, emptied, *)
(* added, re-serialised or mixed with those of another attempt.             *)
(***************************************************************************)
EXTENDS Naturals, Sequences, FiniteSets

CONSTANTS
    Contexts,    \* stem, version, tag, repository, commit, policy, run, attempt
    WellFormed,  \* the texts that match the patterns of release.rs
    Built,       \* what the build of every context makes of every payload
    MaxAsset,    \* MAX_ASSET, scaled
    MaxChanges,  \* bound: files that change
    MaxJobs      \* bound: jobs that build or verify

VARIABLES
    dir,     \* the candidate directory: its files by name
    job,     \* the context of the job that runs
    pc,      \* what it has done
    made,    \* the candidates create-candidate completed
    changes, \* files changed so far
    jobs     \* jobs so far

vars == <<dir, job, pc, made, changes, jobs>>

-----------------------------------------------------------------------------
(* Identity *)

\* A tag is a prefix and a version; the full tag joins them with "/v", the
\* artefact tag with "-v", and without a prefix both are "v" and the version.
FullTag(version, prefix) == [prefix |-> prefix, version |-> version]

DerivesTag(version, prefix) ==
    version \in WellFormed.version /\ prefix \in WellFormed.prefix \cup {""}

\* CandidateContext::validate.
IsValid(ctx) ==
    /\ ctx.stem \in WellFormed.stem
    /\ DerivesTag(ctx.version, ctx.tag.prefix)
    /\ FullTag(ctx.version, ctx.tag.prefix) = ctx.tag
    /\ ctx.repository \in WellFormed.repository
    /\ ctx.commit \in WellFormed.sha /\ ctx.policy \in WellFormed.sha
    /\ ctx.run >= 1 /\ ctx.attempt >= 1

Kinds == <<"wheel", "sdist", "sbom">>

\* CandidateContext::contract: names and media types, in the manifest's order.
Contract(ctx) ==
    [i \in 1 .. 3 |-> [name  |-> [stem |-> ctx.stem, version |-> ctx.version, kind |-> Kinds[i]],
                       media |-> Kinds[i]]]

Payloads(ctx) == {Contract(ctx)[i].name : i \in 1 .. 3}

Manifest  == [kind |-> "manifest"]
Checksums == [kind |-> "checksums"]
Controls  == {Manifest, Checksums}

-----------------------------------------------------------------------------
(* Files: a digest is as good as the bytes. *)

Regular(bytes) == [kind |-> "file", bytes |-> bytes]

\* directory_files: one entry that is no regular file refuses them all.
AllRegular == \A n \in DOMAIN dir : dir[n].kind = "file"

\* regular_asset.
IsAsset(n) ==
    /\ n \in DOMAIN dir /\ dir[n].kind = "file"
    /\ dir[n].bytes.size \in 1 .. MaxAsset

With(n, file) ==
    [x \in DOMAIN dir \cup {n} |-> IF x = n THEN file ELSE dir[x]]

Entry(ctx, i) ==
    LET n == Contract(ctx)[i].name IN
    [name |-> n, media |-> Contract(ctx)[i].media,
     digest |-> dir[n].bytes, size |-> dir[n].bytes.size]

\* manifest_bytes: the one canonical form of an inventory.
ManifestBytes(inventory) == [form |-> "canonical", inventory |-> inventory]

\* checksums: the digests of the files named.
Sums(names) == [n \in names |-> dir[n].bytes]

\* The names the checksum file covers.
Summed(ctx) == Payloads(ctx) \cup {Manifest}

-----------------------------------------------------------------------------
(* create-candidate *)

Init ==
    /\ dir = <<>>
    /\ job \in Contexts
    /\ pc = "idle"
    /\ made = {}
    /\ changes = 0
    /\ jobs = 0

\* The job that builds starts with a directory of its own.
Build(ctx) ==
    /\ pc = "idle" /\ jobs < MaxJobs
    /\ jobs' = jobs + 1
    /\ job' = ctx
    /\ dir' = [n \in Payloads(ctx) |-> Regular(Built[ctx][n.kind])]
    /\ pc' = "built"
    /\ UNCHANGED <<made, changes>>

\* The tests before anything is written: no control file may be there, which
\* also refuses what an interrupted create-candidate left.
MayInventory ==
    /\ IsValid(job)
    /\ AllRegular
    /\ DOMAIN dir = Payloads(job)
    /\ \A n \in Payloads(job) : IsAsset(n)

WriteManifest ==
    /\ pc = "built" /\ MayInventory
    /\ dir' = With(Manifest, Regular(ManifestBytes(
                  [context |-> job, assets |-> [i \in 1 .. 3 |-> Entry(job, i)]])))
    /\ pc' = "listed"
    /\ UNCHANGED <<job, made, changes, jobs>>

WriteChecksums ==
    /\ pc = "listed"
    /\ dir' = With(Checksums, Regular(Sums(Summed(job))))
    /\ made' = made \cup {[context |-> job, dir |-> dir']}
    /\ pc' = "created"
    /\ UNCHANGED <<job, changes, jobs>>

\* A test refuses the files, or the disk is full at either write.
CreateFails ==
    /\ \/ pc = "built" /\ ~MayInventory
       \/ pc = "listed"
    /\ pc' = "failed"
    /\ UNCHANGED <<dir, job, made, changes, jobs>>

\* The command is started again on what a failed one left.
CreateAgain ==
    /\ pc = "failed" /\ jobs < MaxJobs
    /\ jobs' = jobs + 1
    /\ pc' = "built"
    /\ UNCHANGED <<dir, job, made, changes>>

-----------------------------------------------------------------------------
(* verify-candidate *)

\* inventory_from_manifest reads every scalar of a typed or spaced manifest;
\* only the comparison of the bytes tells them from the canonical one.
Readable(bytes) == bytes.form \in {"canonical", "spaced", "typed"}

IsCanonical(bytes) == bytes = ManifestBytes(bytes.inventory)

\* Every payload, and none twice.
ListsPayloads(assets, ctx) ==
    {assets[i].name : i \in DOMAIN assets} = Payloads(ctx) /\ Len(assets) = 3

\* One asset against the contract and the file.
AssetHolds(asset, ctx) ==
    /\ IsAsset(asset.name)
    /\ \E i \in 1 .. 3 : Contract(ctx)[i].name = asset.name /\ Contract(ctx)[i].media = asset.media
    /\ asset.size = dir[asset.name].bytes.size
    /\ asset.digest = dir[asset.name].bytes

\* Mutant: the identity of the run is compared, its attempt is not.
ContextMatchesRun(found, ctx) ==
    [found EXCEPT !.attempt = 1] = [ctx EXCEPT !.attempt = 1]

ContextMatches(found, ctx) == found = ctx

Verifies(ctx) ==
    /\ AllRegular
    /\ DOMAIN dir = Payloads(ctx) \cup Controls
    /\ LET bytes == dir[Manifest].bytes IN
       /\ Readable(bytes) /\ IsValid(bytes.inventory.context)
       /\ IsCanonical(bytes)
       /\ ContextMatches(bytes.inventory.context, ctx)
       /\ ListsPayloads(bytes.inventory.assets, ctx)
       /\ \A i \in DOMAIN bytes.inventory.assets : AssetHolds(bytes.inventory.assets[i], ctx)
    /\ dir[Checksums].bytes = Sums(Summed(ctx))

Verify(ctx) ==
    /\ pc = "created"
    /\ job' = ctx
    /\ pc' = IF Verifies(ctx) THEN "verified" ELSE "refused"
    /\ UNCHANGED <<dir, made, changes, jobs>>

\* The next job of another attempt or run.
Finish ==
    /\ pc \in {"verified", "refused", "failed"}
    /\ pc' = "idle"
    /\ UNCHANGED <<dir, job, made, changes, jobs>>

-----------------------------------------------------------------------------
(* What happens to files between two commands *)

Swap(s) == <<s[2], s[1]>> \o SubSeq(s, 3, Len(s))

\* Other texts of a manifest, and manifests of other inventories.
Rewritten(bytes) ==
    LET old == bytes.inventory IN
    {[bytes EXCEPT !.form = f] : f \in {"spaced", "typed", "unreadable"}}
        \cup {ManifestBytes([old EXCEPT !.assets = Swap(old.assets)]),
              ManifestBytes([old EXCEPT !.assets = <<old.assets[1]>> \o old.assets])}

\* A payload that is emptied, or grows past the limit.
Resized(bytes) == {[bytes EXCEPT !.size = s] : s \in {0, MaxAsset + 1}}

\* What may lie under a name: the file of another candidate, or a damaged one.
Others(n) ==
    {[kind |-> "other", bytes |-> dir[n].bytes]}
        \cup {c.dir[n] : c \in {c \in made : n \in DOMAIN c.dir}}
        \cup {Regular(b) : b \in CASE n = Manifest  -> Rewritten(dir[n].bytes)
                                   [] n = Checksums -> {}
                                   [] OTHER         -> Resized(dir[n].bytes)}

Extra == [kind |-> "extra"]

Change ==
    /\ pc \in {"built", "created"} /\ changes < MaxChanges
    /\ changes' = changes + 1
    /\ \/ \E n \in DOMAIN dir : \E file \in Others(n) : dir' = [dir EXCEPT ![n] = file]
       \/ \E n \in DOMAIN dir : dir' = [x \in DOMAIN dir \ {n} |-> dir[x]]
       \/ dir' = With(Extra, Regular([id |-> "extra", size |-> 1]))
    /\ UNCHANGED <<job, pc, made, jobs>>

Next ==
    \/ \E ctx \in Contexts : Build(ctx) \/ Verify(ctx)
    \/ WriteManifest \/ WriteChecksums \/ CreateFails \/ CreateAgain \/ Finish
    \/ Change

Spec == Init /\ [][Next]_vars

-----------------------------------------------------------------------------
(* Properties *)

\* "Fail closed unless candidate data and the expected workflow context
\* agree": a verified candidate is, file by file, one that create-candidate
\* completed for exactly the context asked for, whatever was lost, mixed or
\* rewritten on the way (release.rs, verify_candidate_inventory).
VerifiedIsAsCreated ==
    pc = "verified" => [context |-> job, dir |-> dir] \in made

\* The other direction: what create-candidate completed is accepted for its
\* own context as long as nobody touches it, so the tests of the two commands
\* agree on sizes, names, order and bytes.
UntouchedIsVerified ==
    pc = "refused" => [context |-> job, dir |-> dir] \notin made

\* A verdict of verify-candidate says whether this is a candidate as created.
VerdictIsExact == VerifiedIsAsCreated /\ UntouchedIsVerified

=============================================================================
