# Semantic Terraform Agent, specified

TLA+ specifications of the Semantic Terraform Agent (version 1.2.0), the TLC
configurations that check them on small instances, and TLAPS proofs of the
theorems that matter most. Paths of source files are relative to
`src/semantic_terraform_agent/` of the repository; `PROJECT.json` maps every
definition to the lines it translates.

## The system

A run takes a failed Terraform CI job (its log, the Git diff, the checkout) and
produces one result document: a diagnosis, a candidate patch, and the evidence of
an isolated verification of that patch. At most two semantic model calls are made.

| Part | State it keeps | Operations | What makes it correct |
|---|---|---|---|
| Command line (`cli.py`) | the result document on disk | run, write the result or an error document; `cache stats`, `cache clear` | every run ends; the document claims no more than the evidence |
| Orchestrator (`orchestration/diagnose.py`) | the run: calls, answers, attempts, decision, memory status | collect, look up, reuse, first call, verify, decide, retrieve schema, second call, verify, remember, write | the two-call budget is spent only where it can help; evidence is never rewritten; attempts are accounted for |
| Isolated verifier (`terraform/verification.py`, `plan_diagnostics.py`, `workspace.py`) | a temporary copy of the checkout, the command results so far | scope, git, copy, `git apply --check`, `git apply`, terraform, fmt, init, validate, plan | gates run in order on the right tree; local mode never plans; it always answers (that the copy is removed is the `with` statement's doing) |
| Assessment (`terraform/assessment.py`, part of `provenance.py`, `_final_status`) | none | reading one attempt four ways | the four readings agree |
| Provenance (`terraform/provenance.py`, `collectors/repository.py`, `terraform/workspace.py`) | commit, tree and cleanliness of the checkout as they were read | three git commands, the copy, the fingerprint, mutation eligibility | an eligible patch was verified on the files of the commit it names (those git ignores and links excepted), or the fingerprint says that it was not |
| Escalation policy (`context/escalation.py`) | none | `decide` | an ordered decision table: stop, repair or escalate |
| Verified failure memory (`cache/`) | an SQLite database shared by all runs | select + count, record rejection, insert + prune, clear, artifacts | only proven patches; bounded; first writer wins |
| Model routing (`reasoning/routing.py`, `model_registry.py`) | the registry | first and second selection | the ceiling holds; the second selection never raises; only an escalation climbs |
| Providers (`reasoning/openrouter.py`, `gemini.py`) | the request in flight | one semantic call: retries, JSON fallback | bounded requests; failures end the call in the right category |
| Patch builder (`terraform/patch_builder.py`) | none | structured edits to a unified diff | exactly the edits, each at the one place it names |
| Schema retrieval (`terraform/schema.py`, `context/schema_slicer.py`) | the artifact table | versions, schema, slice, cache | a slice for this provider version or nothing |
| Context (`context/builder.py`, `legacy.py`, `terraform/resources.py`, `discovery.py`) | the characters used so far | rank blocks, cut excerpts, fit the diff, resolve symbols, count metadata | the diagnosed block is shown first, the budget is kept and used, resolved means shown |
| Collectors, prompts, usage, models, security, configuration | none | I/O, formatting, records | |
| Evaluation drivers, CI entry point, workflows | reports; the pull-request comment | | |

**How they interact.** The orchestrator calls everything else, in one process and
one thread: the collectors, the memory, the verifier (a callback that takes a patch
and returns an attempt), the provider, the policy. Between processes there is only
the SQLite file, which any number of runs and the `cache` command share. Tools
(`git`, `terraform`), the model service and the disk are the environment: every one
of them may fail, time out or answer anything.

**What is hard.** One run makes few steps, but nearly each has several ways to fail
and the result of one step is read by three or four later ones in different files
(the attempt is read by the policy, the assessment, the provenance, the memory
policy and the final status). The store's statements of several runs interleave, and
nothing locks the checkout: its owner may edit, switch and commit between any two
reads of a run.
`PROJECT.json` lists every hazard at its line with the properties that cover it.

## Modules

| Module | Models | Notes |
|---|---|---|
| `Attempts` | `VerificationAttempt` and the set `VerdictsOf(mode)` of attempts the verifier may return | stages are numbers, so that "earlier" is `<` |
| `Assessment` | `assess_verification`, `_final_status`, the completeness checks and mutation eligibility of `provenance.py` | pure operators on an attempt |
| `VerifierContract` | abstract: a verifier that answers each candidate once, with a member of `VerdictsOf(mode)` | what `Diagnose` assumes of the verifier |
| `Verification` | `_verify_candidate_patch`, one action per gate; implements `VerifierContract` | variables `commands`, `copy` are the record and the temporary directory |
| `Escalation` | `VerificationEscalationPolicy.decide`, `classify_verification_error` | operators; the phrase lists become the set of lists that matched |
| `Diagnose` | `diagnose_repository` and `main`, one action per phase | extends `Escalation` and `Assessment`; composes the policy, the assessment and the verifier contract |
| `VerifiedMemory` | abstract: a memory that remembers proven patches and may forget | what a run may assume of the store |
| `FailureMemory` | `SQLiteCacheStore`, one action per transaction or stand-alone statement of each run, the cache command, kills, unreadable entries; implements `VerifiedMemory` | |
| `Routing` | `ModelRouter.select_initial`, `select_second`, the registry | |
| `OpenRouter` | `OpenRouterProvider._generate` and what it calls, one action per request and what becomes of its reply | |
| `PatchBuilder` | `build_patch_from_edits`, one action per edit, and the files it reads through `collectors/repository.py` | texts are sequences of characters, paths sequences of parts |
| `SchemaRetrieval` | `retrieve_schema`, `inspect_schemas` and the artifact table of `cache/store.py`: runs that share a cache, one action per transaction or subprocess phase | `Diagnose` sees only whether slices came out, or an error |
| `Provenance` | one run and the owner of its checkout: discovery, the three git commands, the copy file by file, the fingerprint and the contract; edit, switch, commit | extends `Assessment`, which says what a verified candidate is worth |
| `ContextBuilder` | `ContextBuilder.build` and the ranking of `detect_resources`, one action per iteration of each loop | text is its length, a block the offsets of its lines |
| `Verification_proofs`, `Diagnose_proofs`, `FailureMemory_proofs`, `ModelCalls_proofs`, `PatchBuilder_proofs`, `SchemaRetrieval_proofs`, `Provenance_proofs`, `ContextBuilder_proofs` | the theorems | `ModelCalls_proofs` extends `Routing` and `OpenRouter`, two steps of one call; the names of `Routing`'s behaviour start with `Routing` for that | |
| `MC*` | instances for TLC | |

A definition preceded by "Mutation:" is a plausible bug: `PROJECT.json` names, for
every property, a definition and the mutated form that makes the property fail.

How state corresponds to code:

* **Verification.** `pc` is the position in `_verify_candidate_patch`; `commands` the
  `VerificationCommands` built so far; `copy` the `TemporaryDirectory` block; `attempt`
  the return value. `Return` is every `return _attempt_result(...)` together with the
  clean-up of the `with` block. `CommandRaises` is any exception out of a gate, which
  `diagnose.py` turns into the attempt of `_unavailable_attempt`. `candidate` counts
  the calls of one run.
* **Diagnose.** `pc` names the phase. `calls` is `semantic_call_attempts`, `answers` the
  recorded invocations, `attempts` the list of the same name, `decision` the
  `EscalationDecision`, `second` the call reason, `memory` the `status` of the memory
  metadata, `remembered` the attempt whose patch was put in an entry. `Fail` is the
  handler of `main`; `exit = "crashed"` is an exception that handler does not name.
* **FailureMemory.** `rows` and `counters` are the tables, `seen` the row a run's
  lookup selected. Python's `sqlite3` opens a transaction at the first write, so the
  `SELECT` of `get_failure` and the counts of `clear` are steps of their own. A patch is
  named by the run that produced it. `proven` is a history variable.
* **Routing.** Model IDs are numbers in their sorting order, tiers positions in
  `TIER_ORDER`.
* **OpenRouter.** `round` and `tries` are the position in `_generate` and in
  `_post_with_retries`; a reply is a status and what its body says.
* **PatchBuilder.** `disk` is what a path of parts reads as once the operating system has
  followed symbolic links, `links` are the paths that are or lead through one. `pos` is the
  position in the loop over the edits, `snapshots` is `originals`, `resolved` the list of
  resolved edits (a set of records of file, texts and offset: each is known by its offset),
  `outcome` the code of the `StructuredEditFailure` or `"built"`; `raised` is an error of
  another class. The code sorts the edits of a file by offset and compares neighbours; the
  model compares all pairs, and the theorem `NeighboursShowOverlap` says that this is the same.
* **SchemaRetrieval.** Each run has a `checkout` of its own (types, constraint, lock
  file, failure with its context, whether a cache is open), `info` is `terraform_info`, `slices`
  is `schema_slices`. `artifacts` maps keys to rows. A cache key is the record of what is
  hashed into it, so that what it leaves out can make two runs meet in one row.
* **Provenance.** `head` and `work` are the repository, `layout` is `layout.terraform_files`
  and `Linked` the files that are symbolic links: discovery and git see them, the workspace
  copy does not, and a patch of one is neither eligible nor fingerprinted.
  `commit` and `tree` are what the two `rev-parse` commands said, `anchor` is
  `verified_against_commit_sha` (the commit, if `git status` was readable and empty). `copy` is
  the workspace copy of the current candidate and `copied` how far it got; `fingerprint` is what
  `source_fingerprint_sha256` hashes, `level` the `eligibility_level` of the result. `reverted`
  is a history variable: the files that got the commit's content after they had been copied.
* **ContextBuilder.** `pc` is the section under construction, `used` is `used_characters`,
  `ceiling` what it may reach in this section (the section's own limit or what is left of the
  total), `shown` is `resource_blocks` followed by `supporting_blocks`, `excerpt` the lines `low` to
  `high` of `_bounded_hcl_excerpt`, `pick` the lines selected so far by `_bounded_diff_hunk`,
  `characters` is `selected_context_characters`.

## Runs

| Run | Question | Bounds, and why they are enough |
|---|---|---|
| `verification` | Does the staged verifier keep its contract? | both modes, three candidates: a run verifies a remembered one and those of two calls, never more. Every gate outcome is enumerated. 250 states |
| `diagnose` | Who gets a second call and provider schema? Is evidence kept? What is remembered, what does reuse cost, what may the document claim? | all attempts × all phrase sets × the configurations the policy tells apart (`PolicyConfigs`), and all context and verification modes with the memory unopened or open (`MemoryConfigs`). About 480 000 states |
| `failure_memory` | Do concurrent runs keep the store sound? | three runs, two fingerprints, limit one: two runs of one failure and one of another, and every insert of a second fingerprint prunes. Runs are symmetric. About 135 000 states |
| `routing` | Are both selections right? | every registry of three models: a choice, an alternative and one above the ceiling. About 104 000 states |
| `openrouter` | Is a call bounded, and are failures reported as what they are? | the default of two retries; replies of every class. About 3 900 states |
| `patch_builder` | Is what is built the source with exactly the edits in place? | all texts of four characters over two letters with up to two edits, selected ones with three; two edits over six kinds of paths and three kinds of files; four edits against a limit of three. Two letters suffice for repeated, overlapping, touching and cancelling edits. 37 000 states |
| `provenance` | Does an eligible patch say the truth about the commit it names, whatever happens to the checkout during the run? | a tracked file, one git ignores and a tracked link; three commits, of which one changes the file, one removes it and points the link elsewhere; two contents; two changes at any point of the run (an edit and its reversal, or an edit and its commit), two candidates. Both properties speak of each file by itself; that a patch has to find all its files is met with two regular ones, tracked and ignored. 2.8 million states |
| `context` | Is the diagnosed block shown, is the budget kept and used up, and is what is called resolved visible? | 2 240 inputs: five blocks in two files with line numbers in common, five symbols (two in one block, one without definition), diagnostics with and without address, file, line; none, one or two hunks; budgets from too small for the diagnostic to enough for everything. `BudgetIsKept` speaks of each step that spends past the total; all four kinds of them occur: a diagnostic, a line of a block (before and after the total is spent) and a line of a definition. 33 000 states |
| `schema_retrieval` | Does a run ever go on with the schema or the slices of another one? | two runs over nine checkouts that share keys or differ in one part of them, two provider versions, a table of two rows for up to four keys. 660 000 states |

Three further runs each check a statement of the repository that the code does not
keep; TLC's counterexample is the evidence (`PROJECT.json`, `findings`):

* `lost_repair`: the builder raises after the second answer; the assertion at
  `diagnose.py:1321` fails and no document is written.
* `prefix_directory`: in a Terraform directory called `a` or `b` the edits are matched
  against another file, because `safe_repo_file` strips the prefix of a diff path.
* `unnamed_resource`: a block with 100 points gets the address of the diagnostic
  (`resources.py:158`). A changed block on the diagnosed line has 130 points even if the
  diagnostic has no address, the candidate does not validate, and the run ends with an error
  document instead of a context.

`CHECK_DEADLOCK FALSE` is set where the modelled process ends: a run that wrote its
document, a call that returned, a verifier after its last candidate, a patch that was
built or refused, retrievals that ended.

**Named bounds.** `MaxCandidates` (verifications of a run), `MaxEntries` (the store's own
limit, 500 in the code), `MaxRetries` (the provider's own), `MaxEdits` and `MaxArtifacts`
(8 and 500 in the code), `MaxTime` (of the clock that orders artifacts), `MaxChanges` (changes
of the checkout during a run), and the finite sets `Configs`, `Registries`, `Replies`, `Inputs`,
`Checkouts`, `Failures`, `Diffs` and `Settings`. The counters of `FailureMemory` and `clock` are
bounded by the number of runs, each of which makes one pass.

**Fairness.** Weak fairness of the whole pipeline (`Verification`, `Diagnose`,
`OpenRouter`), because one thread runs it and every external command, request and lock
wait has a timeout. That a command ends by its timeout is an assumption about
`subprocess` and the operating system. `FailureMemory`, `SchemaRetrieval`, `Provenance`,
`PatchBuilder`, `Routing` and `ContextBuilder` state no fairness: only safety is checked of
them, and in the first three a run that never steps again is one that was killed.

Smaller disagreements between code and documentation are modelled and listed as hazards,
or described here, without a run of their own:

* with `--no-verify-patch` the candidate that replaces a malformed one is verified all the
  same (`diagnose.py:1327`); `AttemptsAreAccountedFor` says exactly when;
* a remembered candidate whose plan was blocked ends the run (`diagnose.py:641`; README:32 "only
  after it passes fresh isolated verification");
* a repairable objection to an earlier edit hides an unsafe path (`patch_builder.py:60`;
  README:271), and of two overlapping occurrences of a target the first is edited
  (`patch_builder.py:187`; README:233);
* a patch of a file that git ignores is eligible for the revision that was read
  (`provenance.py:66`), the first exception in `QuietRunIsExact`;
* a Terraform file that the commit holds as a symbolic link is discovered (`repository.py:48`)
  and clean in git, but missing from the verified copy (`workspace.py:26`), so a patch of
  another file may be eligible without having been verified with it: the second exception;
* a file name such as `main.tf` on a line that says "resource" is taken for an address
  (`failure_log.py:24`, `104`);
* `cache clear` may report fewer rows than it deletes (`cache/store.py:191`), and a timeout
  reported in an error object is never retried (`openrouter.py:381`).

## Theorems

All are of the form `Spec => ...` (`NeighboursShowOverlap` speaks of every state in which the
invariant of the patch builder holds), for every value of the constants that the named
`ASSUME`s of the modules allow. These are of three kinds: sentinels (`NoAttempt`, `NoRow`,
`NoCommit`, ...) are no values of the type they extend; bounds are natural numbers (retries
between 0 and 5, as the constructor enforces); and the data is well formed
(`TreesHoldFiles`, `IgnoredAreUntracked`, `BlocksHaveLines`, `ResourcesAreApart`,
`SymbolsHaveTargets`, `ModelsAreNumbers`, `RegistriesAreRegistries`, `ConfigsAreConfigurations`;
for the patch builder `InputsAreInputs`, `BinaryIsNoText`, `DirectoryIsPath`, `NamesAreParts`,
`NamesAreNoPrefixes`: a directory named like a diff prefix is the subject of `prefix_directory`).

* **`Verification_proofs`.** Inductive invariant `TypeOK /\ WorkInv /\ AnswerInv /\ CopyInv`:
  `WorkInv` says what `commands` is at each gate (every earlier stage passed, no later one
  has a result), `AnswerInv` that an answer belongs to `VerdictsOf(mode)` and `commands` is the
  record of that answer, `CopyInv` in which state the copy is at each gate. `GatesInOrder` is
  not inductive by itself: it says nothing of the gate the next step starts from. The
  refinement of `VerifierContract` follows: a returning gate is the step `Answer`, the next
  candidate is `Ask`, all else stutters. `AssessmentsAgree` holds because it holds of every
  member of `VerdictsOf(mode)`, which is a lemma about the operators of `Assessment`.
* **`Diagnose_proofs`.** Besides the types the invariant says how far the run is at each
  step (`PhaseInv`: which answers, attempts and calls there are), what the policy found when a
  second call is on its way (`PolicyInv`), what calls, answers and attempts have to do with one
  another (`CallInv`) and with the source of the result (`SourceInv`), and what a written
  document rests on (`ResultInv`). The
  properties speak of the end of the run or of one phase of it and need what every phase
  before left behind.
* **`FailureMemory_proofs`.** Invariant `TypeOK /\ OfferIsProven /\ OnlyProvenPatches`; `OfferIsProven`
  says that a run about to insert has proven its own patch, without which the insert
  would not preserve `OnlyProvenPatches`. First-writer-wins and the refinement of
  `VerifiedMemory` are action properties under it: an insert with its pruning is one
  `Remember` step that keeps the rows that survive, and `clear` is `Forget`. For
  `StatisticsAddUp` the invariant is `CountersAddUp` with `TypeOK` and `StampsApart`: entries on their
  way to the table and rows in it have timestamps of their own, without which pruning to the
  newest `MaxEntries` could keep more of them. The sum of the rejections rests on lemmas about
  the fold that computes it: a row more, a rejection more, fewer rows.
* **`ModelCalls_proofs`, routing.** Both selections, and that there is no second without a
  first. The choice of the second model rests on lemmas about the cheapest eligible model of a set.
* **`ModelCalls_proofs`, OpenRouter.** `CountersOK /\ Budget /\ Going` with the two halves of `CurableIsCured`:
  `Budget` relates `requests`, `round` and `tries`, `Going` says why a call that goes on still
  does. That a concluded reply has a category rests on the lemma that the list of
  classification rules always has a first that applies.
* **`SchemaRetrieval_proofs`.** `TypeOK /\ RowsFitKeys /\ RunsFit`. `SchemaFitsCheckout` is about
  runs, but a run takes rows other runs wrote, so the invariant says of every readable row
  what its key promises (`RowsFitKeys`) and of every run that what it is about to store fits
  the key it stores under (`RunsFit`). Pruning, damage and `clear` only remove promises.
* **`Provenance_proofs`.** `StepInv` says what has been read by which step. `DriftInv`, for
  `FingerprintBindsCopy`, says that a copied file that differed from the anchored commit still
  differs in the checkout unless it was put back; only so can the fingerprint, which is taken
  later, stand for the copy. `QuietInv`, for `QuietRunIsExact`, says that as long as nobody
  changes the checkout all that was read still holds. `LinksAreFiles` is all that is assumed of
  links.
* **`ContextBuilder_proofs`.** `ShapeInv` (what is cut stays inside its block and keeps its
  focus), `PickInv` (the lines picked of a hunk fit), `BudgetInv` (no section's `ceiling` is above
  the total or what was spent when it began, and no excerpt's limit above what was left), `SymbolInv` (looked-at references are those of the excerpts less the pending ones,
  and resolved ones are shown or growing), `FocusInv` (what `shown` starts with). That the
  diagnosed block wins rests on a lemma about the scores: 80 points for the line exceed the
  most another block can have without the address, and `ResourcesAreApart` allows one block
  only on the line.
* **`PatchBuilder_proofs`.** For files of any length and any number of edits the built text is
  the one `BuiltAsReplaced` describes: every character inside an edit is its new text, every
  other one is kept. Inductive invariant: `Known` (which edits, files and outcomes there are),
  `EachOnce` (each edit looked at is in `resolved` once, at its target's first offset), `NoObjections`
  (none of them has an unsafe path, an unreadable file or a target that is missing or found
  again after its first occurrence), `AsRead` (a snapshot is what the disk holds), `Combined` (what goes to git is the snapshots
  with their edits in place, no two of which overlap) and `CleanPasses` (edits nothing
  speaks against go on). The code applies the edits from the last to the first: with the
  topmost applied, the text before it is untouched and its reading is the reading with one
  edit less of a text in which it is already in place (`ReplacedTopmost`); hence the fold
  equals the reference (`FoldReplaces`). `CleanEditsAreBuilt` is the other direction: edits
  that keep the rules are not refused.

**Progress.** `EveryRunEnds`, `EveryVerificationEnds` and `EveryCallEnds` need fairness and
ENABLED, but what makes them true does not: every step lowers a measure. `RunGoesForward`,
`VerificationGoesForward` and `CallGoesForward` state it with a natural number (the phases
left, the gates left with this candidate and eleven for each that may come, the requests of this
round and of the fallback), for any number of candidates and retries. `ContextGoesForward` states
it for the builder, which has no liveness property of its own but loops
within loops: the measure has a place for the section, one for its loop and two for the loops inside, and
each step lowers the first place that it changes. That the resource loop ends needs `WantedInv`:
the block whose excerpt grows is one that is still wanted. TLC checked the measure first.

Three proofs need induction over data (the fold of the edits, the reading of a text, the sums of
the store). The library states it with an operator as parameter, which no prover here
instantiates; each proof takes a smallest counterexample instead (`LeastNumber`, `SmallestPart`).

**Only model-checked:** liveness (`EveryVerificationEnds`, `EveryRunEnds`, `EveryCallEnds`),
which need fairness and ENABLED (their measures are proved, see above). Every other property of the passing runs is a theorem.

## Abstractions worth knowing

* Text is abstracted to what the code decides by it: which phrase lists matched, whether
  output carries an environment marker, whether a patch stays in scope.
* In `FailureMemory` timestamps are distinct and handed out in the order of resolving;
  insertion may happen in another order. A failing transaction changes nothing.
* A structured edit set that was built is never refused by scope validation afterwards
  (both use the same rules on the same files).
* The six environmental classes of a failed plan are one value; an assertion failure is
  told apart from other semantic ones.
* In `PatchBuilder` git either serializes the texts it is given or fails; a path with a
  backslash or a leading slash is one that is unsafe. Texts have one encoding.
* In `Provenance` a git command that fails or times out gives `NoCommit`, an unreadable status
  counts as dirty, as in the code. The existence check and the fingerprint are one action.
  Files are copied one by one in any order. Hashes are the data they bind. The content of
  a link is where it points, to a file of the repository that is not modelled; a link leading
  nowhere counts as no file, and no file turns from one into the other during a run.
* In `ContextBuilder` addresses of resources are unique and matching the suffix of a module
  address is equality; blocks of one file do not overlap and have more than one character;
  the diff holds the hunks of Terraform files; symbol names have one length. In which order
  references of one rank are looked at is left open. Labels, identifiers and the trimming of
  the diagnostic's detail are left out.
* In `SchemaRetrieval` one provider stands for all, and a checkout does not change during
  its run (what an edited checkout does to a result is the subject of `Provenance`). A
  damaged row is one that does not decode, or a schema that is not complete; a row of slices
  that decodes but is not complete is taken as it is (`diagnose.py:930`) and not modelled. What
  a local module outside the selected directory pins counts as part of its sources.
* Deletion of the temporary copy is assumed to succeed.

## Not modelled, and why

Prompt construction, telemetry, redaction and record validation (formatting, no
decision depends on them); Gemini's single SDK call (the failing call of `Diagnose`); the
parsers of HCL, logs and diffs (deterministic text processing); the legacy context strategy
and `diagnostic_location_sources` (whole files, no budget to share, no state); the evaluation
drivers (sequential, no state but reports); the workflows' shell and JavaScript.

## Plan

1. Done: the verifier, the assessment, the policy, the orchestrator, the store, routing,
   OpenRouter, the patch builder, schema retrieval, provenance under a changing checkout, the
   context builder; the safety and action properties and refinements of all of them proved.
2. Next modules, in order: `SchemaSlicer.slice` (which paths of a schema a slice keeps: their
   priorities, required siblings and the retention within a budget, `schema_slicer.py:161`);
   the race of two workflow runs for the marker comment.
3. Next proofs: the measures of the patch builder and of the runs of the store and the schema
   retrieval.
