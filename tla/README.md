# A verification model of CaravelaWeb's Operational Memory

CaravelaWeb lets agents record what they learn about a web site ("Discovery")
and look it up later. What they learn is kept in one SQLite database, the
Operational Memory of a Knowledge Root, written by short-lived command line
processes that know nothing of each other. These TLA+ modules model the parts
of the program that decide what becomes accepted knowledge, how a Discovery run
is opened and closed, what its transport trace proves, what a lookup answers
while others write, and how an installation comes to exist; TLC checks them on
small instances and TLAPS proves all their safety properties for all instances.

Line numbers refer to the sources under `src/`. `PROJECT.json` maps every
definition to the lines it models.

## 1. The system

| Component | State it keeps | Operations | Talks to |
|---|---|---|---|
| Operational Memory (`operational_memory/core.py`, `schema.sql`) | append-only tables: Claims, Proposals, observations, evidence, contradictions, Decisions | projection (the accepted view at a knowledge time and a domain time), pending Proposals, unresolved contradictions, one write transaction (`BEGIN IMMEDIATE`) | every other part reads it |
| OM-native writes (`om_native_writes.py`) | none | capture, enrich, promote, replace and reject a Candidate, each inside a transaction; the review token | Operational Memory |
| Discovery finalization (`discovery_finalize.py`) | a plan, between its reads and its transaction | `finalize_discovery`: gates, delta, replacement, conflict, lifecycle, token, transaction, answer | OM-native writes, transport policy |
| Candidate review (`scripts/knowledge-resolve`) | a review token, between its reads and its transaction | list, reject | OM-native writes |
| Discovery runs (`discovery_runs.py`, `scripts/discovery-begin`, `scripts/discovery-finalize`) | one marker file per open run | begin, require, close | Discovery finalization, the file system |
| Installation (`installation_init.py`) | the database file, three marker files, `targets/` | `initialize_knowledge_root`, rollback | the file system, Operational Memory |
| Readiness (`readiness.py`, `scripts/preflight`) | none | reads the installation file by file | Installation, Discovery runs |
| Lookup (`integration_bridge.py`, `scripts/knowledge-lookup`) | none | renders the accepted view, pending Candidates, open runs | Operational Memory |
| Transport policy (`transport_policy.py`) | none | which transports a run must have tried, and whether a trace proves it | Discovery finalization |
| Write and read authority, write freeze | marker files | guards of every write and read | Installation, every writer |
| Platform adapter, learning switch | environment | resolves the root, disables learning for a process | all commands |
| Host registration (`host_registration.py`) | links in the directories of agent hosts | register, unregister | the file system |

### What is hard about it

- **Reads and the write are not one transaction.** `finalize_discovery` reads
  the database five times before it takes the write lock: what is new, whether
  it replaces something, whether it conflicts, whether it earns a lifecycle, and
  the review token. No snapshot is held across these reads, and most of them are
  several statements. Any other finalizer or reviewer may commit in between.
  Under the lock some conditions are checked again and some are not.
- **Everything visible is derived.** Nothing is ever updated: the accepted view
  is a fold over Decisions ordered by `effective_at`, `recorded_at` and id, in
  whole seconds. Two Decisions of one second are ordered by their ids, which end
  in a digest. A payload may carry a `recorded_at` of its own, earlier than the
  clock.
- **Claims are identified by their content.** The id of a Claim is the digest of
  what it states; stating it again is the same Claim, also after it was
  superseded or rejected.
- **Two stores, no common transaction.** A run's marker is a file, its outcome
  is rows. A process may die between the commit and the removal of the marker;
  the caller retries.
- **A reader holds no snapshot.** A lookup resolves its target anew for each
  part of its reply and reads each part as it is by then. What a write was
  allowed to do (which target a hostname belongs to, that no freeze is on) is
  looked at before the write lock and not again.
- **A finalizer was not there.** Which transports were tried is what the caller
  says in a trace; the finalizer replays it against a policy and against the
  observations of the same payload.
- **No lock on the directory.** Initialization is a sequence of file creations
  with a rollback list; a second initializer, preflight, or a finalizer may look
  at it at any moment.

### What makes each part correct

- *Operational Memory*: the view computed by the fold is what the Decisions
  mean; a correction deletes what it should and nothing newer.
- *Writes, finalization and review*: a Proposal is decided once and whole;
  only observed Claims are accepted; what is accepted is closed only by its
  replacement and for a recorded cause; one value per slot; one operational
  path, which rests on accepted facts; SAVED means visible.
- *Transport policy*: what a proven trace selects is the simplest transport that
  worked, a blocked capability was really exhausted, and an honest caller can
  prove what it did.
- *Lookup and what surrounds a write*: a reply is about one target and puts every
  Claim in the part it belongs to; a hostname leads to one target; a freeze lets
  nothing through but what had passed it.
- *Runs*: a marker is never half written; a run is closed only with a verdict,
  by one process, and eventually.
- *Installation*: one process initializes; write authority implies read
  authority; INITIALIZED and READY are true when they are said.

## 2. The modules

| Module | What it is | Lines of the program |
|---|---|---|
| `Ledger` | the reads of the projection as set definitions: `Before`, `Active`, `Basis`, `Settled`, `Foldable`, `Unresolved` | `core.py` 712-979 |
| `Reducer` | the projection as the code computes it, row by row, with intervals and corrections, held against `Ledger` | `core.py` 712-856 |
| `ClaimBook` | the abstract specification: what the memory promises about Claims and Proposals, without tables, clock or plans | `core.py`, `om_native_writes.py` |
| `Finalization` | finalizers and reviewers against one database; it implements `ClaimBook` | `discovery_finalize.py`, `om_native_writes.py`, `knowledge-resolve` |
| `FinalizationSafety`, `FinalizationBook`, `FinalizationSequential` | theorems about `Finalization`, each extends the one before; the last is about one finalizer at a time | |
| `TransportLadder` | a caller that climbs the transports, and the replay of its trace | `transport_policy.py`, `discovery_finalize.py` 854-1121, 1678-1709 |
| `WriteScope` | what surrounds a write: the plan that associates a hostname, the freeze, the rows of a new target | `discovery_finalize.py` 1198-1252, `knowledge_write_freeze.py`, `core.py` 597-612 |
| `Lookup` | a lookup against `ClaimBook` and `WriteScope` | `integration_bridge.py`, `core.py` 620-674, 858-1282, `knowledge-lookup` |
| `DiscoveryRuns` | run markers, the two commands, crashes and retries | `discovery_runs.py`, the two scripts |
| `Installation` | initializers, preflight and other commands on one directory | `installation_init.py`, `core.py` 532-573, `readiness.py` |
| `DiscoveryRunsProofs`, `InstallationProofs`, `TransportLadderProofs`, `LookupProofs`, `ReducerProofs` | theorems about those five | |
| `MCFinalization`, `MCReducer`, `MCDiscoveryRuns`, `MCInstallation`, `MCTransportLadder`, `MCLookup` | the instances TLC runs on | |

`Finalization` and `Reducer` extend `Ledger`. `Finalization` instantiates
`ClaimBook` with its own `owner` table and a `status` computed from Decisions.
`Lookup` extends `ClaimBook` and `WriteScope`: its writers take any step of the
book, which is what `Finalization` is proved to do.
`DiscoveryRuns` uses a summary of `Finalization`, one fate per Claim; that the summary
keeps the same promise is its own refinement of `ClaimBook`.

### Finalization

State: the clock `now`; the tables `owner` (Claims and their Proposals),
`support` (observations with their evidence, per context), `contras` and
`decisions`; and what every process holds between two steps (`fin`, `res`).

The reads that answer one question are one action, taken at one moment:
`ReadDelta` (with the early answers `NothingNew`, `AlreadyPending`),
`ReadReplacement`, `ReadConflict` (conflict check, the `automatic` flag and the
earned lifecycle), `ReadToken`. The transaction is one action because it holds
SQLite's write lock from `BEGIN IMMEDIATE` to the commit; what it answers is a
disjunct each: `CommitPending`, `CommitPromotion`, `CommitReplacement`, and the
rollbacks `CommitNotResumable`, `CommitCollision`, `CommitUnreadable`,
`CommitRefused`. `Abort` is a crash or a lock timeout anywhere. A reviewer takes
the steps `ReadReview`, `CheckReview`, `CommitRejection` or `RefuseRejection`.

What is abstracted:

- the statements of one such group are taken together, although the code holds
  no snapshot across them: in `ReadDelta` the accepted and the pending Claims and
  the search for a matching Candidate (`discovery_finalize.py:1717`, `:1718`,
  `:1735`), in `ReadConflict` the conflict check (`:1511`, `:1514`), the facts of
  the proof (`:640`) and the lifecycle there is already (`:1839`). All of them
  come before the write lock, where a plan is stale in any case: a commit
  between two statements of a group is modelled as one before or after all of it;
- every group needs a view that can be read, while the code skips the view for a
  payload whose items are operational proofs only, which conflict with nothing
  (`:1483`), or contradict one another (`:1505`). A view that goes bad just before
  the conflict check gets such a payload refused in the model; the code goes on,
  as the model does when the view goes bad just after it;
- one capability of one target; the association of a hostname is in `WriteScope`;
- a Claim is its own id, a Proposal is named by the set of Claims it was created
  with (the code digests exactly these); a payload's evidence is a set of
  locators;
- a payload's own validation (shape, the transport trace of `TransportLadder`,
  the proof of an operational path) is part of the payload: `gate` is the answer given before
  the database is read, two codes standing for all of them, `proves` the
  lifecycles its proof is complete for, `aligned` that the contexts of the two
  sides are comparable;
- ids of Decisions matter for their order only: `ord` is discovery, reject,
  replacement, its close; `Digests` lets replacements of one second sort either
  way;
- `RETROACTIVE_CORRECTION` is not written by any operation of the program, so it
  is covered by `Reducer` only.

### Reducer

The database of `Reducer` may hold any Decisions the writer lets through, in any
physical order. A projection is a pass over rows, one Decision joined with one
Claim each, and every turn of the code's two loops is an action: `Open`, `Close`,
`CloseOfNothing` (the raise), `Correct` and `Skip` read the next row; `EndFold`
is the loop that finds what is active; `NextCorrection` applies one correction.
`kt`, `dt`, `rows`, `iv`, `corr` and `active` are the locals of the call and go
with it. Decisions are loaded between two calls only: one statement fetches all
rows, so a later one is not seen. The result is compared with the declarative
view of `Ledger`, on which all decisions of the other modules are made.

### TransportLadder

A run tries transports in any order, in any context, and reports each try in one
of four places: as a transport observation, as an observation of another family,
as one of a class other than OBSERVED, or as the failed side of a contradiction.
Then it submits any trace over its tries. `Allowed` is `next_transport`; `Climbs`
is the replay, attempt by attempt; `InOneContext` looks for the observations that
back each attempt; `Selected` and `Exhausted` are its verdict; `Gate` is the
order of the gates in `finalize_discovery`.

Abstracted: one host; all tries read one page, so that locators do not tell two
tries of one transport apart; `FAILED` and `INSUFFICIENT` are one result, split
instead by whether its class is durable. The caller does not invent a try: what
it claims to have seen is what it saw, and availability is what preflight
reported. A try without an environment or with a malformed validation is the
same as one that is not OBSERVED.

### WriteScope and Lookup

`WriteScope` has the three steps of every writing command: `Plan` reads the host
associations, `StartWrite` looks for the freeze marker, `Commit` is the
transaction. `stale`, `late` and `overlapped` are history variables.

`overlapped` is set only when a stale plan has given the hostname to a second
target; two stale plans of one target leave it alone.

`Lookup` is the single-capability lookup as one action per read: `Begin` resolves
the reference, `ResolveCapability` again and with it the capability, which a
hostname of another target has not (`integration_bridge.py:88`), `View` is
`get_current` (all Decisions in one statement), `ListProposals` and then
`ReadProposal` one by one are `get_pending_candidates`. `Render` resolves the
reference for the context (`core.py:1267`) and for the Markdown text and answers;
the two are one action, and the accepted view that the text reads once more is
left out, as the text is. There is one hostname, target `Home` has the one capability, and there is one lookup, which
may begin at any time. The knowledge time of the view is an instant of the
clock taken just before it is read; whatever is recorded later is not in it, so
it is an earlier `View`. The pending part takes its own, later one. The
lifecycle, which is read last and may be newer than the Claims it is shown
with, is left out, and so are evidence references, the warnings and the index.

### DiscoveryRuns

`discovery-begin` is three steps (temporary file, content, rename);
`discovery-finalize` is five: submit, check the marker, decide, check it again,
unlink. `finalize_discovery` is one atomic step here, since its interleavings
belong to `Finalization`; all Claims are rival values of one slot, which is the
case in which runs disturb each other. Each Claim is a Proposal of its own, from
the moment it is recorded; with that `owner`, and `fate` for `status`, the module
implements `ClaimBook` as `Finalization` does. Crashes and I/O errors happen at every
step; after the unlink a crash loses the reply. Run ids are random and unique;
the learning switch is constant while a process runs and is left out.

### Installation

Every file operation of `initialize_knowledge_root` is an action, opening a new
database included: looking whether it exists, connecting (which creates an empty
file), and the schema, whose statements commit one by one and stamp the version
before most tables exist. `made` is the length of the rollback list. A process
may be connected to a database that another one has removed; how far that one
has come is not followed, and every outcome is allowed there (`gone`). Other
commands appear as environment: `Preflight` reads the files in the code's order,
one per step; `BeginDiscovery` and `Save` need what their commands need.
`overlap` is a history variable. The transitions of imported installations are
not modelled.

## 3. The runs

TLC checks deadlock in every run except those of `DiscoveryRuns` and
`TransportLadder`, where the system may stop: all runs are closed, the payload
has been accepted.

| Run | Instance | What it shows |
|---|---|---|
| `race` | two finalizers, one reviewer, rival values of a slot and an inference, five payloads, no clock | a Proposal is decided once and whole (`SettledOnce`); only observed Claims are accepted although the check is made on a stale plan (`OnlyObservedAccepted`); a Claim is closed only by the Claim on record against it, for a cause on record (`SupersededForCause`); every step is a step of `ClaimBook` (`KeepsTheBook`) |
| `clock` | two finalizers, a value that changes twice, two instants, payloads recorded up to a second back, two orders of digests | the view folded from timestamps is what the Decisions say (`ViewAgrees`); what is answered SAVED is visible at once, while the view can be read (`SavedIsVisible`); `TypeOK` |
| `sequence` | one finalizer, one reviewer, two operational proofs over shared facts, seven payloads, two contexts | without a second finalizer there is one value per slot (`ExclusiveSlots`), one operational path (`OneOperationalPath`), a lifecycle is never earned from pending facts (`LifecycleFounded`), and a replacement that is not dated back leaves the view readable (`SavedIsReadable`) |
| `reducer` | three Decisions out of all kinds, two Claims, two knowledge and three domain times, any order | the fold is the view of `Ledger` (`FoldIsView`); corrections take out what is older (`CorrectionWins`) and only that (`OnlyOlderDeleted`) |
| `ladder` | up to three tries, two contexts, three of the places to report them, every trace | a selection is the simplest that worked (`SelectedIsSimplest`), a blocked capability was exhausted (`BlockedIsExhausted`), following the policy to its end is provable but for one case (`CompleteLadderIsProven`); `TypeOK` |
| `lookup` | two writers of two targets, two Claims, one hostname, the freeze | a hostname becomes ambiguous only by a race (`HostsUnambiguous`); a reply is about one target (`OneTargetPerReply`), no Claim is in two parts of it (`NeverInTwoParts`), what did not change is reported as it is (`SteadyIsReported`); the freeze lets through only who had passed it (`FreezeHolds`); `TypeOK` |
| `runs` | two runs of rival values, two processes, a reviewer, one fault, all kinds of payloads, fairness | `ListedMarkersWhole`, `ClosedWithVerdict`, `ClosedOnce`, `TypeOK`, every step is a step of `ClaimBook` (`KeepsTheBook`), and every opened run is closed in the end (`OpenRunCloses`) |
| `install` | two initializers, three faults, preflight, other commands | `OneInitializes`, `AuthorityInOrder`, `InitializedIsInstalled`, `ReadyIsTrue`, `TypeOK` |
| `v_race` | two finalizers, two plain payloads | finding 1 |
| `v_backdate` | one finalizer, a replacement recorded a second back | finding 2 |
| `v_install` | two initializers, no faults | finding 3 |
| `v_ladder` | tries reported as transport or as another family, one context | finding 4 |
| `lifecycle` (not among the runs of `PROJECT.json`) | two finalizers, one reviewer, the facts of one operational proof, four payloads, no clock | `LifecycleFounded` holds as well when another finalizer records, leaves pending or replaces what a plan rests on |
| `v_clock`, `v_second` (likewise) | no payload dated back: two finalizers; one that replaces twice in a second | finding 2 |
| `v_kind` (likewise) | one finalizer, a transport that failed and one that worked, a replacement of the second by the first | finding 5 |

**Why the bounds are enough.** The hazards of `Finalization` need two processes
that hold plans and a third that changes what the plans were made on; `race` has
three. Every kind of answer, and every rollback of the transaction, occurs in
one of its runs. Times are compared, never computed with, so two instants show
every order of two events, and together with `Digests` every order within one
second. `clock` needs three values because only a chain of replacements gives
two closes. `Reducer` compares pairs of rows, and a correction with several
older ones needs three. The ladder has three rungs, so three tries complete it,
and a shortcut or a second context needs no more; two contexts are what a trace
may not mix. In `lookup` two writers race for the hostname, one of them writes
behind the reader's back, and two Claims make a Proposal whose parts could come
apart. In `runs` one fault kills a process between the write and the close, and
its retry is the second process; the safety properties are proved for any number
of faults. Three faults in `install` leave residue of one attempt, break the
rollback of the next, and one is left.

The bounds, by name: `MaxTime`, `MaxBackdate` and `Digests` (`Finalization`),
`Ids` (`Reducer`), `MaxTries` (`TransportLadder`), `MaxFaults` (`DiscoveryRuns`,
`Installation`).

**Symmetry** is used for finalizers, initializers, writers, Claims of `Lookup`
and contexts of `TransportLadder`, never in `runs`, which checks liveness.

**Fairness.** Only `runs` assumes any: a process that is not
killed goes on (weak fairness of `Proceed`), since nothing in
`discovery-finalize` waits for another process longer than SQLite's busy
timeout; and the caller keeps submitting its final payload as long as it has not
been told CLOSED (strong fairness, since its submission is disabled while all
processes are busy), which is what `SKILL.md` asks of it. `Finalization` has no
liveness property: every process ends by itself, and a Candidate may stay
pending for ever if nobody reviews it.

**What a run cannot show.** `sequence` has one finalizer, so its `ExclusiveSlots`
and `OneOperationalPath` are about the checks of one planner beside a reviewer;
what happens to the first with two is `v_race`. Its `LifecycleFounded` is
disturbed by the reviewer only; `lifecycle.cfg` checks it with two finalizers and
`FoundedLifecycles` proves it for any number. `HostsUnambiguous` excuses the race
of two plans, which the code does not prevent, and says that nothing else makes a
hostname ambiguous; what a lookup is good for after the race is
`OneTargetPerReply`.

**Properties are sensitive to the code.** For each property, `PROJECT.json`
names a definition and a plausible bug in it (a dropped check, a wrong order, an
exclusive create that is not) under which TLC finds the property violated. The
bugs are the operators whose comment says "mutant".

## 4. Findings

1. **Two finalizers can accept two values of one slot** (`v_race`,
   `ExclusiveSlots`). The conflict check reads its own snapshot before the write
   lock and is not repeated under it (`discovery_finalize.py:1815`), unlike the
   token of a replacement. `sequence` shows the same property to hold with one
   finalizer: the conflict check is right, its place is not.
2. **A backdated replacement makes the view unreadable** (`v_backdate`,
   `SavedIsReadable`). A replacement whose `recorded_at` is earlier than the
   acceptance it closes is answered SAVED; the close then sorts before the
   opening, and the projection raises for every later read
   (`core.py:791`). No payload need be dated back for it. The clock is read once,
   at the start (`discovery_finalize.py:1607`), the accepted view later: a
   finalizer that started first and replaces what a second one accepted a second
   later does the same (`v_clock.cfg`). So does one finalizer that replaces twice
   in one second, when the digest in the first id sorts after that in the second
   (`v_second.cfg`). These three are the only ways (`SavedReadable`, section 5).
3. **A losing initializer deletes the winner's database** (`v_install`,
   `KnowledgeKept`). The database goes on the rollback list even if it existed
   (`installation_init.py:142`); the exclusive create of the first marker then
   fails, and the rollback unlinks the database (`:174`) under the process that
   will be told INITIALIZED, or with knowledge already in it. The same rollback
   runs when a single initializer fails to write the root marker after another
   command has saved.
4. **A transient failure can be saved** (`v_ladder`, `TransientNeverSaved`). The
   gate against failures of the network or the machine counts only observations
   of family transport (`discovery_finalize.py:964`). A run that records its
   failure as a blocking or limitation observation of class
   `TRANSIENT_NETWORK` is answered SAVED, with a trace or without;
   `SKILL.md:192` says such a failure is never saved as target knowledge, and
   the comment at `discovery_finalize.py:84` says the same of the code.
5. **A replacement across transports accepts two values of one slot** (`v_kind`,
   `ExclusiveSlots`), with a single process. Transport Claims of different
   transports are parallel facts, and the conflict check compares a Claim with
   those of its own transport; but the prior of a replacement is looked for by
   family and host only (`discovery_finalize.py:1373`), a change of transport is
   allowed (`:1442`), and a replacement that is ready is carried out whatever the
   conflict check found (`:1943`). After a direct read that failed and a Chrome
   that worked, a payload saying that a direct read works and contradicting the
   Chrome Claim leaves DIRECT_READ accepted as FAILED and as FUNCTIONAL. The
   program itself, given these two payloads, answers SAVED twice and lists both.

Other behaviours met while modelling, for which no run is kept:

- Enrichment merges evidence into any contradiction of the same Claim, context
  and class, also one recorded with another Candidate (`om_native_writes.py:638`).
  Its own Candidate may then have none and cannot replace; or, if it has one of
  an earlier run and another class, it replaces although its own record gives no
  cause that may, which is why `SupersededForCause` asks for the cause anywhere.
  A Candidate whose two sides once shared a locator is refused for good (`:540`).
- A replacement whose payload also earns a lifecycle is refused, because its
  Proposal then has two Claims (`om_native_writes.py:506`); the comment at
  `discovery_finalize.py:1820` expects it to pass.
- A value that comes back after it was replaced cannot be recorded: its Claim
  exists already, and the insert violates the primary key (`core.py:372`, the
  answer is an INTEGRITY error). `references/target-profile.md:245` promises an
  automatic replacement without this exception. `KeepsTheBook` shows that the
  whole write is rolled back.
- For the same reason a retry may never close its run: if the process died
  between commit and close, and another run replaced or a reviewer rejected the
  Claim meanwhile, the repeated payload is new again and fails at every try
  (`discovery_finalize.py:1755`). `docs/discovery-finalization-redesign-plan.md:79`
  says it resolves to ALREADY_EXISTS; `OpenRunCloses` states the exception.
- Two finalizers of two targets that plan at the same time both associate a
  hostname (`discovery_finalize.py:1244`), which is unresolvable from then on, as
  the comment above that line wants to prevent. A lookup that is under way then
  answers not_found or an error, never something of the other target.
- A Claim that is promoted between the two reads of a lookup is in neither part
  of its reply; a lifecycle is read last and may be shown with older Claims.
- A lookup by hostname never lists its target's open runs, because the listing is
  filtered by the reference as it was given (`scripts/knowledge-lookup:111`).
- The policy halts at an UNAVAILABLE Lightpanda although Chrome is there, and the
  finalizer asks for Chrome all the same (`transport_policy.py:44`,
  `discovery_finalize.py:1115`): such a run can be proven by no trace. The
  project knows it (`plans/README.md:184`); it is the exception `HaltsEarly` of
  `CompleteLadderIsProven`.
- A browser that is named only on the failed side of a contradiction needs no
  trace (`discovery_finalize.py:988`).
- SAVED is answered for a payload part of which was left pending earlier
  (`discovery_finalize.py:1747`).
- `run_state` OPEN is answered for a run that another process has closed
  (`scripts/discovery-finalize:208`), and a process whose run was closed after its
  check of the marker (`:157`) still writes.
- A contradiction recorded in the second of the Decision that resolves it stays
  listed as unresolved (`core.py:928`).
- A crash during initialization leaves files that every later initialization
  refuses, and so does `discovery-begin` in a directory with `targets/`.
- Two initializers may leave INITIALIZED with no database, or with a schema that
  lacks tables: `InitializedIsInstalled` and `ReadyIsTrue` are therefore stated
  for initializations that did not overlap.

## 5. What is proved

TLAPS proves the following for every value of the constants that satisfies the
named assumptions (`ConstantsOK` in each module: the payloads are payloads, the
Claims finitely many, the lifecycles are observed Claims, the bounds are natural
numbers).

- **`TypeCorrect`: `Spec => []TypeOK`** (`FinalizationSafety`). The inductive
  invariant is `TypeInv`, `TypeOK` with the bounds on times that make the view
  at `now` contain every Decision. The step is split by action: reads that only
  change a plan, the transaction's writes, and reviews.
- **`DecidedOnce`: `Spec => []SettledOnce`** (`FinalizationSafety`): a Claim is
  accepted or rejected by one Decision, which names its whole Proposal, however
  many finalizers and reviewers interleave. `SettledOnce` is not inductive: a
  finalizer promotes the Proposal its plan named some steps ago. `BookInv` adds
  (a) that a Proposal is named by Claims that belong to it, so no second
  Proposal of that name can arise; (b) that Decisions name recorded Claims and
  closes name accepted ones; (c) that the Candidate a plan will resume has only
  gained lifecycle Claims since. Then a Proposal found pending under the lock,
  where one unsettled Claim is enough, has no settled Claim at all (`Undecided`).
- **`ObservedAccepted`: `Spec => []OnlyObservedAccepted`**,
  **`FoundedLifecycles`: `Spec => []LifecycleFounded`** and **`ClosedForCause`:
  `Spec => []SupersededForCause`** (`FinalizationBook`). Classes, proofs and
  causes are looked at while planning, and the transaction does not look again;
  that this is safe rests on `CauseInv`: what a plan was based on is in the plan
  itself, or only grows (Claims once accepted, contradictions, the Claims of a
  Proposal). A lifecycle is recorded only by the transaction that accepts it, so
  a pending Candidate never holds one (`CandidateOf`, `PromotionCauses`).
- **`ViewCorrect`: `Spec => []ViewAgrees`**, **`BookKept`:
  `Spec => KeepsTheBook`** and **`SavedVisible`: `Spec => SavedIsVisible`**
  (`FinalizationBook`). The second is the refinement: `Finalization` implements
  `ClaimBook`, from the initial state and step by step, with `owner` as it is
  and `status` read off the Decisions. Plans are made on the accepted view,
  which is folded from timestamps; that the two agree rests on `Shaped`: a
  writer opens an interval at its own time and closes it no later than it
  records the close, and nothing is recorded ahead of the clock. A close that
  lies before its opening makes the view unreadable, and then nothing is
  accepted or replaced at all, so no step of the book is missed. Each kind of
  transaction is then one action of the book (`CaptureIsRecord`,
  `PromotionIsAccept`, `ReplacementIsReplace`, `RejectionIsReject`).
- **`OnePathBelieved`: `OneFinalizer` implies `Spec => []OneOperationalPath`** and
  **`SlotsExclusive`: `OneFinalizer` and `ReplacesInKind` imply
  `Spec => []ExclusiveSlots`** (`FinalizationSequential`). Conflicts and earned
  lifecycles are looked at while planning and never again, so these hold only
  where finalizers run one after another; reviewers may act at any time, since a
  rejection neither adds to the accepted view nor takes from it. The inductive
  invariants `PathInv` and `SlotInv` say what a plan may still count on when it is
  carried out (`PathPlan`: it earns one lifecycle at most, and no path is believed
  yet; `SlotPlan`: it replaces what its payload contradicts, and what it will
  accept without closing anything differs from no accepted Claim), stated on the Decisions and not on the view, which a
  backdated close may make unreadable for a while. Neither hypothesis can be
  dropped and both are met: `v_race` violates the first, `v_kind` the second, and the payloads
  of `sequence` meet both. `IdsOK` is what the ids of Claims give: they
  digest family, class, value and host, so one observed value of one slot is one
  Claim, and the family lifecycle is refused in a payload.
- **`SavedReadable`: `OneFinalizer` and `OnTime` imply
  `Spec => []SavedIsReadable`** (`FinalizationSequential`), and in fact
  `Spec => []Readable` (`AlwaysReadable`): the positive side of finding 2. `OnTime`
  says that no payload is dated back and that replacements of one second have ids
  that sort alike. The inductive invariant `TimeInv` says that every close finds its
  opening before it (`ClosesFind`), because nothing was accepted later than the
  time a running plan carries (`NothingNewer`). That is true when the plan is
  begun, and only another finalizer could change it. No part of the two hypotheses can
  be dropped: `v_clock`, `v_backdate` and `v_second` violate the property, each
  without one of them.
- **`ProjectionIsView`: `Spec => []FoldIsView`**, **`CorrectionsWin`:
  `Spec => []CorrectionWins`** and **`OlderDeleted`: `Spec => []OnlyOlderDeleted`**
  (`ReducerProofs`), for any number of Decisions, Claims and instants. This is
  what lets all other modules use the view of `Ledger` instead of the fold. The
  inductive invariant `RedInv` says what the intervals mean half-way: those of a
  Claim are the openings read so far, in logical order, and each lets through
  exactly the instants that its opening and the closes read so far let through
  (`Faithful`). Nothing still to be read comes before what was read
  (`ReadInOrder`), hence a close acts on the last interval (`ClosesLast`) and an
  opening is untouched by the closes before it. When nothing is left, an interval
  holds if and only if its opening is in force (`HoldsInForce`), and the last
  that holds is the one the Claim rests on (`LastRests`). With corrections the
  invariant says that each is waiting or has taken out all it must, which lasts
  because the active Claims only get fewer.
- **`OneInitializer`: `Spec => []OneInitializes`** and **`AuthorityOrdered`:
  `Spec => []AuthorityInOrder`** (`InstallationProofs`), for any number of
  initializers and faults. The inductive invariant `MarkerInv` says that one
  process at most holds the markers (`OneHolder`), from the exclusive creation of
  the first one until it ends; that what is on its rollback list exists; and
  that the root marker, once whole, stays. Rolling back last first keeps write
  authority from outliving read authority.
- **`InstallationTyped`: `Spec => []TypeOK`**, **`InitializedInstalled`:
  `Spec => []InitializedIsInstalled`** and **`ReadyTrue`: `Spec => ReadyIsTrue`**
  (`InstallationProofs`). One process at most builds the schema of the file that
  is there (`OneBuilder`), since the first statement fails on anything but an
  empty file. As long as no two initializations have overlapped, a process that
  runs is alone and started from nothing, so that its step says how far the
  database is (`Sequential`), whatever residue earlier ones left: residue is
  refused. Nothing removes the root marker (`RootSeen`), so what preflight saw
  first still holds when it reads the last file.
- **`RunsTyped`, `MarkersWhole`, `ClosingHasVerdict`, `ClosedByOne`**: the four
  invariants of `DiscoveryRuns` (`DiscoveryRunsProofs`), for any number of runs,
  processes and faults. `RunsInv` adds that a run still being opened has no
  marker, that a process on its way to the close has a verdict, and that a run
  of which somebody was told CLOSED has no marker and gets none again.
- **`RunsKeepBook`: `Spec => KeepsTheBook`** (`DiscoveryRunsProofs`): the second
  refinement of `ClaimBook`. A payload that changes the memory is one action of
  the book on the Proposal `{c}` of its Claim (`DecisionIsBooked`): `c` joins the
  Proposal when it is new and is already there when it waits (`Waiting`), and what
  it replaces is accepted and therefore another Claim. Everything else, a crash
  after the commit and the retry that follows it included, leaves the book alone.
- **`TypeCorrect`, `SimplestSelected`, `BlockedExhausted`, `LadderProven`**: the
  four invariants of `TransportLadder` (`TransportLadderProofs`), for runs of
  any length. They follow from what a proven trace is: a transport the policy
  holds insufficient is backed by a failure under the trace's one context, and
  nothing can follow a success.
- **`LookupTyped`, `HostsOfOne`, `RepliesOfOne`, `PartsDisjoint`,
  `SteadyReported`, `FreezeKept`**: all properties of `Lookup` (`LookupProofs`),
  for any number of targets, Claims and writers. `LookupInv` has four groups of
  facts: of the book (a Proposal is pending as a whole), of the scope (a plan
  that is not stale found the hostname free), of the freeze (who has begun
  before it is late), and of the reader (what it has collected of a Claim that
  did not change is what that Claim is).

`PathInv`, `SlotInv`, `TimeInv` and `RedInv` were checked with TLC on the instances of the
runs before they were proved.

Only model-checked: `OpenRunCloses`, which depends on fairness and is out of the
prover's reach. The fold of `Reducer` was once a recursive operator, about which
nothing can be proved here; as a loop with one row per step it needs no induction
but that of the invariant.

## 6. What is not modelled

- **Authority markers** (`write_authority.py`, `read_authority.py`): guards on two
  files. `Installation` models how they are made and removed; nothing in the
  repository changes them afterwards, so between those steps the guards are
  constants.
- **Platform adapter, learning switch** (`platform_adapter.py`): functions of the
  environment, constant while a process runs.
- **Host registration** (`host_registration.py`): links in the directories of
  agent hosts, independent of the memory. Relinking removes the old link before
  it makes the new one (`:131`); the next registration repairs what a crash
  leaves.
- **Of the Operational Memory**: history, evidence retrieval, views at past times
  and the text of the rendering. They read, and no decision is made on them.
- **Of a lookup**: the lifecycle, warnings, evidence references, the index, the
  listing of open runs and the diagnostic legacy mode.
- **Of a payload**: its shape and the validation of an operational proof, which
  look at nothing but the payload.
- **Skill texts and documentation**: no program state; they are quoted where the
  code is held against them.

## 7. Plan

1. `Lookup` with lifecycles and warnings: what a reply that mixes two instants
   may claim about an operational path.
2. The listing of open runs while `DiscoveryRuns` opens and closes them.
3. Views at past times: how long a run that is still open may change what was
   known at an instant.
4. Host registration with two checkouts, last.

## 8. Running it

    tlc -workers 2 -config race.cfg MCFinalization
    tlc -workers 2 -config lifecycle.cfg MCFinalization
    tlc -workers 2 -config v_kind.cfg MCFinalization
    tlc -workers 2 -config v_clock.cfg MCFinalization
    tlc -workers 2 -config v_second.cfg MCFinalization
    tlc -workers 2 -config reducer.cfg MCReducer
    tlc -workers 2 -config ladder.cfg MCTransportLadder
    tlc -workers 2 -config lookup.cfg MCLookup
    tlc -workers 2 -config runs.cfg MCDiscoveryRuns
    tlc -workers 2 -config install.cfg MCInstallation
    tlapm FinalizationSafety.tla
    tlapm FinalizationBook.tla
    tlapm FinalizationSequential.tla
    tlapm ReducerProofs.tla
    tlapm InstallationProofs.tla
    tlapm DiscoveryRunsProofs.tla
    tlapm TransportLadderProofs.tla
    tlapm LookupProofs.tla

Every run of the table ends within two and a half minutes on two cores.
