# A verification project for KubeHeal

KubeHeal watches one Kubernetes namespace, turns failing containers into
proposals (roll back, add a start-up probe, patch, or "needs a human"), asks a
human on Slack, and applies what was approved. What can go wrong without a test
noticing sits in three places, and this project has a model of each:

* **between its threads**: five kinds of thread share a SQLite file and a Slack
  channel, no call holds a lock across two statements, and any of them may fail
  or die between two calls (`KubeHeal`);
* **between KubeHeal and everybody else who writes to a Deployment**: a proposal
  is made from one state of the cluster, approved in another, and verified and
  undone in a third (`Remediation`);
* **between the LLM and the allow-list**: answers of any form pass through a
  stripping step, a validator and a retry loop (`Triage`).

TLC checks the three models on small instances; TLAPS proves their safety
properties for every value of the constants. Two refinements connect them: the
detailed remediation and the detailed triage implement the abstract steps that
the model of the threads makes of them.

## 1. Inventory of the system

| Component (source) | State | Operations | Talks to | Module |
| --- | --- | --- | --- | --- |
| Store (`store.py`, `models.py`) | tables `pending_approvals`, `audit_log`, `workload_cooldown` | insert a row, update its status, its Slack reference, its reminder time; append an audit entry; `should_alert`; queries | called by every thread, each call one transaction | `Store` |
| Observer (`observer.py`) | the watch stream | `run`: classify, resolve the owner, ask `has_open_incident` and `should_alert`, start a worker | cluster → store → worker | `Observer`, `Triage` |
| Worker (`main.process`, `post_*` in `slack_app.py`) | its incident, then the row it made | choose a strategy, insert, audit, post, store the Slack reference | rollback, probefix, brain, store, Slack | `Worker`, `Triage` |
| Rollback assessment (`rollback.py`) | none | pick the target revision; recency and substantive-change guards; `target_template` | cluster | `Rollout` |
| Probe fix (`probefix.py`) | none | recognise a slow start, derive a start-up probe | – | `Triage` |
| Brain and safety (`brain.py`, `safety.py`) | the messages of a retry loop | ask, strip invented probes, validate the patch, retry | Ollama | `Triage` |
| Diff (`patchdiff.py`) | none | the lines "path: old → new" of a patch's first entry | – | `PatchMerge` |
| Slack listeners (`on_approve`, `on_reject`, `on_acknowledge`) | the row they read | check, mark, audit, update the message, remediate, settle, audit, update | Slack → store → remediator | `Handlers` |
| Remediator (`remediator.py`) | captured previous spec, poll counter | dry-run, write, verify, annotate, undo | cluster | `Remediator` |
| Reminder loop (`main.reminder_loop`, `post_reminder`) | the list of a pass | list due rows, post, mark | store, Slack | `Reminder` |
| Slack channel, cluster, Ollama | outside the process | – | – | `SlackChannel`, `Cluster`, `Triage!Answers` |
| Log and event fetching, logging, configuration, manifests | none | formatting, settings | – | not modelled |

Hard behaviours: check-then-act across transactions (listeners, observer); a
cooldown that stands in for a lock; rows inserted before they can be seen;
copied lists and rows used after they changed; two clicks that race for one
decision; specs captured before and written back after a verification of two
minutes; a rollback target chosen hours before it is used; merges that cannot
remove what they added; errors of calls that took effect; exceptions and
process death between any two calls; liveness that hangs on one daemon thread;
parts of an answer that are used before they are validated. `PROJECT.json`
lists each at its line ("hazards").

What makes each component correct:

* store and observer: one open incident per workload; a failing workload is
  reported, again after its incident was closed;
* worker: a row is announced, and what is announced can be answered;
* listeners: a change only after an audited approval, once, with a truthful
  outcome, and every decision carried out;
* reminders: they go out for every open row;
* rollback: it installs a revision that ran before and overwrites nothing that
  it has not read;
* remediator: a success was healthy for three readings in a row; a failed patch
  is undone exactly where a merge can do that, and never beyond its container;
* diff: of a patch that is one entry for the failing container, what is shown
  comes true and nothing else changes but the server's defaults;
* triage: only allowed fields reach a human, no probe is invented for the failing
  container, a human is asked to act only as the last resort, and rejected
  answers end with something to post.

## 2. The modules

```
Store <- SlackChannel <- Worker <-+- Observer --+
                                  +- Handlers --+- KubeHeal <- Correctness <- Invariants
                                  +- Reminder --+                 |               |
                           ApprovalProtocol (abstract) <----------+               +- MCKubeHeal (TLC)
                                                                                  +- TypeProofs <- ApprovalProofs <-+- DedupProofs
                                                                                                                    +- ProtocolProofs
                                                                                                                    +- RecordProofs

PatchMerge <- Cluster <- Rollout <- Remediator <- Remediation <- RemediationInvariants <-+- MCRemediation (TLC)
    |                                                |                                   +- RemediationProofs
    +- MergeProofs (used by RemediationProofs)       +- instantiates Handlers (what it implements)

Triage <- TriageCorrectness <-+- MCTriage (TLC)
              |               +- TriageProofs
              +- instantiates Worker (what it implements)
```

(`A <- B`: B extends A.) Operators marked "Mutant of ..." are wrong variants of
the definition that follows; nothing uses them except the test that each
property notices one.

### The process

* **Store** – `store.py`. A column is a function on the incident ids; the clock
  is abstracted to two sets, `cooling` (alerted less than `cooldown_seconds`
  ago) and `due` (last reminder older than `reminder_seconds`). Each public
  function is one atomic operator because it opens and commits its own
  connection; the audit call inside `create_*` is a second transaction and so a
  second step.
* **SlackChannel** – the alert of an incident: whether it was posted and which
  buttons it shows. `Clicks(i)` are the clicks that may arrive: any button of a
  posted alert, whether or not it still shows, since a human may have a stale
  view and Slack may deliver late or again. That is what the status checks of
  the listeners are for.
* **Worker** – `main.process`, one thread per incident, so threads are named by
  incident ids: assess → (diagnose) → create → audit → post → ref → done. Which
  of the three kinds of proposal comes out is nondeterministic here and worked
  out in Triage. `workload[i]` and `plan[i]` are the thread's locals before the
  insert and the row's columns after it. Also declares `Faults`, the switch for
  what may go wrong.
* **Observer** – `observer.run`: a watch event, the question about open
  incidents, the question about the cooldown, the start of a worker. `failing`
  is the cluster as the watch reports it and changes freely.
* **Handlers** – the three listeners on a pool `Threads`, with one step per
  call: read, mark, audit, notify, and for an approval dry-run, write, verify,
  undo, settle, audit, notify. `applies[i]` counts the writes of i's proposal.
  A write that answers with an error may have taken effect.
* **Reminder** – a pass over a copy of the due rows.
* **KubeHeal** – all of it interleaved, plus `Crash`, which resets the threads
  and keeps store, channel and cluster. `LiveSpec` adds fairness.
* **ApprovalProtocol** – what the workflow promises for an incident: proposed,
  decided once by a human, written at most once and only when approved, settled
  truthfully.
* **Correctness**, **Invariants** – the properties; the inductive invariants.

`Faults` names what a run admits: `crash`, `exception` (a Slack, Ollama, SQLite
or connection error ends the worker, the listener or the current reminder),
`slow_diagnosis` (a worker may take longer than the cooldown),
`concurrent_clicks` (two clicks on one alert are handled at once), `watch_error`
(the watch raises something else than `ApiException`).

### One Deployment and its remediations

* **PatchMerge** – the fields of `ALLOWED_FIELDS` per container, each there or
  not and with a value or nothing at each path below; patches that keep, null or
  merge a field. Values are told apart by their text. `Merge` is the strategic
  merge of the API server, which stores values in its own spelling (`Canon`,
  `1024Mi` as `1Gi`) and fills in the defaults of a probe (`Default`). A patch as
  `validate_patch` accepts it is a list of entries (`PatchLists`): the first one,
  which may name any container and may have no field, and what the others amount
  to; `Net` is what the list asks of each container. `Capture` is
  `_capture_rollback`, `render_diff` the lines that the human sees, which come
  from the first entry whatever it is. `Restorable` says which patches such a
  capture can undo.
* **Cluster** – the Deployment: template (image, fields, the hash label),
  whether the status has caught up with the generation (`observed`), whether the
  replica counts agree (`level`), `scaledUp`, the ReplicaSets by revision
  (`history`), those that are old (`aged`), every template that ever ran
  (`ran`), and who holds a copy with the current resourceVersion (`fresh`).
  Generations and resource versions are kept as the comparisons the code makes.
  Its steps are the controller, pods that flap, ageing and removal of
  ReplicaSets, and other people's deploys, edits and scalings.
* **Rollout** – `rollback.py`: the two highest revisions, the guards of
  `assess`, `target_template`.
* **Remediator** – a client reads the spec when the failure is detected
  (`Detect`; nothing, if the read fails), proposes (`ProposeRollback`, `ProposePatch`), is approved at any
  later time (`Approve`), and then makes one step per API call: capture,
  dry-run, apply, polls, undo, or read target, read, dry-run, replace, polls;
  `Annotate` ends a success. `CallFails` is an `ApiException` of any call;
  writes that answer with an error may have happened; `Abandon` is an exception
  that nothing catches, or a crash. `good` is the counter of `_verify_rollout`,
  `readings` a history of the verdicts themselves that the property reads
  instead of the counter.
* **Remediation** – the properties, and the mapping to the listener of Handlers.
  **RemediationInvariants** – the inductive invariant.

### From a container status to a proposal

* **Triage** – one incident: `_classify` over every container status; the
  strategies of `main.process` in their order; the guards of `probefix.assess`;
  `brain.diagnose` with `_strip_invented_probes`, `validate_patch` and three
  attempts. Of a patch the model keeps what the code asks of it: the form of
  each part (an object, a text or list and the names in it, a number; accepted,
  rejected, or raising an exception), the name, keys outside the allow-list, and
  each allowed field.
* **TriageCorrectness** – the properties, and the mapping to Worker.

`MC*.tla` and `MC_*.cfg` are the instances for TLC.

## 3. What the runs check

| Run | Instance | Shows |
| --- | --- | --- |
| `restarts` | 2 ids, 1 workload, 1 listener; crash, exception, watch_error | `TypeOK`; `OneOpenIncident`; `OpenStaysActionable`: an open alert has a button its listener accepts; `WrittenOnceIfApproved`; `LateClicksDoNothing`: once no listener is past its look at a decided row, nothing of the incident changes any more; `ImplementsProtocol`: refinement of `ApprovalProtocol` |
| `decisions` | 1 id, 2 listeners, fair; concurrent_clicks | `ApprovedByHuman`: no write without an audited approval; `OutcomesAreBacked`: what a settled row reports has happened; `RacesAreBounded`: at most one write per listener; `DecisionsAreClosed`: when nobody works on a decided row it has a final, audited status and no buttons; `DecisionsAreCarriedOut`: and it gets there |
| `reports` | 2 ids, 1 listener, fair; no faults | `NoIncidentGoesUnseen`: an open row whose worker is done is on the channel, answerable and reminded of; `RemindersStop`: a decided incident is on no new list; `FailuresAreReported`; `RemindersGoOut` |
| `remediation` | 1 client, 2 containers, 2 fields, 2 paths, 2 values (one in 2 spellings), 2 patches, 2 images, 2 disturbances of any kind, fair | `RemediationTypeOK`; `HealedIsSustained`; `ResultsMatchWrites` and `ResultsTellWhatStands`: the result that on_approve reports is what was written and, if nobody else wrote, what the Deployment runs; `UndoIsExact`; `UndoKeepsDeploys`; `ReplaceLosesNothing`; `RollbackRanBefore`; `DiffIsTheChange`: if the patch is one entry for the failing container as recorded, each line of the diff comes true and besides only defaults of added fields change; `ImplementsListeners`; `RemediationsEnd` |
| `triage` | every status, events and probes; three answers out of 99 forms, fair | `TriageTypeOK`; `ProposedPatchesAreAllowed`; `NoInventedProbes`: no entry for the failing container adds a probe to it; `EscalationIsLast`: a human after three rejections, not before; `RejectionsAreReported`; `ImplementsWorker` |
| `double_apply` | 1 id, 2 listeners; concurrent_clicks | violated: two clicks on Approve write twice |
| `slow_diagnosis` | 2 ids; slow_diagnosis | violated: two open incidents of one workload |
| `post_fails` | 2 ids, fair; exception | violated: an open row nobody sees silences its workload |
| `lost_approval` | 1 id, fair; crash | violated: an approval that is never settled |
| `undo_leftovers` | as `remediation`, undisturbed | violated: a limit added below existing resources survives the undo |
| `stale_rollback` | as `remediation`, 3 images, deploys | violated: an approved rollback reverts two deploys |
| `malformed_patch` | answers with a number, a text or null for an object, fair | violated: the worker ends without a row |

The violated ones are disagreements between the code and what its comments or
documents say; `PROJECT.json` quotes the lines ("findings"). Further ones were
met while modelling and have no run of their own. The models contain them, and
where a property stops short of one, its comment says so:

* An exception other than `ApiException` ends the observer for good and nothing
  restarts it (`watch_error` with fairness falsifies `FailuresAreReported`).
* When Approve and Reject race, the row may end as rejected and the message says
  "No changes were applied" (`slack_app.py:97`) while the change is applied.
* A crash between the update of a row and its audit entry leaves the decision out
  of the audit log (hence the assumption of `DecisionsGetClosed`).
* A reminder from a copied list may say that nothing was applied after it was.
* A workload whose approved change is still being verified no longer counts as
  having an open incident and can be alerted on again.
* `src/README.md:43`, `models.py:25-28` and `main.py:104-105` send image and
  config failures to a human, but the start-up probe is proposed before the reason
  is looked at (`main.py:98`): with a probe in its events and a declared port,
  such an incident gets a patch that cannot repair it. No property of the project
  claims the opposite.
* `brain.py:86-88` allows new probes only for probe failures. Each entry of a
  patch is measured against the probes of the failing container, so a probe that
  is new to a sidecar passes if the failing container has one of its kind.
  `NoInventedProbes` is therefore about entries of the failing container.
* The diff is there so that a human sees "at a glance what will change"
  (`patchdiff.py:3-4`). It is made of the first entry alone and compares it with
  the failing container: after an entry without a field, or for a second entry, a
  change is not in the list (the raw patch of the alert still has it), nor are the
  defaults of an added probe, and a new spelling of an old value is listed.
  `DiffIsTheChange` says what remains true.

**Bounds.** *The process:* an id is used once, so `Ids` bounds the incidents of
a run; the model's watch delivers nothing once all are used
(`FailuresAreReported` excuses that state). Two ids and one workload are the
smallest instance in which a duplicate can exist, and a workload only meets
others through the observer's single program counter and through its own column
values; the proofs cover the rest. One listener in `restarts` still handles any
sequence of clicks, late and repeated ones included, interleaved with the other
threads; two are enough for a race. Nothing else is bounded: crashes,
exceptions, clicks, health changes and reminders happen as often as they like,
and `applies` is bounded by the code itself (`RacesAreBounded`).

*The Deployment:* `MaxDisturbances` bounds deploys, edits, scalings and
removals; readings, flapping pods and controller steps are unbounded. Two
disturbances are what the longest interesting story needs: a deploy that is
proposed for rollback and another one, or the removal of the target, before or
during the remediation. One patch adds a probe, which the server completes, and
spells a limit otherwise; one names the failing container first and changes both
containers in later entries; `undo_leftovers` has one that adds a limit. Others
edit the second container. Two containers tell the
failing one from the rest, two paths what is there from what is added. A second
client behaves towards the first as one more writer, which the disturbances
stand for; the proofs take any number of clients at work on one Deployment.

*Triage:* answers with one or two entries, every form of every part among them.
A second entry is what distinguishes a check of the first from a check of all,
and which problem decides; the proofs take any set of answers of any length.
Three attempts is the code's own bound.

**Symmetry** is used in `restarts`, whose properties are invariants and a
refinement without liveness.

**Deadlock** is checked except in `triage` and `malformed_patch`, where the
thread of the one incident ends.

**Fairness.** `KubeHeal!LiveSpec`: weak for each thread that can take a step,
since threads are scheduled and no call of the model blocks for ever; strong for
`WatchEvent(w)`, since a stream ends after 60 s and the next one lists every
pod, so that a workload that keeps failing is delivered again and again,
whatever the loop is busy with in between; strong for `CooldownExpires`, since
time passes although the model holds the expiry back for moments (below); weak
for `FallsDue`. `Remediator!LiveSpec`: weak for a listener's next step, and weak
for `GiveUp`, the deadline of `verify_timeout_seconds`, because the loop tests
the clock between any two readings: pods that flap for ever cannot keep it
polling. `Triage!LiveSpec`: weak for the worker's next step. Nothing for clicks,
approvals, the cluster, other people and faults.

**Time.** Unless `slow_diagnosis` is admitted, `CooldownExpires(w)` waits while
an alert on w has no row yet: 300 s are assumed longer than the way of a worker
to its insert. It also waits between the observer's two questions. Without a
worker on the way that loses nothing, because the first question does not read
the cooldown and the expiry could have come before it.

## 4. What is proved

With TLAPS, for every value of the constants that satisfies the named
assumptions of the modules: `StoreAssumption`, `FaultsAssumption`,
`HandlersAssumption`, `PatchAssumption`, `ClusterAssumption`,
`RemediatorAssumption`, `TriageAssumption`. They say that sentinels lie outside
their sets, that faults and disturbances are known ones, that the initial spec
and the edits are well formed, that the server's spelling of a value is its own
spelling already and its defaults are spelled so (`PatchAssumption`; fields that
are returned as `{}` have none), and (`RemediatorAssumption`) that a proposed
patch sets no field to null, which `validate_patch` guarantees. Each safety
proof is an inductive invariant, with one lemma per thread or kind of step and
one step per action; TLC has checked each invariant first.

### The process

| Theorem | States | Assumes |
| --- | --- | --- |
| `TypeCorrect` | `Spec => []TypeOK` | – |
| `EveryWriteIsApproved` | `Spec => []ApprovedByHuman` | – |
| `OpenRowsCanBeAnswered` | `Spec => []OpenStaysActionable` | – |
| `OutcomesAreTrue` | `Spec => []OutcomesAreBacked` | – |
| `RacesAreLimited` | `Spec => []RacesAreBounded` | `Threads` is finite |
| `DecisionsStand` | `Spec => LateClicksDoNothing` | – |
| `NoLateReminders` | `Spec => RemindersStop` | – |
| `DecisionsGetClosed` | `Spec => []DecisionsAreClosed` | neither `exception` nor `crash` |
| `IncidentsAreSeen` | `Spec => []NoIncidentGoesUnseen` | neither `exception` nor `crash` |
| `NoDuplicateIncidents` | `Spec => []OneOpenIncident` | not `slow_diagnosis` |
| `AtMostOneWrite` | `Spec => []WrittenOnceIfApproved` | not `concurrent_clicks` |
| `KubeHealImplementsProtocol` | `Spec => ImplementsProtocol` | not `concurrent_clicks` |

* `TypeInv`: `TypeOK` is not inductive alone. An audit entry is typed because a
  busy listener has an incident and a worker past its decision has a plan.
* `ApprovalInv`: plans are final once the alert is posted; Approve is only
  offered for a plan that changes something; a listener is in its remediation
  only with an approval it has already audited. No fault is excluded, so the
  theorem also covers the races that break `NeverDoubleApplied`.
* `ActionableInv`: a row that a listener has marked is never open again, so
  whoever removes the buttons does it to a decided row, even when clicks race;
  and an open row has the status and the buttons that its plan gave it.
* `OutcomeInv`: a row is decided through its alert, so its plan is final by then;
  a listener gets to the verification with a write of its proposal, and to the
  undo with a patch, and the number of writes never goes down. So every listener
  that settles a row, in whatever order, settles it on something that happened.
* `RaceInv`: the listeners that may still write for an incident, those between
  their mark and the write, are counted together with the writes. Before the
  first decision nothing is written; from then on no listener joins, because
  `Read` turns them away, and a write makes one of them one less: the sum never
  exceeds the pool. (The proof is about cardinalities, hence the finite pool,
  which Bolt's is.) This is the most that holds where `NeverDoubleApplied` does
  not.
* `ClosingInv`: clicks that race overwrite each other's status, but the last to
  write one is busy until it has audited that one; an "approved" row has a
  listener on the way to settle it; and a decided row with buttons has one on the
  way to remove them. Each is somebody's next step, so when nobody is busy all
  three are done. A thread that is lost half-way takes the promise with it.
* `SeenInv`: on top of `ActionableInv`, a worker that no fault stops ends with
  the reference stored.
* `LateClicksDoNothing` and `RemindersStop` are about steps: they follow from
  `OutcomeInv` (a worker whose incident is decided has nothing left but its
  reference to store) and from the types, without any assumption on the faults.
* `DedupInv`: a workload with an alert in the making is cooling, has no other
  such alert and no open row; and if a row was opened since the observer's first
  question, the workload is cooling, so the second question stops the alert. The
  cooldown is what carries the argument, hence the assumption.
* `ProtocolInv`: a listener that is alone on its incident knows the row's status
  and number of writes at each program point. The mapping sends the insert to
  Propose, `Mark` to Decide, the write to Write and `Settle` to Settle.

The assumptions are necessary: `slow_diagnosis`, `double_apply` and the audit
gap above are what happens without them.

### One Deployment and its remediations

| Theorem | States |
| --- | --- |
| `RemediationTypeCorrect` | `Spec => []RemediationTypeOK` |
| `HealingIsSustained` | `Spec => []HealedIsSustained` |
| `UndoesExactly` | `Spec => UndoIsExact` |
| `UndoesNoDeploy` | `Spec => UndoKeepsDeploys` |
| `ReplacesWhatItRead` | `Spec => ReplaceLosesNothing` |
| `RollsBackToWhatRan` | `Spec => RollbackRanBefore` |
| `ShowsWhatItChanges` | `Spec => DiffIsTheChange` |
| `ResultsAreTrue` | `Spec => []ResultsMatchWrites` |
| `ResultsNameTheTemplate` | `Spec => []ResultsTellWhatStands` |
| `RemediationImplementsListeners` | `Spec => ImplementsListeners` |

They hold for any number of clients on the Deployment, any disturbances, any
specs and patches. The pure facts come first, in `MergeProofs`: `CaptureIsLocal`
(a captured undo touches one container), `RestoreIsExact` (it takes back the
`Restorable` patches and no others) and `DiffIsHonest` (of a patch with one entry,
the lines of the diff come true and only defaults change besides).
`RemediationInv` then says what a client may rely on:
the template it captured is there when it undoes; the history holds templates
that ran, none of them labelled; a rollback row names one of them, also after it
has been removed; a diff is that of the first entry of the row's patch; a copy with the current
resourceVersion *is* the Deployment, however many writers there are; and the
count of `_verify_rollout` is the number of healthy readings at the end of the
history. The proof treats a step of the cluster, which leaves the clients alone
except for making their copies stale, apart from a step of a client, which
leaves the other clients alone.

`WritesInv`, on top of it, counts: a client has written at most once, where it
stands tells whether it has, and as long as it is alone the template is the one
it captured, the patched one, or what its undo made of it. Two clients do not
disturb the counting, and a client that is not alone is promised nothing about
the template.

`Restorable` is not an assumption that makes `UndoIsExact` come true: the
property is an equivalence, so the proof also shows that the undo of every other
patch leaves something behind. `UndoRestoresSpec`, the same without the
condition, is what `undo_leftovers` refutes.

### Triage

| Theorem | States |
| --- | --- |
| `TriageTypeCorrect` | `Spec => []TriageTypeOK` |
| `OnlyAllowedPatches` | `Spec => []ProposedPatchesAreAllowed` |
| `NoProbeIsInvented` | `Spec => []NoInventedProbes` |
| `EscalationIsTheLastResort` | `Spec => []EscalationIsLast` |
| `OnlyUnexpectedAnswersKill` | `Spec => []Alive`, if all answers are `Expectable` |
| `TriageImplementsWorker` | `Spec => ImplementsWorker` |

They hold for every set of answers, with any number of entries;
`OnlyUnexpectedAnswersKill` restricts the answers, because `malformed_patch`
shows what the others do: if the call succeeds and each part has the type that
the code takes for granted, however wrong the answer is otherwise, no worker
dies. A text or a list in place of a container is harmless only if it names no
probe, since the code would try to delete that (`brain.py:98`). The validator
accepts only if no entry has a problem, and the list it accepted is the stripped
one that is proposed; what the program itself proposes (a rollback, a start-up
probe) is allowed by its construction.

### Only model-checked

The liveness properties (`FailuresAreReported`, `RemindersGoOut`,
`DecisionsAreCarriedOut`, `RemediationsEnd`, `RejectionsAreReported`): TLAPS
does neither fairness nor ENABLED. Two of them have a proved half:
`DecisionsAreClosed` says that a decision that nobody works on any more has been
carried out, and `OnlyUnexpectedAnswersKill` that the worker is not lost. That
threads make progress is what is left to TLC.

## 5. What is not modelled, and what is left

* Log and event fetching (`log_fetcher.py`): read-only, and no decision depends
  on the text of a log. Of the events Triage keeps which probes they mention.
* The API reads of `_resolve_workload` as steps of their own: an owner that
  cannot be resolved is a pod that is passed over.
* Block layout, wording, prompts, logging, configuration, client construction,
  manifests, the command line entry points.
* Elapsed time other than as order; how long a click waits for a thread.
* The confidence that the LLM gives and the text of its diagnosis: nothing in
  the code branches on them.

Left for later:

1. A restart that loses the database, which is what the manifest implies in the
   cluster: rows and audit log start empty while the alerts and the cluster stay.
   `ApprovedByHuman` reads the audit log and would need a history of its own.
2. A composition of Remediation with KubeHeal in one state space, instead of the
   refinement between them, to follow a second incident of a workload that is
   being remediated from its alert to its write.
3. Two clients in a run of `remediation` (the proofs cover them; liveness is
   checked for one).
