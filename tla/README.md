# Formal models of platform-tools

TLA+ models of the parts of platform-tools that keep state and must survive
concurrency and crashes, with TLC configurations that check them on small
instances and TLAPS proofs of what matters most. The code is under `src/` of
the repository; `PROJECT.json` maps every definition to the lines it models.

## 1. The system and what was surveyed

platform-tools is a set of command line tools. The `platform_pki` Python
package (about 54 000 lines) manages a private PKI in one directory; the other
tools are shell scripts built with bashly. The PKI's own logic is how its
commands change many files of that directory without ever leaving them half
changed, and that is what the models are about.

| component | state it keeps | operations | what is hard | status |
|---|---|---|---|---|
| managed service transaction (`service_transaction`, `service_writer`, `service_recover`) | journal, private stage and backup trees, retained records | issue, renew, recover | crash between any two mutations, rollback interrupted and restarted, commit in one process and cleanup in another | modelled (bootstrap left) |
| managed service operations (`service_issue`) | the plan, OpenSSL outputs | plan, stage, back up, publish, verify, commit | order of staging, backup and publication | modelled as the driver of the above; OpenSSL and CSR path left |
| PKI locks (`locks`) | five lock files, open descriptions, duplicate registry | acquire a prefix, release, fork, exit | shared descriptions after fork, partial failure, creation race | modelled |
| publication primitives (`publication`) | files and directories at a name | stage, publish, exchange, replace, unlink, remove tree | two system calls per replacement, other programs changing the same names | as the steps of the transaction and of the install |
| filesystem, identities, records, manifests | descriptors, snapshots | open, authenticate, parse | identity changes between check and use | object states only |
| subprocess supervision (`subprocesses`) | child process group, pipes | run, time out, signal, reap | timeout, signal and exit at once | planned |
| inventory (`inventory`, `inventory_install`) | `services.yml`, its history, stages and guards | parse, install | an editor that takes no lock, guarded exchange undone on a mismatch | install modelled; parser left |
| CSR issuance (`service_issue`, `csr_candidate`, `csr_protocol`, `csr_history`, `csr_outcome`, `csr_trust_install`, `certificate_export`) | signing and finalization journals, CA database, reservations, transactions, candidates, responses, exports, outcomes, active pointer, trust tree | issue and renew from a CSR, export, finalize, abandon, report, install trust | two journals, a copy of the CA key, seven database files published one by one, requests that compete for a nonce or a predecessor | modelled for one service; OpenSSL, signatures and the record grammar left |
| CSR recovery (`csr_recover`, `csr_recovery`) | the same | handler of a failed signing, `csr-recover` of a signing or a finalization | which half of an exchange happened, what the journal may say of it, restart of the recovery itself | modelled |
| CA rollover (`ca_rollover_*`, `operational`) | one journal, marker, receipt, reservations, generations, root database, manifests | prepare, migrate, recover, status | many objects published one by one, a recovery of one action after one of the other, cleanup that removes its own evidence | modelled; `status` (a read) left |
| CA creation (`init`, `root_create`, `intermediate_create`, `ca_passphrase_verify`) | the same journal, the first authorities, a copy of the root key | create, abort in the process, recover | a rollback in the failed process that is killed itself | modelled; `init`, passphrase pipes left |
| offline exchange (`offline_csr`, `offline_workspace`, `direct_exchange`, `gitlab_package`) | packages, approvals | export, import, exchange | two hosts, repeated and lost packages | planned |
| exports, backups, reports | output tree | one publication each | little | not modelled: a publication or a read |
| command line (`cli`, `parser`, `operational`) | none | dispatch | none | not modelled |
| faults and pauses (`faults`) | none | test hooks | none | every point they stop at is a point where `Stop` is enabled |
| shell tools (`vm_snapshot` and others) | Proxmox snapshots, timers | snapshot, prune, clean up | retention, freeze and thaw | planned for `vm_snapshot` and `vm_cleanup` |

How they interact: a command takes a prefix of the PKI locks, reads and
authenticates the directory, changes it through the publication primitives
under a journal, and releases the locks. `issue-service` and `renew-service`
hold lifecycle, root, intermediate and inventory while they write, release
them after the commit rewrite, and run the recovery (which takes the same
locks again) to clean up. Any later command refuses to start while a journal
is left; `service-recover` finishes it. So the transaction models contain one
process at a time, and `PkiLocks` is what justifies that. The CSR commands and
the CA commands work the same way under journals of their own: a command is
refused while `NoUnresolvedState` (`operational.py`) is false, and each journal
has one recovery command.

What makes each component correct is stated in the property tables below and,
for what is not modelled yet, or covered only in part, as hazards with a note in `PROJECT.json`.

## 2. Modules

    ServicePlan -> ServiceJournal -> ServicePreflight -> ServiceWriter  \
                                                      -> ServiceRecover  -> ServiceTransaction
    AtomicService  (abstract specification, INSTANCE in ServiceTransaction)
    MCServiceTransaction, ServiceTransaction_proofs  (extend ServiceTransaction)
    ServiceTransaction_proofs -> ServiceJournal_proofs
    PkiLocks -> MCPkiLocks, PkiLocks_proofs
    InventoryInstall -> MCInventoryInstall, InventoryInstall_proofs

    CsrSigningJournal -> CsrState -> CsrHistory -> CsrSigning -> CsrSigningRecover
                                  -> CsrFinalization -> CsrLifecycle
    CsrLedger  (abstract specification, INSTANCE in CsrLifecycle)
    CsrLifecycle -> MCCsrLifecycle
    CsrLifecycle -> CsrLifecycle_proofs -> CsrSigning_proofs

    CaJournal -> CaCreation    -> CaCreationRecover    \
              -> CaMigration   -> CaMigrationRecover    -> CaRollover -> MCCaRollover
              -> CaPreparation -> CaPreparationRecover /
    CaLayout  (abstract specification, INSTANCE in CaRollover)
    CaRollover -> CaTypes_proofs -> CaRollover_proofs

* **ServicePlan** computes the immutable plan of a run from a request: which
  objects are published, in which order they are staged, backed up, published
  and rolled back. Names, orders and replace policy are those of the code.
* **ServiceJournal** has the state: the journal as a record with one field for
  each thing its 400 text fields tell apart (phase, checkpoint, pending key,
  counts, evidence), and the disk as the kind of object at each destination,
  stage name and backup name: `absent`, `original`, `copy` (a private backup
  copy) or `new`. `LegalForward`, `LegalRollback`, ... are the table at the end
  of `parse_service_transaction`.
* **ServicePreflight** is what recovery authenticates before it mutates.
* **ServiceWriter** and **ServiceRecover** have one action per mutation. A
  journal rewrite is atomic in the code (a new file renamed over the old), so
  it is one action that changes `journal` only; a filesystem mutation is one
  action that changes the disk only, and `replace_exact` and the removal of a
  private tree are two each, because a crash can separate their halves.
* **ServiceTransaction** composes them. `process` is what the one process
  under the locks does; `Stop` ends it anywhere, any number of times, and
  stands for a kill, a signal, a failed system call or a failed check.
  `RefuseCleanup` and a false `Preflight` are the code's fail-closed exits.
* **AtomicService** is the promise to a reader of the service directory: one
  decision, made only when everything is new or everything is old again.
* **PkiLocks** models `acquire_pki_locks` for any number of processes: which
  lock files exist, which open file description holds each `flock`, and which
  descriptions each process has open. A fork shares descriptions; the child
  closes them one at a time, while parent and rivals go on.

* **InventoryInstall** models `inventory-install` and the guarded exchange of
  `publication.py` at the level of single system calls: names refer to inodes
  (`dir`), inodes have data and a version (`file`), `hist` is
  `inventory/history`, and `local` is what the command remembers: the identity
  and bytes it validated, and the inode of each artifact its cleanup may unlink.
  An action is one call that changes or examines the directory, with the branch
  the code takes on the answer: `_die` goes to the cleanup of the `finally`
  clause, `_preserve` ends the command and keeps everything. `Unguard` is the
  removal of guard, base and displaced inventory after publication, `Clean` the
  same in the cleanup. Commands run one after the other (the inventory lock),
  and a killed one leaves its artifacts. `Other` is every program that takes no
  PKI lock, between any two steps: it saves a new `services.yml`, rewrites it in
  place, removes it or an artifact, or puts a snapshot into the history.

* **CsrSigningJournal** has the signing journal and its parser: `Parses` is
  `parse_signing_journal`, a table of which evidence each phase and step must
  carry. An identity is whether it is recorded, except for the seven files of
  the CA database (`CSR_DB_KEYS`), where the journal tells apart the file before
  the signing, the one it made and a rollback copy.
* **CsrState** has the disk of one service and the process that works on it
  (`actor`). `journal`, `database`, `transactions`, `candidates` and the rest
  are durable; `actor`, `handlers` and `deciding` are lost in a crash.
* **CsrHistory** is what commands read out of the retained history before they
  act: which requests are authentic, pending, decided, which are heads.
* **CsrSigning** is `issue` and `renew` up to the commit of the database: one
  action per reservation, file, copied key, database entry and journal rewrite.
  Two files cannot be exchanged and removed at once: `PublishEntry` and
  `RemoveDisplacedEntry` are two actions, a crash can fall between.
* **CsrSigningRecover** is the code that runs in `csr-recover`, in the handler of
  a failed writer (`BeginHandler`) and, after the commit, in the writer itself:
  `RollbackEntry` ... `RecordRestored` back, `SignResponse` ...
  `RecordArtifact` forward, then `WriteTerminal`, `RecordTerminal`,
  `RemoveSigningJournal`. `PreflightUncommitted` and `PreflightCommitted` are
  what it authenticates first.
* **CsrFinalization** is `certificate-export`, `csr-candidate` finalize and
  abandon with the recovery of a finalization, `csr-outcome` and
  `csr-trust-install`. **CsrLifecycle** composes all of it.
* **CsrLedger** is the promise: the database takes up one request at a time and
  as a whole, a signed request is answered before anything else is signed or
  decided, decision and active request change together and once. The mapping
  reads, of an uncommitted signing, the database it started from, and of a
  journaled finalization its end.

* **CaJournal** is the journal all CA commands share, with its marker and
  receipt, and `NoUnresolvedState`, which lets other commands through.
* **CaCreation**, **CaMigration** and **CaPreparation** have each command as a
  plan (a sequence of journal rewrites and of changes of one object) that one
  process walks; the order is that of the code. **CaCreationRecover**,
  **CaMigrationRecover** and **CaPreparationRecover** have their recoveries as
  plans too: every step is announced in the journal, made, and recorded as done.
  The action (`rollback` or `resume`) is the operator's choice each time. A
  preparation replaces files that are there (entries of the root database,
  reservations) in two steps, because a crash can separate them: the exchange
  of the two names (`PutPart`), which leaves the former file under the name the
  new one came from (`displaced`), and its unlink (`PreparerUnlinks`,
  `RepairUnlinks`). The preflight of the database (`EntryKnown`) and the last
  removal of the transaction directory (`AsListed`) read those names.
* **CaRollover** composes them under the one journal; `Failing` ends any running
  command between two durable changes. **CaLayout** is the promise to every other
  command: it sees no authority, a root, the legacy pair, a generation or a
  prepared generation, or is told to wait.

Objects of the transaction are abstracted to the kinds above: bytes, identities and modes are
what the code compares to tell those kinds apart. Certificates, serials and
dates do not occur: no guard of the transaction depends on them. In the CA
models an object is in one of a few places (absent, staged, before, published,
restored, partly removed), and the root database is three of its nine entries:
one that changes, one that stays and one that is created.

## 3. Runs

| run | instance | question |
|---|---|---|
| `service_transaction` | 29 plans, 98 857 states | every safety property, the refinement and convergence |
| `failed_cleanup_resumes` | the same | refuted, finding 1 |
| `pki_locks` | 2 processes, 1 or 2 locks, 10 976 states | exclusion, ownership, locks come free |
| `inventory_install` | 2 commands, 2 edits, 1 crash, 3 contents, 3 145 294 states | nothing destroyed, truthful reports |
| `inventory_refusal` | 2 commands, 1 edit | refuted, finding 2 |
| `csr_lifecycle` | 3 requests, 3 trust trees, 45 170 states | signing, decisions, their recoveries; the ledger; convergence |
| `terminal_journal_resumes` | 3 requests | refuted, finding 3 |
| `initial_trust_installs` | 3 requests | refuted, finding 4 |
| `pending_can_be_decided` | 3 requests, nonces of their own | refuted, finding 5 |
| `ca_rollover` | 3 creations, 2 migrations, 2 preparations, 3 failures, 319 962 states | whole layouts only; the layout machine; every operation resolved or stranded |
| `resumed_is_whole` | 2 failures | refuted, finding 6 |
| `resumed_cleanup_is_history` | 2 failures | refuted, finding 7 |

**Bounds.** A transaction has one plan for its whole life and its model has no
counter beyond the lengths of the plan's orders, so nothing is cut off: the
number of stops and recoveries is unbounded. The plans are all consistent
requests over both operations, the three key actions, an archive root that
exists or not, all, some or no service directories to create, and five choices
of displaced objects from none to a complete service. The keys and orders are
the code's own, up to 29 mutations. Two locks of the five are enough for a
partial acquisition, a partial release and a prefix held by another process;
two processes are a holder and a rival, or a parent and its forked child. There
are as many descriptions as those can have open. The proofs cover every other
size, three processes at once included.

The install is bounded by `MaxRuns`, `MaxEdits` and `MaxCrashes`. Two commands
let the second meet what the first left; two edits let a competitor act on both
sides of an exchange, or act and be guarded by the next command; one crash
separates the two. Of the three contents two are valid (symmetric) and one is
not. The proofs put no bound on any of them.

The CSR instance is a service with a first request, a rival and a renewal of the
first. The rival carries the nonce of the first (in `pending_can_be_decided` one
of its own), so both the competition for a reservation and that for the active
pointer happen. A third generation of requests would repeat what the renewal
does. Trust trees are `0..MaxTrust`: a schema-1 tree and two of schema 2, so
that a change is possible twice. Kills, failures and recoveries are unbounded.

In the rollover instance three creations are a root, an intermediate that fails
and the intermediate again; two preparations are one that is rolled back and one
after it; three failures are one of the command and two of its recoveries, so
that the operator can change the action twice on one operation. One service and one stray file stand for the objects
that occur once per service or per quarantined name; each is published by the
same steps.

`CHECK_DEADLOCK FALSE` is set for the transaction because it really stops: when
its journal is removed or a stopped transaction is in a refused window. It is
set for the install and the rollover because the number of commands is bounded,
and for the CSR lifecycle because it ends when every request is decided, and
stops when a signing is in a refused window.

### Properties of the service transaction

* `JournalLegal`: every rewrite of writer, rollback and cleanup is a record the
  parser accepts, so no process leaves a journal that none can load.
* `OneMutationAhead`: the disk is never more than the one announced mutation
  ahead of the journal's evidence. Everything recovery does rests on it.
* `OriginalRetained`: until commit every displaced object is at its destination
  or in the backup.
* `NestingRespected`: parents are there when children are published, and empty
  when they are rolled back.
* `AtomicOutcome`: the terminal record tells the truth, and the private trees
  (key material) are gone by then.
* `RefusalsAreKnown`: recovery gives up only in the listed windows. They are
  where a mutation happened whose evidence is not in the journal: a private
  file, a directory in the stage, half an exchange, a retained record, a
  removal; the repository's tests expect those refusals, except for finding 1.
* `CommitIrrevocable`, `RollbackOneWay`: what no step may do after the commit
  rewrite or after the first rollback rewrite.
* `AtomicServiceSpec`: refinement of `AtomicService`. The decision is the
  commit rewrite or the record of the completed rollback, not the terminal
  record, which only repeats it.
* `Converges`: the journal is removed in the end, unless in a refused window.

### Properties of the locks

* `MutualExclusion` and `BeliefIsTrue`: a lock a context counts as held is
  locked by its own description. The second is the stronger: a fork, exit or
  failed acquisition elsewhere could drop a lock without a second holder yet.
* `LocksComeFree`: nobody keeps a lock for ever. The profiles are all prefixes
  and acquisition never waits, so no deadlock is possible by design; what could
  go wrong is a leaked description.

### Properties of the inventory install

* `NoInventoryLost`: what loses its last name in a step of the command is its
  own file, or the inventory it validated once its bytes are archived. The
  rename of the fallback is exempt, since it replaces whatever is there:
  `docs/pki-openssl.md` (line 1514) says so of filesystems without exchange.
* `ArchivedFirst`: the bytes read are in the history before their file goes.
* `ActiveStaysWhole`: no step leaves `services.yml` missing or unparsed.
* `RefusedIsNotPublished`: a command that says it refused is not the inventory,
  also after an exchange that was exchanged back.

An in-place rewrite between the comparison of bytes and the guard link is not
noticed by the code: the model has the step, and the new bytes are replaced
without a snapshot. The documentation puts programs of the same user inside the
trust boundary, so `ArchivedFirst` speaks of the bytes the command has read.

### Properties of the CSR lifecycle

* `JournalParses`: whatever write a process is killed after, the journal left is
  one `parse_signing_journal` accepts. Without it no recovery can begin.
* `DatabaseWhole`: between signings the seven database files are all of one
  signing, the last committed one, whatever was rolled back since.
* `PublishedOnlyIfCommitted`: a candidate or response is published only after the
  commit, for a request whose ID and nonce nobody else has reserved.
* `KeyCopyAccountable`: the copy of the CA key exists only under a journal that
  says so, and never beside a database that has been touched.
* `RefusalsAreKnown`: recovery of a signing gives up only in five windows: a
  staged transaction or a copied key that is not recorded yet, half an exchange,
  a torn file, and finding 3.
* `OneJournal`: signing and finalization journals never exist together.
* `ActiveIsHead`: the active pointer is the only finalized request none
  supersedes, and what is finalized is the chain behind it.
* `PendingUnderInstalledTrust`: a candidate that waits for its decision was
  signed under the trust tree that will judge it.
* `CommitIrrevocable`, `HistoryGrows`: after the commit no database entry moves
  and the journal goes only with everything published; decisions and exports are
  never undone.
* `ImplementsLedger`: refinement of `CsrLedger`.
* `SigningConverges`, `FinalizationConverges`: every journal goes away in the
  end, a signing's unless it stopped in a refused window.

### Properties of the CA commands

* `AdmittedIsWhole`: whenever another command is let through it finds one layout
  and nothing of another, the root database that goes with its intermediate, a
  prepared candidate entirely or not at all, and no copy of the root key.
* `ManifestsNameWhole`: a manifest or pointer exists only while everything it
  names does, in whatever order publication, rollback and resume interrupt each
  other. That is what commands read that take no part in the rollover.
* `RecoveryStaysOpen`: an unresolved operation is accepted by the recovery the
  documentation offers for it, unless it is in a stranded window (below).
* `ImplementsLayout`: refinement of `CaLayout`.
* `RolloverResolves`: infinitely often nothing runs and nothing is unresolved
  but stranded.

The **stranded windows** are states in which a kill leaves an operation that no
command can end; an operator has to look. The code keeps every object there, it
only refuses. `StrandedCreation`, `StrandedMigration` and `StrandedPreparation`
of `CaRollover` list them, and TLC finds no other in the instance.

| operation | window |
|---|---|
| creation | marker beside a journal that is already history (kill between the rolled back commit and the removal of the marker, or failure before the first journal) |
| | finding 7 |
| | root manifest, intermediate or active manifest in its place, journal not rewritten yet (for the intermediate a copy of the root key stays in the hidden directory) |
| | rollback after the hidden directory went with the copies of the root's entries (below) |
| migration | provenance removed or moved, record of it not written; removed and then a resume recorded; half removed |
| | committed journal with the marker still there |
| preparation | marker without a journal of its own |
| | rolled back intermediate preparation, killed before staging in its cleanup |
| | committed: a file made after the last refresh of the directory's manifest |
| | committed: a reservation half exchanged, so that another file is under a name of that manifest; recoveries before the commit are accepted and then end here |
| | an entry of the root database published, its record not written |
| | a recovery's own publication or restoration of such an entry half exchanged: the preflight wants the name it came from free |
| | a candidate, the state tree or the copy of the root key half removed |
| | intermediate: the created database entry restored, or the staging directory removed |

The last row of the creation is a defect the models show but no run
claims, because it takes a kill of the rollback inside the failed command: that
rollback may remove the hidden directory (`stage-done`) while root entries are
still to be restored, and `ca_rollover_recover.py:1494` then fails its assertion
in every recovery, although `docs/pki-openssl.md` (lines 1463-1469) offers one.
A hidden directory of a root that was made but not journaled stays behind too:
`detect_layout` counts it, and `root-create` refuses from then on.

### Fairness

Writer and recovery are straight-line programs, so an enabled step is taken
unless the process stops: `WF` of `WriterStep` and of the refusal. A stopped
transaction is retried by the operator (`WF` of `StartRecovery`): the tools
refuse every other managed operation until it is. `SF` of `RecoveryStep` says
that not every retry is killed before its first mutation; each recovery step
moves the transaction forward. In `PkiLocks` a process with a context takes its
next step, bodies end (their subprocesses have timeouts) and a forked child
reaches its at-fork handler or exec. No fairness is put on `Start`, `Fork`,
`Exit` and `Stop`.

In `CsrLifecycle` a process that runs goes on or ends (`WF` of all running steps
and ends together), and the operator repeats `csr-recover` until it gets
somewhere (`SF` of its start, of its preflight, of its durable steps, and of the
steps of a finalization). Nothing is owed by failures, decisions, exports or
trust changes. In `CaRollover` a running command goes on (`WF` of each kind) and
the operator repeats the recovery: `SF` of `rollback` for creation and
migration, which is always the offered way out, and of either action for a
preparation, which may have been committed to one of them.

## 4. Findings

1. **Failed cleanup cannot be resumed after a partial publication**
   (`service_recover.py:1104`, run `failed_cleanup_resumes`). In failed cleanup
   every pre-existing object is compared with its backup copy; one that had not
   been published was never restored from it, so a crash after the rewrite that
   enters failed cleanup leaves the transaction stuck. The test that lists this
   window as resumable (`tests/pki/test_service_recover.py:680`) publishes the
   whole plan first.
2. **A refusal can leave a guard link behind without saying so**
   (`inventory_install.py:529`, run `inventory_refusal`). `_create_guard` records
   the guard's identity only after its check, and the cleanup skips an artifact
   without an identity and counts it as removed. If `services.yml` was saved
   between the last recheck and the link, the link stays and no warning is
   printed. The new `services.yml` then has two links, which the next install
   (line 355) and every reader (`operational.py:527`) refuse.
3. **A terminal journal is not always recovered** (`csr_recover.py:1648`, run
   `terminal_journal_resumes`). Recovery tolerates the working database of an
   unfinished `openssl` run only while the journal says `signing-ready`. Its own
   last rewrite replaces that step, so a kill right after it makes every later
   `csr-recover` die. `tests/pki/test_csr_signing_recover.py:209` says recovery
   restarts after each of its checkpoints.
4. **A failed first signing blocks the first trust change**
   (`csr_history.py:2901`, run `initial_trust_installs`). The empty candidate
   directory it leaves is read as damage, while `docs/pki-openssl.md:561` says
   that the first schema-2 tree is installed when no candidate is pending.
5. **A rival first request can never be decided** (`csr_candidate.py:356`, run
   `pending_can_be_decided`). The check of the predecessor applies to `abandon`
   too, so the request left when the other is finalized stays pending, and
   renewals and trust changes stay refused. `docs/pki-openssl.md:985` offers
   abandonment for it.
6. **A resume after a rollback publishes over a restored database**
   (`ca_rollover_recover.py:1425`, run `resumed_is_whole`). The resume skips an
   entry of the root database that the rollback had restored, and commits: the
   new intermediate is missing from the database and its serial may be reused.
7. **A resumed cleanup is no history** (`ca_rollover_recover.py:1552`, run
   `resumed_cleanup_is_history`). The journal it commits records an action and a
   step that `is_terminal_bootstrap_record` does not accept, so every later
   command asks for a recovery that refuses. The documentation also says that
   such a cleanup can only be resumed (`docs/pki-openssl.md:297`); the code
   accepts a rollback as well.

## 5. Proofs

Every theorem is about any set of well-formed plans, any number of processes,
locks and descriptions, or any set of requests with any nonces and predecessors;
TLC evaluates the assumptions on the instances above.

**ServiceTransaction_proofs**, from `PlansAssumption` (each plan is
`WellFormed`: what the planner and the parser guarantee of it).

* `TypeCorrect`: `TypeOK` is not inductive, since a terminal record copies the
  journal's outcome, which must be a decided one. `PhaseInv` adds which
  checkpoints, outcomes and decisions go with which phase; `Inv`, the two
  together, is inductive, one step per action.
* `CommitIsIrrevocable`, `RollbackIsOneWay` (`CommitIrrevocable`,
  `RollbackOneWay`): outside the forward phases the writer can only return
  (`WriterIsForward`), and recovery moves a destination in two ways only
  (`RecoveryEffect`): restored before the commit, the marker removed after it.

The second half of the module proves the refinement. Its inductive invariant
`AtomicityInv` is built in layers, each proved preserved from the ones before:

| part | says | why it is needed |
|---|---|---|
| `ProgressInv` | counts, checkpoints and rolled back keys agree | a key rolls back once, completion means all rolled back |
| `CleanupInv` | which removals are behind the journal | the terminal record follows both trees; the marker goes only after commit |
| `DestInv` | each destination is what the evidence says, but for the pending one | everything about `dest` follows from it |
| `RetainInv` | a backed up object exists as its copy; no publication before all backups | no original is lost |
| `RootInv` | when the archive root's mtime may be off | a failed outcome is not recorded before it is back |

* `WriteAhead` (`OneMutationAhead`) is `DestInv` read without its cases.
* `OriginalsSurvive` (`OriginalRetained`) is `DestInv` with `RetainInv`.
* `OutcomeIsAtomic` (`AtomicOutcome`) is `DestInv`, `CleanupInv` and `RootInv`.
* `ImplementsAtomicService` (`AtomicServiceSpec`): the commit rewrite maps to
  `Succeed`, the rewrite that records the completed rollback to `Fail`, the
  removal of the journal to `Close`, any other step to `Mutate` before the
  decision and to a stutter after it (`DecidedIsStill`). That the old state is
  not also the new one needs a displaced object in every plan: the three CA
  database files that must exist (`RequiredCAState`).

**ServiceJournal_proofs**, from `PlansAssumption` and `OrdersAssumption` (each
plan is `Nested`: a parent is published before and rolled back after what it
holds, which the two order functions of the code see to), adds two layers.

* `LegalInv` joins `AtomicityInv` with the parser's table `JournalLegal` and with
  `OrderInv`: the rolled back keys are a prefix of the rollback order, and the
  pending one is the next. Without the prefix a recovery could write a
  `rollback-done` record whose key is not the last one, which the table refuses.
  It gives `JournalIsLegal` (`JournalLegal`) and, with `Nested`,
  `NestingIsRespected` (`NestingRespected`).
* `PrivateInv` says what is behind the journal on the private side:

| part | says | why it is needed |
|---|---|---|
| `EvidenceInv` | records precede their evidence, a missing tree has or awaits it | whatever is ahead of the journal is in a refused window |
| `StageInv` | a staged name holds its object until that is published | the preflight compares every name of the stage |
| `BackupInv` | a recorded backup is a copy until the copy is back | likewise for the backup, and for failed cleanup |
| `RecoveringInv` | a running recovery has seen no half exchange, no unjournaled directory | such a recovery may leave the publication without leaving litter |

* `RefusalsAreTheKnownOnes` (`RefusalsAreKnown`): outside the six windows each
  conjunct of `Preflight` and each `TreeExact` follows from the two invariants
  (`KnownRefusals`); that a recovery begins with `RecoveringInv` follows from its
  own preflight.

**PkiLocks_proofs**, from `LocksAssumption`.

* `LocksTypeCorrect`, `BeliefHolds` (`BeliefIsTrue`) and `LocksExclude`
  (`MutualExclusion`). `BeliefIsTrue` is strengthened by `OwnDescriptions`
  (two processes share a description only while one of them is a forked child)
  and `ContextInv` (what the position in `acquire_pki_locks` implies of the
  descriptor and lock of the name being opened). A child that closes what it
  inherited, an exit, a release and a failed acquisition all drop descriptors;
  `ClosingInv` covers the four: other contexts keep every lock they own.

**InventoryInstall_proofs**, from `InventoryAssumption` and `InodeAssumption`.

* The command unlinks by the inode it remembers, so the inductive invariant
  `Inv` follows its memory: `KnowledgeInv` (what it knows at each step: bytes
  read, archived, guarded inode), `ArtifactsInv` (what it would unlink is
  expendable), `FreshInv` (the names and inodes of a later command do not exist,
  so creating one destroys nothing) and `DataInv` (what is read has data).
* 32 actions come down to ten changes of the directory (`Effects`), twelve
  changes of the memory (`Memory`) and an order of steps (`Control`); the parts
  of `Inv` are proved from these.
* `InventoryTypeCorrect`, `InventoryKept` (`NoInventoryLost`) and
  `ArchivedBeforeReplaced` (`ArchivedFirst`) follow for any number of commands,
  contents, edits and crashes.
* A second invariant, `Published`, follows the inode of the command's own stage:
  `StagedInv` (its bytes are what the command wrote and parsed, and from the
  recheck on they are valid), `PlacedInv` (step by step, whether it may be under
  the active name) and `SettledInv` (a command that is over and reported a
  refusal has it nowhere an exchange could take it from). `RefusedNeverPublished`
  (`RefusedIsNotPublished`) and `ActiveAlwaysWhole` (`ActiveStaysWhole`) follow.

**CsrLifecycle_proofs, CsrSigning_proofs**, from
`RequestsAssumption`, `RequestFieldsAssumption` and `TrustAssumption`. `Effects` says
which actions change which variable; every
preservation proof splits on it, so that an action appears only where it acts.

* `Base`: `TypeOK`, `Named` (a journal is of a request) and `Locked` (which
  process runs tells which journal exists). It is inductive and gives
  `CsrTypeCorrect` and `NeverBothJournals` (`OneJournal`).
* `DecisionInv`: how far outcome and pointer of a decision are, phase by phase.
  It gives `HistoryOnlyGrows` (`HistoryGrows`) and `FinalizationResumes`: a
  finalization that was interrupted anywhere passes the preflight of its recovery.
* `ActivePointsAtTheHead` (`ActiveIsHead`): a chain of predecessors is a recursive
  function, and the library's induction theorems cannot be instantiated here. The
  facts needed of it are proved by a least counterexample instead
  (`LeastNatural`, `ChainOfLine`): `Lineage` numbers the finalized requests in the
  order of their decisions, so that each names the one before it, and the chain of
  number n is what is numbered up to n. `RequestsAssumption` says that there are
  finitely many requests, as there are of what a directory holds.
* `SigningInv` adds a part per concern:

| part | says | why it is needed |
|---|---|---|
| `JournalParses` | one table per phase (`ParsesPlanned`, ...) | every other part reads the journal through it |
| `WorkInv` | stages and destinations against their evidence | what is recorded exists, so a rewrite never claims too much |
| `ReplayInv` | recorded reservations are held | a published identity is nobody else's |
| `KeyCopyAccountable` | where the key copy may be | inductive as it stands, given the table |
| `OutcomeInv` | terminal records against publications | a journal is removed only when its outcome is written |
| `TrustInv` | trust of what is staged, in flight or pending | no trust change while a signing or a pending candidate depends on it |

* `JournalAlwaysParses`, `KeyCopiesAccounted`, `PublishedAfterCommit`,
  `PendingKnowInstalledTrust` and `CommitIsFinal` follow.
* `PublishInv` counts published entries against the journal; `DatabaseInv` says,
  journal by journal, which signing each database file is of. With them
  `DatabaseAlwaysWhole` (`DatabaseWhole`) and the refinement
  `CsrImplementsLedger` (`ImplementsLedger`): the commit maps to `Sign`, the
  second published artifact to `Answer`, the finalization journal or the
  abandonment to `Finalize` and `Abandon`, everything else stutters.
* `RefusesOnlyInWindows` (`RefusalsAreKnown`): `EvidenceInv` compares what the
  preflights read with the journal: stages and their files (`StageInv`), the
  signature (`SignatureInv`), rollback copies (`BackupInv`), terminal records
  (`TerminalInv`). Outside the five windows every conjunct of
  `PreflightUncommitted` (`UncommittedAccepted`) and of `PreflightCommitted`
  (`CommittedAccepted`) follows.

**CaTypes_proofs, CaRollover_proofs**, from `DatabaseAssumption` (the database
entries are named once, those created are among those published, those kept are
not), `NamesAssumption` (finitely many services and stray files) and the bounds.

* Every command and recovery walks a plan, a sequence joined from parts whose
  length depends on the services, the stray files and the database. **CaTypes_proofs**
  says once of each plan what its entries are and which come first and last:
  `Consists` (which entries, each of them at least once), `Joins` and `Leads`
  (what joining sequences keeps), and per plan a lemma such as `CreationPlanIs`,
  `RollbackPlanIs`, `ResumptionIs`.
* `TypesHold` (`TypeOK`): the type of the journal's step and of the process needs
  that the entry at hand is one of the running command's own plan. `Control` says
  which command works on which operation and under which journal, `Bounded` how far
  it can be; with the types they are `Typed`, which is inductive.
* `CompositionInv` is the invariant that the other theorems rest on. Its parts are
  proved inductive in the order in which each needs the one before:
  `Owned` (an unfinished journal is of the running command's operation);
  `MigrationInv` and `CreationInv` (what the command, the rollback and the resume have
  done so far, entry by entry of their plans, so that what no journal leaves
  unfinished is as it was found or complete); `Worlds` (the layout was created or
  found and migrated, never both, and a preparation is only made over a settled one,
  which no creation or migration then changes); `PreparationInv` (what is staged lies
  in the directory, nothing is published before staging ends, the pointer is last, a
  committed end is decided, and what the preparation, its rollback and its resume
  have changed so far). TLC evaluated these parts over all reachable states of the
  instance before they were proved. `CaTypes_proofs` ends with `Worlds`,
  `CaRollover_proofs` begins with `PreparationInv`.
* `LayoutManifestsNameWhole`, `ManifestsAlwaysNameWhole` (`ManifestsNameWhole`): no
  manifest, active issuer or pointer in its place names what is not entirely there.
* `AlwaysAdmittedIsWhole` (`AdmittedIsWhole`): `NothingUnresolved` turns an admitted
  command into "no operation unfinished, no marker"; `LayoutAtRest` and
  `CandidateAtRest` read off what is left of each operation.
* `LayoutImplemented` (`ImplementsLayout`): `AdmittedSteps` (with nothing to wait for,
  the only steps are the beginnings), `WaitingSteps` (while others wait, the operation
  stays the same) and `SettledIs` (which layouts it can leave) map each step to a
  step of `CaLayout` or a stutter. `Untouched` is needed besides: where nothing was
  found and nothing created, no command ever worked.
* `RecoveryAlwaysOpen` (`RecoveryStaysOpen`) rests on `KnownInv`: `CompositionInv` and
  three parts more, each inductive given it. `CompositionInv` says where every object
  is; a preflight asks besides what the journal records of it and which files are
  still staged. So each part says of its operation, at every position of every plan:

| part | says | why it is needed |
|---|---|---|
| `CreationKnown` | what is published is named in the journal, or is in the window of the one publication before its record; the journal's phase and step at each position of the command and of both recoveries | the preflight refuses a path that the journal does not name |
| `MigrationKnown` | the files of rollback and resume are staged until they are used; whose removal that of the provenance was | both recoveries need their files, and a rollback accepts a missing provenance only at its own last step |
| `PreparationKnown` | `JournalKnows`: what is absent is excused, what was restored is recorded or announced, the copies are filed; `PreparerKnows`, `RepairerKnows`: what the running command knows of its journal at its position; `Closed`: a committed journal names its action | a step is announced before it is done and recorded after, and the next recovery may be of either |

  A rollback of a preparation takes its parts away in the order of their ranks
  (`RollbackAscends`, for a plan of any length), and the preflight excuses an absent
  part whose rank is not above that of the announced step (`ExcusedIs`): so all that
  a killed rollback removed is excused. A second rollback starts at the first entry
  and passes again the one that was announced, before it announces another
  (`RevisitedHere`). `CreationStays`, `MigrationStays` and `PreparationStays` then
  derive each conjunct of the preflights outside the states of `Stranded` (of half
  an exchange of the root database: `Consumed` holds where no file is `displaced`), and
  `RecoveryOpen` joins them. TLC showed that `PreparerKnows` needs to say that a
  preparation past its first step has not been rolled back.

## 6. Only model-checked

Liveness (`Converges`, `LocksComeFree`, `SigningConverges`,
`FinalizationConverges`, `RolloverResolves`) and ENABLED are beyond the prover. One
fact about the constants is not proved either:

* That `Plan` of every consistent request is `WellFormed` and `Nested`: `Plan` is
  built with `SelectSeq`, whose value is defined by recursion. It is the assumption
  of the theorems about service transactions, and TLC evaluates it for the 29 plans.

Every safety invariant, action property and refinement that a passing run checks is a
theorem. The runs that find a violation state what the documentation says and the code
does not do; they are counterexamples and prove nothing.

## 7. Not modelled, and why

* The bootstrap record (`publish_service_bootstrap`,
  `clear_service_bootstrap`) and the creation of the private tree: the models
  start with the first journal on disk.
* Programs outside platform-pki that change the PKI directory during a service
  transaction. The code detects them with identities and stops; `Stop` covers
  the stop. The install has them as `Other`.
* Of the install: the path checks before the lock, replacement of the inventory
  directory itself, failed system calls, the grammar of the inventory (a content
  is valid or not), and the changes of the operator to the history other than
  new snapshots.
* Power loss with lost writes: the code fsyncs each mutation before the next,
  so mutations reach the disk in order, which is what the model assumes.
* OpenSSL, certificate contents, signatures, dates and serial numbers.
* More than one host-local service: the services share the CA database and the
  locks only, and one signing is in flight at a time.
* Outside changes of what the CSR and CA commands keep, and record grammars: a
  record is present, absent or torn.
* Of the CA commands: the status command, `init`, passphrase pipes, and the
  manifests file by file. A tree whose removal can be repeated goes in one step.
* Of the exchanges of the CA commands, the two halves of those that creation and
  migration make, and of the rewrites of journal, marker and receipt. The recoveries
  of creation and migration look only at the identities of what they restore, and
  remove their trees without a manifest of them, so what half an exchange leaves
  under the source name changes nothing they do; of a control record half a rewrite
  leaves a hidden temporary name that nothing reads.
* The offline and GitLab exchange: two hosts whose packages a person or a
  registry carries. Its state is one directory per request on each host, changed
  by single publications; what makes it correct is in the checks of the records,
  which these models do not have.
* Subprocess supervision (timing and signals), the parser of the inventory, the
  exports and reports, the command line, and the shell tools.

## 8. Plan

In this order, most important first:

1. *done* the managed service transaction, its abstract specification and the
   proof that it implements it; the locks.
2. *done* `InventoryInstall` and the guarded exchange, against a program that
   changes the same names; its theorems.
3. *done* `CsrLifecycle`: signing, finalization and their recoveries, the ledger
   and the proof that they implement it.
4. *done* `CaRollover`: creation, migration, preparation and their recoveries
   under one journal, the layout they promise and the proof that they keep it.
5. `ServiceBootstrap`: the record before the journal; compose with the transaction.
6. `Supervise`: timeout, signal and exit of a subprocess.
7. `Exchange`: the offline and GitLab package protocol, two hosts, lost and
   repeated packages.
8. `VmSnapshot`: retention and quiescing of the Proxmox tool.
9. *done* Theorems of `CaRollover`: all its safety properties.
