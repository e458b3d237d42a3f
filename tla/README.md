# A TLA+ model of nexus-agent

nexus-agent keeps a directory (Active Directory over LDAP) or a database table in
step with a broker it reaches over HTTP.  This directory holds TLA+ modules of the
agent's own logic, the TLC configurations that check them on small instances, and
TLAPS proofs of the properties that matter most for every instance.

## 1. Inventory

| part | source | state it keeps | operations | interacts through |
|---|---|---|---|---|
| audit log | `src/src/audit.rs` | the JSONL file; `last_seq`, `last_hash` in memory | `open`, `append` (and its wrappers `run_start`, `summary`), `verify` | the file, which outlives every process |
| service loop | `src/src/runner.rs` | effective config, counters of the pass | `run`, `run_one`, `run_cycle`, `run_pass`, the stop | a `select!` that drops the pass; the audit log; the broker |
| AD mode | `src/src/modes/ad.rs` | batch, counters, LDAP connections, all per pass | `run_once`, `route_and_process`, `process` | broker client, LDAP connector, audit log |
| LDAP connector | `src/src/connectors/ldap.rs` | a connection, its search base, `password_writeback` | connect, connect to a forest, create, enable, disable, update, set password, search | requests to the directory, without a timeout |
| broker client | `src/src/server.rs` | none | fetch config, heartbeat, poll, complete, report run, push, pull, disconnect | HTTP requests with a timeout of 30 s |
| DB mode and connector | `src/src/modes/db.rs`, `src/src/connectors/db.rs` | counters, per pass | pull rows, push them, pull changes, apply them | database, broker, audit log |
| configuration | `src/src/config.rs` | the local file; the remote values of a cycle | load, validate, resolve, `apply_remote` | file, environment, broker |
| Windows service | `src/src/service.rs` | what the SCM knows of the service; a main thread, a control handler and a worker per process | run, install, ensure running, uninstall | the SCM, a worker thread running the loop |
| setup, secrets | `src/src/main.rs`, `src/src/config.rs`, `src/src/crypto.rs` | the config file, the forms a secret has in it | `finalize_setup`, `harden_secret`, `resolve` | the file, the environment, the Windows service |
| command line | `src/src/main.rs` | none | setup, service, verify-log, status, gen-key, ... | everything above, one shot |

What is hard about it:

* **Concurrency.** The agent is one task, but it is dropped at whatever await it has
  reached when the shutdown signal comes, and its requests may be carried out by a
  peer it no longer listens to.  The log file is shared by processes that overlap
  when a service manager, or an operator, starts a second one.
* **Failure.** Every request can fail before or after its effect; an answer can be
  lost; a write can be cut short; the process and the host can die at any point.
  Nothing but the log is stored by the agent: an operation claimed by an agent that
  dies is only the broker's to remember.
* **Ordering.** For each operation the agent changes the directory, counts, reports
  to the broker and appends to the log, in that order, with an await in between.

What makes each part correct:

* audit log: what was acknowledged stays; a log only agents wrote is not called
  tampered with; one that verify refuses is not made to pass later; the agent can start
  again.
* AD sync: no success without its effect; no contradiction between broker, log and
  summary; nothing done twice when offered once; a bounded loss; a stop that
  completes; operations that are settled in the end.
* forest routing: an operation goes to its own forest; failover passes over no host
  that is up; a pass ends.
* DB sync: what is written back is what the next pull reads; the summary is true of
  what the peers did; broker and table come to agree when both are left alone.
* configuration: a cycle runs with settings the broker had since the cycle began, or with
  the file's own; a remote value never replaces a usable local one by an unusable one; a
  change applies within one interval; an agent that runs is shown as running.
* Windows service, setup: no two agents on one log; an Ok of a command means that the
  service works with the config as it is; a process told to stop ends; a secret comes back
  as it was given and is not kept in plain.

The hazards of the code, each at its line, are listed in `PROJECT.json`, with the
properties that cover them.

## 2. Plan

In this order, the most important behaviour first:

| step | modules | abstract specification | state |
|---|---|---|---|
| 1 | `AuditLog`, `AuditLogProofs` | a log that verifies keeps what was acknowledged (stated as invariants) | done |
| 2 | `AdSync`, `AdSyncProofs` | `Provisioning`: what users of the broker rely on | done |
| 3 | `DbSync`, `DbSyncProofs` | convergence (a liveness property) | done |
| 4 | `ForestRouting`, `ForestRoutingProofs` | an operation stays in its forest | done |
| 5 | `AuditLog` | which changes of the file by hand `verify` can and cannot see (`TamperingShows`) | done |
| 6 | `LiveConfig`, `LiveConfigProofs` | settings are current, and a change applies | done |
| 7 | `Service`, `ServiceProofs` | the service works with the config an Ok was given for | done |
| 8 | `Service` | the forms of a secret through setup, the file and the service | done |
| 9 | `AdSyncLedgerProofs` | broker, log and summary agree; what a fault can cost | done |
| 10 | `ForestRouting` | `Dispatch`: one verdict per operation, in its own directory | done |
| 11 | `DbSyncQuiet`, `DbSyncQuietProofs` | two undisturbed passes heal (a safety form of convergence) | done |
| 12 | `AdSync` | what a fault can hide from the audit log and from the broker | done |
| 13 | `AdSync` with forest contexts | one composition of steps 2 and 4 | not done: the product of an operation's requests, the hosts tried and the faults is too large to check with the two forests that make it interesting; the two modules meet only in the choice of a connection |

## 3. Modules

Each module's comments name the function an action stands for; `PROJECT.json` maps
every definition to the lines it models.  One action is what happens between two
awaits, or between two system calls where the code may be interrupted there.  A
request is two events: the peer acts on it, and the agent gets the answer.  Where the
agent stops waiting (timeout, lost connection, stop, crash) the request moves to
`late` and may still be carried out.

### AuditLog: `src/src/audit.rs`

`disk` is the file as a sequence of lines, `eol` whether its last line has its
newline; a line that does not parse is `Torn`.  Each writer is a run of the agent with
its `last_seq` and `last_hash`.  `Open` reads the head or refuses the log.  `append` is
two steps, because `writeln!` on a `File` is two writes: `WriteRecord` and
`WriteNewline`, each of which may fail (`WriteRecordFails`, `WriteNewlineFails`), and
`Exit` is possible between them.  `HostCrash` cuts the file anywhere, since nothing is
synced, and forgets what was acknowledged; where several texts share the last line, the
first of them (`starts`) may be what remains.  A digest is the sequence of what was
hashed: two digests are equal only if their inputs are, which is what SHA-256 is taken
for.  `Verify` walks the chain as the code does.  `Rearranged` and `Rewritten` are what
somebody can make of a log by hand without computing a hash; `TamperingShows` says that
all of it shows but a truncation, `DeletionShows`, after the source's own words, that a
deletion always does, which is false (finding 2).

### AdSync and Provisioning: `runner.rs`, `modes/ad.rs`, `server.rs`, `connectors/ldap.rs`

`pc` is the await the one task has reached: a cycle, connecting, polling, an LDAP
request, reporting an outcome, unbinding, reporting the run, sleeping, disconnecting.
`Script(o)` is the sequence of LDAP requests of an operation, as `process` and the
connector make them; one that cannot be parsed has none and fails at once.  The broker
(`status`, `queue`) and the directory (`accounts`, `served`) are external: the broker
hands out at most a batch and settles what is reported while claimed; the directory
may carry out any request that has what it needs, and may refuse any.  `Stop` and
`Crash` are possible at every await.  `Provisioning` is the same service with the agent
out of sight; `AdSync` is shown to implement it with
`effect <- {o \in Op : CarriedOut(o)}`.  A request the agent no longer waits for carries
the number of the fault that made it give up (`no`), so that two alike are two arrivals.
`EvidenceIsComplete` and `OutcomesReachBroker` say what one fault can cost in evidence: at
most one operation that reached the directory is missing from the log, and at most one
that the log records is not settled at the broker.

### DbSync: `modes/db.rs`, `connectors/db.rs`, `server.rs`

`rows` is the table, `known` and `feed` the broker's records and change feed.
`PullRecords` takes the snapshot; `Push`, `BrokerIngests` or `BrokerRejects` and
`PushReturns` are a push; `Pushed`, `BrokerOffers` or `BrokerHasNoFeed` and
`FeedReturns` the pull of changes; `DbApplies` and `ApplyReturns` one writeback.
`CallFails` loses a request or the answer to it.  `PassFails` is a pass that returns an
error, is dropped by a stop, or dies: the three look the same to table and broker,
because a pass keeps nothing.  The field map is modelled with its two directions as the
code builds them, column by column in a `BTreeMap`, so that two columns may be mapped to
one field.  Writes are bound as text and read back by the type of the column: `Reading`
says per column what each text reads as afterwards, and a text outside of it is refused
by the database (`DbRefuses`).  Rows are neither added nor removed and keys are not edited.

DbSyncQuiet is DbSync with a history variable, `quiet`, that counts the passes begun since
an edit, a fault or a late request last came between them.  With it `TwoPassesHeal` states
how soon the two agree: when the second undisturbed pass has pushed its rows.  One pass
is not enough: it pushes what the table held before the broker's own changes were applied.

### ForestRouting and Dispatch: `modes/ad.rs` (`route_and_process`), `connectors/ldap.rs` (`connect_forest`)

`ctx` gives each operation its forest context, none, or one that does not parse.
`Route` is `route_and_process` up to its first await, `Bound` and `HostFails` one turn of
the loop over hosts, `Process` the operation over the connection chosen (what it does
there is in AdSync), `Unbind` the end of the pass.  `conns` is `forest_conns`.  A domain
controller is up, down, rejects binds, or is silent, and may change between any two steps.
The agent's own directory is one of them (`OwnHost`): its connection may break, and hang as
any other, since none has a timeout.
`Dispatch` is the same pass with hosts, failover and connections out of sight: every
operation gets one verdict, for good, and is carried out in the directory it is meant for or
nowhere.  `ForestRouting` is shown to implement it, an operation's home being the forest of
its context.

### LiveConfig: `runner.rs` (`run`, `run_one`, `run_cycle`), `config.rs`, `server.rs`

`file` and `remote` are what the config file and the broker say, and both change at any
time.  `Start` is `Config::load` up to the loop, with `base` the local config for the life of
the process; `BrokerAnswers` and `FetchReturns`, or `FetchFails`, are `fetch_config`;
`Merge` is `apply_remote` over a fresh copy of `base`.  `Heartbeat`, `Pass`, `Report`, `Tick`
and `Wake` are the rest of a cycle; a pass is one step, which panics if the section of its
mode is missing (`expect("validated")`), and which may never be taken, since a pass may wait
for ever for an LDAP server or a database.  A heartbeat or a disconnect is a post nobody
checks: it arrives, is lost, or arrives later (`late`).  `inForce` and `unseen` are history:
the broker's configs since the fetch began, and the time slept since a change that has not
been applied.

### Service: `service.rs`, `main.rs` (`finalize_setup`, `harden_secret`), `config.rs`, `crypto.rs`

Each process has a main thread (`ServiceMain`, `ReportStopPending`, `ReportStop`, `Exit`), a
control handler, whose message is `stop`, and a worker (`Load`, `WorkerDies`) that reads the
file and runs the agent.  The SCM is external (`scm`, `marked`, `cur`): it refuses to start
what is not stopped and to stop what is not running, and believes what it is told.
`Setup`, `Truncate`, `Fill` and `Check` are `finalize_setup`; `EnsureStop`, `Create` and
`Start` are `ensure_running`; `Install`, `Uninstall` and `Delete` the two other commands.  A
text is a value, `enc:` (sealed with a key), `env:`, or nothing, and may have blanks around
it; `Harden` and `Resolve` are `harden_secret`, with its `trim` and the encryption that
fails, and `resolve`, in the environment of setup and in that of the service.  `secret_key`
and `bind_password` are hardened.  `agent_token` is not: it is written as it was given, and
resolved by setup's own check and by the worker.
Other people start and stop the service and edit its environment (`Others`).

## 4. Runs

| run | question | result |
|---|---|---|
| `audit` | two agents that may overlap on one file: is the log of one that is alone ever reported as tampered with, is anything acknowledged lost from a log that verifies, does a refused log ever pass again, which changes by hand pass? | no; no; no; only those that keep a beginning |
| `audit_restart` | can an agent always start again, as `open` says? | no: finding 1 |
| `audit_truncated` | does every deletion show, as `verify` says? | no: finding 2 |
| `ad` | one operation offered again until it is settled, two offered once, two faults anywhere, peers that need not answer | no success without its effect, no contradiction between broker, log and summary, nothing offered once is done twice, a bounded loss, at most one unlogged change and one unreported outcome per fault; still a `Provisioning` service; a stop completes from every await; with peers that answer, what is offered again is settled |
| `ad_unlogged` | is every change of the directory in the log after a graceful stop? | no: finding 3 |
| `db_sync` | do writes read back, is the summary true, do broker and table come to agree, and how soon? | yes; on the rows the broker accepts, after two passes in a row that are left alone |
| `forest_pass` | does an operation stay in its forest, does failover pass over a host that is up, does every operation get one verdict, does the pass end? | it stays, it passes over none, each gets one, and it ends unless a host stays silent |
| `forest_hangs` | does failover go on past a host that is silent? | no: finding 4 |
| `forest_base` | does an operation search below its own base? | no: finding 5 |
| `live_config` | which settings does each cycle run with, when does a change apply, what does the console show? | those of the broker or the file, whole; within an interval; unless a pass hangs for ever, a change applies in the end, and an agent that runs is shown ONLINE again and again |
| `service` | setups, installs and uninstalls among starts, stops, crashes and killed commands: one agent, the config an Ok was given for, secrets intact? | yes, but for the moment between Stopped and the exit, and for the token, which is not hardened |
| `service_restart` | does setup leave a running service running with the new config, as `ensure_running` says? | no: finding 6 |

The inductive invariant of the proofs (`IInv`, for the DB sync `QuietInv`, which contains
it) is checked by the passing run of each module; its first part is the type invariant
`TypeOK`.

Bounds, and why they are enough:

* audit log: three lines and two writers hold the first record, a record after
  a restart and one after a failed write; an agent that forks the chain
  needs two writers and a record of each behind the first.
* AD sync: three operations with batches of two: one account created, with a password, and
  enabled by two operations, one operation that cannot be read, a full batch and a rest; the
  creation, whose requests may be carried out in part, is the one that is offered again.
  `MaxFaults` counts stops, crashes, lost connections, lost answers and failed passes
  together; two of them give a crash after a lost answer, or a stop in the pass after a
  crash, or a report that is lost twice.
* DB sync: passes are counted up to three, one more than `TwoPassesHeal` needs; two rows, one
  of which the broker may reject, a key no row has, two columns for one field, of which one
  reads a text as something else and takes no other, a column and a field outside the map,
  two edits, two faults.  Two
  edits are needed to have a change pending for an old record while the row changes
  again.
* forest routing: contexts of one forest that differ in hosts and target, a second forest
  with one host and Kerberos, or without what a bind needs, a context without hosts, a batch
  of two (to open a connection, lose it and use it), two changes of a host.  The contexts are
  assigned to operations in every way.
* configuration: four local and three remote configs, so that each guard of `validate` and
  `apply_remote` decides something: a field left blank, a mode without its section, a mode
  that is not the local one, an interval of 0 at the broker and in the file.  Intervals of one
  and two ticks tell an agent that sleeps on from one that wakes.
* Windows service: two processes, since the SCM never has more than one and a second one is
  only there while it exits; two keys; a value with and without blanks around it, an `enc:` and
  an `env:` text, blanks only and nothing, and a token that is a value; setups with a key, without one and with one
  that is none; two hosts with different keys, one with the variables of the password and the
  token, one with that of the secret key; one crash or killed command.

Deadlock is checked in all runs but those of `ForestRouting`, where a pass that is over,
or hangs at a silent host, takes no more steps; what `PassEnds` shows there is that but
for a silent host the only end is the intended one.

## 5. Fairness

* `StopSpec` of AdSync assumes only that the loop takes its shutdown branch
  (`tokio::select!` polls both) and that the disconnect request returns, which it does
  within the 30 s timeout of the HTTP client.  Nothing is assumed of directory or broker.
  What else it takes for operations to settle is the left side of `EveryOpSettles`
  (`PeersAnswer`): an ended agent is started again (the systemd unit has
  `Restart=on-failure`, an operator starts it after a stop), the agent's own steps are
  taken, broker and directory answer, and the broker offers again what was claimed and is in
  nobody's hands.  The last is the broker's part; without it `LossIsBounded` says what is lost.
* `FairSpec` of DbSync, and `QuietFairSpec`, which is the same with the count of passes:
  passes go on, and peers answer; nothing is assumed of the edits,
  of late requests or of faults.
* `FairSpec` of LiveConfig: the steps of the loop of `run` but the pass are taken, every HTTP
  request ends within 30 s, and a broker asked again and again answers.  Nothing is assumed of
  a pass: LDAP and database requests have no timeout (finding 4), so it may never end.  Then
  no later config is applied and no heartbeat follows, which is why `ChangeApplies` and
  `ShownOnline` say what they say under `PassesEnd`.  Faults are not assumed away, only bounded.
* `FairSpec` of Service: the main thread of a process is scheduled.  `BusySpec` adds the
  worker and the command that is running; it is used where a violation has to hold although
  everybody does their part.
* `FairSpec` of ForestRouting: the pass takes a step it can take.  A silent host gives it
  none.

## 6. Proofs

Proofs are for every value of the constants under the named assumptions of the modules
(finite sets of keys or operations, bounds that are numbers, stand-ins that are
different from what they stand in for).

* `AuditLogProofs`.  `NoFalseAlarm` is not inductive.  `IInv` adds that with one
  process at a time it is alone, that up to the first line that does not parse each line
  links, that the head in memory is the last line of a file that parses and ends with a
  newline, and that a process between its two writes finds its record on the last line.
  Where a new record shares the line of an unterminated one the line stops parsing, which
  `verify` reports as unreadable and not as broken.  `AckedAreKept` needs only that
  a written record stays in a file while it parses, and is proved for any number of
  concurrent writers.  `EvidenceStays` is proved as an action property, and
  `TamperingShows` from the digest being ideal: the record that links next is determined by
  how far the chain has got.
* `AdSyncProofs`.  `SuccessIsReal` rests on `ProgressIsReal` (the requests before the
  current one have been served) and `ReportIsReal` (a success sent, or on its way, is
  that of an operation carried out in full).  The refinement of `Provisioning` also needs
  that the queue holds an open operation once (`QueueIsOpen`), and that whatever the agent
  holds, or has on its way, was claimed (`OnlyHanded`).
* `AdSyncLedgerProofs`.  `SummaryMatchesLog` rests on `BatchIsOrderly` (a batch holds an
  operation once) and `PassIsCounted` (the counters are those of the records of the pass and
  of the outcome being reported).  `LossIsBounded` rests on `LossIsPaidFor`: what is lost, what
  a poll still on its way may lose, and what a stop that is due will, are paid for by the
  faults.  `LogAgreesWithBroker` and `NoRepeatedWrite` rest on `OfferedOnce`: an operation that
  has not had its turn has left no trace anywhere, the current one none but the requests
  before its step, and nobody says of one operation both that it was done and that it failed.
  `EvidenceIsComplete` is not inductive, since a request that is on its way will be carried
  out after the pass is gone: `HidingIsPaidFor` counts with what is hidden what a late
  request will hide, and what a stop that is due will, and finds a fault for each.
  `OutcomesReachBroker` rests on `SilenceIsPaidFor` in the same way: it counts with the
  outcomes that did not arrive the operations in hand whose claim has expired, so that the
  step that writes the record needs no fault of its own.  Both hold with redelivery, where
  an operation may be hidden once and recorded later.
* `DbSyncProofs`.  `WritesRoundTrip` follows from type correctness and a lemma about the
  two directions of the field map (`ReadsWhatIsWritten`).  `SummaryIsTrue` is not
  inductive: `CountsSoFar` says that the counters lag behind the peers by at most the one
  call that has come back and is not counted, and `HasWork` that the row on its way is one
  still to be pushed.
* `DbSyncQuietProofs`.  `TwoPassesHeal` follows from `QuietInv`: the change feed is empty
  once the first undisturbed pass has read it (`FeedDrained`), from the second on there is
  nothing to apply (`NothingToApply`), so the rows read are those the table keeps
  (`SnapshotHolds`), no push fails but for the broker's refusal (`OnlyRefused`), and each one
  delivered makes the two agree (`PushedSoFar`).  The rest of convergence, that two passes
  are left alone in the end, needs fairness and stays with TLC (`Converges`).
* `ForestRoutingProofs`.  `InOwnForest` rests on `KeptUnderForest` (a connection is kept
  under the forest it was opened for).  `FailsOverFirst` rests on `StillToTry`: what has
  been up throughout the turn is still among the hosts to try.  `ImplementsDispatch`, the
  refinement, maps a connection to its forest; it needs `KeptUnderForest` again, and `Turns`:
  the operations without a verdict are those still to come and the one in its turn, and none
  is left when the pass is over.  `NeverGoesBack` is an action property: every step but a
  change of a domain controller leaves fewer operations, fewer stages of the one in its
  turn, or fewer hosts.  It is the part of `PassEnds` that needs no fairness: only a step that
  is never taken, a silent host, can keep a pass from its end.
* `LiveConfigProofs`.  `SettingsAreCurrent`, `Usable` and `NeverPanics` follow from lemmas
  about `Merge` (it keeps mode and sections and never blanks a field).  `WithinOneInterval`
  rests on `FreshUntilSleep`: a cycle that has picked up an older config than the broker's has
  not slept since the change.
* `ServiceProofs`.  `OneAgent` rests on `ScmAgrees`: the SCM has exactly the process that is
  neither gone nor exiting, in the state that one reported.  `SecretIntact` and `KeptOffDisk`
  rest on `FilesIntact`: what is in the file, or is about to be, is hardened and still stands
  for what setup was given.  `AppliedAfterOk` needs both.

Only model-checked: every liveness property (`EveryOpSettles`, `StopCompletes`, `Converges`,
`PassEnds`, `ChangeApplies`, `ShownOnline`, `StopEnds`), which with fairness and `ENABLED` is
beyond the prover.
Whatever would need an induction over data is stated so that none is
needed: a chain links if every line of it links to the one before, a script is carried out
if each of its requests is.

## 7. Findings

1. `audit.rs:118` leaves what a failed write has put into the file where it is.  `open` refuses
   a log with a line that does not parse, so an agent whose write was cut short does not start
   again (`audit_restart`: `Open`, `WriteRecordFails`, `Exit`, and `Open` is refused).  The
   same comes of a death between a record and its newline, when the next record goes to the
   same line; TLC finds the shorter way.
2. `audit.rs:161`: `verify` is content when the file ends, wherever that is.  A log whose last
   record was deleted verifies, though `audit.rs:5` and `audit.rs:134` say that deletions
   show (`audit_truncated`).  `TamperingShows` says that nothing else passes.
3. `runner.rs:67` drops a pass at any await.  A change of the directory whose report is in
   flight is then in no record of the log, although the agent stops gracefully
   (`ad_unlogged`).  `EvidenceIsComplete` bounds the damage: one such change per stop or
   other fault.
4. `ldap.rs:123` connects and binds without a timeout: a host that hangs holds up failover
   and the whole pass (`forest_hangs`), and with it the refresh of the config and the
   heartbeat.
5. `modes/ad.rs:96` keeps connections by forest only, and a connection holds the search
   base of the operation that opened it (`forest_base`).
6. `service.rs:129` stops the service and starts it at once.  `stop()` returns when the control
   has been delivered; the start is refused while the service is still stopping, and setup
   leaves a service that was running stopped (`service_restart`).

One more disagreement is plain from the line and has no run: `main.rs:322` writes the agent
token to the file as it was given, a plain value too, though the comment of `finalize_setup`
(`main.rs:297`) says "never plaintext", the one at 311 "Never persist a raw secret on disk",
and what it prints (327) "no plaintext secrets".  `Setup` does the same, and `KeptOffDisk` and
`SecretIntact` speak of the two fields that are hardened.

Worth knowing, without a line that says otherwise: `service.rs:83` reports Stopped before the
process exits, so that the next one can already be at work on the same log (`OneAgent` says
how long); a worker that cannot use its config ends without a word, and the service stays
Running with nothing in it (`service.rs:71`); an interval of 0 in the file makes the loop spin,
since only the remote one is checked (`Usable` says no more than that a remote one does not).

Of the hazards in `PROJECT.json` some are covered by no property, each with its reason: mostly
that the code, and so the model, does just that (a 0 in the file, "applied", the window before
the exit, a worker nobody watches).

Of the `DB_WRITEBACK` record (`modes/db.rs:74`) a reader should know that its "applied" is
the number of changes pulled, also of those that failed or found no row; `said.applied`
in DbSync is that number.

## 8. Not modelled

* Content of the AES-GCM cipher: base64, IV and tag.  What matters elsewhere is that
  decryption with the right key gives what was encrypted and otherwise fails, which is in
  Service; that it can fail is an operation without a script in AdSync and a bind that lacks
  what it needs in ForestRouting.
* Of setup: the prompts, the reachability check (only printed), fields of the file other than
  the two secrets and the token.  `gen-key`, `encrypt-secret` and `describe` print and keep nothing;
  `verify-log` and `status` print what `Verify` of AuditLog returns.
* The error type, the end-to-end test and the packaging have no state of their own.
* An account that is removed or moved between `find_dn` and `modify` (`ldap.rs:289`): the
  directory of AdSync never removes one; the refusal that would follow is there as any refusal.
* Two agents of one identity against one broker: the broker's side of that is not in this
  repository.
* Content: DNs, filters, attributes, SQL text, JSON, timestamps.  Two
  operations on one account are told apart by account, not by DN.
