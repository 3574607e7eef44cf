# Verification of the EchoLife infrastructure modules

The repository holds the Terraform modules of the EchoLife platform on AWS and
one program of its own, the Lambda function that rotates the database password
(`ssm_rotation/src/rotator.py`), together with the libraries that are packed
into that function. What can go wrong in all of it is of one kind: several
stores or parties have to be changed or kept in step, no transaction spans them,
and whoever changes them may fail, be killed, be repeated or be one of several.
This directory models that: the rotation of the password, the order in which
Terraform creates and destroys resources, the ownership of security group rules,
the two owners of the RDS password, the driver's session with PostgreSQL and its
two-phase transactions. Of the libraries it also models what keeps state or is
easily wrong at a boundary: the iterators of recurrence rules, time zones and
their caches, relative deltas. Paths below are relative to the repository
(`src/`).

## 1. Inventory

| Component | State it keeps | Operations | What makes it correct |
|---|---|---|---|
| Password rotation (`ssm_rotation/src/rotator.py`, `local_test.py`) | the role's password in PostgreSQL, the SSM parameter, an execution's local variables | `get_parameter`, connect, `ALTER USER`, `close`, `put_parameter` | what is published works or worked; the two stores agree unless something named went wrong; every rotation ends |
| Rotation infrastructure (`ssm_rotation/main.tf`) | schedule, function, role, permission | invoke every 30 days, asynchronous retries, time limit | a function that can be created, one rotation after the other |
| VPC (`vpc/`) | network, subnets, gateways, routes, ACLs, endpoints, groups | create, destroy | an order of creation exists and holds in reverse |
| Security group rules (`vpc/`, `rds/`, `ssm_rotation/`) | the rules in force | apply, changes by hand | the rules of the code are in force after an apply |
| EKS (`eks/`) | roles, policies, cluster, nodes, add-ons | create, destroy | nodes live only with their policies, add-ons only with nodes |
| RDS (`rds/`) | instance, databases, groups, final snapshot, the credentials in Secrets Manager | create, destroy, sign in to refresh, create and drop databases | a plan can read its databases; an apply never undoes what another has published; what is deleted was saved |
| S3 (`s3/`) | two buckets of one name, their settings | create, destroy | what depends on a bucket is not created for another |
| PostgreSQL driver (`pg8000/core.py`, `native.py`) | socket, buffer, transaction status, statement names; the server's side | startup, `run`, `prepare`, execute, close, COPY | replies belong to the statement that was sent; a failure is reported; nothing waits for a reply nobody owes |
| SCRAM (`scramp/core.py`) | stage, nonces, transcript at both ends | four messages | both ends accept, or one fails for a reason |
| DB-API transactions (`pg8000/dbapi.py`) | `autocommit`, `_xid`, prepared transactions | `commit`, `rollback`, `tpc_*` | only what was asked is committed; a call reports what happened |
| Recurrence rules (`dateutil/rrule.py`, `easter.py`) | masks, generator, cache, lock | iterate, `rdate`, `exdate` | the occurrences of RFC 5545, once each and in order, for every reader |
| Time zones (`dateutil/tz/tz.py`, `_common.py`) | a zone's transitions | `fromutc`, `utcoffset`, `dst`, `is_ambiguous`, `resolve_imaginary` | a time of UTC and back is the same time; times that occur twice or never are known |
| Zone caches (`dateutil/tz/tz.py`, `_factories.py`) | weak and strong dictionaries, locks | `gettz`, `tzstr`, `tzoffset`, `cache_clear`, `set_cache_size` | one object for a name; every call returns |
| Relative deltas (`dateutil/relativedelta.py`) | the fields of a delta | construction, difference, operators | no unit is lost from one field to another; a difference leads back |
| EKS, split (`eks-cluster/`, `eks-nodegroup/`, `eks-addons/`, `eks_changes.patch`) | as EKS | none: does not load | - |
| `postgres-init/`, `sqs/`, `msk/`, `cloudwatch/`, `kms/`, `waf/`, `route53/`, `iam/` | settings | carried out by AWS | - |
| `acm/`, `alb/`, `dynamodb/`, `ecr/`, `redis/` | empty | none | - |
| Other vendored code (`asn1crypto`, `dateutil` parser, `six`, type converters) | mostly none | conversions | - |

### How they interact

* EventBridge hands an event to Lambda (`main.tf:83-100`); Lambda runs the
  handler, ends it at its time limit, and tries a failed event again. The
  handler reads the parameter, signs in to RDS with what it found, alters the
  user, closes the connection, and overwrites the parameter. Other clients read
  the parameter. `local_test.py` runs the same handler with `DB_HOST` pointing
  to a database in Docker but with the name of the deployed parameter.
* The handler's connection is pg8000's: `Connection` asks for TLS, signs in with
  scramp, and each statement is a request and the replies up to `ReadyForQuery`.
* `rds/` reads the same kind of credentials from Secrets Manager
  (`rds/data.tf`), sets the instance's password and signs in with them to
  create, refresh and drop the databases. Nothing connects the secret and the
  parameter.
* Terraform walks the graph made of references and `depends_on`; AWS refuses
  calls whose needs are not met. Some needs are in the graph, some are not.
* Inline `ingress`/`egress` blocks and `aws_security_group_rule` resources both
  write the rules of a group.
* Threads that iterate over one cached rule share its cache, generator and lock;
  `rdate` and `exdate` replace them under running iterators.
* Threads that ask for time zones share two caches; `gettz` calls the factory of
  `tzstr`, which has a lock of its own, with its lock taken.

### What is hard

Partial failure and retries between two stores; overlapping rotations; a reply
lost after the request was executed; an order of resources nobody tried
(creation is tried out, destruction and repetition hardly); a run killed in
the middle; two owners of one rule or one password; replies left on the wire by
an exception; a decision taken on an answer that is old when acted on; a lock
that one path forgets to release; the ends of years, of months and of daylight
saving time. `PROJECT.json` lists each
hazard at its line, with the properties that cover it.

## 2. Modules

| Module | What it is | Code |
|---|---|---|
| `CredentialHandover` | what a rotation promises: clients are at most one password behind | abstract |
| `Rotator` | the handler, the services that start and end it, the two stores | `rotator.py`, `main.tf`, `local_test.py` |
| `TerraformApply` | the walk of a Terraform run over any graph | Terraform and AWS, as the modules rely on them |
| `ResourceGraph` | a graph and what a run needs of it | the same |
| `Stacks`, `StackGraphs` | the graphs of five modules; what they have in common | `eks/`, `vpc/`, `rds/`, `ssm_rotation/main.tf`, `s3/` |
| `SecurityGroups` | rules under repeated applies | the AWS provider, as the modules rely on it |
| `GroupRules` | the rules of the code, slot by slot | `vpc/`, `rds/`, `ssm_rotation/` |
| `RdsCredentials` | Terraform and the rotation over one password | `rds/`, `rotator.py` |
| `PgSession` | operations, replies and the server of an open connection | `pg8000/core.py`, `native.py` |
| `Scram` | both ends of an exchange, as operators | `scramp/core.py` |
| `PgConnection` | `PgSession` with its startup, composed with `Scram` | `pg8000/core.py` |
| `TwoPhase` | transactions of several connections | `pg8000/dbapi.py` |
| `Calendar` | days, dates, Easter | `datetime`, `easter.py` |
| `RRule` | a rule's constructor and generator, as operators | `rrule.py` |
| `RRuleReference` | the occurrences of a rule, by counting days | RFC 5545 |
| `Recurrence` | iterators, cache, lock, sets and their changes | `rrule.py` |
| `TimeZones` | the five kinds of zones, as operators | `dateutil/tz/tz.py`, `_common.py` |
| `ZoneClock` | a clock on the wall of a zone, and times entered there | the same |
| `ZoneCache` | threads over the caches of zones | `tz.py`, `_factories.py` |
| `RelativeDelta` | two moments and a delta under its operations | `relativedelta.py` |
| `MCRotator`, `MCStack`, `MCSecurityGroups`, `MCTwoPhase`, `MCRecurrence`, `MCZoneCache`, `ZoneExamples`, `DeltaExamples` | values for TLC (`PgConnection` needs none) | |
| `MCSettings`, `MCDates` | instances that put parts side by side | |
| `RotatorProofs`, `TerraformApplyProofs`, `SettingsProofs`, `TwoPhaseProofs`, `PgConnectionProofs`, `ZoneCacheProofs`, `ZoneClockProofs`, `DatesProofs` | theorems (section 5) | |

Operators whose comment begins with "faulty" are the mistakes of section 3; no
specification uses them.

### Rotator

One execution of `lambda_handler` is an attempt: `<<d, n>>` is try `n` of
delivery `d`. A generated password (`rotator.py:20-21`) is named by its attempt,
for two of them differ with overwhelming probability. `pc[a]` is the line the
attempt stands at:

| `pc` | about to | actions |
|---|---|---|
| `waiting` | be invoked | `Invoke` |
| `fetching` | `get_parameter` (14) | `GetParameter`, `GetParameterRaises` |
| `connecting` | connect (24) | `Connect`, `ConnectRaises`, `ConnectDenied` |
| `connected` | send `ALTER USER` (30) | `SendAlter` |
| `altering` | read its reply (30) | `AlterReturns`, `AlterRaises` |
| `closing` | `con.close` (31) | `Close`, `CloseRaises` |
| `saving` | send `PutParameter` (35) | `SendPut` |
| `putting` | read its reply (35) | `PutRetries`, `PutReturns`, `PutRaises` |
| `success`, `failed`, `denied`, `killed` | - | a later try may start after the last three |

`stmt[a]` and `put[a]` are the two requests as PostgreSQL and SSM see them;
`ExecuteAlter`, `RefuseAlter`, `ExecutePut`, `RefusePut` serve them, whether
or not the sender is still there. `rolpassword` and `ssm` are the two stores.
There is no except clause, so every error ends the attempt; there is no
recovery code, so a new attempt starts from the parameter.

`Faults` says what may go wrong, so that each run asks for what it is about:
errors, the time limit, lost replies, and `orphan`: a request that is executed
after its sender is gone. `Overlap` says whether Lambda runs two deliveries at a
time, which nothing in `main.tf` forbids (no reserved concurrency).

### TerraformApply and Stacks

`module` is the graph, `mode` the run under way, `walk` its vertices, `recorded`
the state file, `object` what is in AWS. `Start` refreshes; `Begin` and `Refuse`
take a resource whose turn it is (`MayApply`, `MayDestroy`); `Succeed` and
`Fail` end an operation, a failed creation leaving nothing or a tainted object;
`Kill` ends the run and lets AWS complete any part of what was under way,
unrecorded; `End` ends a walk with nothing left to do. Applies and destroys
follow each other in any order, so that a behaviour may create, fail, repair,
destroy and start again.

`Stacks` gives the graphs, one record per source file: what the arguments of each
block mention (`References`) and what `depends_on` lists (`DependsOn`). What a
resource really needs (`Needs`, `DropNeeds`), what may exist only once (`Unique`)
and which two blocks claim one name (`Rivals`) are facts about AWS and PostgreSQL,
not taken from the graph; the properties compare the two. Blocks with `count` or
`for_each` are one resource. What the theorems ask of a graph is defined in `ResourceGraph`
(`IsOrder`, `NeedsDeclared`, `DropNeedsDeclared`, `IsClear`). That the five graphs have it
is `StackAssumption` of `StackGraphs`, which TLC evaluates. It does so on the run
`settings`, so that graphs which lack it can be tried on the run `stacks`: that is how the
mutants of the graphs are found.

### SecurityGroups and GroupRules

A slot is one direction of one group. A slot with an inline block belongs to the
group resource: an apply revokes what its refresh found there and the block does
not list. A slot without a block is left alone. A rule resource is created when
the refresh did not find it. `Edit` is a change made in the console, at any
moment, also between refresh and enforcement.

### RdsCredentials

`rol` is the password in force, `secret` and `published` what Secrets Manager and
the SSM parameter say, `state` what Terraform has recorded, `pending` a password
between `ALTER USER` and `put_parameter`. `Plan` reads the secret and signs in
with it when the state has databases (`CanRefresh`); `ApplyInstance`,
`CreateDatabase`, `DropDatabase` and `DeleteInstance` are the operations, each
done with what the plan has read, `Kill` may leave one of them unrecorded. The
rotation is `Alter`, `Publish` and `LoseRotation`, which `Rotator` has in detail;
rotations and Terraform are taken to manage the same user, as the defaults of
both modules suggest. Operators may copy one store to the other or write a new
secret.

### PgSession, Scram and PgConnection

The caller's operations (`execute_simple`, `execute_unnamed`,
`prepare_statement`, `execute_named`, `close_prepared_statement`) write messages
to `buffer`, which `Flush` moves to `requests`; the server (`Serve`) answers to
`replies`; `handle_messages` takes one reply at a time (`HandleError`,
`HandleCommandComplete`, `HandleCopyIn`, `HandleReady`) and goes on when
`ReadyForQuery` comes. `pc` is the operation's current `handle_messages`. The
server may answer anything but a Sync with an error, keeps transaction state,
statements and portal, skips after an error, and ends a session that sends other
messages into a COPY, as PostgreSQL does. `Raise` is an exception that leaves an
operation before its `ReadyForQuery`: from `make_params`, from a handler, from
the caller's stream, from a lost connection. `causes` records them.

`Scram` has one operator per call of `ScramClient` and `ScramServer`. Hashes are
free: a proof is the record of what it is computed from, so that two are equal
exactly if all of that is. `PgConnection` puts both before the session:
`CoreConnection.__init__` from the socket to `ReadyForQuery`, with TLS wanted or
not and granted or not, passwords right, wrong or missing, every offer of
mechanisms, channel bindings that differ (a proxy between the two), and roles that
are unknown or have too few iterations. When the session is open what only the
constructor needs is forgotten.

### TwoPhase

`autocommit`, `status`, `xid` are fields of `dbapi.Connection`. `tpc_commit` and
`tpc_rollback` are two steps, `TpcCall` (`tpc_recover`, and the decision) and
`EndPrepared` or `EndSinglePhase` with `Return`; others act in between, and
`Lose` may end either connection, before or after the second request was done. The
server may refuse a PREPARE or the COMMIT of a transaction, in `commit` and in a
single-phase `tpc_commit` (a deferred constraint): the work is gone, the call raises, and
`_xid` stays (line 774 is skipped), so that the caller may call `tpc_commit` again. A
failed transaction is rolled back by PREPARE and by COMMIT.
Managers only recover. `fate` is what became of a transaction's work, `told` what
a call has reported about it, `asked` what was asked for; the properties compare
them. A gid is given to a new transaction only when it is not known to be in use;
that something was prepared under a gid which a manager was about to end, having
found another transaction there, is `reused`.

### Calendar, RRule, RRuleReference and Recurrence

`NewRule` is the constructor with its defaults, `DaySet`, `WnoMask`, `NwdayMask`
and the other masks those of `_iterinfo`, `Emit` and `NextPeriod` the two halves of
the loop in `_iter`, for all seven frequencies. `RRuleReference` says in terms of
days and spans which times a rule has. `Recurrence` has iterators as threads see
them: `Iter` chooses how to read, `NextOfCache`, `Acquire`, `StartFill`, `CacheTurn`,
`CacheAppend`, `DropGen`, `Complete`, `Release`, `NextOfTail` are the lines of `_iter_cached`, `SetTurn` is the merge of
`rruleset._iter`. One step is one turn of a generator's loop, so that threads interleave
within a `next()`; the interpreter refuses to enter a generator twice (`CacheBusy`).

Nothing but the loop that fills the cache is under the lock, so every other access to an
attribute is a step of its own. A call of `rdate` or `exdate` appends the date (`Change`)
and then is at `change`: `NewCache`, `Incomplete`, `NewGen`, `CheckLock`, `Unlock`,
`ForgetLen` are lines 115 to 122. An iterator looks at `_cache_complete` (`Iter`) and then
takes the list (`TakeList`), or, on its first `next()`, reads `_cache_gen` (`Begin`) and then
`_cache` (`TakeCache`); so it can hold the generator of one change and the cache of
another. Caches and generators are numbered by the change that made them; an iterator
keeps those that it read. It is `Outdated` when a change had not ended before it began.

An argument of a rule is a set; `empty` has the parts that are given as an empty list,
which the constructor tells from None (`IsGiven`) and the generator does not.

### TimeZones, ZoneClock and ZoneCache

A zone is a record of one of five kinds: `tzoffset`, `tzfile`, `tzrange` and `tzstr`,
`tzlocal`, a VTIMEZONE. `TimeZones` has the code of each as operators: what
`_read_tzfile` makes of transitions (`ReadTzfile`), which transition is in force
(`FindLast`, `Resolved`), what is ambiguous, `FromUtc`, `UtcOffset`, `Dst`.
`ZoneClock` lets the time of UTC run and shows it on the wall, and lets times of the
wall be entered, among them those that occur twice or never; `PROJECT.json` maps each
to its lines. What a zone really is follows from its transitions alone (`TrueOffset`), so
that the properties do not ask the code they are about. A zone is read before the clock
starts (`Loaded`, `ClockInit`). `Sound` are the zones that dateutil computes rightly;
`HasData` says what the theorems take the data of a zone to be, and `ZoneAssumption` that
every sound zone of the instance has such data.

`ZoneCache` has the threads: everything `gettz` does under its lock is one step, unless
it calls `tzstr`; the factory's `get`, `setdefault` (a read and a write) and its last
part under the lock are steps of their own. An object exists as long as somebody
refers to it; weak references go with the last other one (`Collected`).

### RelativeDelta

`second` is reached from `first` by a delta that is built from keywords, from
`yearday` or `nlyearday`, or as a difference of moments, and is then added, negated,
multiplied and so on, up to `MaxOps` operations; `meant` is the same in plain months
and seconds. Dates are those of the years 1 to 9999; where `replace()` or an addition would
leave them, as `CanAdd` says, the code raises an exception and nothing changes. The code
multiplies by a float, which is exact for fields below 2^53.

### MCSettings and MCDates

These put parts that share no state into one state space: a behaviour is about one of
them (`setting`, `part`) while the others rest. Nothing is claimed of their
interaction, since there is none; each has its own variables and its own bounds.

## 3. Runs

All runs explore every reachable state of their instance.

| Run | Instance | What it shows |
|---|---|---|
| `overlap` | 3 overlapping deliveries and a local run, one try each, all faults; symmetric | `PublishedWasInForce`, `DivergenceHasCause`, `LockoutIsPermanent` |
| `serial_handover` | 2 deliveries, 2 tries, one at a time, no orphans, fair | `Rotator` implements `CredentialHandover`; `DeliveriesSettle`, `RotationsSucceed` |
| `stale_credentials` | 1 delivery, 2 tries, time limit only | violated, see section 6 |
| `racing_rotations` | 2 deliveries, overlapping, no fault at all | violated |
| `stacks` | all five graphs: `vpc/` (22 resources) and `s3/` (10) one resource at a time, `eks/` (16), `rds/` (7), `ssm_rotation/` (7) ten at a time; up to 2 faults | `NeedsHeld`, `StopsOnlyAtDoubtful`, `RetryCompletes` |
| `settings` | security groups: 9 slots, 8 rules, 1 change by hand; the password: 2 databases, 4 passwords, 2 killed runs | `ApplySettles`; `AppliesOnlyTakeBack`, `LossIsPermanent`, `SnapshotsAreEmpty` |
| `conflicting_rules` | the same groups, no change by hand | violated |
| `pg_connection` | startup and 3 operations, 1 exception | `StepIsKept`, `HangsOnlyOnStaleBind`, `ExchangeIsRight`, `CommitIsHonest`, `CallsEnd` |
| `two_phase` | 2 applications, 1 manager, 1 gid, 2 transactions, 1 lost connection | `CommittedWasAsked`, `ReportsAreTrue`, `PreparedEnds` |
| `dates` | recurrences: some 200 rules of all frequencies read by one iterator; a cached rule, sets with and without cache read by two while a third thread adds a date | `ReadsAreExact`, `ReadsAgree`, `FailuresHaveCause`, `WholeWhenComplete`, `IterationsEnd` |
| | zones: 13 files, 8 rules, 5 local, 3 VTIMEZONEs over more than two years of 20 hours | `ClockIsRight`, `EntriesAreRight` |
| | deltas: 3 operations from moments at the ends of months and of years | `NothingIsLost`, `DeltasLeadRight` |
| `zone_caches` | 2 threads, 4 kinds of names, caches of 1 and 0, 2 results kept | `OneZonePerName`, `CallsReturn` |
| `iso_weeks` | weeks 1, 51, 52, 53 of 2009 to 2012 | violated |

Why the bounds are enough. In `Rotator` two executions suffice for every pairwise
order of reads and writes of the two stores; with a third the one that comes after
a divergence takes part, and two tries give a retry after every kind of end. A
PutParameter that was executed is repeated once, which is what it takes to
overwrite a later one. Terraform's default of ten operations at a time is used
wherever the graph allows that many states; `vpc/` has 22 resources, most of them
independent, and takes one at a time, which still covers every order. Two faults
are a failure during the repair of another. One change by hand can fall before the
refresh, between refresh and enforcement, and after it. Of the passwords in `settings` four
passwords are the first, two rotations and a new secret; two kills are a kill of
the run that repairs another. In `pg_connection` one operation leaves something
behind, the next trips over it and the third shows the state after that; a
prepared statement is prepared, run and closed by three. In `two_phase` two
transactions of one gid are what it takes to confuse them. In `dates` a
chunk of the cache is 2 occurrences instead of 10, so that sets of a few dates
cross it; one change, in up to seven steps, meets two iterators wherever they are, and one of
them may begin within it (the cached set is small, a rule of two occurrences and a date,
because of these steps: two thirds of the states of the run are its).
`datetime.MAXYEAR` is 2007, so that rules run into it; rules span
the turn of a leap year. A year of its zones is 20 hours with days of 4, because
`TimeZones` computes with differences only: what matters is that two years have four
transitions, further apart than any offset and with their order kept in UTC and on
the wall. Two threads are all that can meet in a cache, one result held by each of two
callers is what two calls can disagree in, and a cache of one already drops. The safety properties of `Rotator`, `TerraformApply`,
`SecurityGroups`, `RdsCredentials`, `TwoPhase`, `PgSession`, `PgConnection` and
`ZoneCache`, `ZoneClock` and `RelativeDelta`, and those of `Recurrence` that are about
its readers, are also proved without any bound (section 5).

The check for deadlock is switched off where the system really stops: a
connection that is closed or whose caller is done (`pg_connection`), applications
with nothing left to do (`two_phase`), iterators at their end, a
clock at its last hour, a delta after its last operation (`dates`, `iso_weeks`). `Rotator` stops only in `Finished`, where every delivery has
succeeded or used up its tries; a Terraform operator can always start another run.

Each property has a mutant in `PROJECT.json`, a plausible mistake in the code it is
about (a dependency dropped from `depends_on`, the old password written back, the
reply to `ALTER USER` not awaited, an ErrorResponse raised before the replies are
read to their end, autocommit not restored in a finally clause, a lock not
released, ...), and the run fails with it.

### The properties

* `PublishedWasInForce`: the parameter never holds a password no database has
  accepted. It depends on the order of lines 30 and 35 and on waiting for the reply.
* `DivergenceHasCause`: if the parameter and RDS differ, a rotation is half done, or
  two rotations started from the same password, or a local run wrote the parameter,
  or a write was repeated. These are all the ways; fixing them would be enough.
* `LockoutIsPermanent`: once the stores differ and no execution under way can still
  act on RDS, they differ for ever: the handler has only the published password to
  sign in with. This is why the half-done rotation matters.
* `ImplementsHandover`: without overlap and orphaned requests RDS changes only while
  the stores agree, so clients are at most one password behind.
* `DeliveriesSettle`, `RotationsSucceed`: progress.
* `NeedsHeld`: whatever exists has what it needs, through applies and destroys,
  failures and kills (until a kill has left an object the state does not know).
* `StopsOnlyAtDoubtful`: a run in which nothing fails and no orphan is in the way does
  everything, or is stopped by one of four blocks: the databases of `rds/`, which do
  not wait for the ingress rule; the function of `ssm_rotation/`, which does not wait
  for its role's policy; and the two buckets of `s3/`, which share a name. A cycle or
  any other undeclared need would stop it elsewhere.
* `RetryCompletes`: an apply so stopped has created what is needed, so that repeating
  it is the cure. For a *destroy* of `rds/` it is not: if the ingress rule goes before
  the databases, they can no longer be dropped and every repetition stops at them,
  until an apply has put the rule back. That is why it speaks of applies.
* `ApplySettles`: after an apply that no change by hand disturbed, every slot that is
  owned one way is as the code says, whatever happened before.
* `AppliesOnlyTakeBack`: where databases are recorded, an apply can never bring a new
  secret into force, for its plan has to sign in with the very password it is to set.
  All it can do is take back a rotation that came between plan and change.
* `LossIsPermanent`: when a rotation was lost, no plan of `rds/` gets past its refresh,
  whatever operators write to the secret or the parameter.
* `SnapshotsAreEmpty`: the final snapshot of a destroy is taken when Terraform has
  dropped the databases; it holds data only if a kill hid some from the state.
* `StepIsKept`: a session begins, and is between operations, with nothing left in buffer
  or on the wire and with both sides knowing the same of each other, unless an exception
  left the middle of an operation: no error of the server alone does it.
* `CallsEnd`: startup and operations end, unless the caller hangs as the next item says.
* `HangsOnlyOnStaleBind`: the caller waits in vain only after a Describe that failed
  left its Bind in the buffer (`core.py:716-719`).
* `CommitIsHonest`: a COMMIT the server turned into a ROLLBACK is not reported as done.
* `ExchangeIsRight`: a SCRAM exchange fails only for a wrong password, an unknown role,
  too few iterations or bindings that differ, and then always; who accepts knows that
  the other has.
* `CommittedWasAsked`, `ReportsAreTrue`, `PreparedEnds`: see the exceptions they name in
  section 6.
* `ReadsAreExact`: what is read of rules and sets is what the definition says.
* `ReadsAgree`: what an iterator of a cache has yielded is what that cache begins with,
  so that two iterators never disagree in what both have read, whoever filled it.
* `WholeWhenComplete`: the cache that is marked complete is complete, unless an iterator
  that a change has overtaken marks it or has this very cache. The second clause is needed:
  without it the run fails with an iterator that begins within the change, fills the new
  cache from the old generator, and leaves it to one that began later.
* `FailuresHaveCause`, `IterationsEnd`: a failure, or a wait without end, has one of the
  causes in section 6.
* `ClockIsRight`: in a zone whose transitions the code can represent (`Sound`), every time
  of UTC becomes the right time on the wall, with the right fold, and leads back.
* `EntriesAreRight`: a time entered on the wall is called ambiguous or imaginary exactly if
  it occurs twice or never, and `resolve_imaginary` moves it past the gap.
* `NothingIsLost`: the fields of a delta are normal after every operation and together
  mean what was meant.
* `DeltasLeadRight`: the difference of two moments, added to the second, is the first,
  across ends of months and leap days; days of the year are those of the calendar.
* `OneZonePerName`: two results that callers still have for one name are one object,
  except as section 6 says (`SameResults`), and what a strong cache keeps is what a
  look-up finds (`StrongIsFound`).
* `CallsReturn`: every call returns, and leaves `gettz`'s lock: the two locks are taken in
  one order only.

## 4. Fairness

`Rotator` (`Fairness`): only for actions of services that do act. Lambda runs queued
events and enforces its time limit (`Invoke`, `TimeOut`), the handler is a program
that goes on (`Handler`), and PostgreSQL and SSM serve a request that stays with them
(`ExecuteAlter`, `ExecutePut`). No fault is fair: nothing is required to fail.
`DeliveriesSettle` holds because of `TimeOut`: `PutRetries` may repeat a refused request
without end, and only the time limit ends that. Nothing more is assumed of local runs:
they have no time limit and `DeliveriesSettle` does not speak of them.

`PgConnection`: the client, which is a sequential program, takes its next step, and the
server takes the next message. The caller need not begin an operation, and no
exception is required to occur.

`TwoPhase`: a call goes on to its second request; a manager looks for prepared
transactions again and again. Applications need not do anything.

`Recurrence`: whoever has begun to read reads on. It is weak fairness of `Read(r)`, with
the condition under which a reader can go on (`CanRead`) written out. Nobody has to
begin, or to change a set.

`ZoneCache`: a thread in a call goes on (`Proceed`). Nobody has to call. The clock of
`ZoneClock` and the operations of `RelativeDelta` need no fairness: what they should do
is said of every state.

Terraform's properties are safety properties about the moment a run ends, because
nobody is obliged to start a run or to repeat one.

## 5. Proofs

The theorems hold for every value of the constants under the assumptions the modules
name (`ConstantsAssumption`, `GraphAssumption`, `SlotAssumption`,
`RecurrenceAssumption`, `CacheAssumption`, `DeltaAssumption`, `ClockAssumption`,
`ZoneAssumption`). Those say what the constants are: bounds are natural numbers, sets of
threads are finite, applications and managers are different connections, moments are
dates of the calendar, zones have data. None says how large anything is, but that the
calendar ends with the year 9999, as Python's does. Some theorems have hypotheses of
their own, which are named below: the two of `RotatorProofs` about serial rotations, and
those of `TerraformApplyProofs` about graphs.

**RotatorProofs.** `TypeCorrect`, then `StoresCorrect`, that `StoreInv` is inductive.
`DivergenceHasCause` is not inductive: it says nothing of how the parameter got its
value. The strengthening follows history: every password that was in the parameter
and is not any more has a successor, a stored rotation that had read it. If RDS had
such a password in force, its successor, which altered the password after reading
it, would contradict the conjunct that an executed `ALTER USER` is never followed by
the password it replaced. `StepEffects` reduces the actions to what matters
to the stores (`StoresChange`), so that only `ExecuteAlter` and `ExecutePut` need
an argument. `DivergenceExplained` and `PublicationCorrect` follow, and
`LockoutPermanent` is proved action by action.

`SerialRotatorImplements` maps `inForce` to RDS and `published` to the parameter,
with `previous` computed from what the last rotation had read. It assumes `Serial`:
no overlap, no local runs, no orphans. Its invariant `SerialInv` says which store is
ahead at each line of the one active attempt. `ClientsAtMostOneBehind` carries the
promise over.

**TerraformApplyProofs.** `WalkInv` says what Terraform's walk gives, for any graph: the
state has no resource without what it depends on (`Closed`), what is being created
has its dependencies, what is being deleted has no dependents left, and what AWS has
lost since the last refresh has none either (so that the next refresh may drop it).
`NeedsAlwaysHeld` adds that a recorded object is not broken, and shows `NeedsHeld`
for every graph whose direct edges cover its needs (`NeedsDeclared`), which is the case
in all five modules but for the resources listed as `Undeclared`. The theorem thus covers
the parallelism and the faults that the run leaves out for `vpc/`.

`RunsStopOnlyAtDoubtful` is about the end of a run. `RefusedInv` says that a resource is
refused only when it is doubtful, or is held up (`HeldUp`) by an orphan or by another that
failed or was refused, and stays so. `IsOrder` is what makes a graph acyclic: every
resource has a rank above those it depends on. So if a clean run has not done all, take
the resource of least rank that is left over (of greatest rank, when destroying): its turn
has come, nothing that holds it up is left over, and it is therefore doubtful. No
reachability in a particular graph is needed. `RetriesComplete` takes the least among the resources
that others need, which are `clear` of doubtful ones (`IsClear`), and so finds none left.

**SettingsProofs.** Of security groups, `SettlingCorrect`: in every slot not in conflict, what the
apply has done and what is left add up to the code. `AppliesSettle` follows at `End`.
Both assume that the slots with a block and a rule resource the block does not list
(`Mixed`) are among `Conflicting`.
Of the RDS password, `AppliesOnlyTakeBack` needs `NotAhead`: a run that has databases
in its state carries a password no newer than the one in force, because it signed in
with it and passwords only get newer. `SnapshotsEmpty` needs `NothingHidden`: without a
kill the instance has no databases the state does not know. `IInv` joins both with
`TypeOK`; `InitOK` and `InvStep` show it inductive, action by action. `LossPermanent`
is one step per action: every plan is refused, and nothing but a plan starts a run.

**TwoPhaseProofs.** Neither property is inductive: whether a report is true depends on
where the work is when the second request arrives. `IInv` adds where that can be.
`SessionInv` and `FateInv` tie `working`, `mine` and `held` to `status` and `fate`;
`OwnInv` says that a work is of one connection and under one gid; `GidInv`, that no
connection uses the gid under which another's work is held. `CallInv` says what is
known of a call between its two requests: an application's is about its own work, a
manager's about what it found, if that is still there or unless `reused`. `PlaceInv`
says that work which nothing has led astray is where its connection left it, in its
transaction or under its gid, and in the transaction if the call did not find it; or the
server has rolled it back, and no call since has asked to commit it. Since nothing brings
aborted work back (`AbortedStays`), whoever asks that later has the cause `"over"`.
`EndedIsOwn` is the heart of it: when a call ends what a gid holds, that is its own
work, or a manager's call, or a gid used again. Each part is a lemma with one step
per action; `CallKept` and `PlaceKept` settle what the steps of other connections
leave alone. The only assumption is that applications and managers are different
connections. The instance of the run was also checked against `IInv`, with two
managers and with two gids in place of one, before it was proved.

**PgConnectionProofs.** What a caller may wait for, what is left on the wire and what is
said of a COMMIT all depend on the queues, so the invariant says of every position what may
stand there; it follows the code that writes them rather than their length.
`SessionInv` has three parts.

* `Typed`: besides the types, that `op` is the operation `pc` belongs to, that numbers of
  statements are those of operations that took place, and that prepared statements are
  named ones.
* `Flow` holds as long as no Bind has been left behind, in step or not: whatever the client
  has written is followed by a Sync (`Followed`; only the Bind that goes before the second
  Sync of `execute_unnamed` may come last), a server that skips has something left to skip
  to (`Skipping`), a COPY is answered once and ended once (`Copies`), and therefore
  somebody owes the caller an answer (`Owed`). `HangsExplained` is immediate from it. It
  covers the sessions that an exception has put out of step, where the replies of several
  operations are on the wire together; this is why it is kept apart from `InStep`.
* `InStep` holds while `causes` is empty: only messages of this operation are on the wire, in
  the order the protocol wants (`Round`, `Linked`); a ReadyForQuery is the last reply, save
  that the early Bind may have failed after it (`RoundEnd`); the client knows the state of
  the transaction when the server reads a statement (`Known`), and an error that the server
  skips after is known or on its way (`Knows`); the server holds the statement that is to
  run under the name it is asked for (`Stores`); a COMMIT that was undone is still to be
  answered by an error, or the status the client has tells it (`Undone`); at rest nothing is
  left (`Rest`).

`ServeKeeps` and `ServeInStep` take the server's steps one by one, `HearStep` what every
`Handle...` has in common; `TypesSteps`, `NextKeeps`, `NextInStep` and `SessionSteps` put
them together. Queues are handled by lemmas about taking the first element and adding at the
end (`TailIs`, `ConcatIs`, `JoinedTo`), so that nothing is proved by induction over their
length. `CommitsHonest` is an action property from the same invariant.

For the startup `StartInv` has seven stages (`Before`, `Offered`, `Requesting`,
`Challenged`, `Replying`, `Accepting`, `Over`), each of which gives the one message under way
and both ends of the SCRAM exchange as functions of what was chosen: mechanism, binding,
account, password. One step leads from each stage to the next or to `Over`, where the
property can be read off; the only way to `Accepting` is a proof the server could check,
so `ExchangeRight` needs no induction over the exchange. `StepKept` joins the two parts:
a session begins in step because `open` is reached with both queues empty.

**ZoneCacheProofs.** `OneZone` needs to know what is found in the weak dictionary between
the steps of a call. `KeyInv`: a key has one zone there, and every zone is of its key.
`CallInv`: a call has one key and, after its look-up, one zone. `AloneInv` is the heart: of
two threads that make a zone of one key both are recorded in `overlapped`, and who makes one
alone finds none, or finds his own. `FoundInv` says the same of every result that is still
kept. Lemmas on `RemoveAt`, `SubSeq` and `Append` keep the strong caches within their
sizes.

**ZoneClockProofs.** `ClockShowsTheTime` and `EntriesAreUnderstood` are theorems about what
`TimeZones` computes, for all zones of the five kinds and all times. `Right` puts both into
five statements about a zone: offsets are in range (`RightOffsets`); a time of UTC is
shown with the offset and the fold that lead back (`ShowsTime`); a time of the wall is
called ambiguous exactly if it has two sources (`KnowsTwice`); if it has any, the offset
found leads to one (`FindsSource`); and if it has none, the difference between the offsets
a day later and a day earlier moves it to a time that has one (`Resolves`). `ShownIsRight`
and `EntryIsRight` derive the properties from these; the invariant `ClockInv` only says that
the clock keeps its zone. What remains is `Right` for each kind (`FixedIsRight` to
`FileIsRight`).

Rules, local zones and VTIMEZONEs go back and forth between two offsets. `SwitchIsRight`
shows once what they have in common: if within a day and a step of the clock there is not
more than one change (`LocalCalm`, `RuleCalm`, `OnsetsCalm`), and the code knows which times
come twice, then the zone is right. Each kind has to say what its offset is and where its
changes are. For rules these are changes in the year before, this one and the next, any of
which may be the latest (`RuleOffset`), and `fromutc` may ask in a different year than the
wall shows (`RuleInUtc`). A VTIMEZONE looks for the component of the latest onset without
folding and corrects by a step of the clock (`AheadIs`, `FoundComponent`); one with a single
component never changes.

A file has any number of transitions between any offsets. Their list is walked nowhere:
since at least a day lies between two of them (`TapeOrder`, `TapeApart`) the one that
`FindLast` finds is characterised by its two neighbours (`LastIs`), and
`TapeTwice`, `TapeOnce`, `TapeGap`, `TapeAround` and `TapeBehind` say what a time of the wall is
near a transition that is put where `Sound` wants it. `FileTape` and `FileOffset` show that
`ReadTzfile` makes such a list and that `Resolved` reads it as `TrueOffset` does.

The theorems need three facts of the data, besides its types, that `Sound` does not say
(`HasData`): changes of the clock are a day apart, they are of at most a day where the clock
goes forward, and a zone with components goes back and forth between two offsets.
`resolve_imaginary` relies on the first two (it looks a day back and a day ahead). The zones
of the run have them all, but for the file `double` with two changes within a day, which
is not `Sound` either.

**DatesProofs.** Of recurrences: nothing is assumed of rules: `Fill`, which computes the
occurrences, is only known to append to the cache. `PrefixInv` says that an iterator has
yielded what its cache begins with and, while it fills a chunk, how far the cache has come;
nobody shortens a cache, so it holds whichever generator filled it and whatever a change has
replaced, and `CacheReadsAgree` follows. `FailuresExplained` needs to know what holds where
no change has overtaken an iterator, which `FlowInv` says: no change is under way, and every
iterator is `Sound`, that is, it has the present cache and generator, holds the lock from
`Acquire` to `Release` and leaves the loop only when the generator is over; the cache then
has what the generator has yielded but for one that is being appended, and `_len` is set when
the generator is over. Once there is an outdated iterator there always is one
(`OutdatedGrows`), so nothing has to be said of that case. `ChangeInv` says how far a
change has come, `IdleInv` that a change before anybody reads finds everything new (so that
an iterator that begins after it is sound), and `CallerInv` that a generator is only within
one iterator. `ReaderStep` reduces the steps of an iterator to what they do to the rest
(`Quiet`, `LockMoves`); `TurnStep`, `AppendStep` and `InvalidateStep` are the others.

Of relative deltas: the calendar comes first, since everything rests on it: that `Date` and
`Day` are each other's inverse for every day from the year 1 to 9999 (`DateIs`, `DayIs`),
for which the year that `YearOf` looks for has to exist (`YearExists`) and to be the only one
(`YearOfUnique`), and that a day of a later month is a later day (`LaterMonth`). `FixIs` says
that `_fix` puts every field into its range, keeps the meaning and turns no sign; with it
`MixedIs`, `TimesIs` and `PositiveIs` settle the operators, and `NothingLost` follows from
`DeltaInv`, whatever the deltas, the factors and the number of operations.
`DeltasLead` is about loops: `PlusPlain` says to which month and day a delta without
absolute fields leads, `MonthsOrder` that more months than those between the two go beyond
the first moment and fewer stay before it, so that the while loop of `__init__` takes at most one
step (`MonthsBetweenIs`) and never passes the second moment. What is then left is a
number of seconds of the same sign (`SecondsAre`), and normalising it changes neither the
month the delta leads to nor the way it goes (`DifferenceIs`). `YearDayIs` follows the twelve
entries of `ydayidx` in years with and without a 29th of February.

The strengthenings (`StoreInv`, `SettlingInv`, `SessionInv`, `StartInv`, the `IInv`s) were
checked with TLC before they were proved; the runs check what they are for.

Only model-checked:

* everything under fairness: `DeliveriesSettle`, `RotationsSucceed`, `CallsEnd`,
  `PreparedEnds`, `IterationsEnd`, `CallsReturn`. The installed provers have no rules for
  ENABLED.
* `ReadsAreExact` and `WholeWhenComplete`, which compare what the loop of a generator has
  computed with a definition that counts days, for rules of any length: that needs induction
  over data. What of them is about the protocol between readers is `CacheReadsAgree` and
  `FailuresExplained`;
* the types of `ZoneClock`, which have no invariant of their own: `TypeOK` in `dates` is
  that of `Recurrence` (`ReadersTyped`), and that of deltas is within `DeltaInvariant`.

## 6. Where the code and its comments disagree

* `rotator.py:13` "Fetch current credentials" (`stale_credentials`): after an
  execution that ended between lines 30 and 35 the parameter is not current, and no
  retry or later rotation can repair that.
* `rotator.py:33` "Update SSM Parameter Store with new password"
  (`racing_rotations`): two overlapping rotations both report success and leave
  different passwords in the two stores. EventBridge may deliver an event twice.
* `vpc/security_groups.tf:68` "Allow EKS nodes to receive traffic IN from ALB"
  (`conflicting_rules`): the inline block of the same group revokes that rule in every
  second apply.
* `dateutil/rrule.py:400` "Week numbers have the meaning described in ISO8601"
  (`iso_weeks`): line 1210 gives the days of January that belong to the last week of
  the year before the number 53 where that year has 52.

What the properties except, because the code behaves so:

* Driver. An exception from `make_params`, a handler or a stream leaves a session out of
  step and open; a Bind stays in the buffer when Describe fails; the socket is leaked
  when the TLS handshake raises; the name of a statement that was refused stays taken.
* Two-phase. `tpc_recover` gives every id the format 0 and an empty qualifier, so that
  an id with others is never found, and `tpc_commit` falls back to a plain commit (`"id"`
  in `why`); `commit` and `rollback` are not refused within a transaction of `tpc_begin`,
  though its docstring says so (`dbapi.py:716-718`; `"plain"`); a manager may end a
  transaction under a call (`"manager"`), or, when another was prepared under the gid
  meanwhile, that one (`reused`). After a refused PREPARE or COMMIT, or a PREPARE that has
  rolled a failed transaction back without an error, nothing is left of the work, but `_xid`
  is: a later `tpc_commit` finds nothing prepared, sends COMMIT outside a transaction and
  returns as if it had committed (`"over"`), where its docstring promises a ProgrammingError
  for an invalid id (`dbapi.py:749-750`).
* Cache. Who finds the cache complete after `acquire`, or meets the end of the generator,
  keeps the lock: a later iterator that catches up waits for ever (`IterationsEnd`).
  After a change of a set, iterators that began before it had ended may fail with
  RuntimeError, ValueError, TypeError or IndexError, or mark the new, empty cache complete
  (`Outdated`). One that read `_cache_gen` before line 117 and `_cache` after line 115 fills
  the new cache from the old generator, and an iterator that began after the change may then
  complete a cache that has some dates twice or lacks the new one. `release` frees the lock
  whoever holds it (`stolen`, which matters from three iterators on). A rule that can never
  match again raises, and so does an Easter day beyond the masks (`EasterFails`).
* Rules. BYDAY that mixes plain and numbered weekdays selects the days in both instead of
  either (`MixedWeekdays`); weeks 52 and 53 from either end (`LastWeeks`); a weekly rule
  with BYSETPOS counts from dtstart in its first week (`CutWeek`). A part that is given as an
  empty list takes the default of the others away (`MONTHLY` with `bymonthday=()` has every
  day), which RFC 5545 has no word for (`empty`).

* Time zones. `_find_last_transition` takes wall times of the base offset before a
  transition, so that a transition which changes the base offset together with DST
  (Iqaluit in 1999, Central Europe in 1916) is placed wrongly, and so are zones whose DST
  is below standard time (Dublin, Casablanca), which `is_ambiguous` gets wrong
  (`tz.py:675`, `688`, `693-704`): 91 of the 353 zone files in
  `dateutil-zoneinfo.tar.gz` have times that do not lead back. `Sound` excepts them.
* Zone caches. The documentation of `gettz` (`tz.py:1527`) promises the same object as
  long as the cache is not cleared; a `tzlocal` is never cached (`1558-1570`). In the
  factories two threads may make a zone at the same time and get different ones
  (`overlapped`).
* Relative deltas. In every year `yearday=366` gives the 365th day, as 365 does (the 31st
  of December in 2003, the 30th in 2004; `relativedelta.py:66`, `216`); `weekday=MO` and
  `weekday=MO(1)` are equal but hash differently (`55`, `529`, `549`; by reading: equality
  is not modelled).

`local_test.py` is no contradiction but a trap: its comment "Pointing to your Docker
container" (line 7) is about the database only, and the parameter it writes is the
deployed one. `DivergenceHasCause` lists it (`LocalStored`) for that reason.

## 7. Not modelled

* Reachability in `vpc/`: routes, ACLs and groups are a fixed function of a packet,
  without steps. By reading: `security_groups.tf:9` announces HTTP and HTTPS from the
  internet and admits port 443 from the VPC only; `endpoints.tf:42` attaches the data
  tier to an S3 endpoint whose traffic `nacls.tf:54-72` drops; the route table of a
  subnet names the NAT gateway of its own index.
* `sqs/`, `msk/` and the split EKS modules do not load (conditional expressions broken
  over lines, a file that ends within a block, a stray character, resources declared
  twice); `acm/`, `alb/`, `dynamodb/`, `ecr/` and `redis/` are empty.
* `cloudwatch/`, `kms/`, `waf/`, `route53/`, `iam/`, `postgres-init/` and the versioning
  and expiry of `s3/`: settings that AWS carries out, or resources of the shape that
  `Stacks` already covers.
* `asn1crypto`, the date parser of `dateutil`, the type converters of pg8000 and `six`:
  conversions of text and bytes, one call at a time, and tables of object identifiers.
  They make up most of the Python in the repository, and few properties of the kind
  above are to be had of them. `legacy.py` offers the statements and transactions of
  `native.py` and `dbapi.py` in an older interface over the same core.
* Of `dateutil/tz`: reading the bytes of a zone file and the text of a VTIMEZONE, names
  and representations, `win.py`, which needs Windows.
* Of `relativedelta.py`: fractions and `normalized`, microseconds (the smallest unit of
  the model is the second), equality and hashes.
* Of `rrule.py`: `rrulestr` and the printing of rules (text), `before`, `after`, `between`
  and indexing (consumers of an iterator), rules in a time zone. The rules within a set have
  caches of their own only if asked for; here they have none.
* Of `dbapi.py`: rows, parameter styles and types.
* Names, tags, sizes and every other argument that orders nothing.

What could be added: more than one gid in the run of `TwoPhase`; the cached rules within a
cached set; progress of `PgSession` proved by a measure on its queues.

## 8. Running

`tlc -config RotatorOverlap.cfg MCRotator.tla` checks a run (the longest takes about
three minutes); `tlapm RotatorProofs.tla` checks a proof module.
