# A verification of renovate-datasource

The program serves Renovate custom datasources: the tags of the repositories of
a Chainguard organisation (`repo`) and the versions of the apk packages of a
chain of repositories (`apk`). `serve` answers HTTP requests; `snapshot` writes
every answer to a directory tree that a web server can serve. Both apply a
minimum release age: what is too young is left out, or, for a tag, replaced by
what the tag carried before.

These modules model the parts of that program whose correctness depends on the
order of events, check them with TLC on small instances, and prove with TLAPS
what matters most for every instance. `PROJECT.json` says for each definition
which lines it models.

## The system

| Part | State | Operations | What makes it correct |
| --- | --- | --- | --- |
| apk index (`internal/apk/index.go`) | `IndexStore`: releases and archs under an RWMutex; the `merged` scratch of a Load; a ticker; the goroutine of `Refresh` | `NewIndexStoreWithRefresh`, `Load`, `loadOne`, `Replace`, `Refresh`, `Get`, `Archs`, `All`, `Len` | whole or empty; fresh; never older than before; a request sees one instant; refresh delivers and ends |
| APKINDEX parser, `dedupe` (same file) | fields of the record being read; the map filled so far | `parseIndex`, `parseAPKINDEX`, `addProvides`, `dedupe` | one entry per record and per versioned provide; nothing leaks between records; newest time wins |
| apk datasource (`internal/datasource/apk.go`) | none of its own | `Releases`, `PackageNames`, `Ready` | two locked reads count as one; nothing younger than the cutoff; order |
| apk repositories, auth (`internal/apk/apk.go`) | none | `DefaultRepositories`, `RepositoriesFromURLs`, `HTTPAuthFor`, `TokenSourceAuth` | string work, but for the token callback |
| repo datasource (`internal/datasource/repo.go`) | slots and errgroup of a request | `Releases`, `applyMinimumReleaseAge`, `PackageNames`, `Ready` | point in time; nothing silently missing; bounded fan-out |
| Chainguard client (`internal/chainguard/client.go`, `tag.go`) | a gRPC connection, the org's id | `resolveRepoUIDP`, `ListTags`, `ListTagHistory`, `ListAllRepos`, `Ready`, `Close` | an absent repository is told from a failure |
| group walk (`walk.go`) | visited groups, the output, the recursion stack | `walkRepos`, `walkReposStep` | every repository once, under its path; ends; a cycle is reported |
| rate limiter (`ratelimit.go`, `options.go`) | a weighted semaphore | `rateLimitInterceptor` | at most `--concurrency` calls in flight; permits returned on every path |
| tokens (`token_*.go`, `client.go`) | a cached token and the lock it is renewed under; the token on disk | `Token`, `APKTokenSource`, `Ready` | no expired token is sent; readiness and calls agree; nothing waits for ever |
| HTTP handler (`internal/server`) | none after `New` | `/healthz`, `/readyz`, `serveReleases`, `cutoffFor` | the window in force is the one asked for |
| serve command (`cmd/.../serve.go`) | signal context, listener, refresh goroutine, client, connections | `runServe` | warm before listening; a shutdown that ends, and loses no request unless it says so |
| snapshot generator (`internal/snapshot`) | a staging directory, an errgroup per datasource | `Generate`, `writeResponse`, `withinMaxAge` | the output path is never half-written; outcomes are told truly |
| snapshot command, flags, logger, chart, CI | none | | glue |

How they interact. `serve` builds the client, loads the apk index on its own
stack, starts the goroutine of `Refresh` if that succeeded, and only then the
listener; all of it hangs on one signal context. Requests run concurrently with
each other and with `Refresh`, and share the `IndexStore` (through its lock), the
gRPC connection and the semaphore of its interceptor. A repo request starts a
group of lookups that compete with every other request for the permits.
`snapshot` runs one errgroup per datasource, whose workers call the datasources
the same way, and shares its output path with any other process.

What is hard to test here: the interleaving of a request's two reads of the
store with a `Replace`; a Load that fails half-way; the choice Go's `select`
makes; tags that move between `ListTags` and `ListTagHistory`; lookups that fail
while others run; a fan-out inside a shared semaphore; handlers that outlive the
shutdown; a token that runs out, or is taken away, under a call; groups that move
under a walk; two snapshot processes; a process that is killed. `PROJECT.json`
lists these as hazards, each at its line, with the properties that would notice.

## The modules

### AtomicIndex and ApkIndex: the apk index

`AtomicIndex` is what the index promises: upstream publishes editions of its
feeds, the index is from time to time exchanged *as a whole* for one nowhere
older, and a request is answered from the index of *one instant*.

`ApkIndex` is the code. `pc`, `startup`, `next`, `merged` and `tick` are the
control of the loading goroutine: `NewLoader` begins `NewIndexStoreWithRefresh`,
`Fetch` and `FetchFails` are one turn of `Load`'s loops, `Install` is `dedupe`
and `Replace`, `TickerFires`, `Reload` and `RefreshStops` are `Refresh`'s ticker
and the two arms of its `select`. `releases` and `archs` are the store's fields.
A request is two steps, `CheckArch` (the call of `Archs`) and `Get`, as in
`APKDatasource.Releases`, because each takes the lock for itself.

The contents of a feed are the number of the edition upstream served when it
was fetched. Parsing, dedupe, the age filter and the sort are functions of the
contents, so what a reader can tell is which names an edition lists
(`Lists`) and which editions it got. `outage` may switch between any two
fetches, so any fetch of a Load can be the one that fails. `base` is a history
variable: the editions when the Load began.

### RepoReleases: a repo request, and the rate limiter

A clock, a registry whose tags are pushed and deleted at any step, and
concurrent requests. Each RPC takes two steps: it starts when it gets a permit
(`StartRpc`, `StartLookup`) and ends by its answer or by failing, which may also
be its context. The answer is read from the registry when the call ends.
`Listed` does what `Releases` does with the list: without a cutoff it is the
answer; with one the tags that are too young get a lookup. `Launch` is `eg.Go`,
which waits for room, and goes on after an error; `Collect` is `eg.Wait` and
the return. A timestamp may be missing, and `AsTime` then makes the Unix epoch
of it, which is not the zero time of Go.

### AtomicSnapshot and Snapshot: the snapshot command

`AtomicSnapshot` is what a reader of the output path is promised: nothing is
there until in one step a whole tree is, and a tree with anything in it stays.
Whoever has published it reports a success, whoever has not cannot, and either
may be killed before it has reported anything.

`Snapshot` is the code, several processes with one output path. `Wire` is
`runSnapshot` up to `Generate`; `Check`, `Prepare`, `StartDatasource`,
`Launch`, `Wait`, `AllVisited`, `RenameChecks`, `Rename`, `Report` and `Cleanup`
are the statements of `Generate`; `Enter`, `Skip`, `AskFails`, `BeginWrite`, `EndWrite`
and `WriteFails` a worker. `os.Rename` is two steps, as in Go's library on
Unix: it refuses a target that it sees to be a directory, and the system call
refuses one that is not empty, or fails for any other reason. `Report` sets
`committed` and returns, a step of its own, since a process may be killed when
its tree is there and nobody has been told. Each process has its own limit of
concurrency, and none if that is not positive. `Interrupt` is the signal
context, `Kill` a process whose deferred functions do not run. Where a tree is (staging
directory, output path, nowhere) and whether each file is whole are kept; what
the files say is not. The refinement maps the output path to the tree of the
process whose tree is there, with a file half-written where it is, and a
process's control to what it has told, so that `Rename` must be the abstract
publication, `Report` and `Cleanup` (or an early return) the outcome, `Kill` the
abstract death, and everything else a stutter.

### ApkFeed: from the text of the feeds to an answer

`Scan` is one turn of `parseAPKINDEX`'s loop (`Flush` on a blank line, `SetField`
on a field), `EndFeed` its last flush, `Install` `dedupe` and `Replace`. The lines
are chosen freely, so the text is anything: fields twice, out of order, records
without a name, feeds without a last blank line. `Released` is the answer of
`APKDatasource.Releases`: `Get`, `MergeAcrossArchs`, and the age filter. The
definition the machine is checked against, `EntriesOf`, looks at whole records
and knows no state. A `t:` line has its number of seconds, counted here from the
earliest time that JSON can hold, which is Go's zero time: `SetField` itself
drops the Unix epoch and what is out of range, and lets the zero time through,
which then counts as none, as in the code. Text that is no number is one more
time out of range. A list of provides is given as its tokens. Lists are sets,
which is what `dedupe` makes of them.

### RepoWalk: walkRepos and resolveRepoUIDP

The recursion is an explicit `stack` of frames, one per call of `walkReposStep`:
`Enter` is its two guards, `ListRepos` and `ListGroups` its calls, `Descend` and
`Return` the loop. `EditLink` and `EditRepo` change the organisation between any
two calls; the links it starts from are any of those that `Link` allows, cyclic
ones too. The order of a listing is the API's, and the paths are sorted
afterwards, so the loop takes any subgroup next and `out` is a bag. Each of its
paths has a history with it, the group and the repository it was listed for,
which the code does not keep: a path is names only, and those need not be unique.
`settled` and `kept` remember what stayed put, `everLinks` what there has been.

A path that was listed is then asked for, which is what a snapshot does with
it: `ResolveStep` is one turn of `resolveRepoUIDP`'s loop with its call of
`resolveSubgroupUIDP`, `ResolveRepo` its last call. Edits go on meanwhile.

### Serve: runServe

`main` is the control of `runServe`, `listener` and `errCh` the goroutine of
`ListenAndServe` and its channel, `conn` the connections in the states that
`net/http` tracks, `handler` what each handler is doing. `SelectErr` and
`SelectSignal` are the arms of the `select`; `ShutdownDone` and
`ShutdownTimesOut` the returns of `Shutdown`; `Deferred` the deferred `Close`;
`Exit` the end of `main`. `ListenerEnds` says what the goroutine leaves in the
channel. `lost` is a history variable: a handler met a closed client, or was
still at work at the exit. Time limits are steps that may be taken at any time.
`Shutdown` is modelled by its documentation: the look at an idle connection and
its closing are one step.

### Credentials: tokens

`cached` and `holder` are the token and the lock of the `ReuseTokenSource` that
`New` builds. `Begin` is a call that has its permit; `Reuse`, `CheckLife` and
`Exchange` what it does when it gets the lock, `Load` chainctl's second read,
`Minted` and `NotMinted` the end of an exchange. `Fetch` is the apk loader's
exchange, which uses neither lock nor cache. `material` is the token on disk or
the literal one; `Renewed` and `Removed` are the operator and the kubelet. A
token is known by its expiry. A file that is absent, one that cannot be read and
one with text that is no token have values of their own, since `Ready`, which only
stats the file, fails for the first only, a call for the second too, and STS
refuses the third. `kept` is when the `ReuseTokenSource` takes its token to expire,
which for text without an expiry is a minute later; `stsMints` is whether STS is
in reach and mints for who presents a live token. `excused` remembers whether a
waiting caller has seen `Ready` fail, the file without a token, STS out of reach,
refusing or dawdling, or the signal.

## The runs

| Run | Instance | What it shows |
| --- | --- | --- |
| `apk_index` | 2 architectures × 1 repository, 2 editions of each feed, 1 request, refresh on | the index is whole, fresh and monotone; the two reads of a request refine one atomic read; the inductive invariant of the proofs; refresh delivers, and ends on shutdown |
| `apk_failed_start` (violation) | 1 × 2 feeds | a failed initial load is final |
| `apk_startup_help` (violation) | 2 × 1 feeds, 1 request | requests are served although a feed failed at startup |
| `repo_releases` | 1 tag, 3 pushes, 4 instants, 2 requests, queries of none, the least, the most and beyond | point in time, nothing missing |
| `repo_fan_out` | 2 tags, 2 requests, all limits 1 | permits balance, fan-out is bounded, every request is answered |
| `repo_untimed` (violation) | 1 tag whose timestamp is missing | it is released under a minimum release age |
| `apk_feed` | every text of up to 6 lines over 2 feeds, of one architecture or two | the parser finds the records' entries; nothing too young is released; the merge and the filter agree across architectures; nothing is lost |
| `repo_walk` | every subset of 8 links between 4 groups, two of one name, 2 edits, depth 2 | what stays put is listed, once, and resolves to where it was listed; a cycle is reported only where the links were no tree; walk and resolution end |
| `snapshot` | 2 processes, datasources of 1 and 2 packages, concurrency 1 for one process and no limit for the other | implements `AtomicSnapshot`; never half-written, outcomes told truly; every `Generate` that is not killed returns |
| `snapshot_slash` (violation) | output path with a trailing slash | the output path exists before the commit |
| `serve` | every selection of datasources, 2 connections | requests are lost only where an error is returned; nil is returned only for a signal; a signal ends the process |
| `credentials` | 3 kinds of credentials, 2 callers and the loader, 6 instants | no expired token is sent; a call lacks a token only for a reason, which is not the token's age; shutdown frees calls behind a hung exchange |

Why the bounds are enough. Two feeds are the fewest for which a Load can be
half done, and two editions the fewest for an old and a new one; another
request reads the same store and writes nothing the first can see, so one is
enough for the two-read race. Three pushes give a tag a digest before the
cutoff, one at it and one after; four instants put a push between two cutoffs.
With limits of one every lookup waits for every other, the worst case for
progress. Six lines are a
name, a version and a time in each of two feeds, or two records of which one
could inherit from the other; a feed after the first has at most half of them,
and a feed two of a kind, one to overwrite the other. The times of the lines are
Go's zero, the epoch and two later ones; one out of range takes the same way as
the epoch, and is left to the theorem, which is about every number.
The eight links of `repo_walk` make self-loops, cycles, two parents and chains
that are too deep, and its names siblings, uncle and nephew, and parent and child
of one name; two edits make a move. Two packages in one datasource are the fewest
for which, in the process without a limit, one worker fails while another is at
work, and two datasources the fewest for which the second fails after the first
is done. Two connections let one be drained while
the other is idle, new or stuck; two callers let one wait behind the other's
renewal, and the third renews beside them. The times of `credentials` keep the
order of the real ones: a call's way is shorter than oauth2's ten seconds, those
shorter than the minute that `RemainingLife` asks for, that shorter than a life;
six instants see a token cached, run out and renewed. Requests are symmetric in
`repo_releases`, which has no liveness property.

Bounds in the modules: `MaxEdition`, `MaxTime`, `MaxPushes`, `MaxLines`, `MaxSame`,
`MaxEdits`. They stop the environment, never the program. `CHECK_DEADLOCK FALSE`
is set for all but `ApkIndex`: a request, a snapshot, a walk and a Load end.

### Fairness

* `ApkIndex`: the loading goroutine goes on, a fetch ends (the client has a
  timeout of 60 s), the ticker ticks. `RefreshStops` is strongly fair: with both
  channels of the `select` ready Go chooses at random, and a Load disables the
  choice from time to time. Without that `ShutdownStopsRefresh` would not hold:
  a ticker that is always ready could be served for ever.
* `RepoReleases`: every call ends, which is an assumption on upstream and on the
  contexts of the requests; taking a permit is strongly fair, since the semaphore
  serves its waiters in order. Clients leave, and the registry moves, without
  fairness.
* `RepoWalk`: the walk goes on and its calls end; edits are not fair.
* `Snapshot`: a process that is not killed keeps running and its calls end: of
  its goroutines that can go on one does, which is all that is asked.
* `Serve`: only that `runServe` goes on once the signal has come, since ctx or
  `Shutdown`'s own limit ends whatever it waits for. Handlers, clients and the
  listener have no fairness: upstream may keep a handler for ever.
* `Credentials`: the lock is handed on (strongly fair, as Go's mutex is), the
  disk answers, and an exchange ends with its context. STS has no fairness.

### Assumptions worth knowing

* `PointInTime` compares the registry's timestamps with a cutoff computed from
  the server's clock: the model has one clock. It also needs every timestamp to
  be present (`Untimed = {}`); `repo_untimed` shows what happens otherwise.
* A tag or repository that is deleted stays deleted. In `RepoReleases` the
  resolution of nested groups is one call; `RepoWalk` has each of them.
* A minimum release age reaches back to no earlier than the Unix epoch.
* The removal of the staging directory succeeds. In `Snapshot` packages have
  paths of their own, which `ListedOnce` shows of the walk while the subgroups of
  every group have different names. A file that was closed stays when its process
  is killed; since nothing is synced, a machine that stops is another matter, and
  is not modelled.
* A call reaches the service within `Transit` of the check of its token, which
  is less than the ten seconds by which oauth2 gives a token up; and the kubelet
  renews a token file before it runs out. Without these `LiveOnArrival` and
  `FailuresHaveReasons` do not hold, and nothing in the code enforces them.
* A path names one repository only if the subgroups of a group have different
  names, which nothing in the client enforces. It is assumed nowhere: where a
  property needs it, its statement says so (`SiblingsDiffer` in `ListedOnce`,
  `Unmistakable` in `ListedResolves`), and the groups of `repo_walk` do not all
  have different names.

## What the checks found

* **A failed start is final** (`apk_failed_start`). `NewIndexStoreWithRefresh`
  returns the error of the initial `Load` before it starts `Refresh`. `serve.go`
  logs that the endpoint "will 404 until the next successful refresh", and the
  doc comment offers "to keep serving until the next refresh succeeds", but no
  refresh is ever run. `/readyz` stays 503 and `/healthz` 200, so an orchestrator
  does not restart the process either.
* **Startup does not fail** (`apk_startup_help`) when a repository lacks an
  architecture, as the help of `--apk-arch` says it does.
* **Untimed tags are released** (`repo_untimed`). `AsTime` of a missing
  timestamp is the Unix epoch, so the two `IsZero` checks of
  `applyMinimumReleaseAge` never see a zero time from the client, and a tag that
  is to be omitted is older than every cutoff.
* **A trailing slash** (`snapshot_slash`) makes `filepath.Dir` return the output
  path itself. It is created, the staging directory lies inside, the rename is
  refused, and an empty directory is left.

Seen on the way, without a run: `Generate` with a concurrency of 0 runs every
worker at once, where `WithConcurrency` says "sequential" (snapshot.go:81);
requests that are drained after a signal and need a new platform token fail in
identity mode, since the exchange runs under the signal's context (client.go:123);
a literal identity token that runs out leaves `Ready` true and every call without
a token, and so does a token file that is there but cannot be read or is empty,
which `Ready` only stats although its error says "identity token file unreadable"
(client.go:188-189); what chainctl's second read finds is sent whatever it is, and
reused for a minute if it has no expiry (token_chainctl.go:36-39); a call waits for the token source's lock without looking at its own
context, and keeps its permit, so that one hung exchange stops every call;
`WithNow(nil)` does not default to `time.Now` (snapshot.go:67) but is called; on
a store that was never loaded a request with
a configured `?arch=` gets 400, not the 404 of serve.go:138; `walkRepos` reports
a group that it meets twice, for whatever reason, as a cycle.

## The proofs

Every safety property that a passing run checks, and both refinements, are
proved for every value of the constants. Each component's proofs are in a module
of their own, around one inductive invariant, `IInv`, that TLC checked first;
`SetLemmas` has what several of them need of sets. No step takes fairness.

### ApkIndexProofs

It proves, for any number of architectures, repositories, requests
and editions, and any `Lists`:

| Theorem | Statement |
| --- | --- |
| `Invariance` | `Spec => []IInv` |
| `TypeCorrect` | `Spec => []TypeOK` |
| `StoreAllOrNothing` | `Spec => []AllOrNothing` |
| `LoadsAreFresh` | `Spec => FreshAsOfLoadStart` |
| `StoreNeverGoesBack` | `Spec => NeverGoesBack` |
| `Linearizable` | `Spec => AtomicReads`: `ApkIndex` implements `AtomicIndex` |

They rest on `SizesAssumption`, `RefreshAssumption` and `EditionAssumption`,
which TLC evaluates, and on one inductive invariant, `IInv`:

* `AllOrNothing` alone is not inductive: `Install` copies `merged`, so one must
  know that a Load at its end has an edition of every feed. `LoadInv` says so:
  what has been fetched is at least what upstream served when the Load began
  (`base`), which is at least 1.
* `NeverGoesBack` needs `releases <= base` during a Load: the store was filled
  by an earlier Load from what was upstream by then. That holds since one
  goroutine runs all Loads.
* `ControlInv` links the control points with the outcome of the initial Load
  and with whether the store is empty; without it `FetchFails` could start
  `Refresh` on an empty store.
* `AdmittedInv` makes the two reads of a request one: the architecture it was
  admitted with is still served when it comes to `Get`. That is so because the
  set of architectures goes from empty to its final value once and stays. So
  `Get` is where a request takes effect, `CheckArch` is a stutter unless it
  refuses.

The step of the refinement maps `Publish`, `Install`, `CheckArch` (when it
refuses) and `Get` to the actions of `AtomicIndex`, and every other action to a
stutter. The proofs were laid out after TLC had checked `IInv` and the refinement.

### ApkFeedProofs

It proves, for feeds of any text, number and architecture (here `MaxLines` and
`MaxSame` only end the text, `Epoch` stands for the year 1970 and `MaxUnixSec`
for the end of 9999):

| Theorem | Statement |
| --- | --- |
| `Invariance` | `Spec => []IInv` |
| `TypeCorrect` | `Spec => []TypeOK` |
| `CutoffHolds` | `Spec => []NothingYoung` |
| `AgreementOfArchs` | `Spec => []ArchsAgree` |
| `Complete` | `Spec => []NothingLost` |
| `ParserIsExact` | `Spec => []ParsesRecords` |

They rest on `LineAssumption` and `ConfigAssumption`. The invariant adds to the
types that the store is `Dedupe(merged)`. The reason for the rest is in three
lemmas. `HasLatest`: the store has a latest build of each that was merged; times
are bounded (`parseAPKINDEX` refuses a year JSON cannot write), so a non-empty
set of entries has a latest (`MaxStamp`). `AnswersLatest`: what answers, for one
architecture or merged over all, is the latest of its version among everything
asked for, so the cutoff that it passes all the others pass too.
`EveryVersionAnswers`: no version is left without an entry that answers.

`ParsesRecords` compares fields that are overwritten line by line with a
definition that looks at whole records, and says nothing before the end. `ParseInv`
is what holds between two lines: of the feed at hand, what has been merged are the
entries of the records that a blank line has closed, and each field is what the
last of the lines since then that hold it says, or its zero value if none does.
`FieldAdded` is the step for a field, `Closes` that for the text (a field closes
no record, a blank line the one before it), `PendingIsRecord` that a flush merges
what those lines stand for, and `ClosedAndOpen` that the end of a feed leaves no
other record. So a flush that forgot to clear a field would not keep `ParseInv`.

### ServeProofs

It proves, for any selection of datasources and any number of
connections:

| Theorem | Statement |
| --- | --- |
| `Invariance` | `Spec => []IInv` |
| `TypeCorrect` | `Spec => []TypeOK` |
| `ExitIsClean` | `Spec => []CleanExit` |
| `NilMeansSignal` | `Spec => []NoQuietExit` |

They rest on `ConfigsAssumption`. `CleanExit` alone is not inductive: that a
handler never meets a closed client after a nil takes that a nil leaves no
connection in use (`DrainInv`), which takes that every handler at work has its
connection in use and that none is accepted once `Shutdown` has been called; and
a nil from the `select` is excluded since `errCh` is closed empty only after
`Shutdown`, which comes after the `select` (`ControlInv`).

### SnapshotProofs

It proves, for any number of processes, datasources and packages and any
concurrency:

| Theorem | Statement |
| --- | --- |
| `Invariance` | `Spec => []IInv` |
| `TypeCorrect` | `Spec => []TypeOK` |
| `OutcomesAreTold` | `Spec => []OutcomeTold` |
| `OutputIsWhole` | `TrailingSlash = FALSE` gives `Spec => []NeverHalfWritten` |
| `ImplementsAtomic` | `TrailingSlash = FALSE` gives `Spec => PublishedAtomically` |

They rest on `DatasourcesAssumption` and `OptionsAssumption`; that the path has
no trailing slash is a hypothesis, since `snapshot_slash` shows what happens
with one. `NeverHalfWritten` alone is not inductive: the rename publishes what
it is given, so one must know that at `commit` every package of every datasource
has been skipped or written (`WorkInv`, which says it of the datasources that are
through while the fan-out of the next runs) and that a file is as far as its
worker (`FilesInv`). `PlaceInv` ties the place of a tree to the control of its
process; it says that there is one tree at the output path, which makes the
`CHOOSE` of the refinement mapping a definition, and that its process is at the
report, has reported, or was killed, which is `OutcomeTold`. A rename is the
abstract publication, the report the abstract success, an end without a tree the
abstract failure, a kill the abstract death, and a file that is written into a
staging directory a stutter, because no reader sees it. `TypeOK` has the limit of
concurrency in it (`LimitKept`), for which `RunningInv` says that what is counted
is finite.

### CredentialsProofs

It proves, for any number of callers and any lives of tokens:

| Theorem | Statement |
| --- | --- |
| `Invariance` | `Spec => []IInv` |
| `TypeCorrect` | `Spec => []TypeOK` |
| `TokensAreLive` | `Spec => []LiveOnArrival` |
| `FailuresAreExplained` | `Spec => []FailuresHaveReasons` |

They rest on `ModesAssumption`, `CallersAssumption` and `TimesAssumption`, the
order of the real times. A call's token is compared with the time of its arrival,
when it was looked at long before, so `FreshInv` carries what the look found: a
token on its way lives for more than `Transit` from then on, and the call is on
its way for no longer. For chainctl, which reads the disk twice, the second
read may find another token, so `FreshInv` also says that whatever is on disk by
then lives as long. `LockInv` is the mutual exclusion: the caller at work on a
token is the holder, and `KeptInv` that the cache takes its token to expire when
it does, unless it is text that has no expiry. `WarningInv` is what
`FailuresHaveReasons` is an instance of: a caller whose exchange can fail, or
whose token is gone, has had a reason by then.

### RepoReleasesProofs

It proves, for any number of tags, requests and pushes and any limits:

| Theorem | Statement |
| --- | --- |
| `Invariance` | `Spec => []IInv` |
| `TypeCorrect` | `Spec => []TypeOK` |
| `PermitsAlwaysBalance` | `Spec => []PermitsBalance` |
| `AnsweredAsOfCutoff` | `Untimed = {}` gives `Spec => []PointInTime` |
| `NothingGoesMissing` | `Spec => []NothingMissing` |

They rest on `SizesAssumption`, `LimitsAssumption`, `AgesAssumption` and
`BoundsAssumption` of the module. That every push has its timestamp is a
hypothesis of one theorem only; `repo_untimed` shows why it is needed there.

* `PermitsBalance` counts: a permit for each call in flight. It is kept because
  a call begins with `Acquire` and ends with `Release`, one at a time (`OneMore`,
  `OneLess`), and because lookups exist only while their request is in its
  fan-out (`WorkInv`), so that none is left when the request returns.
* `PointInTime` speaks of the end of a request, but the registry moves while its
  lookups run. `PointInv` says slot by slot that the digest is the newest by the
  cutoff. It stays so because a cutoff is past (`CutoffInv`): whatever is pushed
  from now on is younger. `OrderInv` says that timestamps are in the order of
  the pushes, which makes "the first old enough in the history" the newest, and
  fails with a timestamp that is missing.
* `NothingMissing` needs a reason for every empty slot while lookups fail and are
  abandoned: `MissingInv` says that its lookup is still under way, or the group
  has failed, or all that was listed is too young or deleted.

### RepoWalkProofs

It proves, for any groups, links and edits and any depth:

| Theorem | Statement |
| --- | --- |
| `Invariance` | `Spec => []IInv` |
| `TypeCorrect` | `Spec => []TypeOK` |
| `WalkIsComplete` | `Spec => []NothingOverlooked` |
| `CyclesAreReal` | `Spec => []CycleIsReal` |
| `WalkListsOnce` | `Spec => []ListedOnce` |
| `WalkAndResolutionAgree` | `Spec => []ListedResolves` |

They rest on `GroupAssumption` and `DepthAssumption`, and on nothing about names:
groups may share them. Only where two subgroups of *one* group do can a path have
two meanings, of which `resolveSubgroupUIDP` takes the first; so the half of
`ListedOnce` that tells paths apart has `SiblingsDiffer` as its premise, and
`ListedResolves` asks the same of the chain it speaks of, `Unmistakable`.

* `CoverInv` is the heart of `NothingOverlooked`: of each chain of groups that
  was linked all the time, and each repository that stayed at its end, either
  the path is listed or some call on the stack, at a group of the chain, has
  still to go on along it (`Pending`). It is an invariant of a depth-first walk
  of *moving* links only because links that go make chains unsettled, never new
  ones settled. With an empty stack nothing is pending.
* The bound on the depth of the recursion in `TypeOK` is that of the guard, one
  call more. `PathInv` makes the stack a path along links and the prefix of
  each call its names.
* `CycleIsReal`: `VisitInv` and `TreeInv` say that each visited group was
  entered from another's loop, which will not take it again; so a group that is
  about to be entered again (`AgainInv`) has two parents, or is the root.
* `ListedOnce` needs that what is in the list is from visited groups, and once
  (`CountInv`, with that the call about to list has listed nothing), and that
  there is *one* way to each visited group, the one it was entered by, whose names
  are the prefix of its paths (`WayInv`). That no two groups have the same way is
  kept as the walk goes: the way of a group that is entered ends with its name,
  so another group of the same way would be a sibling of that name, or its parent
  would have the way of another group. Groups elsewhere do not matter.
* `ListedResolves`: on its way down a settled chain the resolution is at the
  chain's group (`ResolveInv`), since the one subgroup of the name is the next.
  It is proved beside `IInv`, for one chain at a time.

### What is not proved

The liveness properties (`RefreshDelivers`, `ShutdownStopsRefresh`,
`EveryRequestAnswered`, `Returns`, `Ends`, `SignalEnds`, `ShutdownFreesCalls`)
need fairness and ENABLED, which are beyond the prover: TLC checks them. That a
walk terminates is among them. The four runs that expect a violation are TLC's
too. Theorems are about the models: that a definition is the code's is a matter
of reading the lines `PROJECT.json` names.

## Plan

Done: every module of the plan, and a theorem for each safety property.

Next: what the proofs could say beyond the runs. That a walk of a tree that
is left alone ends without an error but for a failure; and steps towards the
liveness properties: a measure that every step of the walk, or of a Load, lowers.

## Not modelled, and why

Parsing of URLs, of flags other than the datasources, and of `HTTP_AUTH`,
logging, JSON, the chart and the workflows: no state, or none that depends on the
order of events. TLS, gRPC, STS and the registry itself are outside the
repository; what they may do is an action of the environment. The order in which
`/readyz` asks the datasources is that of a Go map and makes no difference to
its answer. Permits and tokens are in different modules: what one call does to
another through the permits is in `RepoReleases`, through the token in
`Credentials`.

## Running

    tlc -workers 2 -config MCApkIndex.cfg MCApkIndex
    tlapm ApkIndexProofs.tla

and likewise for `ApkFeedProofs`, `ServeProofs`, `SetLemmas`, `SnapshotProofs`,
`CredentialsProofs`, `RepoReleasesProofs` and `RepoWalkProofs`; the other
configurations are named in the table of the runs and in `PROJECT.json`.
