------------------------------ MODULE ApkIndex ------------------------------
(***************************************************************************)
(* The apk index of a serving process: NewIndexStoreWithRefresh, the       *)
(* loader it starts (Load, Refresh), the store it fills (Replace) and the  *)
(* requests that read the store (APKDatasource.Releases, which takes the   *)
(* read lock twice).                                                       *)
(*                                                                         *)
(* The contents of a feed are reduced to the number of the edition that    *)
(* upstream was serving when the feed was fetched: a feed that changes in  *)
(* any way, even back, has a new edition.  What parsing, dedupe and the    *)
(* merge make of an edition is a function of it, so Lists(f, e), the names *)
(* edition e of feed f contributes, is all a reader can tell.              *)
(***************************************************************************)
EXTENDS Integers

CONSTANTS
    NumArchs,       \* length of --apk-arch
    NumRepos,       \* length of the repository chain
    RefreshOn,      \* --apk-index-refresh is positive
    Name,           \* package names requests carry
    WellFormed,     \* those that match apkProvidesNamePattern
    Lists(_, _),    \* Lists(f, e): names listed by edition e of feed f
    Reader,         \* requests being handled concurrently
    MaxEdition      \* bound: editions a feed goes through

ASSUME SizesAssumption == NumArchs \in Nat /\ NumRepos \in Nat
ASSUME RefreshAssumption == RefreshOn \in BOOLEAN
ASSUME EditionAssumption == MaxEdition \in Nat \ {0}

Arch == 1 .. NumArchs
AnyArch == 0
AskedArch == 0 .. NumArchs + 1      \* the last one is not configured

\* Feeds are numbered in the order Load visits them: for each
\* architecture, every repository.
NumFeeds == NumArchs * NumRepos
Feed == 1 .. NumFeeds
ArchOf(f) == (f - 1) \div NumRepos + 1

VARIABLES
    edition,        \* upstream: the edition each feed serves now
    outage,         \* upstream: fetches fail
    cancelled,      \* the signal context is done
    pc,             \* control of the goroutine that loads
    startup,        \* outcome of the blocking initial load
    next,           \* Load: the feed to fetch next
    merged,         \* Load: editions fetched so far, 0 for none
    base,           \* history: the editions when this Load began
    tick,           \* the ticker's one-element channel is full
    releases,       \* IndexStore.releases, by feed, 0 for none
    archs,          \* IndexStore.archs
    asked,          \* requests between their two reads of the store
    reply           \* the last answer of each request slot

upstream == <<edition, outage>>
loader == <<pc, startup, next, merged, base, tick>>
store == <<releases, archs>>
requests == <<asked, reply>>
vars == <<upstream, cancelled, loader, store, requests>>

Atomic == INSTANCE AtomicIndex WITH store <- releases, loaded <- (archs # {})

Nothing == Atomic!Nothing
Query == [name : Name, arch : AskedArch]
Outcome(q, k, hits) == Atomic!Outcome(q.name, q.arch, k, hits)
Reply == [name : Name, arch : AskedArch,
          kind : {"badName", "badArch", "notFound", "ok"},
          hits : SUBSET (Feed \X (1 .. MaxEdition))]

EmptyIndex == [f \in Feed |-> 0]

TypeOK ==
    /\ edition \in [Feed -> 1 .. MaxEdition]
    /\ outage \in BOOLEAN
    /\ cancelled \in BOOLEAN
    /\ pc \in {"new", "loading", "waiting", "ended"}
    /\ startup \in {"blocked", "ok", "failed"}
    /\ next \in 1 .. NumFeeds + 1
    /\ merged \in [Feed -> 0 .. MaxEdition]
    /\ base \in [Feed -> 1 .. MaxEdition]
    /\ tick \in BOOLEAN
    /\ releases \in [Feed -> 0 .. MaxEdition]
    /\ archs \in SUBSET Arch
    /\ asked \in [Reader -> Query \cup {Nothing}]
    /\ reply \in [Reader -> Reply \cup {Nothing}]

Init ==
    /\ edition = [f \in Feed |-> 1]
    /\ outage \in BOOLEAN
    /\ cancelled = FALSE
    /\ pc = "new"
    /\ startup = "blocked"
    /\ next = 1
    /\ merged = EmptyIndex
    /\ base = edition
    /\ tick = FALSE
    /\ releases = EmptyIndex
    /\ archs = {}
    /\ asked = [r \in Reader |-> Nothing]
    /\ reply = [r \in Reader |-> Nothing]

-----------------------------------------------------------------------------
(* The environment: upstream, and the signal that ends the process.        *)

Publish(f) ==
    /\ edition[f] < MaxEdition
    /\ edition' = [edition EXCEPT ![f] = @ + 1]
    /\ UNCHANGED <<outage, cancelled, loader, store, requests>>

OutageChanges ==
    /\ outage' = ~outage
    /\ UNCHANGED <<edition, cancelled, loader, store, requests>>

Cancel ==
    /\ ~cancelled
    /\ cancelled' = TRUE
    /\ UNCHANGED <<upstream, loader, store, requests>>

-----------------------------------------------------------------------------
(* The loader.                                                             *)

(* Definitions named Faulty... are not part of the model.  Each is a bug    *)
(* the code could have, in place of the definition that follows it; the    *)
(* properties are shown to notice.                                         *)

\* A Load that resumes where the last one failed.
FaultyStartLoadResumes ==
    /\ pc' = "loading"
    /\ base' = edition
    /\ IF next \in Feed THEN UNCHANGED <<next, merged>>
       ELSE next' = 1 /\ merged' = EmptyIndex

\* Every Load starts from a fresh, empty indexData.
StartLoad ==
    /\ pc' = "loading"
    /\ next' = 1
    /\ merged' = EmptyIndex
    /\ base' = edition

\* NewIndexStoreWithRefresh: NewIndexLoader refuses an empty list of
\* architectures; otherwise the initial Load begins, on the caller's stack.
NewLoader ==
    /\ pc = "new"
    /\ IF NumArchs = 0
       THEN /\ startup' = "failed"
            /\ pc' = "ended"
            /\ UNCHANGED <<next, merged, base>>
       ELSE StartLoad /\ UNCHANGED startup
    /\ UNCHANGED <<upstream, cancelled, tick, store, requests>>

\* A Load that fills the live map while it goes.
FaultyFetchInPlace ==
    /\ pc = "loading"
    /\ next \in Feed
    /\ ~outage /\ ~cancelled
    /\ merged' = [merged EXCEPT ![next] = edition[next]]
    /\ releases' = [releases EXCEPT ![next] = edition[next]]
    /\ next' = next + 1
    /\ UNCHANGED <<upstream, cancelled, pc, startup, base, tick, archs, requests>>

\* One turn of Load's loops.  A context that is done fails the request.
Fetch ==
    /\ pc = "loading"
    /\ next \in Feed
    /\ ~outage /\ ~cancelled
    /\ merged' = [merged EXCEPT ![next] = edition[next]]
    /\ next' = next + 1
    /\ UNCHANGED <<upstream, cancelled, pc, startup, base, tick, store, requests>>

\* A failed Load that installs what it has.
FaultyFailInstallsPartial ==
    /\ pc = "loading"
    /\ next \in Feed
    /\ outage \/ cancelled
    /\ releases' = merged
    /\ archs' = Arch
    /\ startup' = "ok"
    /\ pc' = "waiting"
    /\ UNCHANGED <<upstream, cancelled, next, merged, base, tick, requests>>

\* A failed Load that empties the store.
FaultyFailClears ==
    /\ pc = "loading"
    /\ next \in Feed
    /\ outage \/ cancelled
    /\ releases' = EmptyIndex
    /\ pc' = IF startup = "blocked" THEN "ended" ELSE "waiting"
    /\ startup' = IF startup = "blocked" THEN "failed" ELSE startup
    /\ UNCHANGED <<upstream, cancelled, next, merged, base, tick, archs, requests>>

\* A Refresh that returns when a Load fails.
FaultyFailEndsRefresh ==
    /\ pc = "loading"
    /\ next \in Feed
    /\ outage \/ cancelled
    /\ pc' = "ended"
    /\ startup' = IF startup = "blocked" THEN "failed" ELSE startup
    /\ UNCHANGED <<upstream, cancelled, next, merged, base, tick, store, requests>>

\* A failed fetch abandons the Load and what it merged.  The initial Load
\* returns to its caller, which never starts Refresh; a later one only logs.
FetchFails ==
    /\ pc = "loading"
    /\ next \in Feed
    /\ outage \/ cancelled
    /\ IF startup = "blocked"
       THEN startup' = "failed" /\ pc' = "ended"
       ELSE pc' = "waiting" /\ UNCHANGED startup
    /\ UNCHANGED <<upstream, cancelled, next, merged, base, tick, store, requests>>

\* Load's last act: dedupe and Replace, under the write lock, whether or
\* not the context is done by now.  After the initial Load the goroutine
\* running Refresh starts; with a zero interval it returns at once.
Install ==
    /\ pc = "loading"
    /\ next \notin Feed
    /\ releases' = merged
    /\ archs' = Arch
    /\ startup' = "ok"
    /\ pc' = IF RefreshOn THEN "waiting" ELSE "ended"
    /\ UNCHANGED <<upstream, cancelled, next, merged, base, tick, requests>>

\* The ticker drops a tick when its channel is full, as it may be during
\* a slow Load.
TickerFires ==
    /\ RefreshOn
    /\ startup = "ok"
    /\ pc # "ended"
    /\ ~tick
    /\ tick' = TRUE
    /\ UNCHANGED <<upstream, cancelled, pc, startup, next, merged, base, store, requests>>

\* Refresh's select takes the tick.  It may do so when the context is done.
Reload ==
    /\ pc = "waiting"
    /\ tick
    /\ tick' = FALSE
    /\ StartLoad
    /\ UNCHANGED <<upstream, cancelled, startup, store, requests>>

\* A loop that looks at the context only when no tick is waiting.
FaultyStopsWhenIdle ==
    /\ pc = "waiting"
    /\ cancelled /\ ~tick
    /\ pc' = "ended"
    /\ UNCHANGED <<upstream, cancelled, startup, next, merged, base, tick, store, requests>>

\* Refresh's select takes ctx.Done.
RefreshStops ==
    /\ pc = "waiting"
    /\ cancelled
    /\ pc' = "ended"
    /\ UNCHANGED <<upstream, cancelled, startup, next, merged, base, tick, store, requests>>

-----------------------------------------------------------------------------
(* Requests: the listener is up once the initial Load has returned.        *)

\* A request whose architecture is not looked up.
FaultyNoArchCheck(r, q) ==
    /\ startup # "blocked"
    /\ asked[r] = Nothing
    /\ IF q.name \notin WellFormed
       THEN reply' = [reply EXCEPT ![r] = Outcome(q, "badName", {})] /\ UNCHANGED asked
       ELSE asked' = [asked EXCEPT ![r] = q] /\ UNCHANGED reply
    /\ UNCHANGED <<upstream, cancelled, loader, store>>

\* The request as far as its call of Archs(): a name or an architecture
\* that is refused is answered here, anything else goes on to Get.
CheckArch(r, q) ==
    /\ startup # "blocked"
    /\ asked[r] = Nothing
    /\ IF q.name \notin WellFormed
       THEN reply' = [reply EXCEPT ![r] = Outcome(q, "badName", {})] /\ UNCHANGED asked
       ELSE IF q.arch # AnyArch /\ q.arch \notin archs
       THEN reply' = [reply EXCEPT ![r] = Outcome(q, "badArch", {})] /\ UNCHANGED asked
       ELSE asked' = [asked EXCEPT ![r] = q] /\ UNCHANGED reply
    /\ UNCHANGED <<upstream, cancelled, loader, store>>

\* The entries Get returns for name, from the architecture given or all.
Found(q) ==
    {<<f, releases[f]>> : f \in {g \in Feed :
        /\ releases[g] > 0
        /\ q.arch = AnyArch \/ ArchOf(g) = q.arch
        /\ q.name \in Lists(g, releases[g])}}

\* Get, under its own read lock: a Replace may have come in between.
Get(r) ==
    /\ asked[r] # Nothing
    /\ reply' = [reply EXCEPT ![r] =
            Outcome(asked[r], IF Found(asked[r]) = {} THEN "notFound" ELSE "ok",
                    Found(asked[r]))]
    /\ asked' = [asked EXCEPT ![r] = Nothing]
    /\ UNCHANGED <<upstream, cancelled, loader, store>>

-----------------------------------------------------------------------------
Next ==
    \/ \E f \in Feed : Publish(f)
    \/ OutageChanges
    \/ Cancel
    \/ NewLoader
    \/ Fetch
    \/ FetchFails
    \/ Install
    \/ TickerFires
    \/ Reload
    \/ RefreshStops
    \/ \E r \in Reader, q \in Query : CheckArch(r, q)
    \/ \E r \in Reader : Get(r)

Spec == Init /\ [][Next]_vars

\* The goroutine that loads keeps running, its requests end (the client has
\* a timeout) and the ticker ticks.  With both channels of Refresh's select
\* ready Go picks at random, so ctx.Done is not passed over for ever: that
\* is strong fairness of RefreshStops, which a Load in progress disables.
Fairness ==
    /\ WF_vars(NewLoader)
    /\ WF_vars(Fetch \/ FetchFails)
    /\ WF_vars(Install)
    /\ WF_vars(TickerFires)
    /\ WF_vars(Reload)
    /\ SF_vars(RefreshStops)

FairSpec == Spec /\ Fairness

-----------------------------------------------------------------------------
(* Properties.                                                             *)

\* The store is empty, or it holds every feed of the configuration: no
\* failure, cancellation or timing leaves it with part of a Load (the
\* comments of Load and Replace, index.go).
AllOrNothing ==
    \/ archs = {} /\ releases = EmptyIndex
    \/ archs = Arch /\ \A f \in Feed : releases[f] > 0

\* What a Load installs is nowhere older than what upstream was serving
\* when that Load began: nothing is carried over from an earlier Load that
\* failed half-way.
FreshAsOfLoadStart ==
    [][pc = "loading" /\ next \notin Feed /\ pc' # pc =>
           \A f \in Feed : releases'[f] >= base[f]]_vars

\* No Load, whenever it ran and however it ended, puts an older edition of
\* any feed in place of a newer one (Refresh serialises the Loads).
NeverGoesBack ==
    [][\A f \in Feed : releases'[f] >= releases[f]]_vars

\* A request is answered as if from the index of one instant, although it
\* takes the read lock twice, around a Replace or not.
AtomicReads == Atomic!Spec

\* The facts that make all of this inductive: the editions merged, those at
\* the start of the Load and those served are ordered; the control points
\* agree on the outcome of the initial Load; and an architecture a request
\* was admitted with is still served when the request comes to Get.
LoadInv ==
    \A f \in Feed :
        /\ releases[f] <= edition[f]
        /\ base[f] <= edition[f]
        /\ merged[f] <= edition[f]
        /\ pc = "loading" => releases[f] <= base[f]
        /\ pc = "loading" /\ f < next => base[f] <= merged[f]

ControlInv ==
    /\ startup = "ok" <=> archs # {}
    /\ pc = "new" => startup = "blocked"
    /\ pc = "waiting" => startup = "ok"
    /\ startup = "failed" => pc = "ended"
    /\ pc = "loading" => NumArchs > 0

AdmittedInv ==
    \A r \in Reader : asked[r] # Nothing =>
        /\ asked[r].name \in WellFormed
        /\ asked[r].arch = AnyArch \/ asked[r].arch \in archs

IInv == TypeOK /\ AllOrNothing /\ LoadInv /\ ControlInv /\ AdmittedInv

\* If the initial Load succeeded and upstream works from some point on, an
\* edition that was published comes to be served, unless the process is
\* told to stop.
RefreshDelivers ==
    (<>[]~outage /\ []~cancelled) =>
        \A f \in Feed : \A e \in 1 .. MaxEdition :
            (startup = "ok" /\ edition[f] >= e) ~> (releases[f] >= e)

\* Once the signal context is done the goroutine ends, whatever the ticker
\* offers it.
ShutdownStopsRefresh == cancelled ~> (pc = "ended")


-----------------------------------------------------------------------------
(* What the repository's texts say of a failed start, and the code does    *)
(* not do.                                                                 *)

\* serve.go, on a failed initial load: "will 404 until the next successful
\* refresh".  There is a next refresh, and it succeeds if upstream does.
RecoversAfterFailedStart ==
    (<>[]~outage /\ []~cancelled) => <>(archs # {})

\* Help of --apk-arch: "Each configured repo must serve every listed arch or
\* startup fails."  So a process that answers has loaded every feed.
ServingMeansLoaded ==
    (\E r \in Reader : reply[r] # Nothing) => archs = Arch
=============================================================================
