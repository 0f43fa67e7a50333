---------------------------- MODULE RepoReleases ----------------------------
(***************************************************************************)
(* RepoDatasource.Releases over a registry that moves while it is read:    *)
(* the repository is resolved, its tags are listed, and the tags newer     *)
(* than the request's cutoff are rewound by one history lookup each, in an *)
(* errgroup of bounded size.  Every RPC of every request goes through the  *)
(* one semaphore of the client's interceptor.                              *)
(*                                                                         *)
(* The digests of a tag are numbered in the order they are pushed, so      *)
(* pushes[t][d] is the time of digest d, and 0 stands for no digest.       *)
(***************************************************************************)
EXTENDS Integers, Sequences, FiniteSets, FiniteSetsExt

CONSTANTS
    NumTags,            \* tags the repository may come to have
    Request,            \* requests, in one process
    HistoryConcurrency, \* --concurrency, as the history fan-out gets it
    RpcLimit,           \* the same, as the client's interceptor gets it
    DefaultAge,         \* --min-release-age
    Ages,               \* what requests say in ?minimumReleaseAge=
    Unsaid,             \* ...if anything
    MaxAge,             \* maxMinimumReleaseAge
    Untimed,            \* tags whose timestamps the registry may leave out
    MaxTime,            \* bound on the clock
    MaxPushes           \* bound on the pushes to one tag

ASSUME SizesAssumption == NumTags \in Nat /\ IsFiniteSet(Request)
ASSUME LimitsAssumption == HistoryConcurrency \in Int /\ RpcLimit \in Int
ASSUME AgesAssumption ==
    DefaultAge \in Int /\ MaxAge \in Nat /\ Ages \subseteq Int \cup {Unsaid}

Tag == 1 .. NumTags

(* Instants.  A protobuf timestamp may be missing; a time.Time may be the  *)
(* zero time, which is not the Unix epoch.                                 *)
Unset == -1
ZeroTime == 0
Epoch == 1
FirstInstant == 2
Instant == FirstInstant .. MaxTime

ASSUME BoundsAssumption == MaxTime \in Nat /\ FirstInstant <= MaxTime /\ MaxPushes \in Nat \ {0}

\* timestamppb's AsTime: a missing timestamp is the epoch.
AsTime(ts) == IF ts = Unset THEN Epoch ELSE ts

VARIABLES
    now,        \* the clock
    pushes,     \* registry: the times of the pushes to each tag
    gone,       \* registry: tags that were deleted, or whose repository was
    repoExists, \* registry: the repository is there
    pc,         \* control of each request
    cutoff,     \* opts.Before; ZeroTime when no age is asked for
    listed,     \* the digest of each tag in the list, 0 if it is not there
    work,       \* history lookup of each tag
    slots,      \* the digest to release for each tag, 0 for a nil slot
    failed,     \* the errgroup has an error, and its context is cancelled
    left,       \* the request's own context is done
    permits     \* permits of the semaphore that are taken

registry == <<now, pushes, gone, repoExists>>
request == <<pc, cutoff, listed, work, slots, failed, left>>
vars == <<registry, request, permits>>

NoDigests == [t \in Tag |-> 0]

TypeOK ==
    /\ now \in Instant
    /\ pushes \in [Tag -> Seq(Instant \cup {Unset})]
    /\ gone \subseteq Tag
    /\ repoExists \in BOOLEAN
    /\ pc \in [Request -> {"idle", "resolve", "resolving", "list", "listing", "fanout",
                           "ok", "badRequest", "notFound", "error"}]
    /\ cutoff \in [Request -> ZeroTime .. MaxTime]
    /\ listed \in [Request -> [Tag -> 0 .. MaxPushes]]
    /\ work \in [Request -> [Tag -> {"none", "todo", "queued", "calling", "done"}]]
    /\ slots \in [Request -> [Tag -> 0 .. MaxPushes]]
    /\ failed \in [Request -> BOOLEAN]
    /\ left \in [Request -> BOOLEAN]
    /\ permits \in Nat

Init ==
    /\ now = FirstInstant
    /\ pushes \in [Tag -> {<<>>, <<FirstInstant>>}]
    /\ gone = {}
    /\ repoExists \in BOOLEAN
    /\ pc = [r \in Request |-> "idle"]
    /\ cutoff = [r \in Request |-> ZeroTime]
    /\ listed = [r \in Request |-> NoDigests]
    /\ work = [r \in Request |-> [t \in Tag |-> "none"]]
    /\ slots = [r \in Request |-> NoDigests]
    /\ failed = [r \in Request |-> FALSE]
    /\ left = [r \in Request |-> FALSE]
    /\ permits = 0

-----------------------------------------------------------------------------
(* The registry and its clock, and clients that give up.                   *)

Current(t) == IF t \in gone THEN 0 ELSE Len(pushes[t])

Tick ==
    /\ now < MaxTime
    /\ now' = now + 1
    /\ UNCHANGED <<pushes, gone, repoExists, request, permits>>

Push(t) ==
    /\ repoExists /\ t \notin gone
    /\ Len(pushes[t]) < MaxPushes
    /\ \E ts \in {now} \cup (IF t \in Untimed THEN {Unset} ELSE {}) :
           pushes' = [pushes EXCEPT ![t] = Append(@, ts)]
    /\ UNCHANGED <<now, gone, repoExists, request, permits>>

DeleteTag(t) ==
    /\ Current(t) # 0
    /\ gone' = gone \cup {t}
    /\ UNCHANGED <<now, pushes, repoExists, request, permits>>

DeleteRepo ==
    /\ repoExists
    /\ repoExists' = FALSE
    /\ gone' = Tag
    /\ UNCHANGED <<now, pushes, request, permits>>

Answered(r) == pc[r] \in {"ok", "badRequest", "notFound", "error"}

ClientLeaves(r) ==
    /\ pc[r] # "idle" /\ ~Answered(r) /\ ~left[r]
    /\ left' = [left EXCEPT ![r] = TRUE]
    /\ UNCHANGED <<registry, pc, cutoff, listed, work, slots, failed, permits>>

-----------------------------------------------------------------------------
(* rateLimitInterceptor.  New installs it only for a positive limit.       *)

Acquire ==
    /\ RpcLimit > 0 => permits < RpcLimit
    /\ permits' = permits + 1

\* (Definitions named Faulty... are bugs the code could have in place of the
\* definition that follows; the properties are shown to notice.)
FaultyReleaseTwice == permits' = permits - 2
FaultyReleaseForgotten == UNCHANGED permits
Release == permits' = permits - 1

-----------------------------------------------------------------------------
(* The request, one RPC after the other.                                   *)

\* parseMinimumReleaseAgeQuery: the ages a request may ask for.  A query that
\* is no duration is as good as a negative one.
Parses(raw) == raw \in 0 .. MaxAge

\* No minimum age is the zero time, for "no filter".
CutoffFor(age) == IF age <= 0 THEN ZeroTime ELSE now - age

\* serveReleases: the minimum age in force, the query's or else the server's
\* own, gives the cutoff.
Arrive(r) ==
    /\ pc[r] = "idle"
    /\ \E raw \in Ages :
          LET age == IF raw = Unsaid THEN DefaultAge ELSE raw
          IN  /\ raw = Unsaid \/ Parses(raw)
              /\ age <= 0 \/ now - age >= Epoch
              /\ cutoff' = [cutoff EXCEPT ![r] = CutoffFor(age)]
    /\ pc' = [pc EXCEPT ![r] = "resolve"]
    /\ UNCHANGED <<registry, listed, work, slots, failed, left, permits>>

\* A query that does not parse, or a name that is no repository's, is
\* answered 400 before anything is called.
Refuse(r) ==
    /\ pc[r] = "idle"
    /\ pc' = [pc EXCEPT ![r] = "badRequest"]
    /\ UNCHANGED <<registry, cutoff, listed, work, slots, failed, left, permits>>

\* resolveRepoUIDP and ListTags each start an RPC when they get a permit...
StartRpc(r) ==
    /\ \/ pc[r] = "resolve" /\ pc' = [pc EXCEPT ![r] = "resolving"]
       \/ pc[r] = "list" /\ pc' = [pc EXCEPT ![r] = "listing"]
    /\ ~left[r]
    /\ Acquire
    /\ UNCHANGED <<registry, cutoff, listed, work, slots, failed, left>>

\* ...and may fail, or be given up, waiting for the permit or in the call.
RpcFails(r) ==
    /\ \/ pc[r] \in {"resolve", "list"} /\ left[r] /\ UNCHANGED permits
       \/ pc[r] \in {"resolving", "listing"} /\ Release
    /\ pc' = [pc EXCEPT ![r] = "error"]
    /\ UNCHANGED <<registry, cutoff, listed, work, slots, failed, left>>

Resolved(r) ==
    /\ pc[r] = "resolving"
    /\ pc' = [pc EXCEPT ![r] = IF repoExists THEN "list" ELSE "notFound"]
    /\ Release
    /\ UNCHANGED <<registry, cutoff, listed, work, slots, failed, left>>

\* LastUpdated of the digest that tag t had in the list l.
LastUpdated(l, t) == AsTime(pushes[t][l[t]])

\* A tag with no LastUpdated is omitted, one that is old enough released as
\* it is, one that is newer looked up.
FaultyRewoundOffByOne(l, c) == {t \in Tag : l[t] # 0 /\ LastUpdated(l, t) > c + 1}
Rewound(l, c) == {t \in Tag : l[t] # 0 /\ LastUpdated(l, t) > c}
AsIs(l, c) == {t \in Tag : l[t] # 0 /\ LastUpdated(l, t) # ZeroTime /\ t \notin Rewound(l, c)}

\* ListTags returns; without a cutoff its tags are the answer, with one
\* applyMinimumReleaseAge sorts them.
Listed(r) ==
    LET l == [t \in Tag |-> Current(t)]
        c == cutoff[r]
    IN  /\ pc[r] = "listing"
        /\ Release
        /\ listed' = [listed EXCEPT ![r] = l]
        /\ IF c = ZeroTime
           THEN /\ slots' = [slots EXCEPT ![r] = l]
                /\ pc' = [pc EXCEPT ![r] = "ok"]
                /\ UNCHANGED work
           ELSE /\ slots' = [slots EXCEPT ![r] =
                        [t \in Tag |-> IF t \in AsIs(l, c) THEN l[t] ELSE 0]]
                /\ work' = [work EXCEPT ![r] =
                        [t \in Tag |-> IF t \in Rewound(l, c) THEN "todo" ELSE "none"]]
                /\ pc' = [pc EXCEPT ![r] = "fanout"]
        /\ UNCHANGED <<registry, cutoff, failed, left>>

-----------------------------------------------------------------------------
(* The errgroup of history lookups.                                        *)

With(r, state) == {t \in Tag : work[r][t] = state}
Running(r) == With(r, "queued") \cup With(r, "calling")
FanOut == IF HistoryConcurrency <= 0 THEN 16 ELSE HistoryConcurrency
SetWork(r, t, state) == work' = [work EXCEPT ![r][t] = state]

\* eg.Go, called for one tag after the other, waits for room in the group.
\* It goes on after an error: the lookups it starts then fail at once.
Launch(r) ==
    /\ pc[r] = "fanout"
    /\ With(r, "todo") # {}
    /\ Cardinality(Running(r)) < FanOut
    /\ SetWork(r, Min(With(r, "todo")), "queued")
    /\ UNCHANGED <<registry, pc, cutoff, listed, slots, failed, left, permits>>

Cancelled(r) == failed[r] \/ left[r]

StartLookup(r, t) ==
    /\ work[r][t] = "queued"
    /\ ~Cancelled(r)
    /\ Acquire
    /\ SetWork(r, t, "calling")
    /\ UNCHANGED <<registry, pc, cutoff, listed, slots, failed, left>>

\* Entries of the history that may be released, and the newest of them.
\* Equal times leave the choice to the order in which the API lists them.
Eligible(hist, c) ==
    {d \in 1 .. Len(hist) : AsTime(hist[d]) # ZeroTime /\ AsTime(hist[d]) <= c}
Best(hist, c) ==
    LET es == Eligible(hist, c)
    IN  IF es = {} THEN {0}
        ELSE {d \in es : \A e \in es : AsTime(hist[e]) <= AsTime(hist[d])}

\* A lookup returns the registry's history as it is by now: nothing, if the
\* tag is no longer there.
LookupEnds(r, t) ==
    /\ work[r][t] = "calling"
    /\ Release
    /\ \E d \in (IF t \in gone THEN {0} ELSE Best(pushes[t], cutoff[r])) :
           slots' = [slots EXCEPT ![r][t] = d]
    /\ SetWork(r, t, "done")
    /\ UNCHANGED <<registry, pc, cutoff, listed, failed, left>>

\* A failed lookup is the group's error and cancels the other lookups.
FaultyLookupFailsSilently(r, t) ==
    /\ \/ work[r][t] = "calling" /\ Release
       \/ work[r][t] = "queued" /\ Cancelled(r) /\ UNCHANGED permits
    /\ SetWork(r, t, "done")
    /\ UNCHANGED <<registry, pc, cutoff, listed, slots, failed, left>>
FaultyLookupFailsLeaking(r, t) ==
    /\ \/ work[r][t] = "calling" /\ UNCHANGED permits
       \/ work[r][t] = "queued" /\ Cancelled(r) /\ UNCHANGED permits
    /\ failed' = [failed EXCEPT ![r] = TRUE]
    /\ SetWork(r, t, "done")
    /\ UNCHANGED <<registry, pc, cutoff, listed, slots, left>>
LookupFails(r, t) ==
    /\ \/ work[r][t] = "calling" /\ Release
       \/ work[r][t] = "queued" /\ Cancelled(r) /\ UNCHANGED permits
    /\ failed' = [failed EXCEPT ![r] = TRUE]
    /\ SetWork(r, t, "done")
    /\ UNCHANGED <<registry, pc, cutoff, listed, slots, left>>

\* eg.Wait has seen every lookup end.
Collect(r) ==
    /\ pc[r] = "fanout"
    /\ \A t \in Tag : work[r][t] \in {"none", "done"}
    /\ pc' = [pc EXCEPT ![r] = IF failed[r] THEN "error" ELSE "ok"]
    /\ UNCHANGED <<registry, cutoff, listed, work, slots, failed, left, permits>>

-----------------------------------------------------------------------------
Next ==
    \/ Tick
    \/ \E t \in Tag : Push(t) \/ DeleteTag(t)
    \/ DeleteRepo
    \/ \E r \in Request :
          \/ Arrive(r) \/ Refuse(r) \/ ClientLeaves(r)
          \/ StartRpc(r) \/ RpcFails(r) \/ Resolved(r) \/ Listed(r)
          \/ Launch(r) \/ Collect(r)
    \/ \E r \in Request, t \in Tag :
          StartLookup(r, t) \/ LookupEnds(r, t) \/ LookupFails(r, t)

Spec == Init /\ [][Next]_vars

\* Every call ends, by its answer, its failure or its context, and whoever
\* can go on does.  The semaphore serves its waiters in order, so that none
\* waits for ever while permits come free.
Fairness ==
    \A r \in Request :
        /\ SF_vars(StartRpc(r))
        /\ WF_vars(RpcFails(r) \/ Resolved(r) \/ Listed(r))
        /\ WF_vars(Launch(r))
        /\ WF_vars(Collect(r))
        /\ \A t \in Tag :
              /\ SF_vars(StartLookup(r, t))
              /\ WF_vars(LookupEnds(r, t) \/ LookupFails(r, t))

FairSpec == Spec /\ Fairness

-----------------------------------------------------------------------------
(* Properties.                                                             *)

\* With a cutoff, the digest released for a tag is the one the tag carried
\* at the cutoff, whatever is pushed while the request runs: it was pushed
\* by then, and nothing else was in between (applyMinimumReleaseAge).
PointInTime ==
    \A r \in Request, t \in Tag :
        (pc[r] = "ok" /\ cutoff[r] # ZeroTime /\ slots[r][t] # 0) =>
            /\ pushes[t][slots[r][t]] <= cutoff[r]
            /\ \A d \in 1 .. Len(pushes[t]) :
                   pushes[t][d] <= cutoff[r] => pushes[t][d] <= pushes[t][slots[r][t]]

\* A tag that was listed and old enough is missing from a successful answer
\* only if it has been deleted since: a failed or abandoned lookup never
\* passes for "nothing to release".
NothingMissing ==
    \A r \in Request, t \in Tag :
        (pc[r] = "ok" /\ cutoff[r] # ZeroTime /\ listed[r][t] # 0 /\ slots[r][t] = 0) =>
            t \in gone \/ \A d \in 1 .. listed[r][t] : pushes[t][d] > cutoff[r]

\* The calls in flight of all requests together respect --concurrency, and
\* those of one request its fan-out; no path loses or invents a permit.
RpcsInFlight == {r \in Request : pc[r] \in {"resolving", "listing"}}
LookupsInFlight == {lookup \in Request \X Tag : work[lookup[1]][lookup[2]] = "calling"}
InFlight == Cardinality(RpcsInFlight) + Cardinality(LookupsInFlight)

PermitsBalance ==
    /\ permits = InFlight
    /\ RpcLimit > 0 => permits <= RpcLimit
    /\ \A r \in Request : Cardinality(Running(r)) <= FanOut

\* Lookups that wait for the shared semaphore inside their own group's
\* limit do not block each other: every request is answered.
EveryRequestAnswered == \A r \in Request : (pc[r] = "resolve") ~> Answered(r)

\* repo.go, on minimumReleaseAge: "if the tag has no LastUpdated, omit it
\* (we can't prove it sits outside the window)".
UntimedOmitted ==
    \A r \in Request, t \in Tag :
        (/\ pc[r] = "ok" /\ cutoff[r] # ZeroTime
         /\ listed[r][t] # 0 /\ pushes[t][listed[r][t]] = Unset)
            => slots[r][t] = 0
=============================================================================
