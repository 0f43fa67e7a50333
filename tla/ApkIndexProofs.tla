--------------------------- MODULE ApkIndexProofs ---------------------------
(***************************************************************************)
(* What holds of the apk index for every number of architectures and       *)
(* repositories, every set of names and requests and every bound on the    *)
(* editions.  The argument is one inductive invariant, IInv of module      *)
(* ApkIndex; the safety properties and the refinement of AtomicIndex are   *)
(* read off it.                                                            *)
(***************************************************************************)
EXTENDS ApkIndex, TLAPS

\* The number of feeds is a natural number, so Feed is an initial segment.
LEMMA FeedsNat == NumFeeds \in Nat
  BY SizesAssumption DEF NumFeeds

\* A query is none of the records that stand for "no query".
LEMMA QueryIsSomething == \A q \in Query : q # Nothing
  BY DEF Query, Nothing, Atomic!Nothing

\* An outcome with well-typed hits is a reply.
LEMMA OutcomeType ==
  ASSUME NEW q \in Query, NEW k \in {"badName", "badArch", "notFound", "ok"},
         NEW h \in SUBSET (Feed \X (1 .. MaxEdition))
  PROVE  Outcome(q, k, h) \in Reply
  BY DEF Query, Reply, Outcome, Atomic!Outcome

\* What Get finds are feeds with editions that are in the store.
LEMMA FoundType ==
  ASSUME TypeOK, NEW q
  PROVE  Found(q) \in SUBSET (Feed \X (1 .. MaxEdition))
  BY FeedsNat DEF Found, TypeOK, Feed

\* Where a Load starts.
LEMMA EmptyType == 1 \in 1 .. NumFeeds + 1 /\ EmptyIndex \in [Feed -> 0 .. MaxEdition]
<1>1. 1 \in 1 .. NumFeeds + 1
  BY FeedsNat
<1>2. 0 \in 0 .. MaxEdition
  BY EditionAssumption
<1> QED
  BY <1>1, <1>2 DEF EmptyIndex

\* The initial states satisfy the invariant.
LEMMA InitInv == Init => IInv
<1> SUFFICES ASSUME Init PROVE IInv
  OBVIOUS
<1>1. TypeOK
  <2>1. /\ edition \in [Feed -> 1 .. MaxEdition]
        /\ base \in [Feed -> 1 .. MaxEdition]
        /\ merged \in [Feed -> 0 .. MaxEdition]
        /\ releases \in [Feed -> 0 .. MaxEdition]
    BY EditionAssumption DEF Init, EmptyIndex
  <2>2. next \in 1 .. NumFeeds + 1
    BY FeedsNat DEF Init
  <2>3. /\ asked \in [Reader -> Query \cup {Nothing}]
        /\ reply \in [Reader -> Reply \cup {Nothing}]
    BY DEF Init
  <2> QED
    BY <2>1, <2>2, <2>3 DEF Init, TypeOK
<1>2. AllOrNothing /\ LoadInv /\ ControlInv
  BY FeedsNat DEF Init, AllOrNothing, LoadInv, ControlInv, EmptyIndex, Feed
<1>3. AdmittedInv
  BY DEF Init, AdmittedInv
<1> QED
  BY <1>1, <1>2, <1>3 DEF IInv

\* The types are preserved by every step.
LEMMA NextType == TypeOK /\ [Next]_vars => TypeOK'
<1> SUFFICES ASSUME TypeOK, [Next]_vars PROVE TypeOK'
  OBVIOUS
<1> USE FeedsNat DEF TypeOK
<1>1. ASSUME NEW f \in Feed, Publish(f) PROVE TypeOK'
  <2>1. edition' \in [Feed -> 1 .. MaxEdition]
    BY <1>1, EditionAssumption DEF Publish
  <2> QED
    BY <1>1, <2>1 DEF Publish, loader, store, requests
<1>2. CASE OutageChanges
  BY <1>2 DEF OutageChanges, loader, store, requests
<1>3. CASE Cancel
  BY <1>3 DEF Cancel, upstream, loader, store, requests
<1>4. CASE NewLoader
  BY EmptyType, <1>4 DEF NewLoader, StartLoad, upstream, store, requests
<1>5. CASE Fetch
  <2>1. merged' \in [Feed -> 0 .. MaxEdition]
    BY <1>5 DEF Fetch
  <2>2. next' \in 1 .. NumFeeds + 1
    BY <1>5 DEF Fetch, Feed
  <2> QED
    BY <1>5, <2>1, <2>2 DEF Fetch, upstream, store, requests
<1>6. CASE FetchFails
  BY <1>6 DEF FetchFails, upstream, store, requests
<1>7. CASE Install
  BY <1>7 DEF Install, upstream, requests
<1>8. CASE TickerFires
  BY <1>8 DEF TickerFires, upstream, store, requests
<1>9. CASE Reload
  BY EmptyType, <1>9 DEF Reload, StartLoad, upstream, store, requests
<1>10. CASE RefreshStops
  BY <1>10 DEF RefreshStops, upstream, store, requests
<1>11. ASSUME NEW r \in Reader, NEW q \in Query, CheckArch(r, q) PROVE TypeOK'
  <2>1. Outcome(q, "badName", {}) \in Reply /\ Outcome(q, "badArch", {}) \in Reply
    BY OutcomeType
  <2>2. asked' \in [Reader -> Query \cup {Nothing}] /\ reply' \in [Reader -> Reply \cup {Nothing}]
    BY <1>11, <2>1 DEF CheckArch
  <2> QED
    BY <1>11, <2>2 DEF CheckArch, upstream, loader, store
<1>12. ASSUME NEW r \in Reader, Get(r) PROVE TypeOK'
  <2>1. asked[r] \in Query
    BY <1>12 DEF Get
  <2> DEFINE k == IF Found(asked[r]) = {} THEN "notFound" ELSE "ok"
  <2>2. Outcome(asked[r], k, Found(asked[r])) \in Reply
    BY <2>1, OutcomeType, FoundType
  <2>3. asked' \in [Reader -> Query \cup {Nothing}] /\ reply' \in [Reader -> Reply \cup {Nothing}]
    BY <1>12, <2>2 DEF Get
  <2> QED
    BY <1>12, <2>3 DEF Get, upstream, loader, store
<1>13. CASE UNCHANGED vars
  BY <1>13 DEF vars, upstream, loader, store, requests
<1> QED
  BY <1>1, <1>2, <1>3, <1>4, <1>5, <1>6, <1>7, <1>8, <1>9, <1>10, <1>11, <1>12, <1>13
     DEF Next

\* Upstream publishes: only the newest editions move, and upwards.
LEMMA PublishInv ==
  ASSUME IInv, NEW f \in Feed, Publish(f)
  PROVE  AllOrNothing' /\ LoadInv' /\ ControlInv' /\ AdmittedInv'
<1> USE DEF IInv, Publish, loader, store, requests
<1>1. \A g \in Feed : edition[g] <= edition'[g]
  BY DEF TypeOK
<1>2. LoadInv'
  BY <1>1 DEF LoadInv, TypeOK
<1> QED
  BY <1>2 DEF AllOrNothing, ControlInv, AdmittedInv

\* A Load begins: nothing is merged, and base is what upstream serves now.
LEMMA StartLoadInv ==
  ASSUME IInv, StartLoad, UNCHANGED <<upstream, startup, store, requests>>,
         NumArchs > 0, startup = "ok" \/ pc = "new"
  PROVE  AllOrNothing' /\ LoadInv' /\ ControlInv' /\ AdmittedInv'
<1> USE DEF IInv, StartLoad, upstream, store, requests
<1>1. LoadInv'
  BY FeedsNat DEF LoadInv, TypeOK, EmptyIndex, Feed
<1> QED
  BY <1>1 DEF AllOrNothing, ControlInv, AdmittedInv

\* A fetch: what it merges is the newest edition, at least that of base.
LEMMA FetchInv ==
  ASSUME IInv, Fetch
  PROVE  AllOrNothing' /\ LoadInv' /\ ControlInv' /\ AdmittedInv'
<1> USE DEF IInv, Fetch, upstream, store, requests
<1>1. ASSUME NEW f \in Feed PROVE merged'[f] <= edition'[f]
  BY DEF LoadInv, TypeOK
<1>2. ASSUME NEW f \in Feed, f < next' PROVE base'[f] <= merged'[f]
  BY <1>2, FeedsNat DEF LoadInv, TypeOK, Feed
<1>3. LoadInv'
  BY <1>1, <1>2 DEF LoadInv
<1> QED
  BY <1>3 DEF AllOrNothing, ControlInv, AdmittedInv

\* Replace: every feed has been merged, none older than it was.
LEMMA InstallInv ==
  ASSUME IInv, Install
  PROVE  /\ \A f \in Feed : releases[f] <= releases'[f] /\ base[f] <= releases'[f]
         /\ AllOrNothing' /\ LoadInv' /\ ControlInv' /\ AdmittedInv'
<1> USE DEF IInv, Install, upstream, requests
<1>1. \A f \in Feed : f < next
  BY FeedsNat DEF TypeOK, Feed
<1>2. \A f \in Feed : releases[f] <= base[f] /\ base[f] <= releases'[f]
  BY <1>1 DEF LoadInv
<1>3. \A f \in Feed : releases[f] <= releases'[f] /\ base[f] <= releases'[f] /\ releases'[f] > 0
  BY <1>2 DEF TypeOK
<1>4. NumArchs > 0 /\ archs' # {}
  BY SizesAssumption DEF ControlInv, Arch
<1>5. AllOrNothing' /\ ControlInv'
  BY <1>3, <1>4 DEF AllOrNothing, ControlInv
<1>6. LoadInv'
  BY <1>3 DEF LoadInv
<1>7. AdmittedInv'
  BY DEF AdmittedInv, TypeOK
<1> QED
  BY <1>3, <1>5, <1>6, <1>7

\* Steps of the loader that touch neither the store nor what it is compared
\* with.
LEMMA ControlStepInv ==
  ASSUME IInv, FetchFails \/ TickerFires \/ RefreshStops \/ OutageChanges \/ Cancel
  PROVE  AllOrNothing' /\ LoadInv' /\ ControlInv' /\ AdmittedInv'
<1> USE DEF IInv, AllOrNothing, LoadInv, ControlInv, AdmittedInv
<1>1. CASE FetchFails
  <2>1. AllOrNothing' /\ AdmittedInv'
    BY <1>1 DEF FetchFails, store, requests
  <2>2. LoadInv'
    <3>1. pc' # "loading" /\ UNCHANGED <<edition, merged, base, releases>>
      BY <1>1 DEF FetchFails, upstream, store
    <3> QED
      BY <3>1
  <2>3. ControlInv'
    BY <1>1 DEF FetchFails, store, TypeOK
  <2> QED
    BY <2>1, <2>2, <2>3
<1>2. CASE TickerFires
  BY <1>2 DEF TickerFires, upstream, store, requests
<1>3. CASE RefreshStops
  BY <1>3 DEF RefreshStops, upstream, store, requests
<1>4. CASE OutageChanges
  BY <1>4 DEF OutageChanges, loader, store, requests
<1>5. CASE Cancel
  BY <1>5 DEF Cancel, upstream, loader, store, requests
<1> QED
  BY <1>1, <1>2, <1>3, <1>4, <1>5

\* NewLoader and Reload either begin a Load or give up before one.
LEMMA BeginInv ==
  ASSUME IInv, NewLoader \/ Reload
  PROVE  AllOrNothing' /\ LoadInv' /\ ControlInv' /\ AdmittedInv'
<1>1. CASE NewLoader /\ NumArchs = 0
  BY <1>1 DEF NewLoader, IInv, AllOrNothing, LoadInv, ControlInv, AdmittedInv,
              upstream, store, requests
<1>2. CASE NewLoader /\ NumArchs # 0
  BY <1>2, StartLoadInv, SizesAssumption DEF NewLoader
<1>3. CASE Reload
  <2>1. archs # {} /\ archs \subseteq 1 .. NumArchs
    BY <1>3 DEF Reload, IInv, ControlInv, TypeOK, Arch
  <2>2. PICK a \in 1 .. NumArchs : a \in archs
    BY <2>1
  <2>3. NumArchs > 0
    BY SizesAssumption
  <2> QED
    BY <1>3, <2>3, StartLoadInv DEF Reload, IInv, ControlInv
<1> QED
  BY <1>1, <1>2, <1>3

\* Requests read the store and leave it alone.
LEMMA RequestInv ==
  ASSUME IInv, NEW r \in Reader,
         (\E q \in Query : CheckArch(r, q)) \/ Get(r)
  PROVE  AllOrNothing' /\ LoadInv' /\ ControlInv' /\ AdmittedInv'
<1> USE DEF IInv, upstream, loader, store
<1>1. AllOrNothing' /\ LoadInv' /\ ControlInv'
  BY DEF CheckArch, Get, AllOrNothing, LoadInv, ControlInv
<1>2. ASSUME NEW q \in Query, CheckArch(r, q) PROVE AdmittedInv'
  BY <1>2 DEF CheckArch, AdmittedInv, TypeOK
<1>3. ASSUME Get(r) PROVE AdmittedInv'
  <2>0. asked \in [Reader -> Query \cup {Nothing}]
    BY DEF TypeOK
  <2>1. \A s \in Reader : asked'[s] = asked[s] \/ asked'[s] = Nothing
    BY <1>3, <2>0 DEF Get
  <2>2. UNCHANGED archs
    BY <1>3 DEF Get
  <2> QED
    BY <2>1, <2>2 DEF AdmittedInv
<1> QED
  BY <1>1, <1>2, <1>3

\* The invariant is inductive.
LEMMA NextInv == IInv /\ [Next]_vars => IInv'
<1> SUFFICES ASSUME IInv, [Next]_vars PROVE IInv'
  OBVIOUS
<1>1. TypeOK'
  BY NextType DEF IInv
<1>2. AllOrNothing' /\ LoadInv' /\ ControlInv' /\ AdmittedInv'
  <2>1. CASE UNCHANGED vars
    BY <2>1 DEF IInv, AllOrNothing, LoadInv, ControlInv, AdmittedInv, vars, upstream,
                loader, store, requests
  <2> QED
    BY <2>1, PublishInv, FetchInv, InstallInv, ControlStepInv, BeginInv, RequestInv
       DEF Next
<1> QED
  BY <1>1, <1>2 DEF IInv

\* Every reachable state satisfies the inductive invariant.
THEOREM Invariance == Spec => []IInv
<1> QED
  BY InitInv, NextInv, PTL DEF Spec

\* The variables keep their types.
THEOREM TypeCorrect == Spec => []TypeOK
<1>1. IInv => TypeOK
  BY DEF IInv
<1> QED
  BY Invariance, <1>1, PTL

\* No failure or timing of a Load leaves the store with part of an index.
THEOREM StoreAllOrNothing == Spec => []AllOrNothing
<1>1. IInv => AllOrNothing
  BY DEF IInv
<1> QED
  BY Invariance, <1>1, PTL

\* The only step that changes the store is Install.
LEMMA StoreSteps ==
  ASSUME [Next]_vars, ~Install
  PROVE  UNCHANGED store
  BY DEF Next, vars, Publish, OutageChanges, Cancel, NewLoader, Fetch, FetchFails,
         TickerFires, Reload, RefreshStops, CheckArch, Get, store

\* A Load installs nothing older than upstream served when it began.
THEOREM LoadsAreFresh == Spec => FreshAsOfLoadStart
<1> DEFINE A == pc = "loading" /\ next \notin Feed /\ pc' # pc =>
                  \A f \in Feed : releases'[f] >= base[f]
<1>1. IInv /\ [Next]_vars => A
  <2> SUFFICES ASSUME IInv, [Next]_vars, pc = "loading", next \notin Feed, pc' # pc
               PROVE  \A f \in Feed : releases'[f] >= base[f]
    OBVIOUS
  <2>1. Install
    BY DEF Next, vars, upstream, loader, Publish, OutageChanges, Cancel, NewLoader,
           Fetch, FetchFails, TickerFires, Reload, RefreshStops, CheckArch, Get
  <2>2. TypeOK /\ TypeOK'
    BY NextType DEF IInv
  <2> QED
    BY <2>1, <2>2, InstallInv DEF TypeOK
<1> QED
  BY Invariance, <1>1, PTL DEF Spec, FreshAsOfLoadStart

\* The served edition of a feed never goes back.
THEOREM StoreNeverGoesBack == Spec => NeverGoesBack
<1> DEFINE A == \A f \in Feed : releases'[f] >= releases[f]
<1>1. IInv /\ [Next]_vars => A
  <2> SUFFICES ASSUME IInv, [Next]_vars, NEW f \in Feed
               PROVE  releases'[f] >= releases[f]
    OBVIOUS
  <2>1. TypeOK /\ TypeOK'
    BY NextType DEF IInv
  <2>2. CASE Install
    BY <2>1, <2>2, InstallInv DEF TypeOK
  <2>3. CASE ~Install
    BY <2>1, <2>3, StoreSteps DEF store, TypeOK
  <2> QED
    BY <2>2, <2>3
<1> QED
  BY Invariance, <1>1, PTL DEF Spec, NeverGoesBack

\* The detailed index implements the atomic one: a request is answered as
\* if from the index of one instant.
THEOREM Linearizable == Spec => AtomicReads
<1>1. Init => Atomic!Init
  BY DEF Init, Atomic!Init, EmptyIndex, Nothing
<1>2. IInv /\ [Next]_vars => [Atomic!Next]_(Atomic!avars)
  <2> SUFFICES ASSUME IInv, [Next]_vars
               PROVE  Atomic!Next \/ UNCHANGED Atomic!avars
    OBVIOUS
  <2>0. archs = IF archs # {} THEN Arch ELSE {}
    BY DEF IInv, AllOrNothing
  <2>1. ASSUME NEW f \in Feed, Publish(f) PROVE Atomic!Next
    BY <2>1 DEF Publish, Atomic!Next, Atomic!Publish, store, requests
  <2>2. CASE Install
    <3>1. archs' # {} /\ TypeOK'
      <4>1. 1 \in Arch
        BY <2>2, SizesAssumption DEF Install, IInv, ControlInv, Arch
      <4>2. archs' # {}
        BY <2>2, <4>1 DEF Install
      <4> QED
        BY <4>2, NextType DEF IInv
    <3>2. \A f \in Feed : /\ 1 <= releases'[f] /\ releases[f] <= releases'[f]
                           /\ releases'[f] <= edition[f]
      BY <2>2, <3>1, InstallInv DEF Install, IInv, LoadInv, AllOrNothing, TypeOK
    <3>3. DOMAIN releases' = Feed
      BY <3>1 DEF TypeOK
    <3>4. UNCHANGED <<edition, reply>>
      BY <2>2 DEF Install, upstream, requests
    <3> QED
      BY <3>1, <3>2, <3>3, <3>4 DEF Atomic!Next, Atomic!Install
  <2>3. ASSUME NEW r \in Reader, NEW q \in Query, CheckArch(r, q)
        PROVE  Atomic!Next \/ UNCHANGED Atomic!avars
    <3>1. UNCHANGED <<edition, releases, archs>>
      BY <2>3 DEF CheckArch, upstream, store
    <3>2. q.name \in Name /\ q.arch \in AskedArch
      BY DEF Query
    <3>3. CASE q.name \notin WellFormed
      BY <2>3, <3>1, <3>2, <3>3
         DEF CheckArch, Atomic!Next, Atomic!Respond, Atomic!Answer, Outcome
    <3>4. CASE q.name \in WellFormed /\ q.arch # AnyArch /\ q.arch \notin archs
      BY <2>0, <2>3, <3>1, <3>2, <3>4
         DEF CheckArch, Atomic!Next, Atomic!Respond, Atomic!Answer, Outcome
    <3>5. CASE q.name \in WellFormed /\ ~(q.arch # AnyArch /\ q.arch \notin archs)
      BY <2>3, <3>1, <3>5 DEF CheckArch, Atomic!avars
    <3> QED
      BY <3>3, <3>4, <3>5
  <2>4. ASSUME NEW r \in Reader, Get(r) PROVE Atomic!Next
    <3> DEFINE q == asked[r]
    <3>1. UNCHANGED <<edition, releases, archs>>
      BY <2>4 DEF Get, upstream, store
    <3>2. /\ q.name \in Name /\ q.arch \in AskedArch
          /\ q.name \in WellFormed
          /\ q.arch = AnyArch \/ q.arch \in archs
      BY <2>4 DEF Get, IInv, TypeOK, AdmittedInv, Query
    <3>3. Found(q) = Atomic!Hits(releases, q.name, q.arch)
      BY DEF Found, Atomic!Hits
    <3>4. reply' = [reply EXCEPT ![r] =
              Atomic!Answer(releases, IF archs # {} THEN Arch ELSE {}, q.name, q.arch)]
      BY <2>0, <2>4, <3>2, <3>3 DEF Get, Atomic!Answer, Outcome
    <3> QED
      BY <3>1, <3>2, <3>4 DEF Atomic!Next, Atomic!Respond
  <2>5. CASE UNCHANGED vars
    BY <2>5 DEF vars, upstream, store, requests, Atomic!avars
  <2>6. CASE OutageChanges \/ Cancel \/ NewLoader \/ Fetch \/ FetchFails
               \/ TickerFires \/ Reload \/ RefreshStops
    BY <2>6 DEF OutageChanges, Cancel, NewLoader, Fetch, FetchFails, TickerFires, Reload,
                RefreshStops, upstream, store, requests, Atomic!avars
  <2> QED
    BY <2>1, <2>2, <2>3, <2>4, <2>5, <2>6 DEF Next
<1> QED
  BY Invariance, <1>1, <1>2, PTL DEF Spec, AtomicReads, Atomic!Spec
=============================================================================
