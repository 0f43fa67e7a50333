-------------------------- MODULE RepoReleasesProofs --------------------------
(***************************************************************************)
(* For any number of tags and requests and any limits: permits balance,    *)
(* and a request with a minimum release age is answered from the registry  *)
(* as it was at its cutoff, with nothing missing.                          *)
(***************************************************************************)
EXTENDS RepoReleases, SetLemmas, SequenceTheorems

-----------------------------------------------------------------------------
(* The invariant.                                                          *)

\* Lookups exist while a request is in its fan-out.
Looking == {"todo", "queued", "calling"}
WorkInv ==
    \A r \in Request, t \in Tag :
        /\ work[r][t] # "none" => pc[r] \in {"fanout", "ok", "error"}
        /\ work[r][t] \in Looking => pc[r] = "fanout"

\* The pushes of a tag are as many as there may be, and none is of a time to
\* come.  A cutoff is past, so that what is pushed from then on is younger.
PushesInv == \A t \in Tag :
    /\ Len(pushes[t]) <= MaxPushes
    /\ \A d \in 1 .. Len(pushes[t]) : pushes[t][d] <= now
CutoffInv == \A r \in Request : cutoff[r] < now

\* What a request has of a tag is among its pushes.
AmongPushes == \A r \in Request, t \in Tag :
    listed[r][t] <= Len(pushes[t]) /\ slots[r][t] <= Len(pushes[t])

\* Where no timestamp is missing they are in the order of the pushes.
OrderInv ==
    \A t \in Tag : \A d, e \in 1 .. Len(pushes[t]) :
        /\ pushes[t][d] \in Instant
        /\ d <= e => pushes[t][d] <= pushes[t][e]

\* The digest d of tag t is the newest by the time c.
NewestBy(t, d, c) ==
    /\ pushes[t][d] <= c
    /\ \A e \in 1 .. Len(pushes[t]) : pushes[t][e] <= c => pushes[t][e] <= pushes[t][d]

\* What a request with a cutoff has put into a slot is the newest by then.
PointInv ==
    \A r \in Request, t \in Tag :
        pc[r] \in {"fanout", "ok"} /\ cutoff[r] # ZeroTime /\ slots[r][t] # 0 =>
            NewestBy(t, slots[r][t], cutoff[r])

\* A slot of a listed tag is empty while its lookup is under way, or if that
\* has failed, or for good reason.
Unreleasable(r, t) == t \in gone \/ \A d \in 1 .. listed[r][t] : pushes[t][d] > cutoff[r]
MissingInv ==
    \A r \in Request, t \in Tag :
        cutoff[r] # ZeroTime /\ listed[r][t] # 0 /\ slots[r][t] = 0 =>
            /\ pc[r] = "fanout" => work[r][t] \in Looking \/ failed[r] \/ Unreleasable(r, t)
            /\ pc[r] = "ok" => Unreleasable(r, t)

IInv ==
    /\ TypeOK /\ WorkInv /\ PushesInv /\ CutoffInv /\ AmongPushes
    /\ Untimed = {} => OrderInv /\ PointInv
    /\ MissingInv
    /\ PermitsBalance

-----------------------------------------------------------------------------
(* Constants, and the invariant at the start.                              *)

LEMMA Sizes == NumTags \in Nat /\ MaxTime \in Nat /\ 2 <= MaxTime /\ MaxPushes \in Nat \ {0}
BY SizesAssumption, BoundsAssumption DEF FirstInstant

LEMMA Finite == IsFiniteSet(Tag) /\ IsFiniteSet(Request) /\ IsFiniteSet(Request \X Tag)
<1>1. IsFiniteSet(Tag)
    BY SizesAssumption, FS_Interval DEF Tag
<1> QED
    BY <1>1, SizesAssumption, FS_Product

LEMMA FanOutIsPositive == FanOut \in Nat \ {0}
BY LimitsAssumption DEF FanOut

LEMMA RunningIsFinite ==
    ASSUME NEW r
    PROVE  Running(r) \subseteq Tag /\ IsFiniteSet(Running(r))
<1>1. Running(r) \subseteq Tag
    BY DEF Running, With
<1> QED
    BY <1>1, Finite, FS_Subset

LEMMA InFlightIsFinite ==
    /\ IsFiniteSet(RpcsInFlight) /\ Cardinality(RpcsInFlight) \in Nat
    /\ IsFiniteSet(LookupsInFlight) /\ Cardinality(LookupsInFlight) \in Nat
<1>1. IsFiniteSet(RpcsInFlight)
    BY Finite, FS_Subset DEF RpcsInFlight
<1>2. IsFiniteSet(LookupsInFlight)
    BY Finite, FS_Subset DEF LookupsInFlight
<1> QED
    BY <1>1, <1>2, FS_CardinalityType

\* A tag starts with a push or with none.
LEMMA FirstPushes ==
    ASSUME Init, NEW t \in Tag
    PROVE  /\ pushes[t] \in Seq(Instant \cup {Unset})
           /\ Len(pushes[t]) \in {0, 1}
           /\ \A d \in 1 .. Len(pushes[t]) : pushes[t][d] = FirstInstant
<1>1. pushes[t] = <<>> \/ pushes[t] = <<FirstInstant>>
    BY DEF Init
<1>2. FirstInstant \in Instant
    BY Sizes DEF FirstInstant, Instant
<1>3. CASE pushes[t] = <<>>
    BY <1>3, EmptySeq
<1>4. CASE pushes[t] = <<FirstInstant>>
  <2>1. pushes[t] \in Seq(Instant \cup {Unset})
      BY <1>2, <1>4
  <2>2. Len(pushes[t]) = 1 /\ pushes[t][1] = FirstInstant
      BY <1>4
  <2> QED
      BY <2>1, <2>2
<1> QED
    BY <1>1, <1>3, <1>4

LEMMA InitIInv == Init => IInv
<1> SUFFICES ASSUME Init
             PROVE  IInv
    OBVIOUS
<1>1. TypeOK
  <2>1. pushes \in [Tag -> Seq(Instant \cup {Unset})]
      BY FirstPushes DEF Init
  <2>2. now \in Instant /\ ZeroTime \in ZeroTime .. MaxTime /\ 0 \in 0 .. MaxPushes
      BY Sizes DEF Init, Instant, FirstInstant, ZeroTime
  <2> QED
      BY <2>1, <2>2 DEF Init, TypeOK, NoDigests
<1>2. WorkInv /\ CutoffInv /\ MissingInv /\ PointInv
    BY DEF Init, WorkInv, CutoffInv, MissingInv, PointInv, Looking, NoDigests, FirstInstant, ZeroTime
<1>3. PushesInv /\ AmongPushes
    BY FirstPushes, Sizes DEF Init, PushesInv, AmongPushes, NoDigests, FirstInstant
<1>4. OrderInv
    BY FirstPushes, Sizes DEF OrderInv, Instant, FirstInstant
<1>5. PermitsBalance
  <2>1. RpcsInFlight = {} /\ LookupsInFlight = {} /\ \A r \in Request : Running(r) = {}
      BY DEF Init, RpcsInFlight, LookupsInFlight, Running, With
  <2>2. Cardinality({}) = 0
      BY FS_EmptySet
  <2>3. InFlight = 0 /\ \A r \in Request : Cardinality(Running(r)) = 0
      BY <2>1, <2>2 DEF InFlight
  <2> QED
      BY <2>3, FanOutIsPositive, LimitsAssumption DEF Init, PermitsBalance
<1> QED
    BY <1>1, <1>2, <1>3, <1>4, <1>5 DEF IInv

-----------------------------------------------------------------------------
(* Permits.                                                                *)

\* Permits balance if calls begin with Acquire and end with Release, one at
\* a time, and no fan-out grows past its limit.
LEMMA BalanceKeeps ==
    ASSUME PermitsBalance, permits \in Nat,
           \A q \in Request : Running(q)' \subseteq Running(q) \/ Cardinality(Running(q)') <= FanOut,
           \/ UNCHANGED <<RpcsInFlight, LookupsInFlight, permits>>
           \/ \E x : x \notin RpcsInFlight /\ RpcsInFlight' = RpcsInFlight \cup {x}
                     /\ UNCHANGED LookupsInFlight /\ Acquire
           \/ \E x : x \in RpcsInFlight /\ RpcsInFlight' = RpcsInFlight \ {x}
                     /\ UNCHANGED LookupsInFlight /\ Release
           \/ \E x : x \notin LookupsInFlight /\ LookupsInFlight' = LookupsInFlight \cup {x}
                     /\ UNCHANGED RpcsInFlight /\ Acquire
           \/ \E x : x \in LookupsInFlight /\ LookupsInFlight' = LookupsInFlight \ {x}
                     /\ UNCHANGED RpcsInFlight /\ Release
    PROVE  PermitsBalance'
<1> USE InFlightIsFinite DEF InFlight
<1>1. ASSUME NEW q \in Request
      PROVE  Cardinality(Running(q)') <= FanOut
  <2>1. CASE Running(q)' \subseteq Running(q)
    <3>1. Cardinality(Running(q)') <= Cardinality(Running(q))
        BY <2>1, RunningIsFinite, FS_Subset
    <3>2. Cardinality(Running(q)') \in Nat /\ Cardinality(Running(q)) \in Nat
        BY <2>1, RunningIsFinite, FS_Subset, FS_CardinalityType
    <3> QED
        BY <3>1, <3>2, FanOutIsPositive DEF PermitsBalance
  <2> QED
      BY <1>1, <2>1
<1>2. permits' = InFlight'
  <2>1. permits = Cardinality(RpcsInFlight) + Cardinality(LookupsInFlight)
      BY DEF PermitsBalance
  <2>2. ASSUME NEW x, x \notin RpcsInFlight, RpcsInFlight' = RpcsInFlight \cup {x},
               UNCHANGED LookupsInFlight, Acquire
        PROVE  permits' = InFlight'
      BY <2>1, <2>2, OneMore DEF Acquire
  <2>3. ASSUME NEW x, x \in RpcsInFlight, RpcsInFlight' = RpcsInFlight \ {x},
               UNCHANGED LookupsInFlight, Release
        PROVE  permits' = InFlight'
      BY <2>1, <2>3, OneLess DEF Release
  <2>4. ASSUME NEW x, x \notin LookupsInFlight, LookupsInFlight' = LookupsInFlight \cup {x},
               UNCHANGED RpcsInFlight, Acquire
        PROVE  permits' = InFlight'
      BY <2>1, <2>4, OneMore DEF Acquire
  <2>5. ASSUME NEW x, x \in LookupsInFlight, LookupsInFlight' = LookupsInFlight \ {x},
               UNCHANGED RpcsInFlight, Release
        PROVE  permits' = InFlight'
      BY <2>1, <2>5, OneLess DEF Release
  <2> QED
      BY <2>1, <2>2, <2>3, <2>4, <2>5
<1>3. RpcLimit > 0 => permits' <= RpcLimit
    BY LimitsAssumption DEF PermitsBalance, Acquire, Release
<1> QED
    BY <1>1, <1>2, <1>3 DEF PermitsBalance

\* What the calls in flight depend on.
LEMMA BalanceStays ==
    ASSUME PermitsBalance, UNCHANGED <<pc, work, permits>>
    PROVE  PermitsBalance'
BY DEF PermitsBalance, InFlight, RpcsInFlight, LookupsInFlight, Running, With

-----------------------------------------------------------------------------
(* The registry's steps.                                                   *)

\* Time passes and tags go.
LEMMA RegistryKeeps ==
    ASSUME IInv, UNCHANGED <<request, pushes, permits>>,
           now' \in Instant, now <= now',
           gone \subseteq gone', gone' \subseteq Tag, repoExists' \in BOOLEAN
    PROVE  IInv'
<1> USE DEF IInv, request
<1>1. TypeOK'
    BY DEF TypeOK
<1>2. WorkInv'
    BY DEF WorkInv
<1>3. PushesInv' /\ CutoffInv' /\ AmongPushes'
  <2>1. now \in Int /\ now' \in Int /\ \A r \in Request : cutoff[r] \in Int
      BY Sizes DEF TypeOK, Instant, FirstInstant, ZeroTime
  <2>2. \A t \in Tag : \A d \in 1 .. Len(pushes[t]) : pushes[t][d] \in Int
    <3>1. ASSUME NEW t \in Tag
          PROVE  \A d \in 1 .. Len(pushes[t]) : pushes[t][d] \in Int
      <4>1. pushes[t] \in Seq(Instant \cup {Unset})
          BY <3>1 DEF TypeOK
      <4>2. Instant \cup {Unset} \subseteq Int
          BY DEF Instant, Unset, FirstInstant
      <4> QED
          BY <4>1, <4>2, ElementOfSeq
    <3> QED
        BY <3>1
  <2>3. PushesInv'
      BY <2>1, <2>2 DEF PushesInv
  <2> QED
      BY <2>1, <2>3 DEF CutoffInv, AmongPushes
<1>4. Untimed = {} => OrderInv' /\ PointInv'
    BY DEF OrderInv, PointInv, NewestBy
<1>5. MissingInv'
    BY DEF MissingInv, Unreleasable
<1>6. PermitsBalance'
    BY BalanceStays
<1> QED
    BY <1>1, <1>2, <1>3, <1>4, <1>5, <1>6

LEMMA PushKeeps ==
    ASSUME IInv, NEW t \in Tag, Push(t)
    PROVE  IInv'
<1> DEFINE n == Len(pushes[t])
<1>1. PICK ts \in {now} \cup (IF t \in Untimed THEN {Unset} ELSE {}) :
          pushes' = [pushes EXCEPT ![t] = Append(@, ts)]
    BY DEF Push
<1>2. /\ n < MaxPushes
      /\ UNCHANGED <<now, gone, repoExists, pc, cutoff, listed, work, slots, failed, left, permits>>
    BY DEF Push, request
<1>3. pushes \in [Tag -> Seq(Instant \cup {Unset})] /\ now \in Instant
    BY DEF IInv, TypeOK
<1>4. \A u \in Tag : pushes[u] \in Seq(Instant \cup {Unset}) /\ Len(pushes[u]) \in Nat
    BY <1>3, LenProperties
<1>5. ts \in Instant \cup {Unset} /\ ts \in Int /\ now \in Int /\ ts <= now
    BY <1>3, Sizes DEF Instant, Unset, FirstInstant
<1>6. /\ pushes'[t] \in Seq(Instant \cup {Unset})
      /\ Len(pushes'[t]) = n + 1
      /\ \A d \in 1 .. n : pushes'[t][d] = pushes[t][d]
      /\ pushes'[t][n + 1] = ts
  <2>1. pushes'[t] = Append(pushes[t], ts)
      BY <1>1, <1>3
  <2> QED
      BY <1>4, <1>5, <2>1, AppendProperties
<1>7. \A u \in Tag : u # t => pushes'[u] = pushes[u]
    BY <1>1, <1>3
<1>8. \A u \in Tag : \A d \in 1 .. Len(pushes[u]) : pushes[u][d] \in Int /\ pushes[u][d] <= now
  <2>1. ASSUME NEW u \in Tag, NEW d \in 1 .. Len(pushes[u])
        PROVE  pushes[u][d] \in Int
    <3>1. pushes[u][d] \in Instant \cup {Unset}
        BY <1>4, <2>1, ElementOfSeq
    <3> QED
        BY <3>1 DEF Instant, Unset, FirstInstant
  <2> QED
      BY <2>1 DEF IInv, PushesInv
<1>9. \A u \in Tag : /\ Len(pushes[u]) <= Len(pushes'[u])
                     /\ \A d \in 1 .. Len(pushes[u]) : pushes'[u][d] = pushes[u][d]
                     /\ \A d \in 1 .. Len(pushes'[u]) :
                           d \in 1 .. Len(pushes[u]) \/ (u = t /\ d = n + 1)
    BY <1>4, <1>6, <1>7
<1>10. \A r \in Request, u \in Tag :
          /\ listed[r][u] \in Nat /\ listed[r][u] <= Len(pushes[u])
          /\ slots[r][u] \in Nat /\ slots[r][u] <= Len(pushes[u])
    BY Sizes DEF IInv, TypeOK, AmongPushes
<1>11. TypeOK'
  <2>1. pushes' \in [Tag -> Seq(Instant \cup {Unset})]
    <3>1. DOMAIN pushes' = Tag /\ pushes' = [u \in Tag |-> pushes'[u]]
        BY <1>1, <1>3
    <3>2. \A u \in Tag : pushes'[u] \in Seq(Instant \cup {Unset})
        BY <1>4, <1>6, <1>7
    <3> QED
        BY <3>1, <3>2
  <2> QED
      BY <1>2, <2>1 DEF IInv, TypeOK
<1>12. WorkInv' /\ CutoffInv'
    BY <1>2 DEF IInv, WorkInv, CutoffInv
<1>13. PushesInv'
  <2>1. \A u \in Tag : Len(pushes'[u]) <= MaxPushes
      BY <1>2, <1>4, <1>6, <1>7, Sizes DEF IInv, PushesInv
  <2>2. \A u \in Tag : \A d \in 1 .. Len(pushes'[u]) : pushes'[u][d] <= now
      BY <1>5, <1>6, <1>8, <1>9
  <2> QED
      BY <1>2, <2>1, <2>2 DEF PushesInv
<1>14. AmongPushes'
  <2>1. \A u \in Tag : Len(pushes'[u]) \in Nat
      BY <1>4, <1>6, <1>7
  <2> QED
      BY <1>2, <1>4, <1>9, <1>10, <2>1 DEF AmongPushes
<1>15. ASSUME Untimed = {}
       PROVE  OrderInv' /\ PointInv'
  <2>1. ts = now
      BY <1>15
  <2>2. OrderInv'
    <3> SUFFICES ASSUME NEW u \in Tag, NEW d \in 1 .. Len(pushes'[u]), NEW e \in 1 .. Len(pushes'[u])
                 PROVE  /\ pushes'[u][d] \in Instant
                        /\ d <= e => pushes'[u][d] <= pushes'[u][e]
        BY DEF OrderInv
    <3>1. /\ d \in 1 .. Len(pushes[u]) \/ (u = t /\ d = n + 1)
          /\ e \in 1 .. Len(pushes[u]) \/ (u = t /\ e = n + 1)
        BY <1>9
    <3>2. CASE d \in 1 .. Len(pushes[u]) /\ e \in 1 .. Len(pushes[u])
        BY <1>9, <1>15, <3>2 DEF IInv, OrderInv
    <3>3. CASE d \in 1 .. Len(pushes[u]) /\ u = t /\ e = n + 1
        BY <1>6, <1>8, <1>9, <1>15, <2>1, <3>3 DEF IInv, OrderInv
    <3>4. CASE u = t /\ d = n + 1
      <4>1. pushes'[u][d] = now
          BY <1>6, <2>1, <3>4
      <4>2. d <= e => e = d
          BY <1>4, <1>6, <3>4
      <4> QED
          BY <1>3, <1>5, <4>1, <4>2
    <3> QED
        BY <3>1, <3>2, <3>3, <3>4
  <2>3. ASSUME NEW r \in Request, NEW u \in Tag,
               pc[r] \in {"fanout", "ok"}, cutoff[r] # ZeroTime, slots[r][u] # 0
        PROVE  NewestBy(u, slots[r][u], cutoff[r])'
    <3>1. slots[r][u] \in 1 .. Len(pushes[u])
        BY <1>4, <1>10, <2>3
    <3>2. NewestBy(u, slots[r][u], cutoff[r])
        BY <1>15, <2>3 DEF IInv, PointInv
    <3>3. ~ (now <= cutoff[r])
      <4>1. cutoff[r] < now /\ cutoff[r] \in Int
          BY DEF IInv, CutoffInv, TypeOK, ZeroTime
      <4> QED
          BY <1>5, <4>1
    <3>4. \A e \in 1 .. Len(pushes'[u]) :
              pushes'[u][e] <= cutoff[r] => pushes'[u][e] <= pushes'[u][slots[r][u]]
        BY <1>6, <1>9, <2>1, <3>1, <3>2, <3>3 DEF NewestBy
    <3> QED
        BY <1>2, <1>9, <3>1, <3>2, <3>4 DEF NewestBy
  <2> QED
      BY <1>2, <2>2, <2>3 DEF PointInv
<1>16. MissingInv'
  <2>1. \A r \in Request, u \in Tag : \A d \in 1 .. listed[r][u] : d \in 1 .. Len(pushes[u])
      BY <1>4, <1>10
  <2>2. \A r \in Request, u \in Tag : Unreleasable(r, u) => Unreleasable(r, u)'
      BY <1>2, <1>9, <2>1 DEF Unreleasable
  <2> QED
      BY <1>2, <2>2 DEF IInv, MissingInv
<1>17. PermitsBalance'
    BY <1>2, BalanceStays DEF IInv
<1> QED
    BY <1>11, <1>12, <1>13, <1>14, <1>15, <1>16, <1>17 DEF IInv

-----------------------------------------------------------------------------
(* The request's steps.                                                    *)

\* Where a request has an RPC in flight other than a lookup.
Calling == {"resolving", "listing"}

LEMMA PermitsAreCounted ==
    ASSUME PermitsBalance'
    PROVE  permits' \in Nat
<1>1. IsFiniteSet(RpcsInFlight') /\ IsFiniteSet(LookupsInFlight')
  <2>1. RpcsInFlight' \subseteq Request /\ LookupsInFlight' \subseteq Request \X Tag
      BY DEF RpcsInFlight, LookupsInFlight
  <2> QED
      BY <2>1, Finite, FS_Subset
<1>2. Cardinality(RpcsInFlight') \in Nat /\ Cardinality(LookupsInFlight') \in Nat
    BY <1>1, FS_CardinalityType
<1> QED
    BY <1>2 DEF PermitsBalance, InFlight

\* A request that changes its place, and has a permit exactly while it is
\* calling; lookups neither start nor end.
LEMMA RpcKeepsBalance ==
    ASSUME IInv, NEW r \in Request, NEW label,
           pc' = [pc EXCEPT ![r] = label],
           \/ UNCHANGED work
           \/ UNCHANGED LookupsInFlight /\ \A q \in Request : UNCHANGED Running(q),
           \/ UNCHANGED permits /\ pc[r] \notin Calling /\ label \notin Calling
           \/ Acquire /\ pc[r] \notin Calling /\ label \in Calling
           \/ Release /\ pc[r] \in Calling /\ label \notin Calling
    PROVE  PermitsBalance' /\ permits' \in Nat
<1>1. pc \in [Request -> {"idle", "resolve", "resolving", "list", "listing", "fanout",
                          "ok", "badRequest", "notFound", "error"}] /\ permits \in Nat
    BY DEF IInv, TypeOK
<1>2. \A q \in Request : pc'[q] = IF q = r THEN label ELSE pc[q]
    BY <1>1
<1>3. UNCHANGED LookupsInFlight /\ \A q \in Request : Running(q)' \subseteq Running(q)
    BY DEF LookupsInFlight, Running, With
<1>4. r \in RpcsInFlight <=> pc[r] \in Calling
    BY DEF RpcsInFlight, Calling
<1>5. /\ label \in Calling => RpcsInFlight' = RpcsInFlight \cup {r}
      /\ label \notin Calling => RpcsInFlight' = RpcsInFlight \ {r}
    BY <1>2 DEF RpcsInFlight, Calling
<1>6. PermitsBalance
    BY DEF IInv
<1>7. PermitsBalance'
  <2>1. CASE UNCHANGED permits /\ pc[r] \notin Calling /\ label \notin Calling
    <3>1. UNCHANGED RpcsInFlight
        BY <1>4, <1>5, <2>1
    <3> QED
        BY <1>1, <1>3, <1>6, <2>1, <3>1, BalanceKeeps
  <2>2. CASE Acquire /\ pc[r] \notin Calling /\ label \in Calling
      BY <1>1, <1>3, <1>4, <1>5, <1>6, <2>2, BalanceKeeps
  <2>3. CASE Release /\ pc[r] \in Calling /\ label \notin Calling
      BY <1>1, <1>3, <1>4, <1>5, <1>6, <2>3, BalanceKeeps
  <2> QED
      BY <2>1, <2>2, <2>3
<1> QED
    BY <1>7, PermitsAreCounted

\* A request that changes its place and has no lookup under way, before it
\* and after.
LEMMA MoveKeeps ==
    ASSUME IInv, NEW r \in Request,
           NEW label \in {"resolve", "resolving", "list", "listing",
                          "ok", "badRequest", "notFound", "error"},
           pc' = [pc EXCEPT ![r] = label],
           UNCHANGED <<registry, listed, work, slots, failed, left>>,
           PermitsBalance', permits' \in Nat,
           \A t \in Tag : work[r][t] \notin Looking,
           label \notin {"ok", "error"} => pc[r] \notin {"fanout", "ok", "error"},
           label = "ok" => pc[r] = "fanout" /\ ~failed[r],
           NEW c \in ZeroTime .. MaxTime, c < now, cutoff' = [cutoff EXCEPT ![r] = c],
           c = cutoff[r] \/ label = "resolve"
    PROVE  IInv'
<1>1. /\ \A q \in Request : pc'[q] = IF q = r THEN label ELSE pc[q]
      /\ \A q \in Request : cutoff'[q] = IF q = r THEN c ELSE cutoff[q]
    BY DEF IInv, TypeOK
<1>2. UNCHANGED <<now, pushes, gone, repoExists>>
    BY DEF registry
<1>3. TypeOK'
    BY <1>2 DEF IInv, TypeOK
<1>4. WorkInv'
    BY <1>1 DEF IInv, WorkInv
<1>5. CutoffInv' /\ PushesInv' /\ AmongPushes'
    BY <1>1, <1>2 DEF IInv, CutoffInv, PushesInv, AmongPushes
<1>6. Untimed = {} => OrderInv' /\ PointInv'
  <2>1. OrderInv => OrderInv'
      BY <1>2 DEF OrderInv
  <2>2. PointInv => PointInv'
      BY <1>1, <1>2 DEF PointInv, NewestBy
  <2> QED
      BY <2>1, <2>2 DEF IInv
<1>7. MissingInv'
    BY <1>1, <1>2 DEF IInv, MissingInv, Unreleasable
<1> QED
    BY <1>3, <1>4, <1>5, <1>6, <1>7 DEF IInv

\* The lookups of a request are under way in its fan-out only.
LEMMA NotLooking ==
    ASSUME IInv, NEW r \in Request, pc[r] # "fanout"
    PROVE  \A t \in Tag : work[r][t] \notin Looking
BY DEF IInv, WorkInv

\* A cutoff that is left alone.
LEMMA SameCutoff ==
    ASSUME IInv, NEW r \in Request, UNCHANGED cutoff
    PROVE  /\ cutoff[r] \in ZeroTime .. MaxTime /\ cutoff[r] < now
           /\ cutoff' = [cutoff EXCEPT ![r] = cutoff[r]]
BY DEF IInv, TypeOK, CutoffInv

LEMMA ArriveKeeps ==
    ASSUME IInv, NEW r \in Request, Arrive(r)
    PROVE  IInv'
<1>1. /\ pc[r] = "idle" /\ pc' = [pc EXCEPT ![r] = "resolve"]
      /\ UNCHANGED <<registry, listed, work, slots, failed, left, permits>>
    BY DEF Arrive
<1>2. PICK c \in ZeroTime .. MaxTime : c < now /\ cutoff' = [cutoff EXCEPT ![r] = c]
  <2>1. PICK age \in Int : /\ age <= 0 \/ now - age >= Epoch
                           /\ cutoff' = [cutoff EXCEPT ![r] = CutoffFor(age)]
    <3>1. PICK raw \in Ages :
              LET age == IF raw = Unsaid THEN DefaultAge ELSE raw
              IN  /\ raw = Unsaid \/ Parses(raw)
                  /\ age <= 0 \/ now - age >= Epoch
                  /\ cutoff' = [cutoff EXCEPT ![r] = CutoffFor(age)]
        BY DEF Arrive
    <3> DEFINE age == IF raw = Unsaid THEN DefaultAge ELSE raw
    <3>2. age \in Int
        BY <3>1, AgesAssumption DEF Parses
    <3> QED
        BY <3>1, <3>2
  <2>2. now \in 2 .. MaxTime
      BY DEF IInv, TypeOK, Instant, FirstInstant
  <2>3. CutoffFor(age) \in ZeroTime .. MaxTime /\ CutoffFor(age) < now
      BY <2>1, <2>2, Sizes DEF CutoffFor, ZeroTime, Epoch
  <2> QED
      BY <2>1, <2>3
<1>3. PermitsBalance' /\ permits' \in Nat
    BY <1>1, RpcKeepsBalance DEF Calling
<1> QED
    BY <1>1, <1>2, <1>3, NotLooking, MoveKeeps

LEMMA RefuseKeeps ==
    ASSUME IInv, NEW r \in Request, Refuse(r)
    PROVE  IInv'
<1>1. /\ pc[r] = "idle" /\ pc' = [pc EXCEPT ![r] = "badRequest"]
      /\ UNCHANGED <<registry, cutoff, listed, work, slots, failed, left, permits>>
    BY DEF Refuse
<1>2. PermitsBalance' /\ permits' \in Nat
    BY <1>1, RpcKeepsBalance DEF Calling
<1> QED
    BY <1>1, <1>2, NotLooking, SameCutoff, MoveKeeps

LEMMA ClientLeavesKeeps ==
    ASSUME IInv, NEW r \in Request, ClientLeaves(r)
    PROVE  IInv'
<1>1. /\ left' = [left EXCEPT ![r] = TRUE]
      /\ UNCHANGED <<now, pushes, gone, repoExists, pc, cutoff, listed, work, slots, failed, permits>>
    BY DEF ClientLeaves, registry
<1>2. TypeOK'
    BY <1>1 DEF IInv, TypeOK
<1>3. PermitsBalance'
    BY <1>1, BalanceStays DEF IInv
<1> QED
    BY <1>1, <1>2, <1>3 DEF IInv, WorkInv, PushesInv, CutoffInv, AmongPushes, OrderInv,
                            PointInv, NewestBy, MissingInv, Unreleasable

LEMMA StartRpcKeeps ==
    ASSUME IInv, NEW r \in Request, StartRpc(r)
    PROVE  IInv'
<1>1. PICK label \in {"resolving", "listing"} : pc' = [pc EXCEPT ![r] = label]
    BY DEF StartRpc
<1>2. /\ pc[r] \in {"resolve", "list"} /\ Acquire
      /\ UNCHANGED <<registry, cutoff, listed, work, slots, failed, left>>
    BY DEF StartRpc
<1>3. PermitsBalance' /\ permits' \in Nat
    BY <1>1, <1>2, RpcKeepsBalance DEF Calling
<1> QED
    BY <1>1, <1>2, <1>3, NotLooking, SameCutoff, MoveKeeps

LEMMA RpcFailsKeeps ==
    ASSUME IInv, NEW r \in Request, RpcFails(r)
    PROVE  IInv'
<1>1. /\ pc' = [pc EXCEPT ![r] = "error"]
      /\ \/ pc[r] \in {"resolve", "list"} /\ UNCHANGED permits
         \/ pc[r] \in {"resolving", "listing"} /\ Release
      /\ UNCHANGED <<registry, cutoff, listed, work, slots, failed, left>>
    BY DEF RpcFails
<1>2. PermitsBalance' /\ permits' \in Nat
    BY <1>1, RpcKeepsBalance DEF Calling
<1> QED
    BY <1>1, <1>2, NotLooking, SameCutoff, MoveKeeps

LEMMA ResolvedKeeps ==
    ASSUME IInv, NEW r \in Request, Resolved(r)
    PROVE  IInv'
<1>1. PICK label \in {"list", "notFound"} : pc' = [pc EXCEPT ![r] = label]
    BY DEF Resolved
<1>2. /\ pc[r] = "resolving" /\ Release
      /\ UNCHANGED <<registry, cutoff, listed, work, slots, failed, left>>
    BY DEF Resolved
<1>3. PermitsBalance' /\ permits' \in Nat
    BY <1>1, <1>2, RpcKeepsBalance DEF Calling
<1> QED
    BY <1>1, <1>2, <1>3, NotLooking, SameCutoff, MoveKeeps

LEMMA CollectKeeps ==
    ASSUME IInv, NEW r \in Request, Collect(r)
    PROVE  IInv'
<1> DEFINE label == IF failed[r] THEN "error" ELSE "ok"
<1>1. /\ pc[r] = "fanout" /\ pc' = [pc EXCEPT ![r] = label]
      /\ \A t \in Tag : work[r][t] \in {"none", "done"}
      /\ UNCHANGED <<registry, cutoff, listed, work, slots, failed, left, permits>>
    BY DEF Collect
<1>2. label \in {"ok", "error"} /\ (label = "ok" => ~failed[r])
    BY DEF IInv, TypeOK
<1> HIDE DEF label
<1>3. PermitsBalance' /\ permits' \in Nat
    BY <1>1, <1>2, RpcKeepsBalance DEF Calling
<1>4. \A t \in Tag : work[r][t] \notin Looking
    BY <1>1 DEF Looking
<1> QED
    BY <1>1, <1>2, <1>3, <1>4, SameCutoff, MoveKeeps

-----------------------------------------------------------------------------
(* The fan-out.                                                            *)

WorkState == {"none", "todo", "queued", "calling", "done"}

\* A step that lists or looks up tags, by what it leaves the request with.
LEMMA FanOutKeeps ==
    ASSUME IInv, NEW r \in Request, TypeOK', PermitsBalance',
           UNCHANGED <<registry, cutoff>>,
           \A q \in Request : q # r => /\ pc'[q] = pc[q]
                                       /\ listed'[q] = listed[q]
                                       /\ work'[q] = work[q]
                                       /\ slots'[q] = slots[q]
                                       /\ failed'[q] = failed[q],
           pc'[r] \in {"fanout", "ok"},
           \A t \in Tag : work'[r][t] \in Looking => pc'[r] = "fanout",
           \A t \in Tag : listed'[r][t] <= Len(pushes[t]) /\ slots'[r][t] <= Len(pushes[t]),
           Untimed = {} => \A t \in Tag :
               cutoff[r] # ZeroTime /\ slots'[r][t] # 0 => NewestBy(t, slots'[r][t], cutoff[r]),
           \A t \in Tag : cutoff[r] # ZeroTime /\ listed'[r][t] # 0 /\ slots'[r][t] = 0 =>
               \/ pc'[r] = "fanout" /\ (work'[r][t] \in Looking \/ failed'[r])
               \/ t \in gone
               \/ \A d \in 1 .. listed'[r][t] : pushes[t][d] > cutoff[r]
    PROVE  IInv'
<1>1. UNCHANGED <<now, pushes, gone, repoExists, cutoff>>
    BY DEF registry
<1>2. WorkInv'
    BY DEF IInv, WorkInv
<1>3. CutoffInv' /\ PushesInv' /\ AmongPushes'
    BY <1>1 DEF IInv, CutoffInv, PushesInv, AmongPushes
<1>4. Untimed = {} => OrderInv' /\ PointInv'
  <2>1. OrderInv => OrderInv'
      BY <1>1 DEF OrderInv
  <2>2. Untimed = {} /\ PointInv => PointInv'
      BY <1>1 DEF PointInv, NewestBy
  <2> QED
      BY <2>1, <2>2 DEF IInv
<1>5. MissingInv'
  <2> SUFFICES ASSUME NEW q \in Request, NEW t \in Tag
               PROVE  MissingInv!(q, t)'
      BY DEF MissingInv
  <2>1. CASE q = r
      BY <1>1, <2>1 DEF Unreleasable
  <2>2. CASE q # r
      BY <1>1, <2>2 DEF IInv, MissingInv, Unreleasable
  <2> QED
      BY <2>1, <2>2
<1> QED
    BY <1>2, <1>3, <1>4, <1>5 DEF IInv

\* A lookup takes its permit when it starts and gives it back when it ends.
LEMMA LookupKeepsBalance ==
    ASSUME IInv, NEW r \in Request, NEW t \in Tag, NEW state,
           SetWork(r, t, state), UNCHANGED pc,
           \/ /\ work[r][t] = "todo" /\ state = "queued" /\ UNCHANGED permits
              /\ Cardinality(Running(r)) < FanOut
           \/ work[r][t] = "queued" /\ state = "calling" /\ Acquire
           \/ work[r][t] = "calling" /\ state = "done" /\ Release
           \/ work[r][t] = "queued" /\ state = "done" /\ UNCHANGED permits
    PROVE  PermitsBalance' /\ permits' \in Nat
<1>1. PermitsBalance /\ permits \in Nat /\ work \in [Request -> [Tag -> WorkState]]
    BY DEF IInv, TypeOK, WorkState
<1>2. \A q \in Request, u \in Tag : work'[q][u] = IF q = r /\ u = t THEN state ELSE work[q][u]
    BY <1>1 DEF SetWork
<1>3. UNCHANGED RpcsInFlight
    BY DEF RpcsInFlight
<1>4. \A q \in Request : Running(q)' \subseteq Running(q) \/ Cardinality(Running(q)') <= FanOut
  <2>1. \A q \in Request : q # r => Running(q)' = Running(q)
      BY <1>2 DEF Running, With
  <2>2. CASE state = "queued"
    <3>1. Running(r)' = Running(r) \cup {t} /\ t \notin Running(r)
        BY <1>2, <2>2 DEF Running, With
    <3>2. Cardinality(Running(r)') = Cardinality(Running(r)) + 1 /\ Cardinality(Running(r)) \in Nat
        BY <3>1, RunningIsFinite, OneMore
    <3>3. Cardinality(Running(r)') <= FanOut
        BY <2>2, <3>2, FanOutIsPositive
    <3> QED
        BY <2>1, <3>3
  <2>3. CASE state # "queued"
    <3>1. Running(r)' \subseteq Running(r)
        BY <1>2, <2>3 DEF Running, With
    <3> QED
        BY <2>1, <3>1
  <2> QED
      BY <2>2, <2>3
<1>5. <<r, t>> \in LookupsInFlight <=> work[r][t] = "calling"
    BY DEF LookupsInFlight
<1>6. LookupsInFlight' = IF state = "calling" THEN LookupsInFlight \cup {<<r, t>>}
                                             ELSE LookupsInFlight \ {<<r, t>>}
  <2>1. \A lookup \in Request \X Tag :
            work'[lookup[1]][lookup[2]] = IF lookup = <<r, t>> THEN state
                                                               ELSE work[lookup[1]][lookup[2]]
      BY <1>2
  <2> QED
      BY <2>1 DEF LookupsInFlight
<1>7. PermitsBalance'
  <2>1. CASE UNCHANGED permits /\ work[r][t] # "calling" /\ state # "calling"
    <3>1. UNCHANGED LookupsInFlight
        BY <1>5, <1>6, <2>1
    <3> QED
        BY <1>1, <1>3, <1>4, <2>1, <3>1, BalanceKeeps
  <2>2. CASE Acquire /\ work[r][t] # "calling" /\ state = "calling"
      BY <1>1, <1>3, <1>4, <1>5, <1>6, <2>2, BalanceKeeps
  <2>3. CASE Release /\ work[r][t] = "calling" /\ state # "calling"
      BY <1>1, <1>3, <1>4, <1>5, <1>6, <2>3, BalanceKeeps
  <2> QED
      BY <2>1, <2>2, <2>3
<1> QED
    BY <1>7, PermitsAreCounted

\* The pushes of a tag, and what of it a list shows.
LEMMA PushesAre ==
    ASSUME IInv, NEW t \in Tag
    PROVE  /\ Len(pushes[t]) \in 0 .. MaxPushes
           /\ \A d \in 1 .. Len(pushes[t]) : pushes[t][d] \in Instant \cup {Unset}
           /\ Current(t) \in 0 .. Len(pushes[t])
           /\ t \in gone => Current(t) = 0
<1>1. pushes[t] \in Seq(Instant \cup {Unset})
    BY DEF IInv, TypeOK
<1>2. Len(pushes[t]) \in 0 .. MaxPushes
    BY <1>1, LenProperties, Sizes DEF IInv, PushesInv
<1> QED
    BY <1>1, <1>2, ElementOfSeq DEF Current

\* A timestamp that is read is never the zero time, and is the push's own
\* where none is missing.
LEMMA TimesRead ==
    ASSUME NEW ts \in Instant \cup {Unset}
    PROVE  /\ AsTime(ts) \in Int /\ AsTime(ts) # ZeroTime /\ ts <= AsTime(ts)
           /\ ts \in Instant => AsTime(ts) = ts
           /\ AsTime(ts) = ts \/ AsTime(ts) = 1
BY DEF AsTime, Instant, Unset, Epoch, FirstInstant, ZeroTime

LEMMA ListedKeeps ==
    ASSUME IInv, NEW r \in Request, Listed(r)
    PROVE  IInv'
<1> DEFINE l == [t \in Tag |-> Current(t)]
           c == cutoff[r]
           asIs == [t \in Tag |-> IF t \in AsIs(l, c) THEN l[t] ELSE 0]
           todo == [t \in Tag |-> IF t \in Rewound(l, c) THEN "todo" ELSE "none"]
           label == IF c = ZeroTime THEN "ok" ELSE "fanout"
           s == IF c = ZeroTime THEN l ELSE asIs
           w == IF c = ZeroTime THEN work[r] ELSE todo
<1>1. /\ pc[r] = "listing" /\ Release
      /\ listed' = [listed EXCEPT ![r] = l]
      /\ UNCHANGED <<registry, cutoff, failed, left>>
    BY DEF Listed
<1>2. pc' = [pc EXCEPT ![r] = label] /\ slots' = [slots EXCEPT ![r] = s]
  <2>1. CASE c = ZeroTime
      BY <2>1 DEF Listed
  <2>2. CASE c # ZeroTime
      BY <2>2 DEF Listed
  <2> QED
      BY <2>1, <2>2
<1>3. work' = [work EXCEPT ![r] = w] /\ work \in [Request -> [Tag -> WorkState]]
  <2>1. work \in [Request -> [Tag -> WorkState]]
      BY DEF IInv, TypeOK, WorkState
  <2>2. CASE c = ZeroTime
      BY <2>1, <2>2 DEF Listed
  <2>3. CASE c # ZeroTime
      BY <2>1, <2>3 DEF Listed
  <2> QED
      BY <2>1, <2>2, <2>3
<1>4. label \in {"fanout", "ok"} /\ (label = "ok" <=> c = ZeroTime)
    OBVIOUS
<1>5. \A t \in Tag :
          /\ l[t] \in 0 .. Len(pushes[t]) /\ l[t] \in 0 .. MaxPushes
          /\ Len(pushes[t]) \in Nat
          /\ \A d \in 1 .. Len(pushes[t]) : pushes[t][d] \in Instant \cup {Unset}
    BY PushesAre, Sizes
<1>6. \A t \in Tag : l[t] = Len(pushes[t]) \/ l[t] = 0
    BY DEF Current
<1>7. c \in Int
    BY DEF IInv, TypeOK, ZeroTime
<1>8. \A t \in Tag : /\ s[t] = l[t] \/ s[t] = 0
                     /\ w[t] \in WorkState
                     /\ w[t] \in Looking => c # ZeroTime
  <2>1. \A t \in Tag : work[r][t] \notin Looking /\ work[r][t] \in WorkState
      BY <1>1, <1>3, NotLooking
  <2> QED
      BY <2>1 DEF WorkState
<1>9. l \in [Tag -> 0 .. MaxPushes] /\ s \in [Tag -> 0 .. MaxPushes] /\ w \in [Tag -> WorkState]
    BY <1>3, <1>5, Sizes DEF WorkState
\* A tag's slot holds the digest listed unless that is younger than the cutoff.
<1>10. ASSUME c # ZeroTime, NEW t \in Tag, l[t] # 0
       PROVE  IF LastUpdated(l, t) > c THEN w[t] = "todo" ELSE s[t] = l[t]
  <2>1. l[t] \in 1 .. Len(pushes[t])
      BY <1>5, <1>10
  <2>2. LastUpdated(l, t) # ZeroTime
      BY <1>5, <2>1, TimesRead DEF LastUpdated
  <2> QED
      BY <1>10, <2>2 DEF AsIs, Rewound
<1>11. ASSUME Untimed = {}, c # ZeroTime, NEW t \in Tag, s[t] # 0
       PROVE  NewestBy(t, s[t], c)
  <2>1. s[t] = l[t] /\ l[t] # 0 /\ l[t] = Len(pushes[t]) /\ t \in AsIs(l, c)
      BY <1>6, <1>8, <1>11
  <2>2. l[t] \in 1 .. Len(pushes[t]) /\ ~ (LastUpdated(l, t) > c)
      BY <1>5, <2>1 DEF AsIs, Rewound
  <2>3. \A d \in 1 .. Len(pushes[t]) :
            /\ pushes[t][d] \in Instant
            /\ d <= l[t] => pushes[t][d] <= pushes[t][l[t]]
      BY <1>11, <2>2 DEF IInv, OrderInv
  <2>4. LastUpdated(l, t) = pushes[t][l[t]] /\ pushes[t][l[t]] \in Int
      BY <2>2, <2>3, TimesRead DEF LastUpdated, Instant, FirstInstant
  <2>5. \A e \in 1 .. Len(pushes[t]) : e <= l[t]
      BY <1>5, <2>1
  <2> QED
      BY <1>7, <2>1, <2>2, <2>3, <2>4, <2>5 DEF NewestBy
<1>12. UNCHANGED LookupsInFlight /\ \A q \in Request : UNCHANGED Running(q)
  <2>1. \A q \in Request, t \in Tag :
            \/ work'[q][t] = work[q][t]
            \/ work'[q][t] \in {"none", "todo"} /\ work[q][t] \notin Looking
    <3>1. \A t \in Tag : work[r][t] \notin Looking
        BY <1>1, NotLooking
    <3>2. \A t \in Tag : w[t] = work[r][t] \/ w[t] \in {"none", "todo"}
        OBVIOUS
    <3> QED
        BY <1>3, <3>1, <3>2
  <2> HIDE DEF w
  <2> QED
      BY <2>1 DEF LookupsInFlight, Running, With, Looking
<1> HIDE DEF l, c, s, w, label, asIs, todo
<1>13. \A t \in Tag : c # ZeroTime /\ l[t] # 0 /\ s[t] = 0 => label = "fanout" /\ w[t] \in Looking
    BY <1>4, <1>10 DEF Looking
<1>14. PermitsBalance' /\ permits' \in Nat
    BY <1>1, <1>2, <1>4, <1>12, RpcKeepsBalance DEF Calling
<1>15. TypeOK'
    BY <1>1, <1>2, <1>3, <1>4, <1>9, <1>14 DEF IInv, TypeOK, registry, WorkState
<1>16. /\ \A q \in Request : q # r => /\ pc'[q] = pc[q]
                                      /\ listed'[q] = listed[q]
                                      /\ work'[q] = work[q]
                                      /\ slots'[q] = slots[q]
                                      /\ failed'[q] = failed[q]
       /\ pc'[r] = label /\ listed'[r] = l /\ work'[r] = w /\ slots'[r] = s
    BY <1>1, <1>2, <1>3 DEF IInv, TypeOK
<1>17. UNCHANGED <<registry, cutoff>>
    BY <1>1
<1>18. /\ \A t \in Tag : l[t] <= Len(pushes[t]) /\ s[t] <= Len(pushes[t])
       /\ \A t \in Tag : w[t] \in Looking => label = "fanout"
    BY <1>4, <1>5, <1>8
<1>19. c = cutoff[r]
    BY DEF c
<1> QED
    BY <1>4, <1>11, <1>13, <1>14, <1>15, <1>16, <1>17, <1>18, <1>19, FanOutKeeps

\* A lookup of tag t under way comes to a state, leaves the digest d in the
\* tag's slot and the group with failure f.
LEMMA LookupKeeps ==
    ASSUME IInv, NEW r \in Request, NEW t \in Tag, work[r][t] \in Looking,
           NEW state \in {"queued", "calling", "done"}, SetWork(r, t, state),
           NEW d \in 0 .. Len(pushes[t]), slots' = [slots EXCEPT ![r][t] = d],
           NEW f \in BOOLEAN, failed' = [failed EXCEPT ![r] = f], failed[r] => f,
           UNCHANGED <<registry, pc, cutoff, listed, left>>,
           PermitsBalance', permits' \in Nat,
           Untimed = {} /\ cutoff[r] # ZeroTime /\ d # 0 => NewestBy(t, d, cutoff[r]),
           cutoff[r] # ZeroTime /\ listed[r][t] # 0 /\ d = 0 =>
               state # "done" \/ f \/ Unreleasable(r, t)
    PROVE  IInv'
<1>1. pc[r] = "fanout"
    BY DEF IInv, WorkInv
<1>2. d \in 0 .. MaxPushes /\ Len(pushes[t]) \in Nat
    BY PushesAre, Sizes
<1>3. TypeOK'
    BY <1>2 DEF IInv, TypeOK, registry, SetWork
<1>4. \A q \in Request, u \in Tag :
          /\ work'[q][u] = IF q = r /\ u = t THEN state ELSE work[q][u]
          /\ slots'[q][u] = IF q = r /\ u = t THEN d ELSE slots[q][u]
    BY DEF IInv, TypeOK, SetWork
<1>5. \A q \in Request : q # r => /\ pc'[q] = pc[q]
                                  /\ listed'[q] = listed[q]
                                  /\ work'[q] = work[q]
                                  /\ slots'[q] = slots[q]
                                  /\ failed'[q] = failed[q]
    BY DEF IInv, TypeOK, SetWork
<1>6. failed'[r] = f /\ pc'[r] = "fanout" /\ listed'[r] = listed[r]
    BY <1>1 DEF IInv, TypeOK
<1>7. \A u \in Tag : listed[r][u] <= Len(pushes[u]) /\ slots[r][u] <= Len(pushes[u])
    BY DEF IInv, AmongPushes
<1>8. \A u \in Tag : listed'[r][u] <= Len(pushes[u]) /\ slots'[r][u] <= Len(pushes[u])
    BY <1>2, <1>4, <1>6, <1>7
<1>9. ASSUME Untimed = {}, NEW u \in Tag, cutoff[r] # ZeroTime, slots'[r][u] # 0
      PROVE  NewestBy(u, slots'[r][u], cutoff[r])
  <2>1. PointInv
      BY <1>9 DEF IInv
  <2>2. CASE u = t
      BY <1>4, <1>9, <2>2
  <2>3. CASE u # t
      BY <1>1, <1>4, <1>9, <2>1, <2>3 DEF PointInv
  <2> QED
      BY <2>2, <2>3
<1>10. ASSUME NEW u \in Tag, cutoff[r] # ZeroTime, listed[r][u] # 0, slots'[r][u] = 0
       PROVE  work'[r][u] \in Looking \/ f \/ Unreleasable(r, u)
  <2>1. CASE u = t
      BY <1>4, <1>10, <2>1 DEF Looking
  <2>2. CASE u # t
      BY <1>1, <1>4, <1>10, <2>2 DEF IInv, MissingInv
  <2> QED
      BY <2>1, <2>2
<1> QED
    BY <1>3, <1>5, <1>6, <1>8, <1>9, <1>10, FanOutKeeps DEF Unreleasable

\* A lookup that leaves slots alone.
LEMMA SlotStays ==
    ASSUME IInv, NEW r \in Request, NEW t \in Tag, work[r][t] \in Looking
    PROVE  /\ slots[r][t] \in 0 .. Len(pushes[t])
           /\ slots = [slots EXCEPT ![r][t] = slots[r][t]]
           /\ Untimed = {} /\ cutoff[r] # ZeroTime /\ slots[r][t] # 0 =>
                  NewestBy(t, slots[r][t], cutoff[r])
           /\ failed[r] \in BOOLEAN /\ failed = [failed EXCEPT ![r] = failed[r]]
<1>1. slots \in [Request -> [Tag -> 0 .. MaxPushes]] /\ failed \in [Request -> BOOLEAN]
    BY DEF IInv, TypeOK
<1>2. slots[r][t] \in 0 .. MaxPushes /\ slots[r][t] <= Len(pushes[t]) /\ Len(pushes[t]) \in Nat
    BY <1>1, PushesAre, Sizes DEF IInv, AmongPushes
<1>3. slots[r][t] \in 0 .. Len(pushes[t])
    BY <1>2, Sizes
<1>4. pc[r] = "fanout"
    BY DEF IInv, WorkInv
<1>5. Untimed = {} /\ cutoff[r] # ZeroTime /\ slots[r][t] # 0 => NewestBy(t, slots[r][t], cutoff[r])
    BY <1>4 DEF IInv, PointInv
<1>6. slots = [slots EXCEPT ![r][t] = slots[r][t]]
    BY <1>1
<1>7. failed = [failed EXCEPT ![r] = failed[r]]
    BY <1>1
<1> QED
    BY <1>1, <1>3, <1>5, <1>6, <1>7

LEMMA LaunchKeeps ==
    ASSUME IInv, NEW r \in Request, Launch(r)
    PROVE  IInv'
<1>1. PICK t \in Tag : work[r][t] = "todo" /\ SetWork(r, t, "queued")
  <2>1. With(r, "todo") \in SUBSET Nat /\ With(r, "todo") # {}
      BY Sizes DEF Launch, With, Tag
  <2>2. Min(With(r, "todo")) \in With(r, "todo")
      BY <2>1, MinIsMember
  <2>3. SetWork(r, Min(With(r, "todo")), "queued")
      BY DEF Launch
  <2> QED
      BY <2>2, <2>3 DEF With
<1>2. /\ Cardinality(Running(r)) < FanOut
      /\ UNCHANGED <<registry, pc, cutoff, listed, slots, failed, left, permits>>
    BY DEF Launch
<1>3. PermitsBalance' /\ permits' \in Nat
    BY <1>1, <1>2, LookupKeepsBalance
<1>4. work[r][t] \in Looking
    BY <1>1 DEF Looking
<1> QED
    BY <1>1, <1>2, <1>3, <1>4, SlotStays, LookupKeeps

LEMMA StartLookupKeeps ==
    ASSUME IInv, NEW r \in Request, NEW t \in Tag, StartLookup(r, t)
    PROVE  IInv'
<1>1. /\ work[r][t] = "queued" /\ Acquire /\ SetWork(r, t, "calling")
      /\ UNCHANGED <<registry, pc, cutoff, listed, slots, failed, left>>
    BY DEF StartLookup
<1>2. PermitsBalance' /\ permits' \in Nat
    BY <1>1, LookupKeepsBalance
<1>3. work[r][t] \in Looking
    BY <1>1 DEF Looking
<1> QED
    BY <1>1, <1>2, <1>3, SlotStays, LookupKeeps

LEMMA LookupFailsKeeps ==
    ASSUME IInv, NEW r \in Request, NEW t \in Tag, LookupFails(r, t)
    PROVE  IInv'
<1>1. /\ SetWork(r, t, "done") /\ failed' = [failed EXCEPT ![r] = TRUE]
      /\ \/ work[r][t] = "calling" /\ Release
         \/ work[r][t] = "queued" /\ UNCHANGED permits
      /\ UNCHANGED <<registry, pc, cutoff, listed, slots, left>>
    BY DEF LookupFails
<1>2. PermitsBalance' /\ permits' \in Nat
    BY <1>1, LookupKeepsBalance
<1>3. work[r][t] \in Looking
    BY <1>1 DEF Looking
<1> QED
    BY <1>1, <1>2, <1>3, SlotStays, LookupKeeps

\* The digest a lookup chooses is the newest by the cutoff, and it chooses
\* none only if all are younger.
LEMMA BestIsNewest ==
    ASSUME IInv, NEW t \in Tag, NEW c \in Int, c >= Epoch, NEW d \in Best(pushes[t], c)
    PROVE  /\ d \in 0 .. Len(pushes[t])
           /\ Untimed = {} /\ d # 0 => NewestBy(t, d, c)
           /\ d = 0 => \A e \in 1 .. Len(pushes[t]) : pushes[t][e] > c
<1> DEFINE es == Eligible(pushes[t], c)
<1>1. /\ Len(pushes[t]) \in Nat
      /\ \A e \in 1 .. Len(pushes[t]) : pushes[t][e] \in Instant \cup {Unset}
    BY PushesAre, Sizes
<1>2. \A e \in 1 .. Len(pushes[t]) :
          /\ AsTime(pushes[t][e]) \in Int /\ AsTime(pushes[t][e]) # ZeroTime
          /\ pushes[t][e] \in Int
          /\ AsTime(pushes[t][e]) = pushes[t][e] \/ AsTime(pushes[t][e]) = 1
    BY <1>1, TimesRead DEF Instant, Unset, FirstInstant
<1>3. es = {e \in 1 .. Len(pushes[t]) : AsTime(pushes[t][e]) <= c}
    BY <1>2 DEF Eligible
<1>4. CASE es = {}
  <2>1. d = 0
      BY <1>4 DEF Best
  <2>2. \A e \in 1 .. Len(pushes[t]) : ~ (AsTime(pushes[t][e]) <= c)
      BY <1>3, <1>4
  <2>3. \A e \in 1 .. Len(pushes[t]) : pushes[t][e] > c
      BY <1>2, <2>2 DEF Epoch
  <2> QED
      BY <1>1, <2>1, <2>3
<1>5. CASE es # {}
  <2>1. d \in es /\ \A e \in es : AsTime(pushes[t][e]) <= AsTime(pushes[t][d])
      BY <1>5 DEF Best
  <2>2. d \in 1 .. Len(pushes[t]) /\ AsTime(pushes[t][d]) <= c
      BY <1>3, <2>1
  <2>3. ASSUME Untimed = {}
        PROVE  NewestBy(t, d, c)
    <3>1. \A e \in 1 .. Len(pushes[t]) : pushes[t][e] \in Instant
        BY <2>3 DEF IInv, OrderInv
    <3>2. \A e \in 1 .. Len(pushes[t]) : AsTime(pushes[t][e]) = pushes[t][e]
        BY <3>1, TimesRead
    <3> QED
        BY <1>3, <2>1, <2>2, <3>2 DEF NewestBy
  <2> QED
      BY <1>1, <2>2, <2>3
<1> QED
    BY <1>4, <1>5

LEMMA LookupEndsKeeps ==
    ASSUME IInv, NEW r \in Request, NEW t \in Tag, LookupEnds(r, t)
    PROVE  IInv'
<1>1. /\ work[r][t] = "calling" /\ Release /\ SetWork(r, t, "done")
      /\ UNCHANGED <<registry, pc, cutoff, listed, failed, left>>
    BY DEF LookupEnds
<1>2. PICK d \in (IF t \in gone THEN {0} ELSE Best(pushes[t], cutoff[r])) :
          slots' = [slots EXCEPT ![r][t] = d]
    BY DEF LookupEnds
<1>3. /\ Len(pushes[t]) \in Nat /\ cutoff[r] \in Nat
      /\ listed[r][t] \in Nat /\ listed[r][t] <= Len(pushes[t])
    BY PushesAre, Sizes DEF IInv, TypeOK, AmongPushes, ZeroTime
<1>4. PermitsBalance' /\ permits' \in Nat
    BY <1>1, LookupKeepsBalance
<1>5. /\ d \in 0 .. Len(pushes[t])
      /\ Untimed = {} /\ cutoff[r] # ZeroTime /\ d # 0 => NewestBy(t, d, cutoff[r])
      /\ cutoff[r] # ZeroTime /\ d = 0 => Unreleasable(r, t)
  <2>1. CASE t \in gone
      BY <1>2, <1>3, <2>1 DEF Unreleasable
  <2>2. CASE t \notin gone /\ cutoff[r] # ZeroTime
    <3>1. cutoff[r] \in Int /\ cutoff[r] >= Epoch
        BY <1>3, <2>2 DEF Epoch, ZeroTime
    <3>2. /\ d \in 0 .. Len(pushes[t])
          /\ Untimed = {} /\ d # 0 => NewestBy(t, d, cutoff[r])
          /\ d = 0 => \A e \in 1 .. Len(pushes[t]) : pushes[t][e] > cutoff[r]
        BY <1>2, <2>2, <3>1, BestIsNewest
    <3> QED
        BY <1>3, <3>2 DEF Unreleasable
  <2>3. CASE t \notin gone /\ cutoff[r] = ZeroTime
    <3>1. d \in {0} \cup Eligible(pushes[t], cutoff[r])
        BY <1>2, <2>3 DEF Best
    <3> QED
        BY <1>3, <2>3, <3>1 DEF Eligible
  <2> QED
      BY <2>1, <2>2, <2>3
<1>6. work[r][t] \in Looking
    BY <1>1 DEF Looking
<1>7. failed[r] \in BOOLEAN /\ failed' = [failed EXCEPT ![r] = failed[r]]
    BY <1>1, <1>6, SlotStays
<1> QED
    BY <1>1, <1>2, <1>4, <1>5, <1>6, <1>7, LookupKeeps

-----------------------------------------------------------------------------
(* The theorems.                                                           *)

LEMMA RegistryStepKeeps ==
    ASSUME IInv, Tick \/ (\E t \in Tag : Push(t) \/ DeleteTag(t)) \/ DeleteRepo
    PROVE  IInv'
<1> USE DEF request
<1>1. now \in FirstInstant .. MaxTime /\ gone \subseteq Tag /\ repoExists \in BOOLEAN
    BY DEF IInv, TypeOK, Instant
<1>2. ASSUME Tick
      PROVE  IInv'
  <2>1. now' \in Instant /\ now <= now'
      BY <1>1, <1>2, Sizes DEF Tick, Instant, FirstInstant
  <2>2. UNCHANGED <<pushes, gone, repoExists, request, permits>>
      BY <1>2 DEF Tick
  <2> QED
      BY <1>1, <2>1, <2>2, RegistryKeeps
<1>3. ASSUME NEW t \in Tag, DeleteTag(t)
      PROVE  IInv'
  <2>1. gone \subseteq gone' /\ gone' \subseteq Tag
      BY <1>1, <1>3 DEF DeleteTag
  <2>2. UNCHANGED <<now, pushes, repoExists, request, permits>> /\ now' \in Instant /\ now <= now'
      BY <1>1, <1>3, Sizes DEF DeleteTag, Instant, FirstInstant
  <2> QED
      BY <1>1, <2>1, <2>2, RegistryKeeps
<1>4. ASSUME DeleteRepo
      PROVE  IInv'
  <2>1. gone \subseteq gone' /\ gone' \subseteq Tag /\ repoExists' \in BOOLEAN
      BY <1>1, <1>4 DEF DeleteRepo
  <2>2. UNCHANGED <<now, pushes, request, permits>> /\ now' \in Instant /\ now <= now'
      BY <1>1, <1>4, Sizes DEF DeleteRepo, Instant, FirstInstant
  <2> QED
      BY <2>1, <2>2, RegistryKeeps
<1> QED
    BY <1>2, <1>3, <1>4, PushKeeps

LEMMA NextKeeps ==
    ASSUME IInv, [Next]_vars
    PROVE  IInv'
<1>1. CASE UNCHANGED vars
  <2>1. /\ UNCHANGED <<request, pushes, permits, now, gone, repoExists>>
        /\ now' \in Instant /\ now <= now'
        /\ gone \subseteq Tag /\ repoExists \in BOOLEAN
      BY <1>1, Sizes DEF vars, registry, IInv, TypeOK, Instant, FirstInstant
  <2> QED
      BY <2>1, RegistryKeeps
<1>2. CASE Tick \/ (\E t \in Tag : Push(t) \/ DeleteTag(t)) \/ DeleteRepo
    BY <1>2, RegistryStepKeeps
<1>3. ASSUME NEW r \in Request,
             \/ Arrive(r) \/ Refuse(r) \/ ClientLeaves(r)
             \/ StartRpc(r) \/ RpcFails(r) \/ Resolved(r) \/ Listed(r)
             \/ Launch(r) \/ Collect(r)
      PROVE  IInv'
    BY <1>3, ArriveKeeps, RefuseKeeps, ClientLeavesKeeps, StartRpcKeeps, RpcFailsKeeps,
       ResolvedKeeps, ListedKeeps, LaunchKeeps, CollectKeeps
<1>4. ASSUME NEW r \in Request, NEW t \in Tag,
             StartLookup(r, t) \/ LookupEnds(r, t) \/ LookupFails(r, t)
      PROVE  IInv'
    BY <1>4, StartLookupKeeps, LookupEndsKeeps, LookupFailsKeeps
<1> QED
    BY <1>1, <1>2, <1>3, <1>4 DEF Next

\* The strengthened invariant holds in every reachable state.
THEOREM Invariance == Spec => []IInv
<1>1. Init => IInv
    BY InitIInv
<1>2. IInv /\ [Next]_vars => IInv'
    BY NextKeeps
<1> QED
    BY <1>1, <1>2, PTL DEF Spec

\* Requests, lookups, slots and the registry stay within their types.
THEOREM TypeCorrect == Spec => []TypeOK
<1>1. IInv => TypeOK
    BY DEF IInv
<1> QED
    BY <1>1, Invariance, PTL

\* The semaphore's permits are the calls in flight, of all requests and
\* their lookups together, at most RpcLimit, and no request runs more
\* lookups than its fan-out, whatever fails, is cancelled or abandoned.
THEOREM PermitsAlwaysBalance == Spec => []PermitsBalance
<1>1. IInv => PermitsBalance
    BY DEF IInv
<1> QED
    BY <1>1, Invariance, PTL

\* With a cutoff, a request is answered with the digests the tags carried at
\* that time, if every push has its timestamp (a tag without one can be
\* released as of the epoch).
THEOREM AnsweredAsOfCutoff ==
    ASSUME Untimed = {}
    PROVE  Spec => []PointInTime
<1>1. IInv => PointInTime
    BY DEF IInv, PointInv, PointInTime, NewestBy
<1> QED
    BY <1>1, Invariance, PTL

\* A listed tag that is old enough is in the answer, unless it was deleted:
\* a request with a lookup that failed or was abandoned is an error.
THEOREM NothingGoesMissing == Spec => []NothingMissing
<1>1. IInv => NothingMissing
    BY DEF IInv, MissingInv, NothingMissing, Unreleasable
<1> QED
    BY <1>1, Invariance, PTL
=============================================================================
