--------------------------- MODULE ApkFeedProofs ---------------------------
(***************************************************************************)
(* For every text of every number of feeds: what ApkFeed promises of an    *)
(* answer, and that the parser finds the entries of the records.  The      *)
(* reason for the first is in two facts about dedupe, that of the builds   *)
(* it is given it keeps only latest ones, and of each one (MaxStamp: times *)
(* are bounded, so there is a latest); for the second in what the fields   *)
(* are between two lines (ParseInv).                                       *)
(***************************************************************************)
EXTENDS ApkFeed, WellFoundedInduction, TLAPS

-----------------------------------------------------------------------------
(* A latest entry.                                                         *)

\* A set of numbers that is bounded has a greatest member.
LEMMA BoundedMax ==
    ASSUME NEW b \in Nat, NEW S \in SUBSET (0 .. b), S # {}
    PROVE  \E m \in S : \A s \in S : s <= m
<1> DEFINE T == {b - s : s \in S}
<1>1. T \subseteq Nat /\ T # {}
  <2>1. \A s \in S : s \in 0 .. b
      OBVIOUS
  <2>2. \A s \in S : b - s \in Nat
      BY <2>1
  <2> QED
      BY <2>2
<1>2. PICK x \in T : \A y \in T : ~ (<<y, x>> \in OpToRel(<, Nat))
    BY <1>1, NatLessThanWellFounded, WFMin
<1>3. \A y \in T : ~ (y < x)
    BY <1>1, <1>2 DEF OpToRel
<1>4. PICK m \in S : x = b - m
    OBVIOUS
<1>5. ASSUME NEW s \in S
      PROVE  s <= m
  <2>1. s \in 0 .. b /\ m \in 0 .. b
      BY <1>4
  <2>2. b - s \in T
      OBVIOUS
  <2>3. ~ (b - s < b - m)
      BY <1>3, <1>4, <2>2
  <2> QED
      BY <2>1, <2>3
<1> QED
    BY <1>5

LEMMA TimesAre ==
    ASSUME NEW secs \in Int
    PROVE  secs \in Time <=> secs # Epoch /\ secs >= 0 /\ secs <= MaxUnixSec
<1>1. MaxUnixSec \in Nat
    BY LineAssumption
<1> QED
    BY <1>1 DEF Time

\* Times are natural numbers, and cutoffs positive.
LEMMA TimesCounted == MaxUnixSec \in Nat /\ Stamp \subseteq Nat \ {NoTime}
<1>1. MaxUnixSec \in Nat
    BY LineAssumption
<1>2. Stamp \subseteq 1 .. MaxUnixSec
    BY DEF Stamp
<1>3. \A n \in 1 .. MaxUnixSec : n \in Nat \ {NoTime}
    BY <1>1 DEF NoTime
<1> QED
    BY <1>1, <1>2, <1>3

\* Entries whose times are in range have a latest one among them.
LEMMA MaxStamp ==
    ASSUME NEW T, T # {}, \A e \in T : e.stamp \in 0 .. MaxUnixSec
    PROVE  \E m \in T : \A e \in T : e.stamp <= m.stamp
<1> DEFINE S == {e.stamp : e \in T}
<1>1. S \in SUBSET (0 .. MaxUnixSec) /\ S # {}
    OBVIOUS
<1>2. MaxUnixSec \in Nat
    BY TimesCounted
<1> HIDE DEF S
<1>3. PICK s \in S : \A t \in S : t <= s
    BY <1>1, <1>2, BoundedMax
<1>4. PICK m \in T : m.stamp = s
    BY DEF S
<1> QED
    BY <1>3, <1>4 DEF S

-----------------------------------------------------------------------------
(* The invariant: types and ranges, and that the store has what dedupe has *)
(* made of all that was merged.                                            *)

IInv ==
    /\ TypeOK
    /\ installed => index = Dedupe(merged)

\* The entries of a set that the model can have merged.
Merges(S) ==
    \A e \in S : /\ e.name # Absent
                 /\ e.stamp \in 0 .. MaxUnixSec
                 /\ \E f \in Feed : e.arch = archOf[f]

\* The feeds of a configuration can be counted.
LEMMA FeedsCounted ==
    ASSUME TypeOK
    PROVE  NumFeeds \in Nat
BY ConfigAssumption DEF TypeOK, NumFeeds

\* A flush adds entries of the feed's architecture, with names, and times in
\* range; and leaves no time behind.
LEMMA FlushMerges ==
    ASSUME TypeOK, NEW f \in Feed, Flush(archOf[f])
    PROVE  Merges(merged') /\ merged \subseteq merged' /\ stamp' \in 0 .. MaxUnixSec
<1> DEFINE own == Entry(name, version, stamp, archOf[f])
           provided == Provided(provides, stamp, archOf[f])
<1>1. Merges(merged) /\ stamp \in 0 .. MaxUnixSec
    BY DEF TypeOK, Merges
<1>2. name # Absent => Merges({own})
    BY <1>1 DEF Merges, Entry
<1>3. Merges(provided)
    BY <1>1 DEF Merges, Provided, Entry
<1>4. merged' \subseteq merged \cup provided \cup (IF name # Absent THEN {own} ELSE {})
    BY DEF Flush
<1>5. Merges(merged')
    BY <1>1, <1>2, <1>3, <1>4 DEF Merges
<1>6. stamp' \in 0 .. MaxUnixSec
  <2>1. stamp' = 0
      BY DEF Flush, NoTime
  <2> QED
      BY <2>1, TimesCounted
<1> QED
    BY <1>5, <1>6 DEF Flush

LEMMA Initially == Init => IInv
<1> SUFFICES ASSUME Init
             PROVE  IInv
    OBVIOUS
<1>1. NumFeeds \in Nat
    BY ConfigAssumption DEF Init, NumFeeds
<1>2. text \in [Feed -> Seq(Line)]
    BY DEF Init
<1>3. at \in 1 .. NumFeeds + 1 /\ stamp \in 0 .. MaxUnixSec
  <2>1. at = 1 /\ stamp = 0
      BY DEF Init, NoTime
  <2> QED
      BY <1>1, <2>1, TimesCounted
<1> QED
    BY <1>2, <1>3 DEF Init, IInv, TypeOK

LEMMA ScanKeeps ==
    ASSUME IInv, NEW l \in Line, Scan(l)
    PROVE  IInv'
<1>1. TypeOK /\ at \in Feed /\ archOf' = archOf /\ Feed' = Feed
    BY DEF IInv, Scan, Feed, NumFeeds
<1>2. ~installed /\ ~installed'
    BY <1>1 DEF TypeOK, Scan
<1>3. text' \in [Feed -> Seq(Line)]
  <2>1. text \in [Feed -> Seq(Line)] /\ text[at] \in Seq(Line)
      BY <1>1 DEF TypeOK
  <2>2. Append(text[at], l) \in Seq(Line)
      BY <2>1
  <2> QED
      BY <2>1, <2>2 DEF Scan
<1>4. Merges(merged') /\ merged \subseteq merged' /\ stamp' \in 0 .. MaxUnixSec
  <2>1. CASE l.key = ""
      BY <1>1, <2>1, FlushMerges DEF Scan
  <2>2. CASE l.key # ""
    <3>1. merged' = merged /\ SetField(l)
        BY <2>2 DEF Scan
    <3>2. l.secs \in Int /\ MaxUnixSec \in Nat /\ stamp \in 0 .. MaxUnixSec
        BY <1>1, LineAssumption DEF TypeOK
    <3>3. stamp' \in 0 .. MaxUnixSec
        BY <3>1, <3>2 DEF SetField
    <3> QED
        BY <1>1, <3>1, <3>3 DEF TypeOK, Merges
  <2> QED
      BY <2>1, <2>2
<1>5. TypeOK'
    BY <1>1, <1>2, <1>3, <1>4 DEF TypeOK, Scan, Merges, NumFeeds
<1> QED
    BY <1>2, <1>5 DEF IInv

LEMMA EndFeedKeeps ==
    ASSUME IInv, EndFeed
    PROVE  IInv'
<1>1. TypeOK /\ at \in Feed /\ archOf' = archOf /\ Feed' = Feed /\ NumFeeds' = NumFeeds
    BY DEF IInv, EndFeed, Feed, NumFeeds
<1>2. ~installed /\ ~installed'
    BY <1>1 DEF TypeOK, EndFeed
<1>3. Merges(merged') /\ merged \subseteq merged' /\ stamp' \in 0 .. MaxUnixSec
    BY <1>1, FlushMerges DEF EndFeed
<1>4. at' \in 1 .. NumFeeds + 1
    BY <1>1, FeedsCounted DEF EndFeed, Feed
<1>5. TypeOK'
    BY <1>1, <1>2, <1>3, <1>4 DEF TypeOK, EndFeed, Merges
<1> QED
    BY <1>2, <1>5 DEF IInv

LEMMA InstallKeeps ==
    ASSUME IInv, Install
    PROVE  IInv'
<1>1. archOf' = archOf /\ Feed' = Feed /\ NumFeeds' = NumFeeds
    BY DEF Install, Feed, NumFeeds
<1>2. index' = Dedupe(merged) /\ merged' = merged /\ Dedupe(merged)' = Dedupe(merged)
    BY DEF Install, Dedupe, SameBuild
<1>3. Dedupe(merged) \subseteq merged
    BY DEF Dedupe
<1>4. TypeOK'
    BY <1>1, <1>2, <1>3 DEF IInv, TypeOK, Install, record
<1> QED
    BY <1>2, <1>4 DEF IInv

\* Types, and that the store has the deduplicated merge, hold at all times.
THEOREM Invariance == Spec => []IInv
<1>1. Init => IInv
    BY Initially
<1>2. IInv /\ [Next]_vars => IInv'
  <2> SUFFICES ASSUME IInv, [Next]_vars
               PROVE  IInv'
      OBVIOUS
  <2>1. CASE \E l \in Line : Scan(l)
      BY <2>1, ScanKeeps
  <2>2. CASE EndFeed
      BY <2>2, EndFeedKeeps
  <2>3. CASE Install
      BY <2>3, InstallKeeps
  <2>4. CASE UNCHANGED vars
      BY <2>4 DEF IInv, TypeOK, Dedupe, SameBuild, vars, record, Feed, NumFeeds
  <2> QED
      BY <2>1, <2>2, <2>3, <2>4 DEF Next
<1> QED
    BY <1>1, <1>2, PTL DEF Spec

\* Every variable of the parser and of the store keeps its type: a merged
\* entry has a name, a time JSON can hold, and the architecture of a feed.
THEOREM TypeCorrect == Spec => []TypeOK
<1>1. IInv => TypeOK
    BY DEF IInv
<1> QED
    BY <1>1, Invariance, PTL

-----------------------------------------------------------------------------
(* What dedupe has done by the time a request comes.                       *)

\* Of the builds in the feeds, the store has a latest one.
LEMMA HasLatest ==
    ASSUME IInv, installed, NEW e \in merged
    PROVE  \E m \in index : SameBuild(m, e) /\ e.stamp <= m.stamp
<1> DEFINE T == {x \in merged : SameBuild(x, e)}
<1>1. e \in T
    BY DEF SameBuild
<1>2. \A x \in T : x.stamp \in 0 .. MaxUnixSec
    BY DEF IInv, TypeOK
<1> HIDE DEF T
<1>3. PICK m \in T : \A x \in T : x.stamp <= m.stamp
    BY <1>1, <1>2, MaxStamp
<1>4. m \in merged /\ SameBuild(m, e)
    BY DEF T
<1>5. \A x \in merged : SameBuild(m, x) => x \in T
    BY <1>4 DEF T, SameBuild
<1>6. m \in Dedupe(merged)
    BY <1>3, <1>4, <1>5 DEF Dedupe
<1> QED
    BY <1>1, <1>3, <1>4, <1>6 DEF IInv

\* The entries an answer is made of, before the cutoff.
Answering(n, a) == IF a = AnyArch THEN MergeAcrossArchs(Get(n, a)) ELSE Get(n, a)

\* The entries of the feeds that a request asks for.
Asked(n, a) == {e \in merged : e.name = n /\ (a = AnyArch \/ e.arch = a)}

\* An entry that answers is of what was asked for, and of its version the
\* latest in the feeds.
LEMMA AnswersLatest ==
    ASSUME IInv, installed, NEW n, NEW a, NEW x \in Answering(n, a)
    PROVE  /\ x \in index /\ x \in Asked(n, a)
           /\ \A e \in Asked(n, a) : e.version = x.version => e.stamp <= x.stamp
<1>1. x \in Get(n, a)
    BY DEF Answering, MergeAcrossArchs
<1>2. x \in index /\ x \in Asked(n, a)
    BY <1>1 DEF Get, Asked, IInv, TypeOK
<1>3. ASSUME NEW e \in Asked(n, a), e.version = x.version
      PROVE  e.stamp <= x.stamp
  <2>1. e \in merged /\ e.name = n /\ (a = AnyArch \/ e.arch = a)
      BY DEF Asked
  <2>2. PICK m \in index : SameBuild(m, e) /\ e.stamp <= m.stamp
      BY <2>1, HasLatest
  <2>3. CASE a = AnyArch
    <3>1. m \in Get(n, a) /\ m.version = x.version
        BY <1>3, <2>1, <2>2, <2>3 DEF Get, SameBuild
    <3>2. m.stamp <= x.stamp
        BY <2>3, <3>1 DEF Answering, MergeAcrossArchs
    <3>3. e.stamp \in Int /\ m.stamp \in Int /\ x.stamp \in Int
        BY <1>2, <2>1, <2>2 DEF IInv, TypeOK
    <3> QED
        BY <2>2, <3>2, <3>3
  <2>4. CASE a # AnyArch
    <3>1. SameBuild(x, e)
        BY <1>2, <1>3, <2>1, <2>4 DEF Asked, SameBuild
    <3> QED
        BY <1>2, <2>1, <3>1 DEF IInv, Dedupe
  <2> QED
      BY <2>3, <2>4
<1> QED
    BY <1>2, <1>3

\* Every version that was asked for and is in the feeds answers.
LEMMA EveryVersionAnswers ==
    ASSUME IInv, installed, NEW n, NEW a, NEW e \in Asked(n, a)
    PROVE  \E x \in Answering(n, a) : x.version = e.version
<1> DEFINE T == {x \in Get(n, a) : x.version = e.version}
<1>1. e \in merged /\ e.name = n /\ (a = AnyArch \/ e.arch = a)
    BY DEF Asked
<1>2. PICK m \in index : SameBuild(m, e)
    BY <1>1, HasLatest
<1>3. m \in T
    BY <1>1, <1>2 DEF Get, SameBuild
<1>4. CASE a # AnyArch
    BY <1>3, <1>4 DEF Answering
<1>5. CASE a = AnyArch
  <2>1. \A x \in T : x.stamp \in 0 .. MaxUnixSec
      BY DEF Get, IInv, TypeOK
  <2> HIDE DEF T
  <2>2. PICK l \in T : \A x \in T : x.stamp <= l.stamp
      BY <1>3, <2>1, MaxStamp
  <2>3. l \in Get(n, a) /\ l.version = e.version
      BY DEF T
  <2>4. \A f \in Get(n, a) : f.version = l.version => f.stamp <= l.stamp
      BY <2>2, <2>3 DEF T
  <2> QED
      BY <1>5, <2>3, <2>4 DEF Answering, MergeAcrossArchs
<1> QED
    BY <1>4, <1>5

\* An answer in terms of the entries that give it.
LEMMA ReleasedFrom ==
    ASSUME NEW n, NEW a, NEW before
    PROVE  Released(n, a, before) =
               {[version |-> e.version, stamp |-> e.stamp] : e \in
                   {x \in Answering(n, a) :
                       before # NoTime => x.stamp # NoTime /\ x.stamp <= before}}
BY DEF Released, Answering

-----------------------------------------------------------------------------
(* The properties.                                                         *)

\* A request with a cutoff is never given a version of which a feed, for an
\* architecture asked for, has a younger build: what the doc comment of
\* APKDatasource.Releases says of minimum release age.
THEOREM CutoffHolds == Spec => []NothingYoung
<1>1. IInv => NothingYoung
  <2> SUFFICES ASSUME IInv, installed, NEW n, NEW a, NEW before \in Stamp,
                      NEW r \in Released(n, a, before), NEW e \in Asked(n, a),
                      e.version = r.version
               PROVE  e.stamp <= before
      BY DEF NothingYoung, Asked
  <2>1. before \in Int /\ before # NoTime
      BY TimesCounted
  <2>2. PICK x \in Answering(n, a) : /\ r = [version |-> x.version, stamp |-> x.stamp]
                                     /\ x.stamp <= before
      BY <2>1, ReleasedFrom
  <2>3. e.stamp <= x.stamp /\ x \in Asked(n, a)
      BY <2>2, AnswersLatest
  <2>4. e.stamp \in Int /\ x.stamp \in Int
      BY <2>3 DEF IInv, TypeOK, Asked
  <2> QED
      BY <2>1, <2>2, <2>3, <2>4
<1> QED
    BY <1>1, Invariance, PTL

\* Without a cutoff every version in the feeds is given, once, with the latest
\* time any feed has for it: neither dedupe nor mergeAcrossArchs drops one.
THEOREM Complete == Spec => []NothingLost
<1>1. IInv => NothingLost
  <2> SUFFICES ASSUME IInv, installed, NEW n, NEW a
               PROVE  LET S == Asked(n, a)
                      IN  /\ Versions(Released(n, a, NoTime)) = Versions(S)
                          /\ \A r, s \in Released(n, a, NoTime) :
                                 r.version = s.version => r = s
                          /\ \A r \in Released(n, a, NoTime) : \A e \in S :
                                 e.version = r.version => e.stamp <= r.stamp
      BY DEF NothingLost, Asked
  <2> DEFINE R == Released(n, a, NoTime)
  <2>1. R = {[version |-> x.version, stamp |-> x.stamp] : x \in Answering(n, a)}
      BY ReleasedFrom
  <2> HIDE DEF R
  <2>2. Versions(R) = Versions(Asked(n, a))
    <3>1. Versions(R) \subseteq Versions(Asked(n, a))
        BY <2>1, AnswersLatest DEF Versions
    <3>2. ASSUME NEW e \in Asked(n, a)
          PROVE  e.version \in Versions(R)
      <4>1. PICK x \in Answering(n, a) : x.version = e.version
          BY EveryVersionAnswers
      <4>2. [version |-> x.version, stamp |-> x.stamp] \in R
          BY <2>1
      <4> QED
          BY <4>1, <4>2 DEF Versions
    <3> QED
        BY <3>1, <3>2 DEF Versions
  <2>3. ASSUME NEW r \in R, NEW s \in R, r.version = s.version
        PROVE  r = s
    <3>1. PICK x \in Answering(n, a) : r = [version |-> x.version, stamp |-> x.stamp]
        BY <2>1
    <3>2. PICK y \in Answering(n, a) : s = [version |-> y.version, stamp |-> y.stamp]
        BY <2>1
    <3>3. x.version = y.version
        BY <2>3, <3>1, <3>2
    <3>4. x \in Asked(n, a) /\ y \in Asked(n, a) /\ x.stamp <= y.stamp /\ y.stamp <= x.stamp
        BY <3>3, AnswersLatest
    <3>5. x.stamp \in Int /\ y.stamp \in Int
        BY <3>4 DEF Asked, IInv, TypeOK
    <3> QED
        BY <3>1, <3>2, <3>3, <3>4, <3>5
  <2>4. ASSUME NEW r \in R, NEW e \in Asked(n, a), e.version = r.version
        PROVE  e.stamp <= r.stamp
      BY <2>1, <2>4, AnswersLatest
  <2> QED
      BY <2>2, <2>3, <2>4 DEF R
<1> QED
    BY <1>1, Invariance, PTL

\* A request without ?arch= is given exactly the versions that some
\* architecture would be given and none has too young.
THEOREM AgreementOfArchs == Spec => []ArchsAgree
<1>1. IInv => ArchsAgree
  <2> SUFFICES ASSUME IInv, installed, NEW n, NEW before \in Stamp
               PROVE  Versions(Released(n, AnyArch, before)) =
                          {v \in UNION {Versions(Released(n, a, before)) : a \in Arch} :
                              \A a \in Arch : \A r \in Released(n, a, NoTime) :
                                  r.version = v => r.stamp <= before}
      BY DEF ArchsAgree
  <2> DEFINE Fits(x) == x.stamp # NoTime /\ x.stamp <= before
             rec(x) == [version |-> x.version, stamp |-> x.stamp]
  <2>1. before \in Int /\ before # NoTime
      BY TimesCounted
  <2>2. \A a : Released(n, a, before) = {rec(x) : x \in {y \in Answering(n, a) : Fits(y)}}
      BY <2>1, ReleasedFrom
  <2>3. \A a : Released(n, a, NoTime) = {rec(x) : x \in Answering(n, a)}
      BY ReleasedFrom
  <2>4. \A a : \A x \in Answering(n, a) : x \in index /\ x \in Asked(n, a)
      BY AnswersLatest
  <2>5. \A x \in merged : /\ x.stamp \in Int /\ x.arch \in Arch /\ x.arch # AnyArch
    <3>1. \A f \in Feed : archOf[f] # AnyArch
      <4>1. archOf \in Seq(Nat \ {0})
          BY ConfigAssumption DEF IInv, TypeOK
      <4> QED
          BY <4>1 DEF Feed, NumFeeds, AnyArch
    <3> QED
        BY <3>1 DEF IInv, TypeOK, Arch
  <2>6. \A a \in Arch : a # AnyArch
    <3>1. archOf \in Seq(Nat \ {0})
        BY ConfigAssumption DEF IInv, TypeOK
    <3> QED
        BY <3>1 DEF Arch, Feed, NumFeeds, AnyArch
  <2>7. ASSUME NEW x \in Answering(n, AnyArch), Fits(x)
        PROVE  /\ \E a \in Arch : x.version \in Versions(Released(n, a, before))
               /\ \A a \in Arch : \A r \in Released(n, a, NoTime) :
                      r.version = x.version => r.stamp <= before
    <3>1. x \in index /\ x \in merged /\ x.name = n /\ x.arch \in Arch /\ x.arch # AnyArch
        BY <2>4, <2>5 DEF Asked
    <3>2. x \in Answering(n, x.arch)
        BY <3>1 DEF Answering, Get
    <3>3. rec(x) \in Released(n, x.arch, before)
        BY <2>2, <2>7, <3>2
    <3>4. x.version \in Versions(Released(n, x.arch, before))
        BY <3>3 DEF Versions
    <3>5. ASSUME NEW a \in Arch, NEW r \in Released(n, a, NoTime), r.version = x.version
          PROVE  r.stamp <= before
      <4>1. PICK y \in Answering(n, a) : r = rec(y)
          BY <2>3
      <4>2. y \in Asked(n, AnyArch) /\ y \in merged
          BY <2>4 DEF Asked
      <4>3. y.stamp <= x.stamp
          BY <3>5, <4>1, <4>2, AnswersLatest
      <4> QED
          BY <2>1, <2>5, <2>7, <3>1, <4>1, <4>2, <4>3
    <3> QED
        BY <3>1, <3>4, <3>5
  <2>8. ASSUME NEW a \in Arch, NEW y \in Answering(n, a), Fits(y),
               \A b \in Arch : \A r \in Released(n, b, NoTime) :
                   r.version = y.version => r.stamp <= before
        PROVE  y.version \in Versions(Released(n, AnyArch, before))
    <3>1. y \in Asked(n, AnyArch) /\ y \in merged
        BY <2>4 DEF Asked
    <3>2. PICK x \in Answering(n, AnyArch) : x.version = y.version
        BY <3>1, EveryVersionAnswers
    <3>3. x \in index /\ x \in merged /\ x.name = n /\ x.arch \in Arch /\ x.arch # AnyArch
        BY <2>4, <2>5 DEF Asked
    <3>4. x \in Answering(n, x.arch)
        BY <3>3 DEF Answering, Get
    <3>5. x.stamp <= before
      <4>1. rec(x) \in Released(n, x.arch, NoTime)
          BY <2>3, <3>4
      <4> QED
          BY <2>8, <3>2, <3>3, <4>1
    <3>6. y.stamp <= x.stamp
        BY <3>1, <3>2, AnswersLatest
    <3>7. x.stamp # NoTime
      <4>1. y.stamp \in 0 .. MaxUnixSec /\ x.stamp \in Int
          BY <2>5, <3>1, <3>3 DEF IInv, TypeOK
      <4> QED
          BY <2>8, <3>6, <4>1 DEF NoTime
    <3>8. rec(x) \in Released(n, AnyArch, before)
        BY <2>2, <3>5, <3>7
    <3> QED
        BY <3>2, <3>8 DEF Versions
  <2> HIDE DEF Fits
  <2>9. ASSUME NEW v \in Versions(Released(n, AnyArch, before))
        PROVE  /\ \E a \in Arch : v \in Versions(Released(n, a, before))
               /\ \A a \in Arch : \A r \in Released(n, a, NoTime) :
                      r.version = v => r.stamp <= before
    <3>1. PICK x \in Answering(n, AnyArch) : v = x.version /\ Fits(x)
        BY <2>2 DEF Versions
    <3> QED
        BY <2>7, <3>1
  <2>10. ASSUME NEW a \in Arch, NEW v \in Versions(Released(n, a, before)),
                \A b \in Arch : \A r \in Released(n, b, NoTime) :
                    r.version = v => r.stamp <= before
         PROVE  v \in Versions(Released(n, AnyArch, before))
    <3>1. PICK y \in Answering(n, a) : v = y.version /\ Fits(y)
        BY <2>2 DEF Versions
    <3> QED
        BY <2>8, <2>10, <3>1
  <2> QED
      BY <2>9, <2>10
<1> QED
    BY <1>1, Invariance, PTL

-----------------------------------------------------------------------------
(* What the parser has made of the lines so far.  Of the feed it is in, the *)
(* records that a blank line has closed are merged, and the fields are     *)
(* those of the record whose lines it is reading.                          *)

Records(t) == {s \in (DOMAIN t) \X (DOMAIN t) : IsRecord(t, s[1], s[2])}
Closed(t) == {r \in Records(t) : r[2] < Len(t)}
EntriesIn(t, R, a) == UNION {EntriesOf(t, r[1], r[2], a) : r \in R}

\* Line i, which may be still to come, is the first of the record being read.
Opens(t, i) ==
    /\ i \in 1 .. Len(t) + 1
    /\ \A k \in i .. Len(t) : t[k].key # ""
    /\ i = 1 \/ t[i - 1].key = ""

\* A field as the lines from i on have it.
Latest(t, i, key) == t[LastLine(t, i, Len(t), key)]
FieldsAre(t, i) ==
    LET held(key) == Holders(t, i, Len(t), key) # {}
    IN  /\ name = IF held("P") THEN Latest(t, i, "P").text ELSE Absent
        /\ version = IF held("V") THEN Latest(t, i, "V").text ELSE Absent
        /\ stamp = IF held("t") THEN Latest(t, i, "t").secs ELSE NoTime
        /\ provides = IF held("p") THEN Latest(t, i, "p").tokens ELSE {}

\* What a flush would merge.
Pending(a) ==
    IF name # Absent /\ version # Absent
    THEN {Entry(name, version, stamp, a)} \cup Provided(provides, stamp, a)
    ELSE {}

\* The feeds that have been parsed, and what feeds stand for.
Done == {f \in Feed : f < at}
From(S) == UNION {FeedEntries(f) : f \in S}

\* What has been merged.
Merged ==
    From(Done) \cup
        IF at \in Feed THEN EntriesIn(text[at], Closed(text[at]), archOf[at]) ELSE {}

ParseInv ==
    /\ TypeOK
    /\ \A f \in Feed : f > at => text[f] = <<>>
    /\ at \in Feed => \E i \in 1 .. Len(text[at]) + 1 :
                          Opens(text[at], i) /\ FieldsAre(text[at], i)
    /\ at \notin Feed =>
           name = Absent /\ version = Absent /\ stamp = NoTime /\ provides = {}
    /\ merged = Merged

\* The line that counts is one of those that hold the field, and the last.
LEMMA LastLineHolds ==
    ASSUME NEW t, NEW i \in Nat, NEW j \in Nat, NEW key, Holders(t, i, j, key) # {}
    PROVE  /\ LastLine(t, i, j, key) \in Holders(t, i, j, key)
           /\ \A h \in Holders(t, i, j, key) : h <= LastLine(t, i, j, key)
<1> DEFINE H == Holders(t, i, j, key)
<1>1. H \in SUBSET (0 .. j)
    BY DEF Holders
<1>2. \E k \in H : \A h \in H : h <= k
    BY <1>1, BoundedMax
<1> QED
    BY <1>2 DEF LastLine

\* A line that is added changes none of those before it.
LEMMA Appended ==
    ASSUME NEW t \in Seq(Line), NEW l \in Line
    PROVE  /\ Append(t, l) \in Seq(Line)
           /\ Len(t) \in Nat /\ Len(Append(t, l)) = Len(t) + 1
           /\ DOMAIN t = 1 .. Len(t) /\ DOMAIN Append(t, l) = 1 .. Len(t) + 1
           /\ \A k \in 1 .. Len(t) : Append(t, l)[k] = t[k]
           /\ Append(t, l)[Len(t) + 1] = l
OBVIOUS

\* Nor what the records among them stand for.
LEMMA EntriesStay ==
    ASSUME NEW t \in Seq(Line), NEW l \in Line, NEW i \in Nat \ {0},
           NEW j \in 0 .. Len(t), NEW a
    PROVE  EntriesOf(Append(t, l), i, j, a) = EntriesOf(t, i, j, a)
<1> DEFINE u == Append(t, l)
<1>1. Len(t) \in Nat /\ \A k \in 1 .. Len(t) : u[k] = t[k]
    BY Appended
<1> HIDE DEF u
<1>2. \A k \in i .. j : u[k] = t[k]
    BY <1>1
<1>3. ASSUME NEW key
      PROVE  /\ Holders(u, i, j, key) = Holders(t, i, j, key)
             /\ LastLine(u, i, j, key) = LastLine(t, i, j, key)
             /\ Holders(t, i, j, key) # {} =>
                    u[LastLine(u, i, j, key)] = t[LastLine(t, i, j, key)]
  <2>1. Holders(u, i, j, key) = Holders(t, i, j, key)
      BY <1>2 DEF Holders
  <2>2. LastLine(u, i, j, key) = LastLine(t, i, j, key)
      BY <2>1 DEF LastLine
  <2>3. ASSUME Holders(t, i, j, key) # {}
        PROVE  LastLine(t, i, j, key) \in i .. j
      BY <2>3, <1>1, LastLineHolds DEF Holders
  <2> QED
      BY <1>2, <2>1, <2>2, <2>3
<1>4. EntriesOf(u, i, j, a) = EntriesOf(t, i, j, a)
    BY <1>3 DEF EntriesOf
<1> QED
    BY <1>4 DEF u

\* There is one way to go back from a line to the first of its record.
LEMMA OneStart ==
    ASSUME NEW t \in Seq(Line), NEW i \in Nat, Opens(t, i),
           NEW h \in Nat, NEW j \in Nat, j = Len(t), IsRecord(t, h, j), h # 0
    PROVE  h = i
<1> DEFINE numbered == i \in 1 .. j + 1 /\ h \in 1 .. j
<1>0. numbered
  <2>1. i \in 1 .. Len(t) + 1
      BY DEF Opens
  <2>2. i \in 1 .. j + 1
      BY <2>1
  <2>3. h <= j
      BY DEF IsRecord
  <2>4. h \in 1 .. j
      BY <2>3
  <2> QED
      BY <2>2, <2>4
<1>1. /\ \A k \in i .. j : t[k].key # ""
      /\ i = 1 \/ t[i - 1].key = ""
    BY DEF Opens
<1>2. /\ \A k \in h .. j : t[k].key # ""
      /\ h = 1 \/ t[h - 1].key = ""
    BY DEF IsRecord
<1>3. ASSUME h < i
      PROVE  FALSE
  <2>1. i - 1 \in h .. j /\ i # 1
      BY <1>0, <1>3
  <2> QED
      BY <1>1, <1>2, <2>1
<1>4. ASSUME i < h
      PROVE  FALSE
  <2>1. h - 1 \in i .. j /\ h # 1
      BY <1>0, <1>4
  <2> QED
      BY <1>1, <1>2, <2>1
<1> QED
    BY <1>3, <1>4

\* No lines stand for no entries.
LEMMA NothingFromNone ==
    ASSUME NEW t, NEW i \in Nat, NEW j \in Nat, i > j, NEW a
    PROVE  EntriesOf(t, i, j, a) = {}
<1>1. \A key : Holders(t, i, j, key) = {}
    BY DEF Holders
<1> QED
    BY <1>1 DEF EntriesOf

\* The records of a text are those that are closed and the one being read.
LEMMA ClosedAndOpen ==
    ASSUME NEW t \in Seq(Line), NEW i \in 1 .. Len(t) + 1, Opens(t, i), NEW a
    PROVE  EntriesIn(t, Records(t), a) =
               EntriesIn(t, Closed(t), a) \cup EntriesOf(t, i, Len(t), a)
<1>1. Len(t) \in Nat /\ DOMAIN t = 1 .. Len(t) /\ i \in Nat
    OBVIOUS
<1>2. ASSUME NEW r \in Records(t), r \notin Closed(t)
      PROVE  r[1] = i /\ r[2] = Len(t)
  <2>1. r[1] \in 1 .. Len(t) /\ r[2] \in 1 .. Len(t) /\ IsRecord(t, r[1], r[2])
      BY <1>1 DEF Records
  <2>2. r[2] = Len(t)
      BY <1>1, <1>2, <2>1 DEF Closed
  <2> QED
      BY <1>1, <2>1, <2>2, OneStart
<1>3. EntriesIn(t, Records(t), a) \subseteq
          EntriesIn(t, Closed(t), a) \cup EntriesOf(t, i, Len(t), a)
    BY <1>2 DEF EntriesIn
<1>4. EntriesIn(t, Closed(t), a) \subseteq EntriesIn(t, Records(t), a)
    BY DEF EntriesIn, Closed
<1>5. EntriesOf(t, i, Len(t), a) \subseteq EntriesIn(t, Records(t), a)
  <2>1. CASE i = Len(t) + 1
    <3>1. EntriesOf(t, i, Len(t), a) = {}
        BY <1>1, <2>1, NothingFromNone
    <3> QED
        BY <3>1
  <2>2. CASE i # Len(t) + 1
    <3>1. i \in 1 .. Len(t) /\ Len(t) \in 1 .. Len(t)
        BY <1>1, <2>2
    <3>2. IsRecord(t, i, Len(t))
      <4>1. /\ \A k \in i .. Len(t) : t[k].key # ""
            /\ i = 1 \/ t[i - 1].key = ""
          BY DEF Opens
      <4>2. i <= Len(t)
          BY <1>1, <3>1
      <4> QED
          BY <4>1, <4>2 DEF IsRecord
    <3>3. <<i, Len(t)>> \in Records(t)
        BY <1>1, <3>1, <3>2 DEF Records
    <3> DEFINE r == <<i, Len(t)>>
    <3>4. r \in Records(t) /\ r[1] = i /\ r[2] = Len(t)
        BY <3>3
    <3> HIDE DEF r
    <3> QED
        BY <3>4 DEF EntriesIn
  <2> QED
      BY <2>1, <2>2
<1> QED
    BY <1>3, <1>4, <1>5

\* A line that is a field closes no record, and a blank line the one before.
LEMMA Closes ==
    ASSUME NEW t \in Seq(Line), NEW l \in Line, NEW a
    PROVE  EntriesIn(Append(t, l), Closed(Append(t, l)), a) =
               EntriesIn(t, IF l.key = "" THEN Records(t) ELSE Closed(t), a)
<1> DEFINE u == Append(t, l)
           n == Len(t)
           R == IF l.key = "" THEN Records(t) ELSE Closed(t)
<1>1. /\ n \in Nat /\ Len(t) = n /\ Len(u) = n + 1
      /\ DOMAIN t = 1 .. n /\ DOMAIN u = 1 .. n + 1
      /\ \A k \in 1 .. n : u[k] = t[k]
      /\ u[n + 1] = l
    BY Appended
<1> HIDE DEF u, n, R
<1>0. \A j \in 1 .. n : (j < n <=> j # n) /\ j < n + 1
    BY <1>1
<1>2. \A i, j \in 1 .. n : IsRecord(u, i, j) <=>
                               /\ IsRecord(t, i, j)
                               /\ j = n => l.key = ""
  <2> SUFFICES ASSUME NEW i \in 1 .. n, NEW j \in 1 .. n
               PROVE  IsRecord(u, i, j) <=> IsRecord(t, i, j) /\ (j = n => l.key = "")
      OBVIOUS
  <2>1. (\A k \in i .. j : u[k].key # "") <=> (\A k \in i .. j : t[k].key # "")
    <3>1. \A k \in i .. j : u[k] = t[k]
        BY <1>1
    <3> QED
        BY <3>1
  <2>2. (i = 1 \/ u[i - 1].key = "") <=> (i = 1 \/ t[i - 1].key = "")
    <3>1. i # 1 => u[i - 1] = t[i - 1]
        BY <1>1
    <3> QED
        BY <3>1
  <2>3. (j = n + 1 \/ u[j + 1].key = "") <=>
            /\ j = n \/ t[j + 1].key = ""
            /\ j = n => l.key = ""
    <3>1. CASE j = n
      <4>1. u[j + 1] = l /\ j # n + 1
          BY <1>1, <3>1
      <4> QED
          BY <3>1, <4>1
    <3>2. CASE j # n
      <4>1. u[j + 1] = t[j + 1] /\ j # n + 1
          BY <1>1, <3>2
      <4> QED
          BY <3>2, <4>1
    <3> QED
        BY <3>1, <3>2
  <2> QED
      BY <1>1, <2>1, <2>2, <2>3 DEF IsRecord
<1>3. Closed(u) = R
  <2>1. ASSUME NEW r \in Closed(u)
        PROVE  r \in R
    <3>1. /\ r \in (1 .. n + 1) \X (1 .. n + 1) /\ r[1] \in 1 .. n + 1 /\ r[2] \in 1 .. n + 1
          /\ r[2] < n + 1 /\ IsRecord(u, r[1], r[2]) /\ r[1] <= r[2]
        BY <1>1 DEF Closed, Records, IsRecord
    <3>2. r[1] \in 1 .. n /\ r[2] \in 1 .. n
        BY <1>1, <3>1
    <3>3. r \in (1 .. n) \X (1 .. n)
        BY <3>1, <3>2
    <3>4. IsRecord(t, r[1], r[2]) /\ (r[2] = n => l.key = "")
        BY <1>2, <3>1, <3>2
    <3>5. r \in Records(t)
        BY <1>1, <3>3, <3>4 DEF Records
    <3>6. l.key # "" => r \in Closed(t)
      <4>1. l.key # "" => r[2] < n
          BY <1>0, <3>2, <3>4
      <4> QED
          BY <1>1, <3>5, <4>1 DEF Closed
    <3> QED
        BY <3>5, <3>6 DEF R
  <2>2. ASSUME NEW r \in R
        PROVE  r \in Closed(u)
    <3>0. r \in Records(t) /\ (l.key # "" => r[2] < n)
        BY <1>1 DEF Closed, R
    <3>1. /\ r \in (1 .. n) \X (1 .. n) /\ r[1] \in 1 .. n /\ r[2] \in 1 .. n
          /\ IsRecord(t, r[1], r[2]) /\ (r[2] = n => l.key = "")
      <4>1. r \in (1 .. n) \X (1 .. n) /\ IsRecord(t, r[1], r[2])
          BY <1>1, <3>0 DEF Records
      <4>2. r[1] \in 1 .. n /\ r[2] \in 1 .. n
          BY <4>1
      <4>3. r[2] = n => l.key = ""
          BY <1>0, <3>0, <4>2
      <4> QED
          BY <4>1, <4>2, <4>3
    <3>2. IsRecord(u, r[1], r[2])
        BY <1>2, <3>1
    <3>3. r \in (1 .. n + 1) \X (1 .. n + 1) /\ r[2] < n + 1
      <4>1. (1 .. n) \subseteq 1 .. n + 1
          BY <1>1
      <4>2. r[2] < n + 1
          BY <1>0, <3>1
      <4> QED
          BY <3>1, <4>1, <4>2
    <3> QED
        BY <1>1, <3>2, <3>3 DEF Closed, Records
  <2> QED
      BY <2>1, <2>2
<1>4. \A r \in R : EntriesOf(u, r[1], r[2], a) = EntriesOf(t, r[1], r[2], a)
  <2> SUFFICES ASSUME NEW r \in R
               PROVE  EntriesOf(u, r[1], r[2], a) = EntriesOf(t, r[1], r[2], a)
      OBVIOUS
  <2>1. r[1] \in 1 .. n /\ r[2] \in 1 .. n
    <3>1. r \in Records(t)
        BY DEF Closed, R
    <3>2. r \in (1 .. n) \X (1 .. n)
        BY <1>1, <3>1 DEF Records
    <3> QED
        BY <3>2
  <2>2. r[1] \in Nat \ {0} /\ r[2] \in 0 .. n
      BY <1>1, <2>1
  <2>3. r[2] \in 0 .. Len(t)
      BY <1>1, <2>2
  <2> QED
      BY <2>2, <2>3, EntriesStay DEF u
<1>5. EntriesIn(u, Closed(u), a) = EntriesIn(t, R, a)
    BY <1>3, <1>4 DEF EntriesIn
<1> QED
    BY <1>5 DEF R, u

\* A field's line, once it is added, is the one that counts, and any other
\* leaves the field as it was.
LEMMA FieldAdded ==
    ASSUME NEW t \in Seq(Line), NEW l \in Line, NEW i \in 1 .. Len(t) + 1, NEW key
    PROVE  LET u == Append(t, l)
               before == Holders(t, i, Len(t), key)
               after == Holders(u, i, Len(u), key)
           IN  IF l.key = key /\ (key = "t" => l.secs \in Time)
               THEN after # {} /\ Latest(u, i, key) = l
               ELSE /\ after = {} <=> before = {}
                    /\ before # {} => Latest(u, i, key) = Latest(t, i, key)
<1> DEFINE u == Append(t, l)
           n == Len(t)
           before == Holders(t, i, n, key)
           after == Holders(u, i, n + 1, key)
           holds == l.key = key /\ (key = "t" => l.secs \in Time)
<1>1. /\ n \in Nat /\ Len(t) = n /\ Len(u) = n + 1 /\ i \in Nat
      /\ \A k \in 1 .. n : u[k] = t[k]
      /\ u[n + 1] = l
    BY Appended
<1>2. i \in 1 .. n + 1
    OBVIOUS
<1> HIDE DEF u, n
<1>3. \A k \in i .. n : u[k] = t[k]
    BY <1>1, <1>2
<1>4. i .. n + 1 = (i .. n) \cup {n + 1}
    BY <1>1, <1>2
<1>5. after = before \cup (IF holds THEN {n + 1} ELSE {})
    BY <1>1, <1>3, <1>4 DEF Holders
<1>6. ASSUME holds
      PROVE  after # {} /\ LastLine(u, i, n + 1, key) = n + 1
  <2>1. n + 1 \in after
      BY <1>5, <1>6
  <2>2. LastLine(u, i, n + 1, key) \in i .. n + 1 /\ n + 1 <= LastLine(u, i, n + 1, key)
    <3>1. n + 1 \in Nat
        BY <1>1
    <3>2. LastLine(u, i, n + 1, key) \in after /\ n + 1 <= LastLine(u, i, n + 1, key)
        BY <1>1, <2>1, <3>1, LastLineHolds
    <3> QED
        BY <3>2 DEF Holders
  <2> HIDE DEF after
  <2> QED
      BY <1>1, <2>1, <2>2
<1>7. ASSUME ~holds
      PROVE  /\ after = before
             /\ before # {} => /\ LastLine(u, i, n + 1, key) = LastLine(t, i, n, key)
                               /\ LastLine(t, i, n, key) \in i .. n
  <2>1. after = before
      BY <1>5, <1>7
  <2>2. LastLine(u, i, n + 1, key) = LastLine(t, i, n, key)
      BY <2>1 DEF LastLine
  <2>3. before # {} => LastLine(t, i, n, key) \in i .. n
      BY <1>1, LastLineHolds DEF Holders
  <2> QED
      BY <2>1, <2>2, <2>3
<1> HIDE DEF before, after
<1>8. ASSUME holds
      PROVE  after # {} /\ u[LastLine(u, i, n + 1, key)] = l
    BY <1>1, <1>6, <1>8
<1>9. ASSUME ~holds
      PROVE  /\ after = {} <=> before = {}
             /\ before # {} => u[LastLine(u, i, n + 1, key)] = t[LastLine(t, i, n, key)]
    BY <1>3, <1>7, <1>9
<1> QED
    BY <1>1, <1>8, <1>9 DEF Latest, u, before, after

\* What a flush merges is what the lines since the last blank one stand for.
LEMMA PendingIsRecord ==
    ASSUME NEW t, NEW i, FieldsAre(t, i), NEW a
    PROVE  Pending(a) = EntriesOf(t, i, Len(t), a)
<1> DEFINE held(key) == Holders(t, i, Len(t), key) # {}
           complete == /\ held("P") /\ Latest(t, i, "P").text # Absent
                       /\ held("V") /\ Latest(t, i, "V").text # Absent
           time == IF held("t") THEN Latest(t, i, "t").secs ELSE NoTime
           given(T) == {Entry(k.name, k.version, time, a) : k \in
                           {x \in T : x.name # Absent
                                      /\ x.version \notin {NameOnly, Unversioned}}}
<1>1. EntriesOf(t, i, Len(t), a) =
          IF complete
          THEN {Entry(Latest(t, i, "P").text, Latest(t, i, "V").text, time, a)}
               \cup (IF held("p") THEN given(Latest(t, i, "p").tokens) ELSE {})
          ELSE {}
    BY DEF EntriesOf, Latest
<1>2. complete <=> name # Absent /\ version # Absent
    BY DEF FieldsAre
<1>3. complete => name = Latest(t, i, "P").text /\ version = Latest(t, i, "V").text
    BY DEF FieldsAre
<1>4. stamp = time
    BY DEF FieldsAre
<1>5. Provided(provides, stamp, a) = IF held("p") THEN given(Latest(t, i, "p").tokens) ELSE {}
  <2>1. Provided(provides, stamp, a) = given(provides)
      BY <1>4 DEF Provided
  <2>2. provides = IF held("p") THEN Latest(t, i, "p").tokens ELSE {}
      BY DEF FieldsAre
  <2>3. given({}) = {}
      OBVIOUS
  <2> QED
      BY <2>1, <2>2, <2>3
<1> HIDE DEF complete, held, time, given
<1> QED
    BY <1>1, <1>2, <1>3, <1>4, <1>5 DEF Pending

\* A line moves only the feed that is being parsed.
LEMMA OthersStay ==
    ASSUME NEW f \in Feed, archOf' = archOf, text'[f] = text[f]
    PROVE  FeedEntries(f)' = FeedEntries(f)
BY DEF FeedEntries

\* The entries of a feed, as those of its records.
LEMMA FeedsAreRecords ==
    \A f : FeedEntries(f) = EntriesIn(text[f], Records(text[f]), archOf[f])
BY DEF FeedEntries, EntriesIn, Records

LEMMA FieldsStart ==
    ASSUME NEW t, NEW i \in Nat, Len(t) \in Nat, i > Len(t),
           name = Absent, version = Absent, stamp = NoTime, provides = {}
    PROVE  FieldsAre(t, i)
<1>1. \A key : Holders(t, i, Len(t), key) = {}
    BY DEF Holders
<1> QED
    BY <1>1 DEF FieldsAre

LEMMA ParseStarts == Init => ParseInv
<1> SUFFICES ASSUME Init
             PROVE  ParseInv
    OBVIOUS
<1>1. TypeOK
    BY Initially DEF IInv
<1>2. \A f \in Feed : text[f] = <<>>
    BY DEF Init
<1>3. Opens(<<>>, 1) /\ FieldsAre(<<>>, 1)
    BY FieldsStart DEF Init, Opens
<1>4. \A f \in Feed : ~ (f < at)
    BY FeedsCounted, <1>1 DEF Init, Feed
<1>5. EntriesIn(<<>>, Closed(<<>>), archOf[at]) = {}
    BY DEF EntriesIn, Closed, Records
<1>6. merged = Merged
    BY <1>2, <1>4, <1>5 DEF Merged, From, Done, Init
<1>7. at \in Feed => \E i \in 1 .. Len(text[at]) + 1 :
                         Opens(text[at], i) /\ FieldsAre(text[at], i)
    BY <1>2, <1>3
<1> QED
    BY <1>1, <1>2, <1>6, <1>7 DEF ParseInv, Init

\* After a flush no lines hold the fields, which are as they began.
LEMMA FlushedStart ==
    ASSUME NEW a, Flush(a), NEW t, NEW i \in Nat, Len(t) \in Nat, i > Len(t)
    PROVE  /\ FieldsAre(t, i)'
           /\ merged' = merged \cup Pending(a)
           /\ name' = Absent /\ version' = Absent /\ stamp' = NoTime /\ provides' = {}
<1>1. \A key : Holders(t, i, Len(t), key) = {}
    BY DEF Holders
<1>2. name' = Absent /\ version' = Absent /\ stamp' = NoTime /\ provides' = {}
    BY DEF Flush
<1>3. merged' = merged \cup Pending(a)
    BY DEF Flush, Pending
<1>4. FieldsAre(t, i)'
    BY <1>1, <1>2 DEF FieldsAre
<1> QED
    BY <1>2, <1>3, <1>4

\* A field that is set is what the lines of its record say.
LEMMA SetFromLines ==
    ASSUME NEW t \in Seq(Line), NEW l \in Line, l.key # "", NEW i \in 1 .. Len(t) + 1,
           FieldsAre(t, i), SetField(l)
    PROVE  FieldsAre(Append(t, l), i)'
<1> DEFINE u == Append(t, l)
           before(key) == Holders(t, i, Len(t), key) # {}
           after(key) == Holders(u, i, Len(u), key) # {}
           holds(key) == l.key = key /\ (key = "t" => l.secs \in Time)
<1>1. \A key : IF holds(key)
               THEN after(key) /\ Latest(u, i, key) = l
               ELSE /\ after(key) <=> before(key)
                    /\ before(key) => Latest(u, i, key) = Latest(t, i, key)
  <2> SUFFICES ASSUME NEW key
               PROVE  IF holds(key)
                      THEN after(key) /\ Latest(u, i, key) = l
                      ELSE /\ after(key) <=> before(key)
                           /\ before(key) => Latest(u, i, key) = Latest(t, i, key)
      OBVIOUS
  <2>1. IF l.key = key /\ (key = "t" => l.secs \in Time)
        THEN Holders(u, i, Len(u), key) # {} /\ Latest(u, i, key) = l
        ELSE /\ Holders(u, i, Len(u), key) = {} <=> Holders(t, i, Len(t), key) = {}
             /\ Holders(t, i, Len(t), key) # {} => Latest(u, i, key) = Latest(t, i, key)
      BY FieldAdded
  <2> QED
      BY <2>1
<1>2. /\ name = IF before("P") THEN Latest(t, i, "P").text ELSE Absent
      /\ version = IF before("V") THEN Latest(t, i, "V").text ELSE Absent
      /\ stamp = IF before("t") THEN Latest(t, i, "t").secs ELSE NoTime
      /\ provides = IF before("p") THEN Latest(t, i, "p").tokens ELSE {}
    BY DEF FieldsAre
<1>3. /\ name' = IF holds("P") THEN l.text ELSE name
      /\ version' = IF holds("V") THEN l.text ELSE version
      /\ stamp' = IF holds("t") THEN l.secs ELSE stamp
      /\ provides' = IF holds("p") THEN l.tokens ELSE provides
  <2>1. l.secs \in Time <=> l.secs # Epoch /\ l.secs >= 0 /\ l.secs <= MaxUnixSec
      BY LineAssumption, TimesAre
  <2> QED
      BY <2>1 DEF SetField
<1> HIDE DEF u, before, after, holds
<1>4. name' = IF after("P") THEN Latest(u, i, "P").text ELSE Absent
    BY <1>1, <1>2, <1>3
<1>5. version' = IF after("V") THEN Latest(u, i, "V").text ELSE Absent
    BY <1>1, <1>2, <1>3
<1>6. stamp' = IF after("t") THEN Latest(u, i, "t").secs ELSE NoTime
    BY <1>1, <1>2, <1>3
<1>7. provides' = IF after("p") THEN Latest(u, i, "p").tokens ELSE {}
    BY <1>1, <1>2, <1>3
<1>8. FieldsAre(u, i)'
    BY <1>4, <1>5, <1>6, <1>7 DEF FieldsAre, after, u
<1> QED
    BY <1>8 DEF u

LEMMA ScanParses ==
    ASSUME IInv, ParseInv, NEW l \in Line, Scan(l)
    PROVE  ParseInv'
<1>0. PICK t, u, a : t = text[at] /\ u = Append(t, l) /\ a = archOf[at]
    OBVIOUS
<1>1. /\ TypeOK' /\ at \in Feed /\ at' = at /\ archOf' = archOf
      /\ Feed' = Feed /\ t \in Seq(Line)
    BY <1>0, ScanKeeps DEF IInv, ParseInv, TypeOK, Scan, Feed, NumFeeds
<1>2. \A f \in Feed : text'[f] = IF f = at THEN u ELSE text[f]
    BY <1>0 DEF ParseInv, TypeOK, Scan
<1>3. Len(t) \in Nat /\ Len(u) = Len(t) + 1 /\ u \in Seq(Line)
      /\ (\A k \in 1 .. Len(t) : u[k] = t[k]) /\ u[Len(t) + 1] = l
    BY <1>0, <1>1, Appended
<1>4. PICK i \in 1 .. Len(t) + 1 : Opens(t, i) /\ FieldsAre(t, i)
    BY <1>0, <1>1 DEF ParseInv
<1>5. text'[at'] = u /\ archOf'[at'] = a
    BY <1>0, <1>1, <1>2
<1>6. From(Done)' = From(Done)
  <2>1. Done' = Done
      BY <1>1 DEF Done
  <2>2. \A f \in Done : f \in Feed /\ f # at
      BY <1>1, FeedsCounted DEF Done, Feed, ParseInv
  <2>3. \A f \in Done : FeedEntries(f)' = FeedEntries(f)
      BY <1>1, <1>2, <2>2, OthersStay
  <2> QED
      BY <2>1, <2>3 DEF From
<1>7. merged = From(Done) \cup EntriesIn(t, Closed(t), a)
    BY <1>0, <1>1 DEF ParseInv, Merged
<1>8. Merged' = From(Done) \cup EntriesIn(u, Closed(u), a)
    BY <1>1, <1>5, <1>6 DEF Merged
<1>9. \A f \in Feed : f > at => text'[f] = <<>>
    BY <1>1, <1>2, FeedsCounted DEF ParseInv, Feed
<1>10. /\ merged' = Merged'
       /\ \E h \in 1 .. Len(u) + 1 : Opens(u, h) /\ FieldsAre(u, h)'
  <2>1. CASE l.key = ""
    <3>1. Flush(a)
        BY <1>0, <2>1 DEF Scan
    <3>2. merged' = merged \cup Pending(a) /\ FieldsAre(u, Len(u) + 1)'
      <4>1. Len(u) + 1 \in Nat /\ Len(u) \in Nat /\ Len(u) + 1 > Len(u)
          BY <1>3
      <4> QED
          BY <3>1, <4>1, FlushedStart
    <3>3. Pending(a) = EntriesOf(t, i, Len(t), a)
        BY <1>4, PendingIsRecord
    <3>4. EntriesIn(t, Records(t), a) = EntriesIn(t, Closed(t), a) \cup EntriesOf(t, i, Len(t), a)
        BY <1>1, <1>4, ClosedAndOpen
    <3>5. EntriesIn(u, Closed(u), a) = EntriesIn(t, Records(t), a)
        BY <1>0, <1>1, <2>1, Closes
    <3>6. merged' = Merged'
        BY <1>7, <1>8, <3>2, <3>3, <3>4, <3>5
    <3>7. Len(u) + 1 \in 1 .. Len(u) + 1
        BY <1>3
    <3>8. Opens(u, Len(u) + 1)
      <4>1. (Len(u) + 1) - 1 = Len(t) + 1 /\ \A k \in Len(u) + 1 .. Len(u) : FALSE
          BY <1>3
      <4>2. u[(Len(u) + 1) - 1].key = ""
          BY <1>3, <2>1, <4>1
      <4> QED
          BY <3>7, <4>1, <4>2 DEF Opens
    <3> QED
        BY <3>2, <3>6, <3>8, <3>7
  <2>2. CASE l.key # ""
    <3>1. SetField(l) /\ merged' = merged
        BY <2>2 DEF Scan
    <3>2. EntriesIn(u, Closed(u), a) = EntriesIn(t, Closed(t), a)
        BY <1>0, <1>1, <2>2, Closes
    <3>3. merged' = Merged'
        BY <1>7, <1>8, <3>1, <3>2
    <3>4. FieldsAre(u, i)'
        BY <1>0, <1>1, <1>4, <2>2, <3>1, SetFromLines
    <3>5. i \in 1 .. Len(u) + 1
        BY <1>3
    <3>6. Opens(u, i)
      <4>1. \A k \in i .. Len(t) : t[k].key # "" /\ k \in 1 .. Len(t)
        <5>1. \A k \in i .. Len(t) : k \in 1 .. Len(t)
            BY <1>3
        <5> QED
            BY <1>4, <5>1 DEF Opens
      <4>2. \A k \in i .. Len(u) : k \in i .. Len(t) \/ k = Len(t) + 1
          BY <1>3
      <4>3. \A k \in i .. Len(u) : u[k].key # ""
          BY <1>3, <2>2, <4>1, <4>2
      <4>4. i = 1 \/ u[i - 1].key = ""
        <5>1. i # 1 => i - 1 \in 1 .. Len(t)
            BY <1>3
        <5>2. i = 1 \/ t[i - 1].key = ""
            BY <1>4 DEF Opens
        <5>3. i # 1 => u[i - 1] = t[i - 1]
            BY <1>3, <5>1
        <5> QED
            BY <5>2, <5>3
      <4> QED
          BY <3>5, <4>3, <4>4 DEF Opens
    <3> QED
        BY <3>3, <3>4, <3>5, <3>6
  <2> QED
      BY <2>1, <2>2
<1>11. \E h \in 1 .. Len(text'[at']) + 1 : (Opens(text[at], h) /\ FieldsAre(text[at], h))'
    BY <1>5, <1>10 DEF FieldsAre
<1> QED
    BY <1>1, <1>9, <1>10, <1>11 DEF ParseInv

LEMMA EndFeedParses ==
    ASSUME IInv, ParseInv, EndFeed
    PROVE  ParseInv'
<1>0. PICK t, a : t = text[at] /\ a = archOf[at]
    OBVIOUS
<1>1. /\ TypeOK' /\ at \in Feed /\ at' = at + 1 /\ archOf' = archOf /\ text' = text
      /\ Feed' = Feed /\ t \in Seq(Line) /\ Flush(a)
    BY <1>0, EndFeedKeeps DEF IInv, ParseInv, TypeOK, EndFeed, Feed, NumFeeds
<1>2. NumFeeds \in Nat /\ at \in Nat
    BY <1>1, FeedsCounted DEF Feed, ParseInv
<1>3. PICK i \in 1 .. Len(t) + 1 : Opens(t, i) /\ FieldsAre(t, i)
    BY <1>0, <1>1 DEF ParseInv
<1>4. merged = From(Done) \cup EntriesIn(t, Closed(t), a)
    BY <1>0, <1>1 DEF ParseInv, Merged
<1>5. /\ FieldsAre(<<>>, 1)' /\ merged' = merged \cup Pending(a)
      /\ name' = Absent /\ version' = Absent /\ stamp' = NoTime /\ provides' = {}
  <2>1. Len(<<>>) \in Nat /\ 1 > Len(<<>>)
      OBVIOUS
  <2> QED
      BY <1>1, <2>1, FlushedStart
<1>6. FeedEntries(at) = EntriesIn(t, Closed(t), a) \cup Pending(a)
  <2>1. FeedEntries(at) = EntriesIn(t, Records(t), a)
      BY <1>0, FeedsAreRecords
  <2>2. Pending(a) = EntriesOf(t, i, Len(t), a)
      BY <1>3, PendingIsRecord
  <2> QED
      BY <1>1, <1>3, <2>1, <2>2, ClosedAndOpen
<1>7. merged' = From(Done \cup {at})
  <2>1. merged' = merged \cup Pending(a)
      BY <1>5
  <2>2. From(Done \cup {at}) = From(Done) \cup FeedEntries(at)
      BY DEF From
  <2> QED
      BY <1>4, <1>6, <2>1, <2>2
<1>8. Done' = Done \cup {at}
  <2>1. \A g \in Feed : g \in Int
      BY <1>2 DEF Feed
  <2>2. \A g \in Feed : g < at + 1 <=> g < at \/ g = at
      BY <1>2, <2>1
  <2>3. Done' = {g \in Feed : g < at + 1}
      BY <1>1 DEF Done
  <2> QED
      BY <1>1, <2>2, <2>3 DEF Done
<1>9. at' \in Feed => text'[at'] = <<>>
    BY <1>1, <1>2 DEF ParseInv
<1>10. \A f \in Feed : f > at' => text'[f] = <<>>
    BY <1>1, <1>2 DEF ParseInv, Feed
<1>11. merged' = Merged'
  <2>1. EntriesIn(<<>>, Closed(<<>>), archOf'[at']) = {}
      BY DEF EntriesIn, Closed, Records
  <2>2. \A f \in Feed : FeedEntries(f)' = FeedEntries(f)
      BY <1>1, OthersStay
  <2>3. From(Done)' = From(Done')
      BY <1>1, <2>2 DEF Done, From
  <2>4. Merged' = From(Done)'
      BY <1>1, <1>9, <2>1 DEF Merged
  <2> QED
      BY <1>7, <1>8, <2>3, <2>4
<1>12. at' \in Feed => \E h \in 1 .. Len(text'[at']) + 1 :
                          (Opens(text[at], h) /\ FieldsAre(text[at], h))'
  <2>1. Opens(<<>>, 1) /\ 1 \in 1 .. Len(<<>>) + 1
      BY DEF Opens
  <2> QED
      BY <1>5, <1>9, <2>1 DEF FieldsAre
<1> QED
    BY <1>1, <1>5, <1>10, <1>11, <1>12 DEF ParseInv

LEMMA InstallParses ==
    ASSUME IInv, ParseInv, Install
    PROVE  ParseInv'
<1>1. /\ TypeOK' /\ at' = at /\ at \notin Feed /\ archOf' = archOf /\ text' = text
      /\ Feed' = Feed /\ merged' = merged /\ record' = record
    BY InstallKeeps DEF IInv, Install, Feed, NumFeeds
<1>2. \A f \in Feed : FeedEntries(f)' = FeedEntries(f)
    BY <1>1, OthersStay
<1>3. Merged' = Merged
  <2>1. From(Done)' = From(Done)
      BY <1>1, <1>2 DEF From, Done
  <2> QED
      BY <1>1, <2>1 DEF Merged
<1> QED
    BY <1>1, <1>3 DEF ParseInv, record

\* The parser's fields, which run on from line to line, merge exactly the
\* entries of the records of the feeds: no field of one record, or of one
\* feed, gets into the next, and the last record of a feed is not lost.
THEOREM ParserIsExact == Spec => []ParsesRecords
<1>1. Init => IInv /\ ParseInv
    BY Initially, ParseStarts
<1>2. IInv /\ ParseInv /\ [Next]_vars => (IInv /\ ParseInv)'
  <2> SUFFICES ASSUME IInv, ParseInv, [Next]_vars
               PROVE  (IInv /\ ParseInv)'
      OBVIOUS
  <2>1. CASE \E l \in Line : Scan(l)
      BY <2>1, ScanKeeps, ScanParses
  <2>2. CASE EndFeed
      BY <2>2, EndFeedKeeps, EndFeedParses
  <2>3. CASE Install
      BY <2>3, InstallKeeps, InstallParses
  <2>4. CASE UNCHANGED vars
    <3>1. IInv'
        BY <2>4 DEF IInv, TypeOK, Dedupe, SameBuild, vars, record, Feed, NumFeeds
    <3>2. /\ archOf' = archOf /\ text' = text /\ at' = at /\ merged' = merged
          /\ Feed' = Feed /\ name' = name /\ version' = version
          /\ stamp' = stamp /\ provides' = provides
        BY <2>4 DEF vars, record, Feed, NumFeeds
    <3>3. \A f \in Feed : FeedEntries(f)' = FeedEntries(f)
        BY <3>2, OthersStay
    <3>4. Merged' = Merged
      <4>1. From(Done)' = From(Done)
          BY <3>2, <3>3 DEF From, Done
      <4> QED
          BY <3>2, <4>1 DEF Merged
    <3>5. \A t, i : FieldsAre(t, i)' <=> FieldsAre(t, i)
        BY <3>2 DEF FieldsAre
    <3> QED
        BY <3>1, <3>2, <3>4, <3>5 DEF ParseInv, IInv
  <2> QED
      BY <2>1, <2>2, <2>3, <2>4 DEF Next
<1>3. IInv /\ ParseInv => ParsesRecords
  <2> SUFFICES ASSUME IInv, ParseInv, installed
               PROVE  merged = UNION {FeedEntries(f) : f \in Feed}
      BY DEF ParsesRecords
  <2>1. at \notin Feed /\ at \in 1 .. NumFeeds + 1 /\ NumFeeds \in Nat
      BY FeedsCounted DEF ParseInv, TypeOK
  <2>2. \A f \in Feed : f < at
      BY <2>1 DEF Feed
  <2>3. Done = Feed /\ merged = From(Done)
      BY <2>1, <2>2 DEF ParseInv, Merged, Done
  <2> QED
      BY <2>3 DEF From
<1> QED
    BY <1>1, <1>2, <1>3, PTL DEF Spec
=============================================================================
