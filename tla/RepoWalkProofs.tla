--------------------------- MODULE RepoWalkProofs ---------------------------
(***************************************************************************)
(* For any set of groups, with any names, any links between them and any   *)
(* changes to them while the walk runs: the walk overlooks nothing, lists  *)
(* each repository once and reports no cycle without reason, and what it   *)
(* lists and stays is found again.                                         *)
(***************************************************************************)
EXTENDS RepoWalk, SequenceTheorems, TLAPS

-----------------------------------------------------------------------------
(* The invariant.                                                          *)

Active == {"enter", "repos", "groups", "loop"}
GroupName == {NameOf(g) : g \in Group}
FrameType == [at : Group, prefix : Seq(GroupName), todo : SUBSET Group]

\* There are calls on the stack while the walk runs, and no more than the
\* depth allows.
StackInv ==
    /\ stack \in Seq(FrameType)
    /\ pc \in Active <=> stack # <<>>
    /\ pc \in Active \ {"enter"} => Len(stack) <= MaxGroupDepth + 1

HistoryInv == links \subseteq everLinks /\ settled \subseteq links /\ kept \subseteq holds

\* The stack is a path from the root along links, and a prefix its names.
PathInv ==
    \A i \in 1 .. Len(stack) :
        /\ i = 1 => stack[i].at = Root /\ stack[i].prefix = <<>>
        /\ i > 1 => /\ <<stack[i - 1].at, stack[i].at>> \in everLinks
                    /\ stack[i].prefix = Append(stack[i - 1].prefix, NameOf(stack[i].at))
        /\ \A g \in stack[i].todo : <<stack[i].at, g>> \in everLinks

\* The groups on the stack are visited, and differ, save that the last may
\* be about to be entered.
Entered == {i \in 1 .. Len(stack) : i < Len(stack) \/ pc # "enter"}
VisitInv ==
    /\ \A i \in Entered : stack[i].at \in visited
    /\ \A i, j \in Entered : stack[i].at = stack[j].at => i = j
    /\ pc = "enter" /\ Len(stack) = 1 => visited = {}

\* Group h's loop has been at its subgroup g, and will not be again.
Past(h, g) ==
    /\ pc \in {"repos", "groups"} => Top.at # h
    /\ \A i \in 1 .. Len(stack) : stack[i].at = h => g \notin stack[i].todo

\* Each visited group was entered from another's loop, so that one that is
\* about to be entered again has a second parent.
TreeInv ==
    pc \in Active =>
        \A g \in visited \ {Root} :
            \E h \in visited : <<h, g>> \in everLinks /\ Past(h, g)
AgainInv ==
    pc = "enter" /\ Len(stack) > 1 =>
        /\ Top.at \notin stack[Len(stack) - 1].todo
        /\ Top.at \in visited \ {Root} =>
               \E h \in Group : h # stack[Len(stack) - 1].at /\ <<h, Top.at>> \in everLinks

\* The way by which the walk came to each group it has visited: the way to
\* another group, and its name.  It is what the calls on the stack have for a
\* prefix, and what is listed begins with.  Where siblings differ, no two
\* groups have the same way.
WayRight(way) ==
    /\ Root \in visited => way[Root] = <<>>
    /\ \A g \in visited \ {Root} :
           \E h \in visited : <<h, g>> \in everLinks /\ way[g] = Append(way[h], NameOf(g))
    /\ \A i \in Entered : way[stack[i].at] = stack[i].prefix
    /\ \A x \in DOMAIN out :
           \E g \in visited, r \in Repo : x = Listing(g, r, Append(way[g], r))
    /\ SiblingsDiffer => \A g, h \in visited : way[g] = way[h] => g = h
WayInv == \E way \in [visited -> Seq(GroupName)] : WayRight(way)

\* Nothing is listed twice, nor yet of a group whose repositories are next.
CountInv ==
    \A x \in DOMAIN out : out[x] = 1 /\ (pc = "repos" => x.group # Top.at)

\* The walk has been at the end of a chain, or some call on the stack, at one
\* of its groups, has still to take it, or go on along it.
Names(chain, n) == [k \in 1 .. n |-> NameOf(chain[k + 1])]
Pending(chain) ==
    \E i \in 1 .. Len(stack), j \in 1 .. Len(chain) :
        /\ stack[i].at = chain[j]
        /\ stack[i].prefix = Names(chain, j - 1)
        /\ \/ j < Len(chain) /\ chain[j + 1] \in stack[i].todo
           \/ i = Len(stack) /\ pc \in {"enter", "repos"}
           \/ i = Len(stack) /\ pc = "groups" /\ j < Len(chain)
CoverInv ==
    pc \in Active \cup {"done"} =>
        \A chain \in SettledChains : \A r \in Repo :
            <<chain[Len(chain)], r>> \in kept =>
                \/ BagIn(Listing(chain[Len(chain)], r, PathOf(chain, r)), out)
                \/ Pending(chain)

\* A resolution has a segment to go, and starts from the root.
SegmentInv ==
    /\ sought \in Seq(GroupName \cup Repo) /\ segment \in Nat \ {0}
    /\ pc \in Active \cup {"done"} => sought = <<>> /\ segment = 1 /\ parent = Root
    /\ pc = "resolve" => segment <= Len(sought)

\* On its way down a chain, it is at the chain's group.
ResolveInv ==
    \A chain \in SettledChains : \A r \in Repo :
        <<chain[Len(chain)], r>> \in kept /\ PathOf(chain, r) = sought /\ Unmistakable(chain) =>
            /\ pc = "resolve" => parent = chain[segment]
            /\ pc = "found" => parent = chain[Len(chain)]
            /\ pc # "notFound"

IInv ==
    /\ TypeOK /\ StackInv /\ HistoryInv /\ PathInv /\ VisitInv
    /\ TreeInv /\ AgainInv /\ CycleIsReal
    /\ SegmentInv /\ CoverInv /\ WayInv /\ CountInv

-----------------------------------------------------------------------------
(* Sequences: the stack, chains and paths.                                 *)

LEMMA StackIs ==
    ASSUME stack \in Seq(FrameType)
    PROVE  /\ Len(stack) \in Nat
           /\ stack # <<>> <=> Len(stack) > 0
           /\ \A i \in 1 .. Len(stack) : stack[i] \in FrameType
           /\ stack # <<>> => Top \in FrameType
<1>1. Len(stack) \in Nat /\ (stack # <<>> <=> Len(stack) > 0)
    BY EmptySeq, LenProperties
<1>2. \A i \in 1 .. Len(stack) : stack[i] \in FrameType
    BY ElementOfSeq
<1> QED
    BY <1>1, <1>2 DEF Top

LEMMA CallersAre ==
    ASSUME stack \in Seq(FrameType), stack # <<>>
    PROVE  /\ Callers \in Seq(FrameType)
           /\ Len(Callers) = Len(stack) - 1
           /\ \A i \in 1 .. Len(stack) - 1 : Callers[i] = stack[i]
           /\ Callers = <<>> <=> Len(stack) = 1
<1>1. Len(stack) \in Nat \ {0} /\ \A i \in 1 .. Len(stack) : stack[i] \in FrameType
    BY StackIs
<1>2. \A i \in 1 .. Len(stack) - 1 : stack[i] \in FrameType
    BY <1>1
<1>3. /\ Callers \in Seq(FrameType)
      /\ Len(Callers) = Len(stack) - 1
      /\ \A i \in 1 .. Len(stack) - 1 : Callers[i] = stack[i]
  <2> DEFINE n == Len(stack) - 1
  <2>1. n \in Int /\ 1 \in Int /\ \A i \in 1 .. n : stack[i] \in FrameType
      BY <1>1, <1>2
  <2> HIDE DEF n
  <2>2. /\ SubSeq(stack, 1, n) \in Seq(FrameType)
        /\ Len(SubSeq(stack, 1, n)) = IF 1 <= n THEN n - 1 + 1 ELSE 0
        /\ \A i \in 1 .. n - 1 + 1 : SubSeq(stack, 1, n)[i] = stack[1 + i - 1]
      BY <2>1, SubSeqProperties
  <2>3. Callers = SubSeq(stack, 1, n) /\ n \in Nat
      BY <1>1 DEF n, Callers
  <2>4. Callers \in Seq(FrameType) /\ Len(Callers) = n
      BY <2>2, <2>3
  <2>5. \A i \in 1 .. n : Callers[i] = stack[i]
      BY <2>2, <2>3
  <2> QED
      BY <2>4, <2>5 DEF n
<1> QED
    BY <1>1, <1>3, EmptySeq

\* The last call replaced, as it is by ListGroups...
LEMMA Replaced ==
    ASSUME stack \in Seq(FrameType), stack # <<>>, NEW f \in FrameType
    PROVE  /\ Append(Callers, f) \in Seq(FrameType)
           /\ Len(Append(Callers, f)) = Len(stack)
           /\ \A i \in 1 .. Len(stack) :
                  Append(Callers, f)[i] = IF i = Len(stack) THEN f ELSE stack[i]
<1>1. Len(stack) \in Nat \ {0}
    BY StackIs
<1>2. /\ Append(Callers, f) \in Seq(FrameType)
      /\ Len(Append(Callers, f)) = Len(Callers) + 1
      /\ \A i \in 1 .. Len(Callers) : Append(Callers, f)[i] = Callers[i]
      /\ Append(Callers, f)[Len(Callers) + 1] = f
    BY CallersAre, AppendProperties
<1> QED
    BY <1>1, <1>2, CallersAre

\* ...and with a call put on it, as by Descend.
LEMMA Called ==
    ASSUME stack \in Seq(FrameType), stack # <<>>, NEW f \in FrameType, NEW g \in FrameType
    PROVE  /\ Callers \o <<f, g>> \in Seq(FrameType)
           /\ Len(Callers \o <<f, g>>) = Len(stack) + 1
           /\ \A i \in 1 .. Len(stack) + 1 :
                  (Callers \o <<f, g>>)[i] = IF i = Len(stack) THEN f
                                             ELSE IF i = Len(stack) + 1 THEN g ELSE stack[i]
<1>1. Len(stack) \in Nat \ {0}
    BY StackIs
<1>2. <<f, g>> \in Seq(FrameType) /\ Len(<<f, g>>) = 2 /\ <<f, g>>[1] = f /\ <<f, g>>[2] = g
    OBVIOUS
<1>3. /\ Callers \o <<f, g>> \in Seq(FrameType)
      /\ Len(Callers \o <<f, g>>) = Len(Callers) + 2
      /\ \A i \in 1 .. Len(Callers) + 2 :
            (Callers \o <<f, g>>)[i] = IF i <= Len(Callers) THEN Callers[i] ELSE <<f, g>>[i - Len(Callers)]
    BY <1>2, CallersAre, ConcatProperties
<1> QED
    BY <1>1, <1>2, <1>3, CallersAre

\* Chains, and the paths they name.
LEMMA ChainsAre ==
    ASSUME NEW chain \in SettledChains
    PROVE  /\ chain \in Seq(Group)
           /\ Len(chain) \in Nat \ {0}
           /\ \A i \in 1 .. Len(chain) : chain[i] \in Group
           /\ chain[1] = Root
           /\ \A i \in 1 .. Len(chain) - 1 : <<chain[i], chain[i + 1]>> \in settled
<1>1. PICK n \in 1 .. MaxGroupDepth + 2 : chain \in [1 .. n -> Group]
    BY DEF SettledChains
<1>2. n \in Nat \ {0} /\ chain \in Seq(Group)
    BY <1>1, DepthAssumption, SeqDef
<1>3. Len(chain) \in Nat /\ DOMAIN chain = 1 .. Len(chain)
    BY <1>2, LenProperties
<1>4. Len(chain) \in Nat \ {0}
    BY <1>1, <1>2, <1>3
<1>5. \A i \in 1 .. Len(chain) : chain[i] \in Group
    BY <1>2, ElementOfSeq
<1> QED
    BY <1>2, <1>4, <1>5 DEF SettledChains

LEMMA NamesAre ==
    ASSUME NEW chain \in Seq(Group), NEW n \in Nat, n < Len(chain)
    PROVE  /\ Names(chain, n) \in Seq(GroupName)
           /\ Len(Names(chain, n)) = n
           /\ \A k \in 1 .. n : Names(chain, n)[k] = NameOf(chain[k + 1])
<1>1. Len(chain) \in Nat /\ \A k \in 1 .. n : chain[k + 1] \in Group
    BY LenProperties, ElementOfSeq
<1>2. Names(chain, n) \in [1 .. n -> GroupName]
    BY <1>1 DEF Names, GroupName
<1>3. Names(chain, n) \in Seq(GroupName)
    BY <1>2, SeqDef
<1>4. Len(Names(chain, n)) = n
  <2>1. DOMAIN Names(chain, n) = 1 .. n /\ DOMAIN Names(chain, n) = 1 .. Len(Names(chain, n))
      BY <1>3, LenProperties DEF Names
  <2> QED
      BY <1>3, <2>1, LenProperties
<1> QED
    BY <1>3, <1>4 DEF Names

\* A subgroup's prefix is its group's with a name put to it.
LEMMA NamesGrow ==
    ASSUME NEW chain \in Seq(Group), NEW n \in Nat, n + 1 < Len(chain)
    PROVE  Names(chain, n + 1) = Append(Names(chain, n), NameOf(chain[n + 2]))
<1>1. Len(chain) \in Nat /\ n < Len(chain) /\ chain[n + 2] \in Group
    BY LenProperties, ElementOfSeq
<1>2. NameOf(chain[n + 2]) \in GroupName
    BY <1>1 DEF GroupName
<1> DEFINE a == Append(Names(chain, n), NameOf(chain[n + 2]))
<1>3. /\ a \in Seq(GroupName) /\ Len(a) = n + 1
      /\ \A k \in 1 .. n : a[k] = NameOf(chain[k + 1])
      /\ a[n + 1] = NameOf(chain[n + 2])
    BY <1>1, <1>2, NamesAre, AppendProperties
<1>4. /\ Names(chain, n + 1) \in Seq(GroupName) /\ Len(Names(chain, n + 1)) = n + 1
      /\ \A k \in 1 .. n + 1 : Names(chain, n + 1)[k] = NameOf(chain[k + 1])
    BY NamesAre
<1> HIDE DEF a
<1>5. ASSUME NEW k \in 1 .. n + 1
      PROVE  Names(chain, n + 1)[k] = a[k]
  <2>1. Names(chain, n + 1)[k] = NameOf(chain[k + 1])
      BY <1>4
  <2>2. CASE k = n + 1
      BY <1>3, <2>1, <2>2
  <2>3. CASE k # n + 1
      BY <1>3, <2>1, <2>3
  <2> QED
      BY <2>2, <2>3
<1>6. Names(chain, n + 1) = a
    BY <1>3, <1>4, <1>5, SeqEqual
<1> QED
    BY <1>6 DEF a

LEMMA PathsAre ==
    ASSUME NEW chain \in SettledChains, NEW r \in Repo
    PROVE  /\ PathOf(chain, r) = Append(Names(chain, Len(chain) - 1), r)
           /\ Len(PathOf(chain, r)) = Len(chain)
           /\ \A k \in 1 .. Len(chain) - 1 : PathOf(chain, r)[k] = NameOf(chain[k + 1])
           /\ PathOf(chain, r)[Len(chain)] = r
<1> DEFINE n == Len(chain) - 1
<1>1. n \in Nat /\ n < Len(chain) /\ chain \in Seq(Group) /\ Len(chain) = n + 1
    BY ChainsAre
<1>2. /\ Names(chain, n) \in Seq(GroupName)
      /\ Len(Names(chain, n)) = n
      /\ \A k \in 1 .. n : Names(chain, n)[k] = NameOf(chain[k + 1])
    BY <1>1, NamesAre
<1>3. Names(chain, n) \in Seq(GroupName \cup Repo)
    BY <1>2, SeqMonotonic
<1>4. PathOf(chain, r) = Append(Names(chain, n), r)
  <2>1. PathOf(chain, r) = Names(chain, n) \o <<r>>
      BY DEF PathOf, Names
  <2> QED
      BY <1>3, <2>1, AppendIsConcat
<1>5. /\ Len(Append(Names(chain, n), r)) = n + 1
      /\ \A k \in 1 .. n : Append(Names(chain, n), r)[k] = Names(chain, n)[k]
      /\ Append(Names(chain, n), r)[n + 1] = r
    BY <1>2, <1>3, AppendProperties
<1> QED
    BY <1>1, <1>2, <1>4, <1>5

-----------------------------------------------------------------------------
(* The invariant at the start, and while the organisation is edited.       *)

LEMMA NoPaths == IsABag(EmptyBag) /\ DOMAIN EmptyBag = {}
BY DEF EmptyBag, SetToBag, IsABag

LEMMA NoNames ==
    ASSUME NEW chain \in SettledChains
    PROVE  Names(chain, 0) = <<>>
BY ChainsAre, NamesAre, EmptySeq

\* Steps that visit no further group keep the ways, if they leave on the
\* stack calls that were there, and list what is in their groups.
LEMMA WaysStay ==
    ASSUME WayInv, visited' = visited, everLinks \subseteq everLinks',
           \A i \in Entered : stack[i].at \in visited,
           \A i \in Entered' : \E j \in Entered :
               stack'[i].at = stack[j].at /\ stack'[i].prefix = stack[j].prefix,
           \A x \in DOMAIN out' :
               \/ x \in DOMAIN out
               \/ \E i \in Entered, r \in Repo :
                      x = Listing(stack[i].at, r, Append(stack[i].prefix, r))
    PROVE  WayInv'
<1>1. PICK way \in [visited -> Seq(GroupName)] : WayRight(way)
    BY DEF WayInv
<1>2. Root \in visited => way[Root] = <<>>
    BY <1>1 DEF WayRight
<1>3. \A g \in visited \ {Root} :
          \E h \in visited : <<h, g>> \in everLinks' /\ way[g] = Append(way[h], NameOf(g))
    BY <1>1 DEF WayRight
<1>4. \A i \in Entered' : way[stack'[i].at] = stack'[i].prefix
    BY <1>1 DEF WayRight
<1>5. \A x \in DOMAIN out' :
          \E g \in visited, r \in Repo : x = Listing(g, r, Append(way[g], r))
  <2> SUFFICES ASSUME NEW x \in DOMAIN out'
               PROVE  \E g \in visited, r \in Repo : x = Listing(g, r, Append(way[g], r))
      OBVIOUS
  <2>1. CASE x \in DOMAIN out
      BY <1>1, <2>1 DEF WayRight
  <2>2. ASSUME NEW i \in Entered, NEW r \in Repo,
               x = Listing(stack[i].at, r, Append(stack[i].prefix, r))
        PROVE  \E g \in visited, q \in Repo : x = Listing(g, q, Append(way[g], q))
    <3>1. stack[i].at \in visited /\ way[stack[i].at] = stack[i].prefix
        BY <1>1 DEF WayRight
    <3> QED
        BY <2>2, <3>1
  <2> QED
      BY <2>1, <2>2
<1>6. SiblingsDiffer' => SiblingsDiffer
    BY DEF SiblingsDiffer
<1>7. SiblingsDiffer' => \A g, h \in visited : way[g] = way[h] => g = h
    BY <1>1, <1>6 DEF WayRight
<1>8. WayRight(way)'
    BY <1>2, <1>3, <1>4, <1>5, <1>7 DEF WayRight
<1> QED
    BY <1>1, <1>8 DEF WayInv

LEMMA InitIInv == Init => IInv
<1> SUFFICES ASSUME Init
             PROVE  IInv
    OBVIOUS
<1> DEFINE f == Frame(Root, <<>>, {})
<1>1. stack = <<f>> /\ f \in FrameType /\ f.at = Root /\ f.prefix = <<>> /\ f.todo = {}
    BY GroupAssumption, EmptySeq DEF Init, Frame, FrameType
<1> HIDE DEF f
<1>2. stack \in Seq(FrameType) /\ Len(stack) = 1 /\ stack[1] = f /\ stack # <<>>
    BY <1>1
<1>3. pc = "enter" /\ visited = {} /\ out = EmptyBag
    BY DEF Init
<1>4. TypeOK
  <2>1. Len(stack) <= MaxGroupDepth + 2 /\ 0 \in 0 .. MaxEdits
      BY <1>2, DepthAssumption
  <2>2. DOMAIN stack = {1}
      BY <1>1
  <2> QED
      BY <1>1, <1>2, <2>1, <2>2, NoPaths, GroupAssumption DEF Init, TypeOK
<1>5. StackInv
    BY <1>2, <1>3 DEF StackInv, Active
<1>6. HistoryInv /\ AgainInv /\ CycleIsReal /\ CountInv
    BY <1>2, <1>3, NoPaths DEF Init, HistoryInv, AgainInv, CycleIsReal, CountInv
<1>7. PathInv /\ VisitInv /\ TreeInv
    BY <1>1, <1>2, <1>3 DEF PathInv, VisitInv, Entered, TreeInv
<1>8. SegmentInv
    BY EmptySeq DEF Init, SegmentInv
<1>9. CoverInv
  <2> SUFFICES ASSUME NEW chain \in SettledChains
               PROVE  Pending(chain)
      BY DEF CoverInv
  <2>1. /\ 1 \in 1 .. Len(stack) /\ 1 \in 1 .. Len(chain)
        /\ stack[1].at = chain[1] /\ stack[1].prefix = Names(chain, 1 - 1)
      BY <1>1, <1>2, ChainsAre, NoNames
  <2> QED
      BY <1>2, <1>3, <2>1 DEF Pending
<1>10. WayInv
  <2> DEFINE way == [g \in {} |-> <<>>]
  <2>1. way \in [visited -> Seq(GroupName)]
      BY <1>3
  <2>2. Entered = {}
      BY <1>2, <1>3 DEF Entered
  <2>3. WayRight(way)
      BY <1>3, <2>2, NoPaths DEF WayRight
  <2> QED
      BY <2>1, <2>3 DEF WayInv
<1> QED
    BY <1>4, <1>5, <1>6, <1>7, <1>8, <1>9, <1>10 DEF IInv

\* What was there all the time can only become less, what there ever was only
\* more.
LEMMA EditsKeep ==
    ASSUME IInv, UNCHANGED <<walk, resolve>>,
           links' \subseteq Link, everLinks' \subseteq Link, holds' \subseteq Group \X Repo,
           edits' \in 0 .. MaxEdits,
           everLinks \subseteq everLinks', links' \subseteq everLinks',
           settled' \subseteq settled, settled' \subseteq links',
           kept' \subseteq kept, kept' \subseteq holds'
    PROVE  IInv'
<1>1. UNCHANGED <<pc, stack, visited, out, sought, segment, parent>>
    BY DEF walk, resolve
<1>2. \A chain \in SettledChains' : chain \in SettledChains
    BY DEF SettledChains
<1>3. TypeOK' /\ HistoryInv'
    BY <1>1 DEF IInv, TypeOK, HistoryInv, Active, Ended, Stopped
<1>4. StackInv' /\ VisitInv' /\ SegmentInv'
    BY <1>1 DEF IInv, StackInv, VisitInv, Entered, SegmentInv
<1>5. PathInv'
    BY <1>1 DEF IInv, PathInv
<1>6. TreeInv' /\ AgainInv'
  <2>1. UNCHANGED Top /\ \A h, g \in Group : Past(h, g) => Past(h, g)'
      BY <1>1 DEF Past, Top
  <2>2. visited \subseteq Group
      BY DEF IInv, TypeOK
  <2>3. TreeInv'
      BY <1>1, <2>1, <2>2 DEF IInv, TreeInv
  <2>4. AgainInv'
      BY <1>1, <2>1 DEF IInv, AgainInv
  <2> QED
      BY <2>3, <2>4
<1>7. CycleIsReal'
    BY <1>1 DEF IInv, CycleIsReal
<1>8. CoverInv'
    BY <1>1, <1>2 DEF IInv, CoverInv, Pending, Names, PathOf, BagIn, BagToSet
<1>9. WayInv' /\ CountInv'
  <2>1. Entered' = Entered /\ UNCHANGED Top
      BY <1>1 DEF Entered, Top
  <2>2. WayInv'
      BY <1>1, <2>1, WaysStay DEF IInv, VisitInv
  <2> QED
      BY <1>1, <2>1, <2>2 DEF IInv, CountInv
<1> QED
    BY <1>3, <1>4, <1>5, <1>6, <1>7, <1>8, <1>9 DEF IInv

LEMMA EditLinkKeeps ==
    ASSUME IInv, NEW e \in Link, EditLink(e)
    PROVE  IInv'
<1>1. /\ links \subseteq Link /\ everLinks \subseteq Link /\ holds \subseteq Group \X Repo
      /\ edits \in 0 .. MaxEdits /\ links \subseteq everLinks
      /\ settled \subseteq links /\ kept \subseteq holds
    BY DEF IInv, TypeOK, HistoryInv
<1>2. /\ links' \subseteq Link
      /\ everLinks' = everLinks \cup links' /\ settled' = settled \cap links'
      /\ UNCHANGED <<holds, kept, walk, resolve>>
    BY <1>1 DEF EditLink, Toggle
<1>3. edits' \in 0 .. MaxEdits
    BY <1>1, DepthAssumption DEF EditLink
<1> QED
    BY <1>1, <1>2, <1>3, EditsKeep

LEMMA EditRepoKeeps ==
    ASSUME IInv, NEW e \in Group \X Repo, EditRepo(e)
    PROVE  IInv'
<1>1. /\ links \subseteq Link /\ everLinks \subseteq Link /\ holds \subseteq Group \X Repo
      /\ edits \in 0 .. MaxEdits /\ links \subseteq everLinks
      /\ settled \subseteq links /\ kept \subseteq holds
    BY DEF IInv, TypeOK, HistoryInv
<1>2. /\ holds' \subseteq Group \X Repo /\ kept' = kept \cap holds'
      /\ UNCHANGED <<links, everLinks, settled, walk, resolve>>
    BY <1>1 DEF EditRepo, Toggle
<1>3. edits' \in 0 .. MaxEdits
    BY <1>1, DepthAssumption DEF EditRepo
<1> QED
    BY <1>1, <1>2, <1>3, EditsKeep

-----------------------------------------------------------------------------
(* The walk's steps.                                                       *)

\* Types that a step of the walk cannot disturb otherwise.
LEMMA WalkTypes ==
    ASSUME IInv, UNCHANGED <<upstream, resolve>>,
           pc' \in {"enter", "repos", "groups", "loop"} \cup Ended, pc' # "resolve",
           stack' \in Seq(FrameType), Len(stack') <= MaxGroupDepth + 2,
           visited' \subseteq Group, IsABag(out')
    PROVE  TypeOK' /\ HistoryInv'
<1>1. UNCHANGED <<links, holds, edits, everLinks, settled, kept, sought, segment, parent>>
    BY DEF upstream, resolve
<1>2. \A i \in DOMAIN stack' : stack'[i].at \in Group /\ stack'[i].todo \subseteq Group
  <2>1. DOMAIN stack' = 1 .. Len(stack') /\ \A i \in 1 .. Len(stack') : stack'[i] \in FrameType
      BY LenProperties, ElementOfSeq
  <2> QED
      BY <2>1 DEF FrameType
<1> QED
    BY <1>1, <1>2 DEF IInv, TypeOK, HistoryInv

\* An error leaves nothing behind.
LEMMA AbandonKeeps ==
    ASSUME IInv, pc \in Active, NEW error \in {"tooDeep", "cycle", "failed"}, Abandon(error),
           UNCHANGED <<upstream, resolve>>,
           error = "cycle" =>
               \E g \in Group :
                   \/ <<g, Root>> \in everLinks
                   \/ \E h, k \in Group : h # k /\ <<h, g>> \in everLinks /\ <<k, g>> \in everLinks
    PROVE  IInv'
<1>1. /\ pc' = error /\ stack' = <<>> /\ out' = EmptyBag /\ UNCHANGED visited
      /\ UNCHANGED <<everLinks, sought, segment, parent>>
    BY DEF Abandon, upstream, resolve
<1>2. stack' \in Seq(FrameType) /\ Len(stack') = 0
    BY <1>1, EmptySeq
<1>3. visited' \subseteq Group
    BY <1>1 DEF IInv, TypeOK
<1>4. TypeOK' /\ HistoryInv'
    BY <1>1, <1>2, <1>3, NoPaths, DepthAssumption, WalkTypes DEF Ended, Stopped
<1>5. StackInv' /\ PathInv' /\ VisitInv' /\ TreeInv' /\ AgainInv' /\ CoverInv'
    BY <1>1, <1>2 DEF StackInv, PathInv, VisitInv, Entered, TreeInv, AgainInv, CoverInv, Active
<1>6. CycleIsReal'
    BY <1>1 DEF CycleIsReal
<1>7. WayInv' /\ CountInv'
  <2>1. Entered' = {} /\ DOMAIN out' = {}
      BY <1>1, <1>2, NoPaths DEF Entered
  <2>2. WayInv'
      BY <1>1, <2>1, WaysStay DEF IInv, VisitInv
  <2> QED
      BY <2>1, <2>2 DEF CountInv
<1>8. SegmentInv'
    BY <1>1 DEF IInv, SegmentInv, Active
<1> QED
    BY <1>4, <1>5, <1>6, <1>7, <1>8 DEF IInv

\* A step of the walk that goes on leaves the resolution to come.
LEMMA WalkSeeks ==
    ASSUME IInv, pc \in Active, pc' \in Active \cup {"done"}, UNCHANGED <<upstream, resolve>>
    PROVE  CycleIsReal' /\ SegmentInv'
<1>1. UNCHANGED <<sought, segment, parent>>
    BY DEF resolve
<1>2. SegmentInv' /\ sought' = <<>>
    BY <1>1 DEF IInv, SegmentInv, Active
<1> QED
    BY <1>2 DEF CycleIsReal, Active

\* A group is entered on a way of its own: on the same way is, if any, a
\* namesake among its siblings.
LEMMA EnterFinds ==
    ASSUME IInv, Enter, ~ (Len(stack) - 1 > MaxGroupDepth), Top.at \notin visited
    PROVE  WayInv'
<1> DEFINE n == Len(stack)
           t == Top
<1>1. /\ pc = "enter" /\ pc' = "repos" /\ visited' = visited \cup {t.at}
      /\ UNCHANGED <<stack, out, everLinks>>
    BY DEF Enter, upstream
<1>2. stack \in Seq(FrameType) /\ n \in Nat \ {0} /\ t = stack[n] /\ t \in FrameType
    BY <1>1, StackIs DEF IInv, StackInv, Active, Top
<1>3. t.at \in Group /\ t.prefix \in Seq(GroupName) /\ visited \subseteq Group /\ t.at \notin visited
    BY <1>2 DEF FrameType, IInv, TypeOK
<1>4. PICK way \in [visited -> Seq(GroupName)] : WayRight(way)
    BY DEF IInv, WayInv
<1> HIDE DEF t
<1>5. PICK longer \in [visited' -> Seq(GroupName)] :
          longer[t.at] = t.prefix /\ \A g \in visited : longer[g] = way[g]
  <2> DEFINE added == [g \in visited \cup {t.at} |-> IF g = t.at THEN t.prefix ELSE way[g]]
  <2>1. added \in [visited' -> Seq(GroupName)]
      BY <1>1, <1>3
  <2>2. added[t.at] = t.prefix /\ \A g \in visited : added[g] = way[g]
      BY <1>3
  <2> QED
      BY <2>1, <2>2
<1>6. longer[t.at] = t.prefix /\ \A g \in visited : longer[g] = way[g]
    BY <1>5
<1>7. CASE n = 1
  <2>1. t.at = Root /\ t.prefix = <<>> /\ visited = {}
    <3>1. PathInv /\ VisitInv
        BY DEF IInv
    <3>2. visited = {}
        BY <1>1, <1>7, <3>1 DEF VisitInv
    <3> QED
        BY <1>2, <1>7, <3>1, <3>2 DEF PathInv
  <2>2. DOMAIN out = {}
      BY <1>4, <2>1 DEF WayRight
  <2>3. Entered' = {1}
      BY <1>1, <1>7 DEF Entered
  <2>4. WayRight(longer)'
      BY <1>1, <1>2, <1>6, <1>7, <2>1, <2>2, <2>3 DEF WayRight
  <2> QED
      BY <1>5, <2>4 DEF WayInv
<1>8. CASE n > 1
  <2> DEFINE up == stack[n - 1].at
  <2>1. /\ up \in visited /\ <<up, t.at>> \in everLinks
        /\ way[up] = stack[n - 1].prefix
        /\ t.prefix = Append(stack[n - 1].prefix, NameOf(t.at))
    <3>1. n - 1 \in Entered /\ n \in 1 .. Len(stack)
        BY <1>2, <1>8 DEF Entered
    <3>2. VisitInv /\ PathInv
        BY DEF IInv
    <3>3. up \in visited
        BY <3>1, <3>2 DEF VisitInv
    <3>4. <<up, t.at>> \in everLinks /\ t.prefix = Append(stack[n - 1].prefix, NameOf(t.at))
        BY <1>2, <1>8, <3>1, <3>2 DEF PathInv
    <3> QED
        BY <1>4, <3>1, <3>3, <3>4 DEF WayRight
  <2> HIDE DEF up
  <2>2. t.at # Root
    <3>1. 1 \in Entered /\ 1 \in 1 .. Len(stack)
        BY <1>2, <1>8 DEF Entered
    <3>2. stack[1].at = Root
        BY <3>1 DEF IInv, PathInv
    <3>3. stack[1].at \in visited
        BY <3>1 DEF IInv, VisitInv
    <3> QED
        BY <1>3, <3>2, <3>3
  <2>3. longer[t.at] = Append(longer[up], NameOf(t.at)) /\ NameOf(t.at) \in GroupName
      BY <1>3, <1>6, <2>1 DEF GroupName
  <2>4. Root \in visited' => longer[Root] = <<>>
      BY <1>1, <1>4, <1>6, <2>2 DEF WayRight
  <2>5. \A g \in visited' \ {Root} :
            \E h \in visited' : <<h, g>> \in everLinks /\ longer[g] = Append(longer[h], NameOf(g))
    <3> SUFFICES ASSUME NEW g \in visited' \ {Root}
                 PROVE  \E h \in visited' : <<h, g>> \in everLinks /\ longer[g] = Append(longer[h], NameOf(g))
        OBVIOUS
    <3>1. CASE g = t.at
        BY <1>1, <2>1, <2>3, <3>1
    <3>2. CASE g \in visited
      <4>1. PICK h \in visited : <<h, g>> \in everLinks /\ way[g] = Append(way[h], NameOf(g))
          BY <1>4, <3>2 DEF WayRight
      <4> QED
          BY <1>1, <1>6, <3>2, <4>1
    <3> QED
        BY <1>1, <3>1, <3>2
  <2>6. \A i \in Entered' : longer[stack[i].at] = stack[i].prefix
    <3>1. \A i \in Entered' : i \in Entered \/ i = n
        BY <1>1, <1>2 DEF Entered
    <3>2. \A i \in Entered : stack[i].at \in visited /\ way[stack[i].at] = stack[i].prefix
        BY <1>4 DEF WayRight, IInv, VisitInv
    <3> QED
        BY <1>2, <1>6, <3>1, <3>2
  <2>7. \A x \in DOMAIN out : \E g \in visited', r \in Repo : x = Listing(g, r, Append(longer[g], r))
    <3>1. \A x \in DOMAIN out : \E g \in visited, r \in Repo : x = Listing(g, r, Append(way[g], r))
        BY <1>4 DEF WayRight
    <3> QED
        BY <1>1, <1>6, <3>1
  <2>8. ASSUME SiblingsDiffer, NEW g \in visited
        PROVE  way[g] # t.prefix
    <3> SUFFICES ASSUME way[g] = t.prefix
                 PROVE  FALSE
        OBVIOUS
    <3>1. t.prefix # <<>>
        BY <2>1, <2>3, <1>4, AppendProperties
    <3>2. g # Root
        BY <1>4, <3>1 DEF WayRight
    <3>3. PICK h \in visited : <<h, g>> \in everLinks /\ way[g] = Append(way[h], NameOf(g))
        BY <1>4, <3>2 DEF WayRight
    <3>4. way[h] \in Seq(GroupName) /\ way[up] \in Seq(GroupName) /\ NameOf(g) \in GroupName
        BY <1>3, <1>4, <2>1 DEF GroupName
    <3>5. Append(way[h], NameOf(g)) = Append(way[up], NameOf(t.at))
        BY <2>1, <3>3
    <3>6. way[h] = way[up] /\ NameOf(g) = NameOf(t.at)
        BY <2>3, <3>4, <3>5, AppendInjective
    <3>7. h = up
        BY <1>4, <2>1, <2>8, <3>6 DEF WayRight
    <3>8. g = t.at
        BY <1>3, <2>1, <2>8, <3>3, <3>6, <3>7 DEF SiblingsDiffer
    <3> QED
        BY <1>3, <3>8
  <2>9. SiblingsDiffer' => \A g, h \in visited' : longer[g] = longer[h] => g = h
    <3> SUFFICES ASSUME SiblingsDiffer', NEW g \in visited', NEW h \in visited', longer[g] = longer[h]
                 PROVE  g = h
        OBVIOUS
    <3>1. SiblingsDiffer
        BY <1>1 DEF SiblingsDiffer
    <3>2. \A k \in visited : longer[k] # t.prefix
        BY <1>6, <2>8, <3>1
    <3>3. \A j, k \in visited : longer[j] = longer[k] => j = k
        BY <1>4, <1>6, <3>1 DEF WayRight
    <3> QED
        BY <1>1, <1>6, <3>2, <3>3
  <2>10. WayRight(longer)'
      BY <1>1, <2>4, <2>5, <2>6, <2>7, <2>9 DEF WayRight
  <2> QED
      BY <1>5, <2>10 DEF WayInv
<1>9. n = 1 \/ n > 1
  <2>1. n \in Nat /\ n # 0
      BY <1>2
  <2> HIDE DEF n
  <2> QED
      BY <2>1
<1> QED
    BY <1>7, <1>8, <1>9

LEMMA EnterKeeps ==
    ASSUME IInv, Enter
    PROVE  IInv'
<1> DEFINE n == Len(stack)
<1>1. pc = "enter" /\ pc \in Active /\ UNCHANGED <<upstream, resolve>>
    BY DEF Enter, Active
<1>2. stack \in Seq(FrameType) /\ stack # <<>> /\ n \in Nat \ {0} /\ Top = stack[n] /\ Top \in FrameType
    BY <1>1, StackIs DEF IInv, StackInv, Top
<1>3. Top.at \in Group /\ visited \subseteq Group
    BY <1>2 DEF IInv, TypeOK, FrameType
<1>4. n > 1 => /\ stack[n - 1].at \in visited
               /\ <<stack[n - 1].at, Top.at>> \in everLinks
  <2>1. n > 1 => n - 1 \in Entered /\ n \in 1 .. Len(stack)
      BY <1>2 DEF Entered
  <2>2. \A i \in Entered : stack[i].at \in visited
      BY DEF IInv, VisitInv
  <2>3. \A i \in 1 .. Len(stack) : i > 1 => <<stack[i - 1].at, stack[i].at>> \in everLinks
      BY DEF IInv, PathInv
  <2> QED
      BY <1>2, <2>1, <2>2, <2>3
<1>5. n = 1 \/ n > 1
  <2>1. n \in Nat /\ n # 0
      BY <1>2
  <2> HIDE DEF n
  <2> QED
      BY <2>1
<1>6. n = 1 => Top.at = Root /\ visited = {}
  <2>1. VisitInv /\ PathInv
      BY DEF IInv
  <2>2. n = 1 => visited = {}
      BY <1>1, <2>1 DEF VisitInv
  <2>3. n = 1 => Top.at = Root
      BY <1>2, <2>1 DEF PathInv
  <2> QED
      BY <2>2, <2>3
<1>7. CASE n - 1 > MaxGroupDepth
    BY <1>1, <1>7, AbandonKeeps DEF Enter
<1>8. CASE ~ (n - 1 > MaxGroupDepth) /\ Top.at \in visited
  <2>1. n > 1
      BY <1>5, <1>6, <1>8
  <2>2. \E g \in Group :
            \/ <<g, Root>> \in everLinks
            \/ \E h, k \in Group : h # k /\ <<h, g>> \in everLinks /\ <<k, g>> \in everLinks
    <3>1. CASE Top.at = Root
        BY <1>3, <1>4, <2>1, <3>1
    <3>2. CASE Top.at # Root
        BY <1>1, <1>3, <1>4, <1>8, <2>1, <3>2 DEF IInv, AgainInv
    <3> QED
        BY <3>1, <3>2
  <2>3. Abandon("cycle")
      BY <1>8 DEF Enter
  <2> QED
      BY <1>1, <2>2, <2>3, AbandonKeeps
<1>9. CASE ~ (n - 1 > MaxGroupDepth) /\ Top.at \notin visited
  <2>1. /\ pc' = "repos" /\ pc' \in Active /\ visited' = visited \cup {Top.at}
        /\ UNCHANGED <<stack, out, links, everLinks, settled, kept>>
      BY <1>9 DEF Enter, upstream, Active
  <2>2. TypeOK' /\ HistoryInv' /\ StackInv'
    <3>1. Len(stack) <= MaxGroupDepth + 1 /\ Len(stack) <= MaxGroupDepth + 2
        BY <1>2, <1>9, DepthAssumption
    <3>2. IsABag(out)
        BY DEF IInv, TypeOK
    <3> QED
        BY <1>1, <1>2, <1>3, <2>1, <3>1, <3>2, WalkTypes DEF StackInv, Active
  <2>3. CycleIsReal' /\ SegmentInv'
      BY <1>1, <2>1, WalkSeeks
  <2>4. PathInv' /\ AgainInv'
      BY <2>1 DEF IInv, PathInv, AgainInv
  <2>5. VisitInv'
    <3>1. Entered' = 1 .. n /\ \A i \in 1 .. n : i \in Entered \/ i = n
        BY <1>2, <2>1 DEF Entered
    <3>2. \A i \in Entered : stack[i].at \in visited /\ \A j \in Entered : stack[i].at = stack[j].at => i = j
        BY DEF IInv, VisitInv
    <3> QED
        BY <1>2, <1>9, <2>1, <3>1, <3>2 DEF VisitInv
  <2>6. TreeInv'
    <3> SUFFICES ASSUME NEW g \in visited' \ {Root}
                 PROVE  \E h \in visited' : <<h, g>> \in everLinks' /\ Past(h, g)'
        BY DEF TreeInv
    <3>1. CASE g \in visited
      <4>1. PICK h \in visited : <<h, g>> \in everLinks /\ Past(h, g)
          BY <1>1, <3>1 DEF IInv, TreeInv
      <4>2. Past(h, g)'
          BY <1>9, <2>1, <4>1 DEF Past, Top
      <4> QED
          BY <2>1, <4>1, <4>2
    <3>2. CASE g = Top.at
      <4> DEFINE h == stack[n - 1].at
      <4>1. n > 1 /\ h \in visited /\ <<h, g>> \in everLinks
          BY <1>4, <1>5, <1>6, <3>2
      <4>2. g \notin stack[n - 1].todo
          BY <1>1, <3>2, <4>1 DEF IInv, AgainInv
      <4>3. \A i \in 1 .. n : stack[i].at = h => i = n - 1
        <5>1. \A i \in 1 .. n : i # n => i \in Entered
            BY <1>2 DEF Entered
        <5>2. n - 1 \in Entered
            BY <1>2, <4>1 DEF Entered
        <5>3. stack[n].at # h
            BY <1>2, <1>9, <4>1
        <5> QED
            BY <5>1, <5>2, <5>3 DEF IInv, VisitInv
      <4>4. Past(h, g)'
          BY <1>2, <1>9, <2>1, <4>1, <4>2, <4>3 DEF Past, Top
      <4> QED
          BY <2>1, <4>1, <4>4
    <3> QED
        BY <2>1, <3>1, <3>2
  <2>7. CoverInv'
    <3>1. \A chain \in SettledChains : Pending(chain) => Pending(chain)'
        BY <1>1, <2>1 DEF Pending, Names
    <3>2. SettledChains' = SettledChains
        BY <2>1 DEF SettledChains
    <3> QED
        BY <1>1, <2>1, <3>1, <3>2 DEF IInv, CoverInv, PathOf, BagIn, BagToSet
  <2>8. WayInv' /\ CountInv'
    <3>1. \A x \in DOMAIN out : x.group \in visited
        BY DEF IInv, WayInv, WayRight, Listing
    <3>2. CountInv'
        BY <1>9, <2>1, <3>1 DEF IInv, CountInv, Top
    <3> QED
        BY <1>9, <3>2, EnterFinds
  <2> QED
      BY <2>2, <2>3, <2>4, <2>5, <2>6, <2>7, <2>8 DEF IInv
<1> QED
    BY <1>7, <1>8, <1>9

LEMMA CallFailsKeeps ==
    ASSUME IInv, CallFails
    PROVE  IInv'
BY AbandonKeeps DEF CallFails, Active

\* A bag to which a set is added.
LEMMA BagAdds ==
    ASSUME NEW B, IsABag(B), NEW S
    PROVE  /\ IsABag(B (+) SetToBag(S))
           /\ DOMAIN (B (+) SetToBag(S)) = DOMAIN B \cup S
           /\ \A p \in DOMAIN B \ S : (B (+) SetToBag(S))[p] = B[p]
           /\ \A p \in S \ DOMAIN B : (B (+) SetToBag(S))[p] = 1
<1> DEFINE C == B (+) SetToBag(S)
<1>1. C = [e \in DOMAIN B \cup S |-> (IF e \in DOMAIN B THEN B[e] ELSE 0)
                                     + (IF e \in S THEN 1 ELSE 0)]
    BY DEF SetToBag, (+)
<1>2. \A e \in DOMAIN B : B[e] \in Nat /\ B[e] > 0
    BY DEF IsABag
<1>3. DOMAIN C = DOMAIN B \cup S
    BY <1>1
<1>4. \A e \in DOMAIN C : C[e] \in Nat /\ C[e] > 0
    BY <1>1, <1>2
<1>5. \A p \in DOMAIN B \ S : C[p] = B[p]
    BY <1>1, <1>2
<1>6. \A p \in S \ DOMAIN B : C[p] = 1
    BY <1>1
<1>7. IsABag(C)
  <2>1. C = [e \in DOMAIN C |-> C[e]]
      BY <1>1
  <2> HIDE DEF C
  <2> QED
      BY <1>4, <2>1 DEF IsABag
<1> QED
    BY <1>3, <1>5, <1>6, <1>7

LEMMA ListReposKeeps ==
    ASSUME IInv, ListRepos
    PROVE  IInv'
<1> DEFINE new == {Listing(Top.at, r, Append(Top.prefix, r)) :
                       r \in {m \in Repo : <<Top.at, m>> \in holds}}
           n == Len(stack)
<1>1. /\ pc = "repos" /\ pc \in Active /\ pc' = "groups" /\ pc' \in Active
      /\ out' = out (+) SetToBag(new)
      /\ UNCHANGED <<upstream, resolve, stack, visited>>
    BY DEF ListRepos, Active
<1>2. UNCHANGED <<links, everLinks, settled, kept>>
    BY <1>1 DEF upstream
<1>3. stack \in Seq(FrameType) /\ stack # <<>> /\ n \in Nat \ {0} /\ Top = stack[n] /\ Top \in FrameType
    BY <1>1, StackIs DEF IInv, StackInv, Top
<1>4. /\ IsABag(out')
      /\ DOMAIN out' = DOMAIN out \cup new
      /\ \A p \in DOMAIN out \ new : out'[p] = out[p]
      /\ \A p \in new \ DOMAIN out : out'[p] = 1
  <2>1. IsABag(out)
      BY DEF IInv, TypeOK
  <2> HIDE DEF new
  <2> DEFINE sum == out (+) SetToBag(new)
  <2>2. /\ IsABag(sum)
        /\ DOMAIN sum = DOMAIN out \cup new
        /\ \A p \in DOMAIN out \ new : sum[p] = out[p]
        /\ \A p \in new \ DOMAIN out : sum[p] = 1
      BY <2>1, BagAdds
  <2>3. out' = sum
      BY <1>1
  <2> HIDE DEF sum
  <2>4. IsABag(out')
      BY <2>2, <2>3 DEF IsABag
  <2> QED
      BY <2>2, <2>3, <2>4
<1>5. Top.at \in visited /\ visited \subseteq Group
    BY <1>1, <1>3 DEF IInv, TypeOK, VisitInv, Entered
<1>6. \A x \in new : \E r \in Repo : x = Listing(Top.at, r, Append(Top.prefix, r))
    OBVIOUS
<1>7. TypeOK' /\ HistoryInv' /\ StackInv'
  <2>1. Len(stack) <= MaxGroupDepth + 1 /\ Len(stack) <= MaxGroupDepth + 2
      BY <1>1, <1>3, DepthAssumption DEF IInv, StackInv, TypeOK
  <2> QED
      BY <1>1, <1>3, <1>4, <1>5, <2>1, WalkTypes DEF StackInv, Active
<1>8. CycleIsReal' /\ SegmentInv'
    BY <1>1, WalkSeeks
<1>9. PathInv' /\ AgainInv'
    BY <1>1, <1>2 DEF IInv, PathInv, AgainInv
<1>10. VisitInv'
  <2>1. Entered' = Entered
      BY <1>1 DEF Entered
  <2> QED
      BY <1>1, <2>1 DEF IInv, VisitInv
<1>11. TreeInv'
  <2>1. \A h, g \in visited : Past(h, g) => Past(h, g)'
      BY <1>1 DEF Past, Top
  <2> QED
      BY <1>1, <1>2, <2>1 DEF IInv, TreeInv
<1>12. WayInv'
  <2>1. n \in Entered /\ Entered' = Entered
      BY <1>1, <1>3 DEF Entered
  <2>2. \A i \in Entered : stack[i].at \in visited
      BY DEF IInv, VisitInv
  <2>3. \A x \in DOMAIN out' :
            \/ x \in DOMAIN out
            \/ \E i \in Entered, r \in Repo : x = Listing(stack[i].at, r, Append(stack[i].prefix, r))
    <3> HIDE DEF new
    <3> QED
        BY <1>3, <1>4, <1>6, <2>1
  <2> QED
      BY <1>1, <1>2, <2>1, <2>2, <2>3, WaysStay DEF IInv
<1>13. CoverInv'
  <2>1. SettledChains' = SettledChains
      BY <1>2 DEF SettledChains
  <2> SUFFICES ASSUME NEW chain \in SettledChains, NEW r \in Repo, <<chain[Len(chain)], r>> \in kept
               PROVE  BagIn(Listing(chain[Len(chain)], r, PathOf(chain, r)), out') \/ Pending(chain)'
      BY <1>2, <2>1 DEF CoverInv, PathOf, Listing
  <2>2. CASE BagIn(Listing(chain[Len(chain)], r, PathOf(chain, r)), out)
      BY <1>4, <2>2 DEF BagIn, BagToSet
  <2>3. CASE Pending(chain)
    <3>1. PICK i \in 1 .. n, j \in 1 .. Len(chain) :
              /\ stack[i].at = chain[j]
              /\ stack[i].prefix = Names(chain, j - 1)
              /\ \/ j < Len(chain) /\ chain[j + 1] \in stack[i].todo
                 \/ i = n
        BY <1>1, <2>3 DEF Pending
    <3>2. CASE j < Len(chain)
        BY <1>1, <3>1, <3>2 DEF Pending, Names
    <3>3. CASE j = Len(chain)
      <4>1. Top.at = chain[Len(chain)] /\ Top.prefix = Names(chain, Len(chain) - 1)
          BY <1>3, <3>1, <3>3, ChainsAre
      <4>2. <<Top.at, r>> \in holds
          BY <4>1 DEF IInv, HistoryInv
      <4>3. Listing(chain[Len(chain)], r, PathOf(chain, r)) \in new
        <5>1. PathOf(chain, r) = Append(Top.prefix, r)
            BY <4>1, PathsAre
        <5> QED
            BY <4>1, <4>2, <5>1
      <4> QED
          BY <1>4, <4>3 DEF BagIn, BagToSet
    <3> QED
        BY <3>1, <3>2, <3>3, ChainsAre
  <2> QED
      BY <1>1, <2>2, <2>3 DEF IInv, CoverInv
<1>14. CountInv'
  <2>1. \A x \in DOMAIN out : out[x] = 1 /\ x.group # Top.at
      BY <1>1 DEF IInv, CountInv
  <2>2. ASSUME NEW x \in new
        PROVE  x.group = Top.at
    <3>1. PICK r \in Repo : x = Listing(Top.at, r, Append(Top.prefix, r))
        BY <1>6
    <3> QED
        BY <3>1 DEF Listing
  <2> HIDE DEF new
  <2>3. \A x \in DOMAIN out' : out'[x] = 1
      BY <1>4, <2>1, <2>2
  <2> QED
      BY <1>1, <2>3 DEF CountInv
<1> QED
    BY <1>7, <1>8, <1>9, <1>10, <1>11, <1>12, <1>13, <1>14 DEF IInv

\* A step that leaves what was listed and visited, on its way in the loops.
LEMMA ListStays ==
    ASSUME IInv, UNCHANGED <<visited, out>>, pc' # "repos", everLinks \subseteq everLinks',
           \A i \in Entered' :
               i \in Entered /\ stack'[i].at = stack[i].at /\ stack'[i].prefix = stack[i].prefix
    PROVE  WayInv' /\ CountInv'
<1>1. CountInv'
    BY DEF IInv, CountInv
<1>2. \A i \in Entered : stack[i].at \in visited
    BY DEF IInv, VisitInv
<1> QED
    BY <1>1, <1>2, WaysStay DEF IInv

LEMMA ListGroupsKeeps ==
    ASSUME IInv, ListGroups
    PROVE  IInv'
<1> DEFINE children == {g \in Group : <<Top.at, g>> \in links}
           f == [Top EXCEPT !.todo = children]
           n == Len(stack)
<1>1. /\ pc = "groups" /\ pc \in Active /\ pc' = "loop" /\ pc' \in Active
      /\ stack' = Append(Callers, f)
      /\ UNCHANGED <<upstream, resolve, visited, out>>
    BY DEF ListGroups, Active
<1>2. UNCHANGED <<links, everLinks, settled, kept>>
    BY <1>1 DEF upstream
<1>3. stack \in Seq(FrameType) /\ stack # <<>> /\ n \in Nat \ {0} /\ Top = stack[n] /\ Top \in FrameType
    BY <1>1, StackIs DEF IInv, StackInv, Top
<1>4. f \in FrameType /\ f.at = Top.at /\ f.prefix = Top.prefix /\ f.todo = children
    BY <1>3 DEF FrameType
<1>5. /\ stack' \in Seq(FrameType) /\ Len(stack') = n
      /\ \A i \in 1 .. n : stack'[i] = IF i = n THEN f ELSE stack[i]
  <2> HIDE DEF f
  <2> QED
      BY <1>1, <1>3, <1>4, Replaced
<1> HIDE DEF f, children
<1>6. \A i \in 1 .. n : /\ stack'[i].at = stack[i].at
                        /\ stack'[i].prefix = stack[i].prefix
                        /\ i # n => stack'[i].todo = stack[i].todo
                        /\ i = n => stack'[i].todo = children
    BY <1>3, <1>4, <1>5
<1>7. \A g \in children : <<Top.at, g>> \in links /\ <<Top.at, g>> \in everLinks
    BY DEF children, IInv, HistoryInv
<1>8. TypeOK' /\ HistoryInv' /\ StackInv'
  <2>1. n <= MaxGroupDepth + 1 /\ n <= MaxGroupDepth + 2
      BY <1>1, <1>3, DepthAssumption DEF IInv, StackInv, TypeOK
  <2>2. IsABag(out) /\ visited \subseteq Group
      BY DEF IInv, TypeOK
  <2>3. IsABag(out') /\ visited' \subseteq Group
      BY <1>1, <2>2 DEF IsABag
  <2>4. stack' # <<>>
      BY <1>3, <1>5, EmptySeq
  <2> QED
      BY <1>1, <1>5, <2>1, <2>3, <2>4, WalkTypes DEF StackInv, Active
<1>9. CycleIsReal' /\ SegmentInv'
    BY <1>1, WalkSeeks
<1>10. PathInv'
  <2> SUFFICES ASSUME NEW i \in 1 .. n
               PROVE  PathInv!(i)'
      BY <1>5 DEF PathInv
  <2>1. /\ i = 1 => stack[i].at = Root /\ stack[i].prefix = <<>>
        /\ i > 1 => /\ <<stack[i - 1].at, stack[i].at>> \in everLinks
                    /\ stack[i].prefix = Append(stack[i - 1].prefix, NameOf(stack[i].at))
        /\ \A g \in stack[i].todo : <<stack[i].at, g>> \in everLinks
      BY DEF IInv, PathInv
  <2>2. i > 1 => i - 1 \in 1 .. n
      BY <1>3
  <2>3. \A g \in stack'[i].todo : <<stack'[i].at, g>> \in everLinks
      BY <1>3, <1>6, <1>7, <2>1
  <2> QED
      BY <1>2, <1>6, <2>1, <2>2, <2>3
<1>11. VisitInv' /\ AgainInv'
  <2>1. Entered' = 1 .. n /\ Entered = 1 .. n
      BY <1>1, <1>5 DEF Entered
  <2>2. /\ \A i \in 1 .. n : stack[i].at \in visited
        /\ \A i, j \in 1 .. n : stack[i].at = stack[j].at => i = j
      BY <2>1 DEF IInv, VisitInv
  <2>3. /\ \A i \in 1 .. n : stack'[i].at \in visited'
        /\ \A i, j \in 1 .. n : stack'[i].at = stack'[j].at => i = j
      BY <1>1, <1>6, <2>2
  <2>4. VisitInv'
      BY <1>1, <2>1, <2>3 DEF VisitInv
  <2> QED
      BY <1>1, <2>4 DEF AgainInv
<1>12. TreeInv'
  <2> SUFFICES ASSUME NEW g \in visited \ {Root}
               PROVE  \E h \in visited : <<h, g>> \in everLinks /\ Past(h, g)'
      BY <1>1, <1>2 DEF TreeInv
  <2>1. PICK h \in visited : <<h, g>> \in everLinks /\ Past(h, g)
      BY <1>1 DEF IInv, TreeInv
  <2>2. Top.at # h /\ \A i \in 1 .. n : stack[i].at = h => g \notin stack[i].todo
      BY <1>1, <2>1 DEF Past
  <2>3. \A i \in 1 .. n : stack'[i].at = h => g \notin stack'[i].todo
      BY <1>3, <1>6, <2>2
  <2>4. Past(h, g)'
      BY <1>1, <1>5, <2>3 DEF Past
  <2> QED
      BY <2>1, <2>4
<1>13. CoverInv'
  <2>1. SettledChains' = SettledChains
      BY <1>2 DEF SettledChains
  <2>2. ASSUME NEW chain \in SettledChains, Pending(chain)
        PROVE  Pending(chain)'
    <3>1. PICK i \in 1 .. n, j \in 1 .. Len(chain) :
              /\ stack[i].at = chain[j]
              /\ stack[i].prefix = Names(chain, j - 1)
              /\ j < Len(chain)
              /\ chain[j + 1] \in stack[i].todo \/ i = n
        BY <1>1, <2>2 DEF Pending
    <3>2. chain[j + 1] \in stack'[i].todo
      <4>1. CASE i = n
        <5>1. j \in 1 .. Len(chain) - 1 /\ j + 1 \in 1 .. Len(chain)
            BY <3>1, ChainsAre
        <5>2. <<chain[j], chain[j + 1]>> \in settled /\ chain[j + 1] \in Group
            BY <5>1, ChainsAre
        <5>3. chain[j] = Top.at
            BY <1>3, <3>1, <4>1
        <5>4. chain[j + 1] \in children
            BY <5>2, <5>3 DEF children, IInv, HistoryInv
        <5> QED
            BY <1>3, <1>6, <4>1, <5>4
      <4>2. CASE i # n
          BY <1>6, <3>1, <4>2
      <4> QED
          BY <4>1, <4>2
    <3>3. stack'[i].at = chain[j] /\ stack'[i].prefix = Names(chain, j - 1)
        BY <1>6, <3>1
    <3> QED
        BY <1>5, <3>1, <3>2, <3>3 DEF Pending, Names
  <2> QED
      BY <1>1, <1>2, <2>1, <2>2 DEF IInv, CoverInv, PathOf, BagIn, BagToSet
<1>14. WayInv' /\ CountInv'
  <2>1. Entered' = 1 .. n /\ Entered = 1 .. n
      BY <1>1, <1>5 DEF Entered
  <2> QED
      BY <1>1, <1>2, <1>6, <2>1, ListStays
<1> QED
    BY <1>8, <1>9, <1>10, <1>11, <1>12, <1>13, <1>14 DEF IInv

LEMMA DescendKeeps ==
    ASSUME IInv, Descend
    PROVE  IInv'
<1> DEFINE n == Len(stack)
<1>1. PICK g \in Top.todo :
          stack' = Callers \o <<[Top EXCEPT !.todo = @ \ {g}], Frame(g, Append(Top.prefix, NameOf(g)), {})>>
    BY DEF Descend
<1> DEFINE f == [Top EXCEPT !.todo = @ \ {g}]
           c == Frame(g, Append(Top.prefix, NameOf(g)), {})
<1>2. /\ pc = "loop" /\ pc \in Active /\ pc' = "enter" /\ pc' \in Active
      /\ stack' = Callers \o <<f, c>>
      /\ UNCHANGED <<upstream, resolve, visited, out>>
    BY <1>1 DEF Descend, Active
<1>3. UNCHANGED <<links, everLinks, settled, kept>>
    BY <1>2 DEF upstream
<1>4. /\ stack \in Seq(FrameType) /\ stack # <<>> /\ n \in Nat \ {0}
      /\ Top = stack[n] /\ n \in 1 .. n /\ Top \in FrameType
    BY <1>2, StackIs DEF IInv, StackInv, Top
<1>5. g \in Group /\ Append(Top.prefix, NameOf(g)) \in Seq(GroupName)
  <2>1. g \in Group
      BY <1>4 DEF FrameType
  <2>2. NameOf(g) \in GroupName /\ Top.prefix \in Seq(GroupName)
      BY <1>4, <2>1 DEF FrameType, GroupName
  <2> QED
      BY <2>1, <2>2, AppendProperties
<1>6. /\ f \in FrameType /\ f.at = Top.at /\ f.prefix = Top.prefix /\ f.todo = Top.todo \ {g}
      /\ c \in FrameType /\ c.at = g /\ c.prefix = Append(Top.prefix, NameOf(g)) /\ c.todo = {}
    BY <1>4, <1>5 DEF FrameType, Frame
<1> HIDE DEF f, c
<1>7. /\ stack' \in Seq(FrameType) /\ Len(stack') = n + 1
      /\ \A i \in 1 .. n + 1 : stack'[i] = IF i = n THEN f ELSE IF i = n + 1 THEN c ELSE stack[i]
    BY <1>2, <1>4, <1>6, Called
<1>8. \A i \in 1 .. n : /\ stack'[i].at = stack[i].at
                        /\ stack'[i].prefix = stack[i].prefix
                        /\ stack'[i].todo = IF i = n THEN stack[i].todo \ {g} ELSE stack[i].todo
  <2>1. ASSUME NEW i \in 1 .. n
        PROVE  stack'[i] = IF i = n THEN f ELSE stack[i]
      BY <1>4, <1>7, <2>1
  <2> QED
      BY <1>4, <1>6, <2>1
<1>9. stack'[n + 1] = c /\ n + 1 # n /\ n + 1 \in 1 .. n + 1 /\ n \in 1 .. n + 1
    BY <1>4, <1>7
<1>10. TypeOK' /\ HistoryInv' /\ StackInv'
  <2>1. n <= MaxGroupDepth + 1
      BY <1>2 DEF IInv, StackInv, Active
  <2>2. n + 1 <= MaxGroupDepth + 2
      BY <1>4, <2>1, DepthAssumption
  <2>3. IsABag(out) /\ visited \subseteq Group
      BY DEF IInv, TypeOK
  <2>4. IsABag(out') /\ visited' \subseteq Group
      BY <1>2, <2>3 DEF IsABag
  <2>5. stack' # <<>>
      BY <1>4, <1>7, EmptySeq
  <2> QED
      BY <1>2, <1>7, <2>2, <2>4, <2>5, WalkTypes DEF StackInv, Active
<1>11. CycleIsReal' /\ SegmentInv'
    BY <1>2, WalkSeeks
<1>12. PathInv'
  <2> SUFFICES ASSUME NEW i \in 1 .. n + 1
               PROVE  PathInv!(i)'
      BY <1>7 DEF PathInv
  <2>1. CASE i = n + 1
    <3>1. <<Top.at, g>> \in everLinks
        BY <1>4 DEF IInv, PathInv
    <3>2. i > 1 /\ i # 1 /\ i - 1 = n
        BY <1>4, <2>1
    <3>3. stack'[i - 1].at = Top.at /\ stack'[i - 1].prefix = Top.prefix
        BY <1>4, <1>8, <3>2
    <3> QED
        BY <1>3, <1>6, <1>9, <2>1, <3>1, <3>2, <3>3
  <2>2. CASE i # n + 1
    <3>1. i \in 1 .. n /\ (i > 1 => i - 1 \in 1 .. n)
        BY <1>4, <2>2
    <3>2. /\ i = 1 => stack[i].at = Root /\ stack[i].prefix = <<>>
          /\ i > 1 => /\ <<stack[i - 1].at, stack[i].at>> \in everLinks
                      /\ stack[i].prefix = Append(stack[i - 1].prefix, NameOf(stack[i].at))
          /\ \A h \in stack[i].todo : <<stack[i].at, h>> \in everLinks
        BY <3>1 DEF IInv, PathInv
    <3>3. stack'[i].todo \subseteq stack[i].todo
        BY <1>8, <3>1
    <3> QED
        BY <1>3, <1>8, <3>1, <3>2, <3>3
  <2> QED
      BY <2>1, <2>2
<1>13. VisitInv'
  <2>1. Entered' = 1 .. n /\ Entered = 1 .. n
      BY <1>2, <1>4, <1>7 DEF Entered
  <2>2. /\ \A i \in 1 .. n : stack[i].at \in visited
        /\ \A i, j \in 1 .. n : stack[i].at = stack[j].at => i = j
      BY <2>1 DEF IInv, VisitInv
  <2>3. /\ \A i \in 1 .. n : stack'[i].at \in visited'
        /\ \A i, j \in 1 .. n : stack'[i].at = stack'[j].at => i = j
      BY <1>2, <1>8, <2>2
  <2>4. Len(stack') # 1
      BY <1>4, <1>7
  <2> QED
      BY <2>1, <2>3, <2>4 DEF VisitInv
<1>14. \A h, k \in Group : Past(h, k) => Past(h, k)'
  <2> SUFFICES ASSUME NEW h \in Group, NEW k \in Group, Past(h, k)
               PROVE  Past(h, k)'
      OBVIOUS
  <2>1. \A i \in 1 .. n : stack[i].at = h => k \notin stack[i].todo
      BY DEF Past
  <2>2. ASSUME NEW i \in 1 .. n + 1, stack'[i].at = h
        PROVE  k \notin stack'[i].todo
    <3>1. CASE i = n + 1
        BY <1>6, <1>9, <3>1
    <3>2. CASE i # n + 1
      <4>1. i \in 1 .. n
          BY <1>4, <3>2
      <4> QED
          BY <1>8, <2>1, <2>2, <4>1
    <3> QED
        BY <3>1, <3>2
  <2> QED
      BY <1>2, <1>7, <2>2 DEF Past
<1>15. visited \subseteq Group
    BY DEF IInv, TypeOK
<1>16. TreeInv'
  <2>1. \A k \in visited \ {Root} : \E h \in visited : <<h, k>> \in everLinks /\ Past(h, k)
      BY <1>2 DEF IInv, TreeInv
  <2> QED
      BY <1>2, <1>3, <1>14, <1>15, <2>1 DEF TreeInv
<1>17. AgainInv'
  <2>1. Top' = c /\ Len(stack') - 1 = n
      BY <1>4, <1>7, <1>9 DEF Top
  <2>2. stack'[n].at = Top.at /\ g \notin stack'[n].todo
      BY <1>4, <1>8
  <2>3. ASSUME g \in visited \ {Root}
        PROVE  \E h \in Group : h # Top.at /\ <<h, g>> \in everLinks
    <3>1. PICK h \in visited : <<h, g>> \in everLinks /\ Past(h, g)
        BY <1>2, <2>3 DEF IInv, TreeInv
    <3>2. h # Top.at
        BY <1>4, <3>1 DEF Past
    <3> QED
        BY <1>15, <3>1, <3>2
  <2> QED
      BY <1>2, <1>3, <1>6, <2>1, <2>2, <2>3 DEF AgainInv
<1>18. CoverInv'
  <2>1. SettledChains' = SettledChains
      BY <1>3 DEF SettledChains
  <2>2. ASSUME NEW chain \in SettledChains, Pending(chain)
        PROVE  Pending(chain)'
    <3>1. PICK i \in 1 .. n, j \in 1 .. Len(chain) :
              /\ stack[i].at = chain[j]
              /\ stack[i].prefix = Names(chain, j - 1)
              /\ j < Len(chain)
              /\ chain[j + 1] \in stack[i].todo
        BY <1>2, <2>2 DEF Pending
    <3>2. /\ stack'[i].at = chain[j] /\ stack'[i].prefix = Names(chain, j - 1)
          /\ i \in 1 .. n + 1
      <4>1. i \in 1 .. n + 1
          BY <1>4
      <4> QED
          BY <1>8, <3>1, <4>1
    <3>3. CASE i = n /\ chain[j + 1] = g
      <4>1. j + 1 \in 1 .. Len(chain) /\ j - 1 \in Nat /\ (j - 1) + 1 < Len(chain) /\ (j - 1) + 1 = j
          BY <3>1, ChainsAre
      <4>2. Names(chain, j) = Append(Names(chain, j - 1), NameOf(chain[j + 1]))
        <5>1. Names(chain, (j - 1) + 1) = Append(Names(chain, j - 1), NameOf(chain[(j - 1) + 2]))
            BY <4>1, ChainsAre, NamesGrow
        <5>2. (j - 1) + 2 = j + 1
            BY <4>1
        <5> QED
            BY <4>1, <5>1, <5>2
      <4>3. c.at = chain[j + 1] /\ c.prefix = Names(chain, (j + 1) - 1)
        <5>1. (j + 1) - 1 = j
            BY <4>1
        <5> QED
            BY <1>4, <1>6, <3>1, <3>3, <4>2, <5>1
      <4> QED
          BY <1>2, <1>7, <1>9, <4>1, <4>3 DEF Pending, Names
    <3>4. CASE ~ (i = n /\ chain[j + 1] = g)
      <4>1. chain[j + 1] \in stack'[i].todo
          BY <1>8, <3>1, <3>4
      <4> QED
          BY <1>7, <3>1, <3>2, <4>1 DEF Pending, Names
    <3> QED
        BY <3>3, <3>4
  <2> QED
      BY <1>2, <1>3, <2>1, <2>2 DEF IInv, CoverInv, PathOf, BagIn, BagToSet
<1>19. WayInv' /\ CountInv'
  <2>1. Entered' = 1 .. n /\ Entered = 1 .. n
      BY <1>2, <1>4, <1>7 DEF Entered
  <2> QED
      BY <1>2, <1>3, <1>8, <2>1, ListStays
<1> QED
    BY <1>10, <1>11, <1>12, <1>13, <1>16, <1>17, <1>18, <1>19 DEF IInv

LEMMA ReturnKeeps ==
    ASSUME IInv, Return
    PROVE  IInv'
<1> DEFINE n == Len(stack)
<1>1. /\ pc = "loop" /\ pc \in Active /\ Top.todo = {}
      /\ stack' = Callers /\ pc' = (IF Callers = <<>> THEN "done" ELSE "loop")
      /\ pc' \in Active \cup {"done"}
      /\ UNCHANGED <<upstream, resolve, visited, out>>
    BY DEF Return, Active
<1>2. UNCHANGED <<links, everLinks, settled, kept>>
    BY <1>1 DEF upstream
<1>3. /\ stack \in Seq(FrameType) /\ stack # <<>> /\ n \in Nat \ {0} /\ Top = stack[n]
    BY <1>1, StackIs DEF IInv, StackInv, Top
<1>4. /\ stack' \in Seq(FrameType) /\ Len(stack') = n - 1 /\ n - 1 \in Nat
      /\ \A i \in 1 .. n - 1 : stack'[i] = stack[i] /\ i \in 1 .. n
      /\ \A i \in 1 .. n : i \in 1 .. n - 1 \/ i = n
  <2>1. \A i \in 1 .. n : i \in 1 .. n - 1 \/ i = n
      BY <1>3
  <2>2. \A i \in 1 .. n - 1 : i \in 1 .. n
      BY <1>3
  <2> QED
      BY <1>1, <1>3, <2>1, <2>2, CallersAre
<1>5. TypeOK' /\ HistoryInv' /\ StackInv'
  <2>1. n <= MaxGroupDepth + 1
      BY <1>1 DEF IInv, StackInv, Active
  <2>2. n - 1 <= MaxGroupDepth + 1 /\ n - 1 <= MaxGroupDepth + 2
      BY <1>3, <2>1, DepthAssumption
  <2>3. IsABag(out) /\ visited \subseteq Group
      BY DEF IInv, TypeOK
  <2>4. IsABag(out') /\ visited' \subseteq Group
      BY <1>1, <2>3 DEF IsABag
  <2> QED
      BY <1>1, <1>4, <2>2, <2>4, WalkTypes DEF StackInv, Active, Ended
<1>6. CycleIsReal' /\ SegmentInv'
    BY <1>1, WalkSeeks
<1>7. PathInv'
  <2> SUFFICES ASSUME NEW i \in 1 .. n - 1
               PROVE  PathInv!(i)'
      BY <1>4 DEF PathInv
  <2>1. /\ i = 1 => stack[i].at = Root /\ stack[i].prefix = <<>>
        /\ i > 1 => /\ <<stack[i - 1].at, stack[i].at>> \in everLinks
                    /\ stack[i].prefix = Append(stack[i - 1].prefix, NameOf(stack[i].at))
        /\ \A h \in stack[i].todo : <<stack[i].at, h>> \in everLinks
      BY <1>4 DEF IInv, PathInv
  <2>2. i > 1 => i - 1 \in 1 .. n - 1
      BY <1>3
  <2> QED
      BY <1>2, <1>4, <2>1, <2>2
<1>8. VisitInv' /\ AgainInv'
  <2>1. Entered' = 1 .. n - 1 /\ Entered = 1 .. n
      BY <1>1, <1>4 DEF Entered
  <2>2. /\ \A i \in 1 .. n : stack[i].at \in visited
        /\ \A i, j \in 1 .. n : stack[i].at = stack[j].at => i = j
      BY <2>1 DEF IInv, VisitInv
  <2>3. /\ \A i \in 1 .. n - 1 : stack'[i].at \in visited'
        /\ \A i, j \in 1 .. n - 1 : stack'[i].at = stack'[j].at => i = j
      BY <1>1, <1>4, <2>2
  <2>4. VisitInv'
      BY <1>1, <2>1, <2>3 DEF VisitInv
  <2> QED
      BY <1>1, <2>4 DEF AgainInv
<1>9. TreeInv'
  <2>1. \A h, g \in visited : Past(h, g) => Past(h, g)'
      BY <1>1, <1>4 DEF Past
  <2>2. \A g \in visited \ {Root} : \E h \in visited : <<h, g>> \in everLinks /\ Past(h, g)
      BY <1>1 DEF IInv, TreeInv
  <2> QED
      BY <1>1, <1>2, <2>1, <2>2 DEF TreeInv
<1>10. CoverInv'
  <2>1. SettledChains' = SettledChains
      BY <1>2 DEF SettledChains
  <2>2. ASSUME NEW chain \in SettledChains, Pending(chain)
        PROVE  Pending(chain)'
    <3>1. PICK i \in 1 .. n, j \in 1 .. Len(chain) :
              /\ stack[i].at = chain[j]
              /\ stack[i].prefix = Names(chain, j - 1)
              /\ j < Len(chain)
              /\ chain[j + 1] \in stack[i].todo
        BY <1>1, <2>2 DEF Pending
    <3>2. i \in 1 .. n - 1 /\ stack'[i] = stack[i]
        BY <1>1, <1>3, <1>4, <3>1
    <3> QED
        BY <1>4, <3>1, <3>2 DEF Pending, Names
  <2> QED
      BY <1>1, <1>2, <2>1, <2>2 DEF IInv, CoverInv, PathOf, BagIn, BagToSet
<1>11. WayInv' /\ CountInv'
  <2>1. Entered' = 1 .. n - 1 /\ Entered = 1 .. n
      BY <1>1, <1>4 DEF Entered
  <2> QED
      BY <1>1, <1>2, <1>4, <2>1, ListStays
<1> QED
    BY <1>5, <1>6, <1>7, <1>8, <1>9, <1>10, <1>11 DEF IInv

-----------------------------------------------------------------------------
(* The resolution's steps.                                                 *)

LEMMA ResolutionKeeps ==
    ASSUME IInv, pc \in {"done", "resolve"}, pc' \in {"resolve", "found", "notFound", "failed"},
           UNCHANGED <<upstream, stack, visited, out>>,
           parent' \in Group, SegmentInv'
    PROVE  IInv'
<1>1. UNCHANGED <<links, holds, edits, everLinks, settled, kept>>
    BY DEF upstream
<1>2. stack = <<>> /\ stack' = <<>>
    BY DEF IInv, StackInv, Active
<1>3. TypeOK'
  <2>1. pc' = "resolve" => segment' \in DOMAIN sought'
    <3>1. sought' \in Seq(GroupName \cup Repo) /\ segment' \in Nat \ {0}
          /\ (pc' = "resolve" => segment' <= Len(sought'))
        BY DEF SegmentInv
    <3>2. DOMAIN sought' = 1 .. Len(sought')
        BY <3>1, LenProperties
    <3> QED
        BY <3>1, <3>2
  <2>2. IsABag(out)
      BY DEF IInv, TypeOK
  <2>3. IsABag(out')
      BY <2>2 DEF IsABag
  <2> QED
      BY <1>1, <2>1, <2>3 DEF IInv, TypeOK, Ended, Stopped
<1>4. HistoryInv' /\ StackInv' /\ PathInv' /\ VisitInv' /\ TreeInv' /\ AgainInv' /\ CoverInv' /\ CycleIsReal'
  <2>1. HistoryInv' /\ CycleIsReal'
      BY <1>1 DEF IInv, HistoryInv, CycleIsReal
  <2>2. StackInv' /\ Len(stack') = 0
      BY <1>2, EmptySeq DEF StackInv, Active
  <2> QED
      BY <2>1, <2>2 DEF PathInv, VisitInv, Entered, TreeInv, AgainInv, CoverInv, Active
<1>5. WayInv' /\ CountInv'
  <2>1. Entered' = {} /\ Entered = {}
    <3>1. Len(stack) = 0 /\ Len(stack') = 0
        BY <1>2
    <3> QED
        BY <3>1 DEF Entered
  <2> QED
      BY <1>1, <2>1, ListStays
<1> QED
    BY <1>3, <1>4, <1>5 DEF IInv

LEMMA AskKeeps ==
    ASSUME IInv, Ask
    PROVE  IInv'
<1>1. /\ pc = "done" /\ pc' = "resolve" /\ sought' \in {x.path : x \in DOMAIN out}
      /\ UNCHANGED <<upstream, stack, visited, out, segment, parent>>
    BY DEF Ask, BagToSet
<1>2. segment = 1 /\ parent = Root
    BY <1>1 DEF IInv, SegmentInv
<1>3. sought' \in Seq(GroupName \cup Repo) /\ Len(sought') \in Nat \ {0}
  <2>1. PICK x \in Seq(GroupName), r \in Repo : sought' = Append(x, r)
    <3>1. PICK way \in [visited -> Seq(GroupName)] : WayRight(way)
        BY DEF IInv, WayInv
    <3>2. PICK g \in visited, r \in Repo : sought' = Append(way[g], r)
        BY <1>1, <3>1 DEF WayRight, Listing
    <3> QED
        BY <3>1, <3>2
  <2>2. x \in Seq(GroupName \cup Repo)
      BY SeqMonotonic
  <2>3. sought' \in Seq(GroupName \cup Repo) /\ sought' # <<>>
      BY <2>1, <2>2, AppendProperties
  <2> QED
      BY <2>3, EmptySeq
<1>4. SegmentInv'
    BY <1>1, <1>2, <1>3 DEF SegmentInv, Active
<1> QED
    BY <1>1, <1>2, <1>4, GroupAssumption, ResolutionKeeps

LEMMA ResolveStepKeeps ==
    ASSUME IInv, ResolveStep
    PROVE  IInv'
<1> DEFINE subgroups == Named(sought[segment])
<1>1. /\ pc = "resolve" /\ segment < Len(sought)
      /\ UNCHANGED <<upstream, stack, visited, out, sought>>
      /\ \/ \E g \in subgroups : parent' = g /\ segment' = segment + 1 /\ pc' = "resolve"
         \/ subgroups = {} /\ pc' = "notFound" /\ UNCHANGED <<segment, parent>>
    BY DEF ResolveStep, EnterSubgroup
<1>2. /\ sought \in Seq(GroupName \cup Repo) /\ segment \in Nat \ {0} /\ Len(sought) \in Nat
      /\ parent \in Group
    BY LenProperties DEF IInv, SegmentInv, TypeOK
<1>3. subgroups \subseteq Group
    BY DEF Named
<1>4. parent' \in Group
    BY <1>1, <1>2, <1>3
<1>5. SegmentInv'
  <2>1. segment' \in Nat \ {0} /\ (pc' = "resolve" => segment' <= Len(sought))
      BY <1>1, <1>2
  <2> QED
      BY <1>1, <1>2, <2>1 DEF SegmentInv, Active
<1> QED
    BY <1>1, <1>4, <1>5, ResolutionKeeps

LEMMA ResolveRepoKeeps ==
    ASSUME IInv, ResolveRepo
    PROVE  IInv'
<1>1. /\ pc = "resolve" /\ segment = Len(sought)
      /\ pc' = IF <<parent, sought[segment]>> \in holds THEN "found" ELSE "notFound"
      /\ UNCHANGED <<upstream, stack, visited, out, sought, segment, parent>>
    BY DEF ResolveRepo, resolve
<1>2. parent' \in Group
    BY <1>1 DEF IInv, TypeOK
<1>3. SegmentInv'
    BY <1>1 DEF IInv, SegmentInv, Active
<1> QED
    BY <1>1, <1>2, <1>3, ResolutionKeeps

LEMMA ResolveFailsKeeps ==
    ASSUME IInv, ResolveFails
    PROVE  IInv'
<1>1. /\ pc = "resolve" /\ pc' = "failed"
      /\ UNCHANGED <<upstream, stack, visited, out, sought, segment, parent>>
    BY DEF ResolveFails, resolve
<1>2. parent' \in Group
    BY <1>1 DEF IInv, TypeOK
<1>3. SegmentInv'
    BY <1>1 DEF IInv, SegmentInv, Active
<1> QED
    BY <1>1, <1>2, <1>3, ResolutionKeeps

-----------------------------------------------------------------------------
(* The theorems.                                                           *)

LEMMA StutterKeeps ==
    ASSUME IInv, UNCHANGED vars
    PROVE  IInv'
<1>1. /\ UNCHANGED <<walk, resolve>>
      /\ UNCHANGED <<links, holds, edits, everLinks, settled, kept>>
    BY DEF vars, upstream
<1>2. /\ links \subseteq Link /\ everLinks \subseteq Link /\ holds \subseteq Group \X Repo
      /\ edits \in 0 .. MaxEdits /\ links \subseteq everLinks
      /\ settled \subseteq links /\ kept \subseteq holds
    BY DEF IInv, TypeOK, HistoryInv
<1> QED
    BY <1>1, <1>2, EditsKeep

LEMMA NextKeeps ==
    ASSUME IInv, [Next]_vars
    PROVE  IInv'
BY StutterKeeps, EditLinkKeeps, EditRepoKeeps, EnterKeeps, ListReposKeeps, ListGroupsKeeps,
   CallFailsKeeps, DescendKeeps, ReturnKeeps, AskKeeps, ResolveStepKeeps, ResolveRepoKeeps,
   ResolveFailsKeeps DEF Next, Walk, Resolve

\* The strengthened invariant holds in every reachable state.
THEOREM Invariance == Spec => []IInv
<1>1. Init => IInv
    BY InitIInv
<1>2. IInv /\ [Next]_vars => IInv'
    BY NextKeeps
<1> QED
    BY <1>1, <1>2, PTL DEF Spec

\* Every variable keeps its type, and the recursion its depth.
THEOREM TypeCorrect == Spec => []TypeOK
<1>1. IInv => TypeOK
    BY DEF IInv
<1> QED
    BY <1>1, Invariance, PTL

\* A walk that succeeds has every repository that stayed where it was, under
\* every path it has, however the organisation was edited meanwhile.
THEOREM WalkIsComplete == Spec => []NothingOverlooked
<1>1. IInv => NothingOverlooked
  <2> SUFFICES ASSUME IInv, pc = "done", NEW chain \in SettledChains, NEW r \in Repo,
                      <<chain[Len(chain)], r>> \in kept
               PROVE  BagIn(Listing(chain[Len(chain)], r, PathOf(chain, r)), out)
      BY DEF NothingOverlooked
  <2>1. Len(stack) = 0
      BY EmptySeq DEF IInv, StackInv, Active
  <2>2. ~ Pending(chain)
      BY <2>1 DEF Pending
  <2> QED
      BY <2>2 DEF IInv, CoverInv
<1> QED
    BY <1>1, Invariance, PTL

\* A cycle is reported only of links that were not a tree at all times.
THEOREM CyclesAreReal == Spec => []CycleIsReal
<1>1. IInv => CycleIsReal
    BY DEF IInv
<1> QED
    BY <1>1, Invariance, PTL

\* A repository is listed once, under one path, even if its group has two
\* parents or is moved; and, while no group has two subgroups of one name, at
\* any time, no two repositories have the same path, whatever names other
\* groups have.
THEOREM WalkListsOnce == Spec => []ListedOnce
<1>1. IInv => ListedOnce
  <2> SUFFICES ASSUME IInv, NEW x \in DOMAIN out, NEW y \in DOMAIN out
               PROVE  /\ x.group = y.group /\ x.repo = y.repo => x = y /\ out[x] = 1
                      /\ SiblingsDiffer /\ x.path = y.path => x = y
      BY DEF ListedOnce, BagToSet
  <2>1. PICK way \in [visited -> Seq(GroupName)] : WayRight(way)
      BY DEF IInv, WayInv
  <2>2. PICK g \in visited, r \in Repo : x = Listing(g, r, Append(way[g], r))
      BY <2>1 DEF WayRight
  <2>3. PICK h \in visited, q \in Repo : y = Listing(h, q, Append(way[h], q))
      BY <2>1 DEF WayRight
  <2>4. x.group = y.group /\ x.repo = y.repo => x = y
      BY <2>2, <2>3 DEF Listing
  <2>5. out[x] = 1
      BY DEF IInv, CountInv
  <2>6. ASSUME SiblingsDiffer, x.path = y.path
        PROVE  x = y
    <3>1. Append(way[g], r) = Append(way[h], q)
        BY <2>2, <2>3, <2>6 DEF Listing
    <3>2. way[g] \in Seq(GroupName \cup Repo) /\ way[h] \in Seq(GroupName \cup Repo)
        BY <2>1, SeqMonotonic
    <3>3. way[g] = way[h] /\ r = q
        BY <3>1, <3>2, AppendInjective
    <3>4. g = h
        BY <2>1, <2>6, <3>3 DEF WayRight
    <3> QED
        BY <2>2, <2>3, <3>3, <3>4
  <2> QED
      BY <2>4, <2>5, <2>6
<1> QED
    BY <1>1, Invariance, PTL

-----------------------------------------------------------------------------
(* Walk and resolution.                                                    *)

\* Chains that are there all the time, and name the path, did so before.
LEMMA StillSettled ==
    ASSUME settled' \subseteq settled, kept' \subseteq kept, everLinks \subseteq everLinks',
           UNCHANGED sought, NEW chain \in SettledChains', NEW r \in Repo,
           <<chain[Len(chain)], r>> \in kept', (PathOf(chain, r) = sought)', Unmistakable(chain)'
    PROVE  /\ chain \in SettledChains /\ <<chain[Len(chain)], r>> \in kept
           /\ PathOf(chain, r) = sought /\ Unmistakable(chain)
BY DEF SettledChains, PathOf, Unmistakable

\* A resolution that starts is at the first group of every chain, the root.
LEMMA AskResolves ==
    ASSUME IInv, Ask
    PROVE  ResolveInv'
<1>1. pc = "done" /\ pc' = "resolve" /\ UNCHANGED <<upstream, segment, parent>>
    BY DEF Ask
<1>2. segment = 1 /\ parent = Root
    BY <1>1 DEF IInv, SegmentInv
<1>3. \A chain \in SettledChains' : chain \in SettledChains
    BY <1>1 DEF SettledChains, upstream
<1>4. \A chain \in SettledChains' : parent' = chain[segment']
    BY <1>1, <1>2, <1>3, ChainsAre
<1> QED
    BY <1>1, <1>4 DEF ResolveInv

\* The one subgroup of the name is the chain's next group.
LEMMA StepResolves ==
    ASSUME IInv, ResolveInv, ResolveStep
    PROVE  ResolveInv'
<1> DEFINE subgroups == Named(sought[segment])
<1>1. /\ pc = "resolve" /\ segment < Len(sought)
      /\ UNCHANGED <<upstream, sought>>
      /\ \/ \E g \in subgroups : parent' = g /\ segment' = segment + 1 /\ pc' = "resolve"
         \/ subgroups = {} /\ pc' = "notFound" /\ UNCHANGED <<segment, parent>>
    BY DEF ResolveStep, EnterSubgroup
<1>2. /\ sought \in Seq(GroupName \cup Repo) /\ segment \in Nat \ {0} /\ Len(sought) \in Nat
      /\ parent \in Group
    BY LenProperties DEF IInv, SegmentInv, TypeOK
<1>3. ASSUME NEW chain \in SettledChains, NEW r \in Repo,
             <<chain[Len(chain)], r>> \in kept, PathOf(chain, r) = sought, Unmistakable(chain)
      PROVE  subgroups = {chain[segment + 1]}
  <2>1. parent = chain[segment]
      BY <1>1, <1>3 DEF ResolveInv
  <2>2. Len(chain) = Len(sought) /\ segment \in 1 .. Len(chain) - 1 /\ segment + 1 \in 1 .. Len(chain)
      BY <1>1, <1>2, <1>3, PathsAre
  <2>3. sought[segment] = NameOf(chain[segment + 1])
      BY <1>3, <2>2, PathsAre
  <2>4. chain[segment + 1] \in Group /\ <<parent, chain[segment + 1]>> \in links
      BY <2>1, <2>2, ChainsAre DEF IInv, HistoryInv
  <2>5. \A g \in subgroups : g = chain[segment + 1]
      BY <1>3, <2>1, <2>2, <2>3 DEF Named, Unmistakable, IInv, HistoryInv
  <2> QED
      BY <2>3, <2>4, <2>5 DEF Named
<1>4. SUFFICES ASSUME NEW chain \in SettledChains, NEW r \in Repo,
                      <<chain[Len(chain)], r>> \in kept, PathOf(chain, r) = sought,
                      Unmistakable(chain)
               PROVE  pc' = "resolve" /\ parent' = chain[segment']
    BY <1>1, StillSettled DEF ResolveInv, upstream
<1>5. subgroups = {chain[segment + 1]}
    BY <1>3, <1>4
<1> HIDE DEF subgroups
<1> QED
    BY <1>1, <1>5

\* The last segment is a repository that is still in the chain's last group.
LEMMA RepoResolves ==
    ASSUME IInv, ResolveInv, ResolveRepo
    PROVE  ResolveInv'
<1>1. /\ pc = "resolve" /\ segment = Len(sought)
      /\ pc' = IF <<parent, sought[segment]>> \in holds THEN "found" ELSE "notFound"
      /\ UNCHANGED <<upstream, sought, segment, parent>>
    BY DEF ResolveRepo, resolve
<1>2. SUFFICES ASSUME NEW chain \in SettledChains, NEW r \in Repo,
                      <<chain[Len(chain)], r>> \in kept, PathOf(chain, r) = sought,
                      Unmistakable(chain)
               PROVE  pc' = "found" /\ parent' = chain[Len(chain)]
    BY <1>1, StillSettled DEF ResolveInv, upstream
<1>3. parent = chain[segment]
    BY <1>1, <1>2 DEF ResolveInv
<1>4. segment = Len(chain) /\ sought[segment] = r
    BY <1>1, <1>2, PathsAre
<1>5. <<parent, r>> \in holds
    BY <1>2, <1>3, <1>4 DEF IInv, HistoryInv
<1> QED
    BY <1>1, <1>3, <1>4, <1>5

\* Edits leave fewer chains, and nothing else touches a resolution.
LEMMA EditsResolve ==
    ASSUME ResolveInv, settled' \subseteq settled, kept' \subseteq kept,
           everLinks \subseteq everLinks', UNCHANGED <<pc, sought, segment, parent>>
    PROVE  ResolveInv'
<1> SUFFICES ASSUME NEW chain \in SettledChains', NEW r \in Repo,
                    <<chain[Len(chain)], r>> \in kept', (PathOf(chain, r) = sought)',
                    Unmistakable(chain)'
             PROVE  /\ pc' = "resolve" => parent' = chain[segment']
                    /\ pc' = "found" => parent' = chain[Len(chain)]
                    /\ pc' # "notFound"
    BY DEF ResolveInv
<1>1. /\ chain \in SettledChains /\ <<chain[Len(chain)], r>> \in kept
      /\ PathOf(chain, r) = sought /\ Unmistakable(chain)
    BY StillSettled
<1> QED
    BY <1>1 DEF ResolveInv

\* A path that was listed and stays, with no second group of a name on the
\* way, is found again, in the group it was listed for.
THEOREM WalkAndResolutionAgree == Spec => []ListedResolves
<1>1. Init => ResolveInv
    BY DEF Init, ResolveInv
<1>2. IInv /\ ResolveInv /\ [Next]_vars => ResolveInv'
  <2> SUFFICES ASSUME IInv, ResolveInv, [Next]_vars
               PROVE  ResolveInv'
      OBVIOUS
  <2>1. ASSUME NEW e \in Link, EditLink(e)
        PROVE  ResolveInv'
      BY <2>1, EditsResolve DEF EditLink, walk, resolve
  <2>2. ASSUME NEW e \in Group \X Repo, EditRepo(e)
        PROVE  ResolveInv'
      BY <2>2, EditsResolve DEF EditRepo, walk, resolve
  <2>3. CASE Walk
    <3>1. pc' \notin {"resolve", "found", "notFound"}
        BY <2>3 DEF Walk, Enter, ListRepos, ListGroups, CallFails, Descend, Return, Abandon
    <3> QED
        BY <3>1 DEF ResolveInv
  <2>4. CASE Ask
      BY <2>4, AskResolves
  <2>5. CASE ResolveStep
      BY <2>5, StepResolves
  <2>6. CASE ResolveRepo
      BY <2>6, RepoResolves
  <2>7. CASE ResolveFails
      BY <2>7 DEF ResolveFails, ResolveInv
  <2>8. CASE UNCHANGED vars
      BY <2>8, EditsResolve DEF vars, upstream, walk, resolve
  <2> QED
      BY <2>1, <2>2, <2>3, <2>4, <2>5, <2>6, <2>7, <2>8 DEF Next, Resolve
<1>3. ResolveInv => ListedResolves
    BY DEF ResolveInv, ListedResolves
<1> QED
    BY <1>1, <1>2, <1>3, Invariance, PTL DEF Spec
=============================================================================
