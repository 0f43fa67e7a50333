------------------------------ MODULE RepoWalk ------------------------------
(***************************************************************************)
(* walkRepos: the depth-first walk of an organisation's groups that lists  *)
(* every repository under its path, two calls per group.  What it walks is *)
(* whatever the API answers: groups may be linked and unlinked, and        *)
(* repositories come and go, between any two calls, and the links need not *)
(* form a tree.  The stack of frames is the recursion of walkReposStep.    *)
(*                                                                         *)
(* A path that was listed is then asked for, as the snapshot generator     *)
(* does, and resolveRepoUIDP goes down along it, one call per segment.     *)
(***************************************************************************)
EXTENDS Integers, Sequences, Bags

CONSTANTS
    Group,          \* groups, known by their ids
    Root,           \* the organisation's own group
    Link,           \* pairs of a group and another that may become its subgroup
    Repo,           \* names of repositories
    NameOf(_),      \* the name of a group
    MaxGroupDepth,  \* maxGroupDepth
    MaxEdits        \* bound: changes to the organisation while it is walked

ASSUME GroupAssumption == Root \in Group /\ Link \subseteq Group \X Group
ASSUME DepthAssumption == MaxGroupDepth \in Nat /\ MaxEdits \in Nat

VARIABLES
    links,      \* upstream: pairs of a group and a subgroup of it
    holds,      \* upstream: pairs of a group and a repository in it
    edits,      \* upstream: changes so far
    everLinks,  \* history: links there were at some time of the walk
    settled,    \* history: links there were all the time
    kept,       \* history: repositories that were there all the time
    pc,         \* control of the walk
    stack,      \* calls of walkReposStep that have not returned
    visited,    \* visited
    out,        \* the bag of paths in *out, with history: whose they are
    sought,     \* the path to resolve
    segment,    \* the segment it is at
    parent      \* the group that was found for those before

upstream == <<links, holds, edits, everLinks, settled, kept>>
walk == <<pc, stack, visited, out>>
resolve == <<sought, segment, parent>>
vars == <<upstream, walk, resolve>>

Stopped == {"tooDeep", "cycle", "failed", "found", "notFound"}
Ended == Stopped \cup {"done"}
Frame(g, prefix, todo) == [at |-> g, prefix |-> prefix, todo |-> todo]
Listing(g, r, path) == [group |-> g, repo |-> r, path |-> path]
Top == stack[Len(stack)]
Callers == SubSeq(stack, 1, Len(stack) - 1)

TypeOK ==
    /\ links \subseteq Link /\ everLinks \subseteq Link /\ settled \subseteq Link
    /\ holds \subseteq Group \X Repo /\ kept \subseteq Group \X Repo
    /\ edits \in 0 .. MaxEdits
    /\ pc \in {"enter", "repos", "groups", "loop", "resolve"} \cup Ended
    /\ Len(stack) <= MaxGroupDepth + 2
    /\ \A i \in DOMAIN stack : stack[i].at \in Group /\ stack[i].todo \subseteq Group
    /\ visited \subseteq Group
    /\ IsABag(out)
    /\ parent \in Group
    /\ pc = "resolve" => segment \in DOMAIN sought

Init ==
    /\ links \in SUBSET Link
    /\ holds = Group \X Repo
    /\ edits = 0
    /\ everLinks = links
    /\ settled = links
    /\ kept = holds
    /\ pc = "enter"
    /\ stack = <<Frame(Root, <<>>, {})>>
    /\ visited = {}
    /\ out = EmptyBag
    /\ sought = <<>> /\ segment = 1 /\ parent = Root

-----------------------------------------------------------------------------
(* The organisation is edited: a move is an unlink and a link.             *)

Toggle(S, e) == IF e \in S THEN S \ {e} ELSE S \cup {e}

EditLink(e) ==
    /\ pc \notin Stopped
    /\ edits < MaxEdits
    /\ edits' = edits + 1
    /\ links' = Toggle(links, e)
    /\ everLinks' = everLinks \cup links'
    /\ settled' = settled \cap links'
    /\ UNCHANGED <<holds, kept, walk, resolve>>

EditRepo(e) ==
    /\ pc \notin Stopped
    /\ edits < MaxEdits
    /\ edits' = edits + 1
    /\ holds' = Toggle(holds, e)
    /\ kept' = kept \cap holds'
    /\ UNCHANGED <<links, everLinks, settled, walk, resolve>>

-----------------------------------------------------------------------------
(* walkReposStep.  Definitions named Faulty... are bugs the code could have *)
(* in place of the definition that follows; the properties are shown to    *)
(* notice.                                                                 *)

\* Any error unwinds the whole recursion, and walkRepos returns no paths.
Abandon(error) ==
    /\ pc' = error
    /\ stack' = <<>>
    /\ out' = EmptyBag
    /\ UNCHANGED visited

\* A group that was visited is passed over.
FaultyEnterSkipsSeen ==
    /\ pc = "enter"
    /\ IF Len(stack) - 1 > MaxGroupDepth THEN Abandon("tooDeep")
       ELSE IF Top.at \in visited
       THEN pc' = "loop" /\ UNCHANGED <<stack, visited, out>>
       ELSE pc' = "repos" /\ visited' = visited \cup {Top.at} /\ UNCHANGED <<stack, out>>
    /\ UNCHANGED <<upstream, resolve>>

\* The visited groups are not looked at.
FaultyEnterForgets ==
    /\ pc = "enter"
    /\ IF Len(stack) - 1 > MaxGroupDepth THEN Abandon("tooDeep")
       ELSE pc' = "repos" /\ visited' = visited \cup {Top.at} /\ UNCHANGED <<stack, out>>
    /\ UNCHANGED <<upstream, resolve>>

\* Only the depth is looked at, and a path one group too long is let through.
FaultyEnterTooDeep ==
    /\ pc = "enter"
    /\ IF Len(stack) - 2 > MaxGroupDepth THEN Abandon("tooDeep")
       ELSE pc' = "repos" /\ visited' = visited \cup {Top.at} /\ UNCHANGED <<stack, out>>
    /\ UNCHANGED <<upstream, resolve>>

Enter ==
    /\ pc = "enter"
    /\ IF Len(stack) - 1 > MaxGroupDepth THEN Abandon("tooDeep")
       ELSE IF Top.at \in visited THEN Abandon("cycle")
       ELSE pc' = "repos" /\ visited' = visited \cup {Top.at} /\ UNCHANGED <<stack, out>>
    /\ UNCHANGED <<upstream, resolve>>

\* listRepos answers.
ListRepos ==
    /\ pc = "repos"
    /\ out' = out (+) SetToBag({Listing(Top.at, r, Append(Top.prefix, r)) :
                                    r \in {n \in Repo : <<Top.at, n>> \in holds}})
    /\ pc' = "groups"
    /\ UNCHANGED <<upstream, resolve, stack, visited>>

\* Subgroups are marked when they are listed and not when they are entered.
FaultyListGroupsMarks ==
    /\ pc = "groups"
    /\ LET children == {g \in Group : <<Top.at, g>> \in links}
       IN  /\ stack' = Append(Callers, [Top EXCEPT !.todo = children])
           /\ visited' = visited \cup children
    /\ pc' = "loop"
    /\ UNCHANGED <<upstream, resolve, out>>

\* listGroups answers: these are the groups the loop goes over, whatever
\* happens to them from now on.
ListGroups ==
    /\ pc = "groups"
    /\ stack' = Append(Callers, [Top EXCEPT !.todo = {g \in Group : <<Top.at, g>> \in links}])
    /\ pc' = "loop"
    /\ UNCHANGED <<upstream, resolve, visited, out>>

\* A failed call starts the walk again.
FaultyCallRestarts ==
    /\ pc \in {"repos", "groups"}
    /\ pc' = "enter"
    /\ stack' = <<Frame(Root, <<>>, {})>>
    /\ visited' = {}
    /\ out' = EmptyBag
    /\ UNCHANGED <<upstream, resolve>>

\* Either call fails, or its context is done.
CallFails ==
    /\ pc \in {"repos", "groups"}
    /\ Abandon("failed")
    /\ UNCHANGED <<upstream, resolve>>

\* The loop calls walkReposStep for the next subgroup, in the API's order.
Descend ==
    /\ pc = "loop"
    /\ \E g \in Top.todo :
          stack' = Callers \o <<[Top EXCEPT !.todo = @ \ {g}],
                                Frame(g, Append(Top.prefix, NameOf(g)), {})>>
    /\ pc' = "enter"
    /\ UNCHANGED <<upstream, resolve, visited, out>>

\* The loop is at its end, and the call returns to its caller's loop.
Return ==
    /\ pc = "loop"
    /\ Top.todo = {}
    /\ stack' = Callers
    /\ pc' = IF Callers = <<>> THEN "done" ELSE "loop"
    /\ UNCHANGED <<upstream, resolve, visited, out>>

-----------------------------------------------------------------------------
(* resolveRepoUIDP of a path from a list that was given.                   *)

Ask ==
    /\ pc = "done"
    /\ sought' \in {x.path : x \in BagToSet(out)}
    /\ pc' = "resolve"
    /\ UNCHANGED <<upstream, stack, visited, out, segment, parent>>

Named(name) == {g \in Group : <<parent, g>> \in links /\ NameOf(g) = name}

\* resolveSubgroupUIDP takes the first of the subgroups with the name.
FaultyEnterSubgroup(g) == UNCHANGED parent
EnterSubgroup(g) == parent' = g

ResolveStep ==
    /\ pc = "resolve" /\ segment < Len(sought)
    /\ LET subgroups == Named(sought[segment])
       IN  \/ /\ \E g \in subgroups : EnterSubgroup(g)
              /\ segment' = segment + 1
              /\ UNCHANGED pc
           \/ subgroups = {} /\ pc' = "notFound" /\ UNCHANGED <<segment, parent>>
    /\ UNCHANGED <<upstream, stack, visited, out, sought>>

\* The last segment is a repository of the last group.
ResolveRepo ==
    /\ pc = "resolve" /\ segment = Len(sought)
    /\ pc' = IF <<parent, sought[segment]>> \in holds THEN "found" ELSE "notFound"
    /\ UNCHANGED <<upstream, stack, visited, out, resolve>>

ResolveFails ==
    /\ pc = "resolve"
    /\ pc' = "failed"
    /\ UNCHANGED <<upstream, stack, visited, out, resolve>>

-----------------------------------------------------------------------------
Walk == Enter \/ ListRepos \/ ListGroups \/ CallFails \/ Descend \/ Return
Resolve == ResolveStep \/ ResolveRepo \/ ResolveFails

Next ==
    \/ \E e \in Link : EditLink(e)
    \/ \E e \in Group \X Repo : EditRepo(e)
    \/ Walk \/ Ask \/ Resolve

Spec == Init /\ [][Next]_vars

\* The walk and the resolution go on, and their calls end.
FairSpec == Spec /\ WF_vars(Walk) /\ WF_vars(Resolve)

-----------------------------------------------------------------------------
(* Properties.                                                             *)

\* The chains of groups, from the root, that were linked all the time.
SettledChains ==
    {chain \in UNION {[1 .. n -> Group] : n \in 1 .. MaxGroupDepth + 2} :
        /\ chain[1] = Root
        /\ \A i \in 1 .. Len(chain) - 1 : <<chain[i], chain[i + 1]>> \in settled}

PathOf(chain, r) == [i \in 1 .. Len(chain) - 1 |-> NameOf(chain[i + 1])] \o <<r>>

\* walk.go: the guards "fail loudly rather than degrading silently".  A walk
\* that succeeds has every repository that stayed where it was while the
\* walk ran, under every path it has, whatever else was moved.
NothingOverlooked ==
    pc = "done" =>
        \A chain \in SettledChains : \A r \in Repo :
            <<chain[Len(chain)], r>> \in kept =>
                BagIn(Listing(chain[Len(chain)], r, PathOf(chain, r)), out)

\* At no time of the walk had a group two subgroups of one name.
SiblingsDiffer ==
    \A p, g, h \in Group :
        <<p, g>> \in everLinks /\ <<p, h>> \in everLinks /\ NameOf(g) = NameOf(h) => g = h

\* A walk lists a repository once, under one path, even if its group has two
\* parents or is moved to where the walk has yet to come.  Nor has it one
\* path for two repositories, which the snapshot generator would write to one
\* file, unless a group had two subgroups of one name.
ListedOnce ==
    \A x, y \in BagToSet(out) :
        /\ x.group = y.group /\ x.repo = y.repo => x = y /\ out[x] = 1
        /\ SiblingsDiffer /\ x.path = y.path => x = y

\* A cycle is reported only if the links were not a tree at all times: no
\* plain organisation that is left alone, or only loses groups, is refused.
CycleIsReal ==
    pc = "cycle" =>
        \E g \in Group :
            \/ <<g, Root>> \in everLinks
            \/ \E h, k \in Group : h # k /\ <<h, g>> \in everLinks /\ <<k, g>> \in everLinks

\* No group of a chain ever had a sibling of its name.
Unmistakable(chain) ==
    \A i \in 1 .. Len(chain) - 1 : \A g \in Group :
        <<chain[i], g>> \in everLinks /\ NameOf(g) = NameOf(chain[i + 1]) => g = chain[i + 1]

\* A path that was listed and then stays, with no second group of a name on
\* the way, is found again, in the group it was listed for: walk and
\* resolution agree on what a path means.
ListedResolves ==
    \A chain \in SettledChains : \A r \in Repo :
        /\ <<chain[Len(chain)], r>> \in kept
        /\ PathOf(chain, r) = sought
        /\ Unmistakable(chain)
        => /\ pc # "notFound"
           /\ pc = "found" => parent = chain[Len(chain)]

\* The walk comes to an end on whatever the API answers: cyclic links, and
\* links that are changed in front of it; and so does a resolution.
Ends == []<>(pc \in Ended)
=============================================================================
