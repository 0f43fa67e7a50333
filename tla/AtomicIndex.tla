---------------------------- MODULE AtomicIndex ----------------------------
(***************************************************************************)
(* What the apk index promises its readers, independent of how it is       *)
(* loaded.  Upstream publishes editions of its feeds; from time to time    *)
(* the whole index is exchanged for one that is nowhere older; and a       *)
(* request is answered from the index of ONE instant.  Module ApkIndex,    *)
(* which has the loader, the ticker, the failures and the two separate     *)
(* locks of a request, is shown to implement this specification.           *)
(***************************************************************************)
EXTENDS Integers

CONSTANTS
    Arch,           \* architectures the loader was configured with
    Feed,           \* (architecture, repository) pairs it fetches
    ArchOf(_),      \* the architecture of a feed
    AskedArch,      \* values a request can carry in ?arch=
    AnyArch,        \* the member of AskedArch meaning "no ?arch= given"
    Name,           \* package names a request can carry
    WellFormed,     \* those the name pattern accepts
    Lists(_, _),    \* names that an edition of a feed lists
    Reader          \* concurrent requests

VARIABLES
    edition,        \* the edition each feed serves upstream, from 1
    store,          \* the edition of each feed in the index, 0 if none
    loaded,         \* an index has been installed
    reply           \* the last answer each reader got

avars == <<edition, store, loaded, reply>>

Nothing == [kind |-> "none"]

Hits(index, n, a) ==
    {<<f, index[f]>> : f \in {g \in Feed :
        index[g] > 0 /\ (a = AnyArch \/ ArchOf(g) = a) /\ n \in Lists(g, index[g])}}

Outcome(n, a, k, hits) == [name |-> n, arch |-> a, kind |-> k, hits |-> hits]

\* The answer to a request, as a function of the index alone.
Answer(index, served, n, a) ==
    IF n \notin WellFormed THEN Outcome(n, a, "badName", {})
    ELSE IF a # AnyArch /\ a \notin served THEN Outcome(n, a, "badArch", {})
    ELSE IF Hits(index, n, a) = {} THEN Outcome(n, a, "notFound", {})
    ELSE Outcome(n, a, "ok", Hits(index, n, a))

Init ==
    /\ edition = [f \in Feed |-> 1]
    /\ store = [f \in Feed |-> 0]
    /\ loaded = FALSE
    /\ reply = [r \in Reader |-> Nothing]

Publish(f) ==
    /\ edition' = [edition EXCEPT ![f] = @ + 1]
    /\ UNCHANGED <<store, loaded, reply>>

\* The index is exchanged as a whole: every feed is in it, none is older
\* than it was, and none is newer than what upstream has published.
Install ==
    /\ loaded' = TRUE
    /\ DOMAIN store' = Feed
    /\ \A f \in Feed : 1 <= store'[f] /\ store[f] <= store'[f] /\ store'[f] <= edition[f]
    /\ UNCHANGED <<edition, reply>>

Respond(r, n, a) ==
    /\ reply' = [reply EXCEPT ![r] =
                    Answer(store, IF loaded THEN Arch ELSE {}, n, a)]
    /\ UNCHANGED <<edition, store, loaded>>

Next ==
    \/ \E f \in Feed : Publish(f)
    \/ Install
    \/ \E r \in Reader, n \in Name, a \in AskedArch : Respond(r, n, a)

Spec == Init /\ [][Next]_avars
=============================================================================
