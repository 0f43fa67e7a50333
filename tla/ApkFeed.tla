------------------------------ MODULE ApkFeed ------------------------------
(***************************************************************************)
(* What becomes of the text of the feeds: parseAPKINDEX, a line at a time, *)
(* addProvides, dedupe, and the answer that APKDatasource.Releases makes   *)
(* of the index.  The text is any sequence of lines, over feeds that are   *)
(* parsed into one map, as Load does.                                      *)
(*                                                                         *)
(* The list of a package's entries is the set of them.  A list may hold an *)
(* entry twice until dedupe has run, and nothing sees it before; the order *)
(* of an answer, a "readability choice" (datasource/apk.go:99), is left    *)
(* out.  Times are counted from the first that JSON can hold, which is also *)
(* time.Time's zero and means that there is none; the Unix epoch, whence    *)
(* the feeds count them, is a later one.                                   *)
(***************************************************************************)
EXTENDS Integers, Sequences, FiniteSets

CONSTANTS
    Configs,        \* sequences: the architecture of each feed, in Load's order
    Line,           \* the lines feeds are made of
    Name,           \* package names that requests ask for
    Epoch,          \* the Unix epoch, so counted
    MaxUnixSec,     \* the last time that JSON can hold
    MaxLines,       \* bound: lines of all feeds together, and twice those of
                    \* a feed after the first
    MaxSame         \* bound: lines of a feed with one key, blank ones apart

(* A line has a key, the letter before its colon, "" for the blank line    *)
(* and "other" for what is no field or a field nobody reads; its text; its *)
(* text as a time, which is beyond those of JSON if it is no number; and   *)
(* its text as the tokens of a list of provides.                           *)
Absent == ""
NoTime == 0
LineOf(key, text, secs, tokens) ==
    [key |-> key, text |-> text, secs |-> secs, tokens |-> tokens]
\* name=version.  NameOnly has no "="; an empty name or version is Absent.
Token(n, v) == [name |-> n, version |-> v]
NameOnly == "no version"
Unversioned == "0"

ASSUME LineAssumption ==
    /\ MaxUnixSec \in Nat /\ Epoch \in Nat
    /\ \A l \in Line : l.key \in {"", "P", "V", "t", "p", "other"} /\ l.secs \in Int
ASSUME ConfigAssumption == Configs \subseteq Seq(Nat \ {0}) /\ {MaxLines, MaxSame} \subseteq Nat

AnyArch == 0

VARIABLES
    archOf,     \* the architecture of each feed of this configuration
    text,       \* the lines of each feed that have been scanned
    at,         \* the feed being parsed; after the last, the one past it
    name,       \* parseAPKINDEX: name
    version,    \* cur.Version
    stamp,      \* cur.Timestamp
    provides,   \* provides, as tokens
    merged,     \* the entries of indexData
    index,      \* the entries of the store
    installed   \* Replace has run

record == <<name, version, stamp, provides>>
vars == <<archOf, text, at, record, merged, index, installed>>

NumFeeds == Len(archOf)
Feed == 1 .. NumFeeds

Entry(n, v, s, a) == [name |-> n, version |-> v, stamp |-> s, arch |-> a]

TypeOK ==
    /\ archOf \in Configs
    /\ text \in [Feed -> Seq(Line)]
    /\ at \in 1 .. NumFeeds + 1
    /\ stamp \in 0 .. MaxUnixSec
    /\ \A e \in merged : /\ e.name # Absent
                        /\ e.stamp \in 0 .. MaxUnixSec
                        /\ \E f \in Feed : e.arch = archOf[f]
    /\ index \subseteq merged
    /\ installed \in BOOLEAN
    /\ installed => at \notin Feed

Init ==
    /\ archOf \in Configs
    /\ text = [f \in Feed |-> <<>>]
    /\ at = 1
    /\ name = Absent /\ version = Absent /\ stamp = NoTime /\ provides = {}
    /\ merged = {}
    /\ index = {}
    /\ installed = FALSE

-----------------------------------------------------------------------------
(* parseAPKINDEX.  Definitions named Faulty... are bugs the code could have *)
(* in place of the definition that follows; the properties are shown to    *)
(* notice.                                                                 *)

\* addProvides: the tokens that name a version.  A version may be empty.
FaultyProvided(tokens, s, a) ==
    {Entry(k.name, k.version, s, a) : k \in
        {t \in tokens : t.version \notin {NameOnly, Unversioned}}}
Provided(tokens, s, a) ==
    {Entry(k.name, k.version, s, a) : k \in
        {t \in tokens : t.name # Absent /\ t.version \notin {NameOnly, Unversioned}}}

\* flush: a record without a name or a version is nothing, nor is what it
\* provides.  Every field starts anew.
FaultyFlush(a) ==
    /\ merged' = merged \cup
           IF name # Absent /\ version # Absent
           THEN {Entry(name, version, stamp, a)} \cup Provided(provides, stamp, a)
           ELSE {}
    /\ name' = Absent /\ version' = Absent /\ stamp' = NoTime /\ UNCHANGED provides
Flush(a) ==
    /\ merged' = merged \cup
           IF name # Absent /\ version # Absent
           THEN {Entry(name, version, stamp, a)} \cup Provided(provides, stamp, a)
           ELSE {}
    /\ name' = Absent /\ version' = Absent /\ stamp' = NoTime /\ provides' = {}

\* The last line of a field counts, and of the times the last that JSON can
\* hold and is not the epoch, which apk-tools writes for want of a time.
SetField(l) ==
    /\ name' = IF l.key = "P" THEN l.text ELSE name
    /\ version' = IF l.key = "V" THEN l.text ELSE version
    /\ stamp' = IF l.key = "t" /\ l.secs # Epoch /\ l.secs >= 0 /\ l.secs <= MaxUnixSec
                THEN l.secs ELSE stamp
    /\ provides' = IF l.key = "p" THEN l.tokens ELSE provides

\* The lines of all feeds so far, for the bound.
Scanned ==
    LET lines[f \in 0 .. NumFeeds] == IF f = 0 THEN 0 ELSE lines[f - 1] + Len(text[f])
    IN  lines[NumFeeds]

Scan(l) ==
    /\ at \in Feed
    /\ Scanned < MaxLines
    /\ at > 1 => 2 * Len(text[at]) < MaxLines
    /\ l.key # "" => Cardinality({k \in DOMAIN text[at] : text[at][k].key = l.key}) < MaxSame
    /\ text' = [text EXCEPT ![at] = Append(@, l)]
    /\ IF l.key = "" THEN Flush(archOf[at]) ELSE SetField(l) /\ UNCHANGED merged
    /\ UNCHANGED <<archOf, at, index, installed>>

\* The last record of a feed may lack its blank line; then Load's next turn.
EndFeed ==
    /\ at \in Feed
    /\ Flush(archOf[at])
    /\ at' = at + 1
    /\ UNCHANGED <<archOf, text, index, installed>>

-----------------------------------------------------------------------------
\* dedupe: of the entries with one name, architecture and version, the one
\* with the latest time.
SameBuild(e, f) == e.name = f.name /\ e.arch = f.arch /\ e.version = f.version
FaultyDedupe(S) == {e \in S : \A f \in S : SameBuild(e, f) => f.stamp >= e.stamp}
Dedupe(S) == {e \in S : \A f \in S : SameBuild(e, f) => f.stamp <= e.stamp}

\* The end of Load.
Install ==
    /\ at \notin Feed
    /\ ~installed
    /\ index' = Dedupe(merged)
    /\ installed' = TRUE
    /\ UNCHANGED <<archOf, text, at, record, merged>>

Next ==
    \/ \E l \in Line : Scan(l)
    \/ EndFeed
    \/ Install

Spec == Init /\ [][Next]_vars

-----------------------------------------------------------------------------
(* APKDatasource.Releases, on the index.                                   *)

\* IndexStore.Get.
Get(n, a) == {e \in index : e.name = n /\ (a = AnyArch \/ e.arch = a)}

\* mergeAcrossArchs: of the entries with one version, one with the latest
\* time.  Which architecture it is of does not show.
FaultyMergeAcrossArchs(S) ==
    {e \in S : \A f \in S : f.version = e.version => f.stamp >= e.stamp}
MergeAcrossArchs(S) ==
    {e \in S : \A f \in S : f.version = e.version => f.stamp <= e.stamp}

\* With a cutoff, which here is positive, an entry must have a time, and not
\* a later one.
Released(n, a, before) ==
    LET entries == IF a = AnyArch THEN MergeAcrossArchs(Get(n, a)) ELSE Get(n, a)
    IN  {[version |-> e.version, stamp |-> e.stamp] : e \in
            {x \in entries : before # NoTime => x.stamp # NoTime /\ x.stamp <= before}}

-----------------------------------------------------------------------------
(* Properties.                                                             *)

Arch == {archOf[f] : f \in Feed}
Stamp == {l.secs : l \in Line} \cap (1 .. MaxUnixSec)
Versions(S) == {e.version : e \in S}

\* A record by its lines: i and j are its first and last, with no blank line
\* in it and none but blank lines or the ends of the text around it.
IsRecord(t, i, j) ==
    /\ i <= j
    /\ \A k \in i .. j : t[k].key # ""
    /\ i = 1 \/ t[i - 1].key = ""
    /\ j = Len(t) \/ t[j + 1].key = ""

\* The lines that say what a field is; of a time, those that say a time.
Time == (0 .. MaxUnixSec) \ {Epoch}
Holders(t, i, j, key) ==
    {k \in i .. j : t[k].key = key /\ (key = "t" => t[k].secs \in Time)}
LastLine(t, i, j, key) ==
    CHOOSE k \in Holders(t, i, j, key) : \A h \in Holders(t, i, j, key) : h <= k

\* The entries a record stands for: its own, and one for each version it
\* provides, all of its time.
EntriesOf(t, i, j, a) ==
    LET has(key) == Holders(t, i, j, key) # {}
        line(key) == t[LastLine(t, i, j, key)]
        time == IF has("t") THEN line("t").secs ELSE NoTime
    IN  IF ~(/\ has("P") /\ line("P").text # Absent
             /\ has("V") /\ line("V").text # Absent)
        THEN {}
        ELSE {Entry(line("P").text, line("V").text, time, a)}
             \cup IF has("p")
                  THEN {Entry(k.name, k.version, time, a) : k \in
                          {x \in line("p").tokens :
                              x.name # Absent /\ x.version \notin {NameOnly, Unversioned}}}
                  ELSE {}

FeedEntries(f) ==
    UNION {EntriesOf(text[f], r[1], r[2], archOf[f]) : r \in
        {s \in (DOMAIN text[f]) \X (DOMAIN text[f]) : IsRecord(text[f], s[1], s[2])}}

\* The parser, whose fields run on from line to line, finds exactly the
\* entries of the records: no field of one record gets into another, or of
\* one feed into the next, and the last record of a feed is not lost.
ParsesRecords ==
    installed => merged = UNION {FeedEntries(f) : f \in Feed}

\* What a request with a cutoff is given has been out long enough: no feed
\* says of any build of the version, for an architecture asked for, that it
\* is younger than the cutoff (the doc comment of Releases).
NothingYoung ==
    installed =>
        \A n \in Name, a \in Arch \cup {AnyArch}, before \in Stamp :
            \A r \in Released(n, a, before) : \A e \in merged :
                (e.name = n /\ e.version = r.version /\ (a = AnyArch \/ e.arch = a))
                    => e.stamp <= before

\* A request without ?arch= is given exactly the versions that some
\* architecture would be given and none has too young.
ArchsAgree ==
    installed =>
        \A n \in Name, before \in Stamp :
            Versions(Released(n, AnyArch, before)) =
                {v \in UNION {Versions(Released(n, a, before)) : a \in Arch} :
                    \A a \in Arch : \A r \in Released(n, a, NoTime) :
                        r.version = v => r.stamp <= before}

\* Nothing gets lost on the way: without a cutoff every version in the feeds
\* is given, once, with the latest time any feed has for it.
NothingLost ==
    installed =>
        \A n \in Name, a \in Arch \cup {AnyArch} :
            LET S == {e \in merged : e.name = n /\ (a = AnyArch \/ e.arch = a)}
            IN  /\ Versions(Released(n, a, NoTime)) = Versions(S)
                /\ \A r, s \in Released(n, a, NoTime) : r.version = s.version => r = s
                /\ \A r \in Released(n, a, NoTime) : \A e \in S :
                       e.version = r.version => e.stamp <= r.stamp
=============================================================================
