------------------------------ MODULE Snapshot ------------------------------
(***************************************************************************)
(* snapshot.Generate, run by several processes for one output directory:   *)
(* each stages a tree in a temporary directory, one datasource after the   *)
(* other, the packages of a datasource in an errgroup, and commits it by   *)
(* a rename.  Interrupts, failing lookups, failing writes, a process that  *)
(* is killed, and the output directory appearing meanwhile are steps.      *)
(*                                                                         *)
(* A tree is known by the process that made it and is in its temporary     *)
(* directory, at the output path, or nowhere.  What releases.json holds is *)
(* left out; whether it has been written to its end is kept.               *)
(***************************************************************************)
EXTENDS Integers, FiniteSets, FiniteSetsExt

CONSTANTS
    Process,        \* processes that generate into the same output path
    NumPackages,    \* sequence: the number of packages of each datasource
    Concurrency,    \* WithConcurrency of each process; no limit if not positive
    TrailingSlash   \* the output path is given with a slash at its end

Datasource == DOMAIN NumPackages

\* Generate refuses to run without a datasource.
ASSUME DatasourcesAssumption ==
    Datasource # {} /\ \A d \in Datasource : NumPackages[d] \in Nat
ASSUME OptionsAssumption == Concurrency \in [Process -> Int] /\ TrailingSlash \in BOOLEAN

Packages(d) == {<<d, i>> : i \in 1 .. NumPackages[d]}
Package == UNION {Packages(d) : d \in Datasource}

VARIABLES
    pc,         \* control of each Generate
    current,    \* the datasource it is at
    visited,    \* datasources it has started
    work,       \* the worker of each package
    files,      \* releases.json of each package in the process's tree
    where,      \* where the process's tree is
    mkdirOut,   \* the output path is a directory that MkdirAll has made
    interrupted \* the process's signal context is done

vars == <<pc, current, visited, work, files, where, mkdirOut, interrupted>>

Ended(p) == pc[p] \in {"ok", "failed", "killed"}
With(p, state) == {k \in Package : work[p][k] = state}
Running(p) == {k \in Package : work[p][k] \in {"started", "asking", "writing"}}

\* The workers of a Generate that run at a time are within its limit.
LimitKept == \A p \in Process : Concurrency[p] > 0 => Cardinality(Running(p)) <= Concurrency[p]

TypeOK ==
    /\ pc \in [Process -> {"wiring", "start", "prepare", "next", "fanout", "commit", "rename",
                           "renamed", "cleanup", "ok", "failed", "killed"}]
    /\ current \in [Process -> Datasource]
    /\ visited \in [Process -> SUBSET Datasource]
    /\ work \in [Process -> [Package -> {"none", "todo", "started", "asking", "writing",
                                         "skipped", "written", "erred"}]]
    /\ files \in [Process -> [Package -> {"none", "partial", "whole"}]]
    /\ where \in [Process -> {"nowhere", "tmp", "out"}]
    /\ mkdirOut \in BOOLEAN
    /\ interrupted \in [Process -> BOOLEAN]
    /\ LimitKept

Init ==
    /\ pc = [p \in Process |-> "wiring"]
    /\ current \in {[p \in Process |-> d] : d \in {CHOOSE d \in Datasource : TRUE}}
    /\ visited = [p \in Process |-> {}]
    /\ work = [p \in Process |-> [k \in Package |-> "none"]]
    /\ files = [p \in Process |-> [k \in Package |-> "none"]]
    /\ where = [p \in Process |-> "nowhere"]
    /\ mkdirOut = FALSE
    /\ interrupted = [p \in Process |-> FALSE]

OutExists == mkdirOut \/ \E p \in Process : where[p] = "out"
IsEmpty(p) == \A k \in Package : files[p][k] = "none"
Goto(p, label) == pc' = [pc EXCEPT ![p] = label]
SetWork(p, k, state) == work' = [work EXCEPT ![p][k] = state]

-----------------------------------------------------------------------------
(* runSnapshot, and Generate as far as its loop.                           *)

\* The client is built and the apk index is loaded, and either may fail:
\* there is no snapshot of an index that is not whole.
Wire(p) ==
    /\ pc[p] = "wiring"
    /\ \E label \in {"start", "failed"} : Goto(p, label)
    /\ UNCHANGED <<current, visited, work, files, where, mkdirOut, interrupted>>

\* The output path must not exist; Lstat may also fail to say.
Check(p) ==
    /\ pc[p] = "start"
    /\ \/ ~OutExists /\ Goto(p, "prepare")
       \/ Goto(p, "failed")
    /\ UNCHANGED <<current, visited, work, files, where, mkdirOut, interrupted>>

\* MkdirAll of the parent and MkdirTemp under it, either of which may fail.
\* filepath.Dir of a path that ends in a slash is the path itself.
Prepare(p) ==
    /\ pc[p] = "prepare"
    /\ \/ /\ Goto(p, "next")
          /\ where' = [where EXCEPT ![p] = "tmp"]
          /\ mkdirOut' = (mkdirOut \/ TrailingSlash)
       \/ /\ Goto(p, "failed")
          /\ mkdirOut' \in {mkdirOut, mkdirOut \/ TrailingSlash}
          /\ UNCHANGED where
    /\ UNCHANGED <<current, visited, work, files, interrupted>>

\* PackageNames of the next datasource, in the order of a Go map.
StartDatasource(p) ==
    /\ pc[p] = "next"
    /\ \E d \in Datasource \ visited[p] :
          /\ current' = [current EXCEPT ![p] = d]
          /\ visited' = [visited EXCEPT ![p] = @ \cup {d}]
          /\ work' = [work EXCEPT ![p] =
                [k \in Package |-> IF k \in Packages(d) THEN "todo" ELSE @[k]]]
    /\ Goto(p, "fanout")
    /\ UNCHANGED <<files, where, mkdirOut, interrupted>>

EnumerationFails(p) ==
    /\ pc[p] = "next"
    /\ visited[p] # Datasource
    /\ Goto(p, "cleanup")
    /\ UNCHANGED <<current, visited, work, files, where, mkdirOut, interrupted>>

-----------------------------------------------------------------------------
(* The errgroup over the packages of the current datasource.               *)
(* Definitions named Faulty... are bugs the code could have in place of    *)
(* the definition that follows; the properties are shown to notice.        *)

Cancelled(p) == interrupted[p] \/ With(p, "erred") # {}

\* eg.Go waits for room in the group, if SetLimit was called.
FaultyLaunchOffByOne(p) ==
    /\ pc[p] = "fanout"
    /\ Concurrency[p] > 0 => Cardinality(Running(p)) + 1 < Concurrency[p]
    /\ \E d \in {current[p]} :
          LET todo == {i \in 1 .. NumPackages[d] : work[p][<<d, i>>] = "todo"}
          IN  todo # {} /\ SetWork(p, <<d, Min(todo)>>, "started")
    /\ UNCHANGED <<pc, current, visited, files, where, mkdirOut, interrupted>>
FaultyLaunchOneMore(p) ==
    /\ pc[p] = "fanout"
    /\ Concurrency[p] > 0 => Cardinality(Running(p)) <= Concurrency[p]
    /\ \E d \in {current[p]} :
          LET todo == {i \in 1 .. NumPackages[d] : work[p][<<d, i>>] = "todo"}
          IN  todo # {} /\ SetWork(p, <<d, Min(todo)>>, "started")
    /\ UNCHANGED <<pc, current, visited, files, where, mkdirOut, interrupted>>
Launch(p) ==
    /\ pc[p] = "fanout"
    /\ Concurrency[p] > 0 => Cardinality(Running(p)) < Concurrency[p]
    /\ \E d \in {current[p]} :
          LET todo == {i \in 1 .. NumPackages[d] : work[p][<<d, i>>] = "todo"}
          IN  todo # {} /\ SetWork(p, <<d, Min(todo)>>, "started")
    /\ UNCHANGED <<pc, current, visited, files, where, mkdirOut, interrupted>>

\* The worker's first statement looks at the group's context.
Enter(p, k) ==
    /\ work[p][k] = "started"
    /\ SetWork(p, k, IF Cancelled(p) THEN "erred" ELSE "asking")
    /\ UNCHANGED <<pc, current, visited, files, where, mkdirOut, interrupted>>

\* Releases finds nothing to write: the package is unknown by now, has a
\* name the datasource refuses, or nothing is left after the age filters.
Skip(p, k) ==
    /\ work[p][k] = "asking"
    /\ SetWork(p, k, "skipped")
    /\ UNCHANGED <<pc, current, visited, files, where, mkdirOut, interrupted>>

\* Releases, the check of the path, MkdirAll or Create fails.
AskFails(p, k) ==
    /\ work[p][k] = "asking"
    /\ SetWork(p, k, "erred")
    /\ UNCHANGED <<pc, current, visited, files, where, mkdirOut, interrupted>>

\* writeResponse has created the file and is writing it.
BeginWrite(p, k) ==
    /\ work[p][k] = "asking"
    /\ SetWork(p, k, "writing")
    /\ files' = [files EXCEPT ![p][k] = "partial"]
    /\ UNCHANGED <<pc, current, visited, where, mkdirOut, interrupted>>

EndWrite(p, k) ==
    /\ work[p][k] = "writing"
    /\ SetWork(p, k, "written")
    /\ files' = [files EXCEPT ![p][k] = "whole"]
    /\ UNCHANGED <<pc, current, visited, where, mkdirOut, interrupted>>

\* Encode or Close fails, and what was written stays.
FaultyWriteErrorDropped(p, k) ==
    /\ work[p][k] = "writing"
    /\ SetWork(p, k, "written")
    /\ UNCHANGED <<pc, current, visited, files, where, mkdirOut, interrupted>>
WriteFails(p, k) ==
    /\ work[p][k] = "writing"
    /\ SetWork(p, k, "erred")
    /\ UNCHANGED <<pc, current, visited, files, where, mkdirOut, interrupted>>

\* eg.Wait returns when every worker of the datasource has.
Wait(p) ==
    /\ pc[p] = "fanout"
    /\ With(p, "todo") = {} /\ Running(p) = {}
    /\ Goto(p, IF With(p, "erred") # {} THEN "cleanup" ELSE "next")
    /\ UNCHANGED <<current, visited, work, files, where, mkdirOut, interrupted>>

-----------------------------------------------------------------------------
(* The commit, and the deferred removal.                                   *)

AllVisited(p) ==
    /\ pc[p] = "next"
    /\ visited[p] = Datasource
    /\ Goto(p, "commit")
    /\ UNCHANGED <<current, visited, work, files, where, mkdirOut, interrupted>>

\* os.Rename refuses a target that is a directory when it looks...
RenameChecks(p) ==
    /\ pc[p] = "commit"
    /\ Goto(p, IF OutExists THEN "cleanup" ELSE "rename")
    /\ UNCHANGED <<current, visited, work, files, where, mkdirOut, interrupted>>

\* ...and the system call refuses one that is not empty, or fails for a
\* reason of its own.
FaultyRenameReplaces(p) ==
    /\ pc[p] = "rename"
    /\ where' = [q \in Process |-> IF q = p THEN "out"
                                   ELSE IF where[q] = "out" THEN "nowhere" ELSE where[q]]
    /\ mkdirOut' = FALSE
    /\ Goto(p, "renamed")
    /\ UNCHANGED <<current, visited, work, files, interrupted>>
Rename(p) ==
    /\ pc[p] = "rename"
    /\ \/ /\ \A q \in Process : where[q] = "out" => IsEmpty(q)
          /\ where' = [q \in Process |-> IF q = p THEN "out"
                                         ELSE IF where[q] = "out" THEN "nowhere" ELSE where[q]]
          /\ mkdirOut' = FALSE
          /\ Goto(p, "renamed")
       \/ /\ Goto(p, "cleanup")
          /\ UNCHANGED <<where, mkdirOut>>
    /\ UNCHANGED <<current, visited, work, files, interrupted>>

\* The tree is there, and only now is committed set and nil returned.
FaultyReportLooksAtContext(p) ==
    /\ pc[p] = "renamed"
    /\ Goto(p, IF interrupted[p] THEN "cleanup" ELSE "ok")
    /\ UNCHANGED <<current, visited, work, files, where, mkdirOut, interrupted>>
Report(p) ==
    /\ pc[p] = "renamed"
    /\ Goto(p, "ok")
    /\ UNCHANGED <<current, visited, work, files, where, mkdirOut, interrupted>>

\* The deferred removal knows the temporary directory only by its old name.
Cleanup(p) ==
    /\ pc[p] = "cleanup"
    /\ where' = [where EXCEPT ![p] = IF @ = "tmp" THEN "nowhere" ELSE @]
    /\ Goto(p, "failed")
    /\ UNCHANGED <<current, visited, work, files, mkdirOut, interrupted>>

-----------------------------------------------------------------------------
(* What happens to the process.                                            *)

Interrupt(p) ==
    /\ ~Ended(p) /\ ~interrupted[p]
    /\ interrupted' = [interrupted EXCEPT ![p] = TRUE]
    /\ UNCHANGED <<pc, current, visited, work, files, where, mkdirOut>>

\* A signal that is not handled, or a crash of the process: nothing deferred
\* runs, and what it has done to the file system stays.  (A machine that
\* stops is another matter, for nothing is synced to the disk.)
Kill(p) ==
    /\ ~Ended(p)
    /\ Goto(p, "killed")
    /\ UNCHANGED <<current, visited, work, files, where, mkdirOut, interrupted>>

-----------------------------------------------------------------------------
Main(p) ==
    \/ Wire(p) \/ Check(p) \/ Prepare(p) \/ StartDatasource(p) \/ EnumerationFails(p)
    \/ Launch(p) \/ Wait(p) \/ AllVisited(p)
    \/ RenameChecks(p) \/ Rename(p) \/ Report(p) \/ Cleanup(p)

Worker(p, k) ==
    /\ ~Ended(p)
    /\ \/ Enter(p, k) \/ Skip(p, k) \/ AskFails(p, k)
       \/ BeginWrite(p, k) \/ EndWrite(p, k) \/ WriteFails(p, k)

Next ==
    \/ \E p \in Process : Main(p) \/ Interrupt(p) \/ Kill(p)
    \/ \E p \in Process, k \in Package : Worker(p, k)

Spec == Init /\ [][Next]_vars

\* A process that is not killed keeps running: of its goroutines that can go
\* on, one does, and its calls end.
FairSpec ==
    /\ Spec
    /\ \A p \in Process : WF_vars(Main(p) \/ \E k \in Package : Worker(p, k))

-----------------------------------------------------------------------------
(* Properties.                                                             *)

Complete(p) ==
    /\ \A k \in Package : work[p][k] \in {"skipped", "written"}
    /\ \A k \in Package :
           files[p][k] = (IF work[p][k] = "written" THEN "whole" ELSE "none")

\* snapshot.go: "outputDir is never observable in a half-written state",
\* "either fully populated or doesn't exist at all".  What is at the output
\* path is the tree of a Generate that has visited every package, each of
\* its files whole.
NeverHalfWritten ==
    OutExists => \E p \in Process : where[p] = "out" /\ Complete(p)

\* A success is at the output path, or was until it was replaced as an empty
\* tree; an error is not, and has left no temporary directory behind.  Hence
\* what is there was reported as a success, will be in a moment, or is of a
\* process that was killed.
OutcomeTold ==
    \A p \in Process :
        /\ pc[p] = "ok" => where[p] = "out" \/ IsEmpty(p)
        /\ pc[p] = "failed" => where[p] = "nowhere"
        /\ where[p] = "out" => pc[p] \in {"renamed", "ok", "killed"}

\* What a reader of the output path sees, and how far each Generate is.
SeenOut ==
    IF \E p \in Process : where[p] = "out"
    THEN LET p == CHOOSE q \in Process : where[q] = "out"
         IN  [by |-> p, tree |-> files[p]]
    ELSE [by |-> IF mkdirOut THEN "mkdir" ELSE "nobody", tree |-> [k \in Package |-> "none"]]
SeenStatus ==
    [p \in Process |-> IF Ended(p) THEN pc[p]
                       ELSE IF pc[p] = "renamed" THEN "published" ELSE "working"]

Atomic == INSTANCE AtomicSnapshot WITH Nobody <- "nobody", out <- SeenOut, status <- SeenStatus

\* Readers see the abstract snapshot, whatever fails and however several
\* Generates interleave: a whole tree appears in one step, and one with
\* anything in it is neither replaced nor written to; it is reported as a
\* success or, if the process is killed, not at all, and never as an error.
PublishedAtomically == Atomic!Spec

\* Every Generate that is not killed returns.
Returns == <>(\A p \in Process : Ended(p))

=============================================================================
