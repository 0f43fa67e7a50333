---------------------------- MODULE SnapshotProofs ----------------------------
(***************************************************************************)
(* For any number of processes, datasources and packages and any limit of  *)
(* concurrency: what Generate promises of the output path and of its own   *)
(* result, and that Snapshot implements AtomicSnapshot.                    *)
(***************************************************************************)
EXTENDS Snapshot, SetLemmas, TLAPS

-----------------------------------------------------------------------------
(* The invariant.                                                          *)

Unprepared == {"wiring", "start", "prepare"}
Staging == {"next", "fanout", "commit", "rename", "cleanup"}

\* A tree is staged from Prepare to the rename or to the removal, and at the
\* output path, as the only one, from the rename on.
PlaceInv ==
    \A p \in Process :
        /\ pc[p] \in Unprepared \cup {"failed"} => where[p] = "nowhere"
        /\ pc[p] \in Staging => where[p] = "tmp"
        /\ where[p] = "out" =>
              /\ pc[p] \in {"renamed", "ok", "killed"}
              /\ \A q \in Process \ {p} : where[q] # "out"
        /\ pc[p] \in {"renamed", "ok"} /\ where[p] # "out" => IsEmpty(p)

\* A file is as far as its worker.
FilesInv ==
    \A p \in Process, k \in Package :
        /\ work[p][k] \in {"none", "todo", "started", "asking", "skipped"} => files[p][k] = "none"
        /\ work[p][k] = "written" => files[p][k] = "whole"

\* The packages of the datasources that are through have been skipped or
\* written, those of the datasources to come not begun.
DoneWith(p, k) == work[p][k] \in {"skipped", "written"}
WorkInv ==
    \A p \in Process, k \in Package :
        /\ pc[p] \in Unprepared => work[p][k] = "none" /\ visited[p] = {}
        /\ pc[p] \in {"next", "fanout"} /\ k[1] \notin visited[p] => work[p][k] = "none"
        /\ pc[p] = "next" /\ k[1] \in visited[p] => DoneWith(p, k)
        /\ pc[p] = "fanout" /\ k[1] \in visited[p] \ {current[p]} => DoneWith(p, k)
        /\ pc[p] = "fanout" => current[p] \in visited[p]
        /\ pc[p] = "fanout" /\ k[1] = current[p] => work[p][k] # "none"
        /\ pc[p] \in {"commit", "rename", "renamed", "ok"} => DoneWith(p, k)
        /\ where[p] = "out" => DoneWith(p, k)

\* The parent of an output path without a trailing slash is not the path.
SlashInv == TrailingSlash = FALSE => mkdirOut = FALSE

\* Workers are launched one by one.
RunningInv == \A p \in Process : IsFiniteSet(Running(p))

IInv == TypeOK /\ PlaceInv /\ FilesInv /\ WorkInv /\ SlashInv /\ RunningInv

-----------------------------------------------------------------------------
(* Packages, and the next of them to launch.                               *)

LEMMA PackagesOf ==
    ASSUME NEW d \in Datasource, NEW k
    PROVE  k \in Packages(d) <=> k \in Package /\ k[1] = d
BY DEF Packages, Package

LEMMA PackageHasDatasource == \A k \in Package : k[1] \in Datasource
BY DEF Packages, Package

\* Launch starts one worker, of a package that is to be done.
LEMMA LaunchStartsOne ==
    ASSUME NEW p \in Process, Launch(p)
    PROVE  \E k : work[p][k] = "todo" /\ k \in Packages(current[p]) /\ SetWork(p, k, "started")
<1> DEFINE todo == {i \in 1 .. NumPackages[current[p]] : work[p][<<current[p], i>>] = "todo"}
<1>1. todo # {} /\ SetWork(p, <<current[p], Min(todo)>>, "started")
    BY DEF Launch
<1>2. Min(todo) \in todo
  <2>1. todo \in SUBSET Nat
      OBVIOUS
  <2> QED
      BY <1>1, <2>1, MinIsMember
<1>3. <<current[p], Min(todo)>> \in Packages(current[p])
    BY <1>2 DEF Packages
<1> QED
    BY <1>1, <1>2, <1>3

-----------------------------------------------------------------------------
(* The workers at work.                                                    *)

\* Where the workers of one process at most end, or one that is within the
\* limit begins, the limit is kept.
LEMMA RunningKeeps ==
    ASSUME LimitKept, RunningInv, NEW p \in Process,
           \A q \in Process \ {p} : Running(q)' = Running(q),
           \/ Running(p)' \subseteq Running(p)
           \/ \E k : /\ k \notin Running(p)
                     /\ Running(p)' = Running(p) \cup {k}
                     /\ Concurrency[p] > 0 => Cardinality(Running(p)) < Concurrency[p]
    PROVE  LimitKept' /\ RunningInv'
<1>1. ASSUME NEW q \in Process
      PROVE  /\ IsFiniteSet(Running(q))'
             /\ Concurrency[q] > 0 => Cardinality(Running(q)') <= Concurrency[q]
  <2>1. IsFiniteSet(Running(q)) /\ Concurrency[q] \in Int /\ Cardinality(Running(q)) \in Nat
      BY OptionsAssumption, FS_CardinalityType DEF RunningInv
  <2>2. Concurrency[q] > 0 => Cardinality(Running(q)) <= Concurrency[q]
      BY DEF LimitKept
  <2>3. CASE q # p
      BY <2>1, <2>2, <2>3
  <2>4. CASE q = p /\ Running(p)' \subseteq Running(p)
    <3>1. IsFiniteSet(Running(p)') /\ Cardinality(Running(p)') <= Cardinality(Running(p))
        BY <2>1, <2>4, FS_Subset
    <3>2. Cardinality(Running(p)') \in Nat
        BY <3>1, FS_CardinalityType
    <3> QED
        BY <2>1, <2>2, <2>4, <3>1, <3>2
  <2>5. CASE q = p /\ ~(Running(p)' \subseteq Running(p))
    <3>1. PICK k : /\ k \notin Running(p)
                   /\ Running(p)' = Running(p) \cup {k}
                   /\ Concurrency[p] > 0 => Cardinality(Running(p)) < Concurrency[p]
        BY <2>5
    <3>2. IsFiniteSet(Running(p)') /\ Cardinality(Running(p)') = Cardinality(Running(p)) + 1
        BY <2>1, <2>5, <3>1, FS_AddElement
    <3> QED
        BY <2>1, <2>5, <3>1, <3>2
  <2> QED
      BY <2>3, <2>4, <2>5
<1> QED
    BY <1>1 DEF LimitKept, RunningInv

LEMMA RunningStays ==
    ASSUME LimitKept, RunningInv, UNCHANGED work
    PROVE  LimitKept' /\ RunningInv'
BY DEF LimitKept, RunningInv, Running

-----------------------------------------------------------------------------
(* The invariant is inductive.                                             *)

LEMMA InitIInv == Init => IInv
<1> SUFFICES ASSUME Init
             PROVE  IInv
    OBVIOUS
<1>1. (CHOOSE d \in Datasource : TRUE) \in Datasource
    BY DatasourcesAssumption
<1>2. \A p \in Process : Running(p) = {}
    BY DEF Init, Running
<1>3. LimitKept /\ RunningInv
  <2>1. \A p \in Process : Concurrency[p] \in Int
      BY OptionsAssumption
  <2> QED
      BY <1>2, <2>1, FS_EmptySet DEF LimitKept, RunningInv
<1>4. TypeOK
    BY <1>1, <1>3 DEF Init, TypeOK
<1> QED
    BY <1>3, <1>4 DEF Init, IInv, PlaceInv, FilesInv, WorkInv, SlashInv, Unprepared, Staging

\* A process whose control alone moves keeps the invariant if what the new
\* place asks of its tree and of its packages is so.
LEMMA MoveKeeps ==
    ASSUME IInv, NEW p \in Process, NEW label, Goto(p, label),
           UNCHANGED <<current, visited, work, files, where, mkdirOut, interrupted>>,
           \/ label \in {"start", "prepare", "failed"} /\ pc[p] \in Unprepared
           \/ label \in {"commit", "rename", "next", "cleanup"} /\ pc[p] \in Staging
           \/ label = "killed" /\ ~Ended(p)
           \/ label = "ok" /\ pc[p] = "renamed",
           label = "next" => pc[p] = "fanout" /\ \A k \in Package : k[1] = current[p] => DoneWith(p, k),
           label = "commit" => pc[p] = "next" /\ visited[p] = Datasource,
           label = "rename" => pc[p] = "commit"
    PROVE  IInv'
<1>1. \A q \in Process : pc'[q] = IF q = p THEN label ELSE pc[q]
    BY DEF Goto, IInv, TypeOK
<1>2. TypeOK' /\ RunningInv'
    BY RunningStays DEF Goto, IInv, TypeOK
<1>3. PlaceInv'
    BY <1>1 DEF IInv, PlaceInv, IsEmpty, Unprepared, Staging, Ended
<1>4. FilesInv' /\ SlashInv'
    BY DEF IInv, FilesInv, SlashInv
<1>5. WorkInv'
  <2> SUFFICES ASSUME NEW q \in Process, NEW k \in Package
               PROVE  WorkInv!(q, k)'
      BY DEF WorkInv
  <2>1. WorkInv!(q, k)
      BY DEF IInv, WorkInv
  <2>2. CASE q # p
      BY <1>1, <2>1, <2>2 DEF DoneWith
  <2>3. CASE q = p
      BY <1>1, <2>1, <2>3, PackageHasDatasource DEF DoneWith, Unprepared, Staging, Ended
  <2> QED
      BY <2>2, <2>3
<1> QED
    BY <1>2, <1>3, <1>4, <1>5 DEF IInv

\* The statements of Generate that only move its control.
LEMMA ControlKeeps ==
    ASSUME IInv, NEW p \in Process,
           \/ Wire(p) \/ Check(p) \/ EnumerationFails(p) \/ AllVisited(p)
           \/ RenameChecks(p) \/ Report(p) \/ Wait(p) \/ Kill(p)
    PROVE  IInv'
<1> USE DEF Unprepared, Staging
<1>1. CASE Wire(p)
  <2>1. PICK label \in {"start", "failed"} : Goto(p, label)
      BY <1>1 DEF Wire
  <2> QED
      BY <1>1, <2>1, MoveKeeps DEF Wire
<1>2. CASE Check(p)
    BY <1>2, MoveKeeps DEF Check
<1>3. CASE EnumerationFails(p)
    BY <1>3, MoveKeeps DEF EnumerationFails
<1>4. CASE AllVisited(p)
    BY <1>4, MoveKeeps DEF AllVisited
<1>5. CASE RenameChecks(p)
    BY <1>5, MoveKeeps DEF RenameChecks
<1>6. CASE Wait(p)
  <2>1. ASSUME NEW k \in Package, k[1] = current[p], With(p, "erred") = {}
        PROVE  DoneWith(p, k)
    <3>1. work[p][k] # "none"
        BY <1>6, <2>1 DEF Wait, IInv, WorkInv
    <3>2. work[p][k] \notin {"todo", "started", "asking", "writing", "erred"}
        BY <1>6, <2>1 DEF Wait, With, Running
    <3> QED
        BY <3>1, <3>2 DEF DoneWith, IInv, TypeOK
  <2> QED
      BY <1>6, <2>1, MoveKeeps DEF Wait
<1>7. CASE Kill(p)
    BY <1>7, MoveKeeps DEF Kill
<1>8. CASE Report(p)
    BY <1>8, MoveKeeps DEF Report
<1> QED
    BY <1>1, <1>2, <1>3, <1>4, <1>5, <1>6, <1>7, <1>8

-----------------------------------------------------------------------------
(* Steps that change more.                                                 *)

LEMMA PrepareKeeps ==
    ASSUME IInv, NEW p \in Process, Prepare(p)
    PROVE  IInv'
<1> USE DEF IInv, Prepare, Goto
<1>1. TypeOK' /\ RunningInv'
    BY RunningStays DEF TypeOK
<1>2. PlaceInv'
    BY DEF TypeOK, PlaceInv, IsEmpty, Unprepared, Staging
<1>3. FilesInv' /\ SlashInv'
    BY OptionsAssumption DEF FilesInv, SlashInv
<1>4. WorkInv'
    BY DEF TypeOK, WorkInv, DoneWith, Unprepared
<1> QED
    BY <1>1, <1>2, <1>3, <1>4

LEMMA StartDatasourceKeeps ==
    ASSUME IInv, NEW p \in Process, StartDatasource(p)
    PROVE  IInv'
<1>1. PICK d \in Datasource \ visited[p] :
          /\ current' = [current EXCEPT ![p] = d]
          /\ visited' = [visited EXCEPT ![p] = @ \cup {d}]
          /\ work' = [work EXCEPT ![p] =
                [k \in Package |-> IF k \in Packages(d) THEN "todo" ELSE @[k]]]
    BY DEF StartDatasource
<1>2. /\ pc[p] = "next" /\ pc' = [pc EXCEPT ![p] = "fanout"]
      /\ UNCHANGED <<files, where, mkdirOut, interrupted>>
    BY DEF StartDatasource, Goto
<1>3. TypeOK' /\ RunningInv'
  <2>1. current' \in [Process -> Datasource] /\ visited' \in [Process -> SUBSET Datasource]
      BY <1>1 DEF IInv, TypeOK
  <2>2. work'[p] \in [Package -> {"none", "todo", "started", "asking", "writing",
                                  "skipped", "written", "erred"}]
      BY <1>1 DEF IInv, TypeOK
  <2>3. Running(p)' = {} /\ \A q \in Process \ {p} : Running(q)' = Running(q)
    <3>1. \A k \in Package : DoneWith(p, k) \/ work[p][k] = "none"
        BY <1>2 DEF IInv, WorkInv
    <3>2. \A k \in Package : work'[p][k] \notin {"started", "asking", "writing"}
        BY <1>1, <3>1 DEF DoneWith, IInv, TypeOK
    <3> QED
        BY <1>1, <3>2 DEF Running, IInv, TypeOK
  <2>4. LimitKept' /\ RunningInv'
      BY <2>3, RunningKeeps DEF IInv, TypeOK
  <2> QED
      BY <1>1, <1>2, <2>1, <2>2, <2>4 DEF IInv, TypeOK
<1>4. PlaceInv'
    BY <1>2 DEF IInv, TypeOK, PlaceInv, IsEmpty, Unprepared, Staging
<1>5. ASSUME NEW k \in Package
      PROVE  work'[p][k] = IF k[1] = d THEN "todo" ELSE work[p][k]
    BY <1>1, PackagesOf DEF IInv, TypeOK
<1>6. \A q \in Process \ {p} : work'[q] = work[q] /\ visited'[q] = visited[q] /\ current'[q] = current[q]
    BY <1>1 DEF IInv, TypeOK
<1>7. FilesInv'
  <2> SUFFICES ASSUME NEW q \in Process, NEW k \in Package
               PROVE  FilesInv!(q, k)'
      BY DEF FilesInv
  <2>1. FilesInv!(q, k)
      BY DEF IInv, FilesInv
  <2>2. q = p /\ k[1] = d => work[q][k] = "none"
      BY <1>1, <1>2 DEF IInv, WorkInv
  <2> QED
      BY <1>2, <1>5, <1>6, <2>1, <2>2
<1>8. WorkInv'
  <2> SUFFICES ASSUME NEW q \in Process, NEW k \in Package
               PROVE  WorkInv!(q, k)'
      BY DEF WorkInv
  <2>1. WorkInv!(q, k)
      BY DEF IInv, WorkInv
  <2>2. CASE q # p
      BY <1>2, <1>6, <2>1, <2>2 DEF IInv, TypeOK, DoneWith
  <2>3. CASE q = p
    <3>1. pc'[p] = "fanout" /\ current'[p] = d /\ visited'[p] = visited[p] \cup {d}
        BY <1>1, <1>2 DEF IInv, TypeOK
    <3> QED
        BY <1>1, <1>2, <1>5, <2>1, <2>3, <3>1 DEF DoneWith, Unprepared
  <2> QED
      BY <2>2, <2>3
<1> QED
    BY <1>2, <1>3, <1>4, <1>7, <1>8 DEF IInv, SlashInv

\* A worker at work goes on to another state, and its file with it.  Its
\* Generate is in the fan-out: a package at work is of the datasource at hand.
LEMMA WorkKeeps ==
    ASSUME IInv, NEW p \in Process, NEW k \in Package, NEW state, ~Ended(p),
           work[p][k] \in {"todo", "started", "asking", "writing"},
           SetWork(p, k, state),
           work[p][k] = "todo" =>
               /\ state = "started"
               /\ Concurrency[p] > 0 => Cardinality(Running(p)) < Concurrency[p],
           UNCHANGED <<pc, current, visited, where, mkdirOut, interrupted>>,
           \/ UNCHANGED files /\ work[p][k] # "writing"
                /\ state \in {"started", "asking", "skipped", "erred"}
           \/ UNCHANGED files /\ state = "erred"
           \/ files' = [files EXCEPT ![p][k] = "partial"] /\ state = "writing"
           \/ files' = [files EXCEPT ![p][k] = "whole"] /\ state = "written"
    PROVE  IInv'
<1>1. TypeOK' /\ RunningInv'
  <2>1. work' \in [Process -> [Package -> {"none", "todo", "started", "asking", "writing",
                                           "skipped", "written", "erred"}]]
    <3>1. state \in {"started", "asking", "writing", "skipped", "written", "erred"}
        OBVIOUS
    <3> QED
        BY <3>1 DEF IInv, TypeOK, SetWork
  <2>2. files' \in [Process -> [Package -> {"none", "partial", "whole"}]]
    <3>1. files \in [Process -> [Package -> {"none", "partial", "whole"}]]
        BY DEF IInv, TypeOK
    <3>2. files' = files \/ \E far \in {"partial", "whole"} : files' = [files EXCEPT ![p][k] = far]
        OBVIOUS
    <3> QED
        BY <3>1, <3>2
  <2>3. \A q \in Process, j \in Package :
            work'[q][j] = IF q = p /\ j = k THEN state ELSE work[q][j]
      BY DEF IInv, TypeOK, SetWork
  <2>4. \A q \in Process \ {p} : Running(q)' = Running(q)
      BY <2>3 DEF Running
  <2>5. CASE work[p][k] = "todo"
    <3>1. k \notin Running(p) /\ Running(p)' = Running(p) \cup {k}
        BY <2>3, <2>5 DEF Running
    <3> QED
        BY <2>1, <2>2, <2>4, <2>5, <3>1, RunningKeeps DEF IInv, TypeOK
  <2>6. CASE work[p][k] # "todo"
    <3>1. Running(p)' \subseteq Running(p)
        BY <2>3, <2>6 DEF Running
    <3> QED
        BY <2>1, <2>2, <2>4, <3>1, RunningKeeps DEF IInv, TypeOK
  <2> QED
      BY <2>5, <2>6
<1>2. \A q \in Process, j \in Package :
          work'[q][j] = IF q = p /\ j = k THEN state ELSE work[q][j]
    BY DEF IInv, TypeOK, SetWork
<1>3. \A q \in Process, j \in Package :
          q # p \/ j # k => files'[q][j] = files[q][j]
    BY DEF IInv, TypeOK
<1>4. PlaceInv'
  <2>1. pc[p] # "renamed"
      BY DEF IInv, WorkInv, DoneWith
  <2> QED
      BY <1>3, <2>1 DEF IInv, PlaceInv, IsEmpty, Ended
<1>5. FilesInv'
  <2> SUFFICES ASSUME NEW q \in Process, NEW j \in Package
               PROVE  FilesInv!(q, j)'
      BY DEF FilesInv
  <2>1. FilesInv!(q, j)
      BY DEF IInv, FilesInv
  <2>2. CASE q # p \/ j # k
      BY <1>2, <1>3, <2>1, <2>2
  <2>3. CASE q = p /\ j = k
      BY <1>2, <2>1, <2>3 DEF IInv, TypeOK
  <2> QED
      BY <2>2, <2>3
<1>6. WorkInv'
  <2> SUFFICES ASSUME NEW q \in Process, NEW j \in Package
               PROVE  WorkInv!(q, j)'
      BY DEF WorkInv
  <2>1. WorkInv!(q, j)
      BY DEF IInv, WorkInv
  <2>2. CASE q # p \/ j # k
      BY <1>2, <2>1, <2>2 DEF DoneWith
  <2>3. CASE q = p /\ j = k
    <3>1. state # "none"
        OBVIOUS
    <3> QED
        BY <1>2, <2>1, <2>3, <3>1 DEF DoneWith, Ended, Unprepared
  <2> QED
      BY <2>2, <2>3
<1> QED
    BY <1>1, <1>4, <1>5, <1>6 DEF IInv, SlashInv

LEMMA LaunchKeeps ==
    ASSUME IInv, NEW p \in Process, Launch(p)
    PROVE  IInv'
<1>1. PICK k : work[p][k] = "todo" /\ k \in Packages(current[p]) /\ SetWork(p, k, "started")
    BY LaunchStartsOne
<1>2. k \in Package
    BY <1>1, PackagesOf DEF IInv, TypeOK
<1>3. ~Ended(p)
    BY DEF Launch, Ended
<1> QED
    BY <1>1, <1>2, <1>3, WorkKeeps DEF Launch

LEMMA WorkerKeeps ==
    ASSUME IInv, NEW p \in Process, NEW k \in Package, Worker(p, k)
    PROVE  IInv'
<1>1. ~Ended(p)
    BY DEF Worker
<1>2. CASE Enter(p, k)
    BY <1>1, <1>2, WorkKeeps DEF Enter
<1>3. CASE Skip(p, k)
    BY <1>1, <1>3, WorkKeeps DEF Skip
<1>4. CASE AskFails(p, k)
    BY <1>1, <1>4, WorkKeeps DEF AskFails
<1>5. CASE BeginWrite(p, k)
    BY <1>1, <1>5, WorkKeeps DEF BeginWrite
<1>6. CASE EndWrite(p, k)
    BY <1>1, <1>6, WorkKeeps DEF EndWrite
<1>7. CASE WriteFails(p, k)
    BY <1>1, <1>7, WorkKeeps DEF WriteFails
<1> QED
    BY <1>2, <1>3, <1>4, <1>5, <1>6, <1>7 DEF Worker

\* The rename takes the tree from the temporary directory to the output path
\* and what was there, which held no file, away.
LEMMA RenameKeeps ==
    ASSUME IInv, NEW p \in Process, Rename(p)
    PROVE  IInv'
<1> USE DEF Goto
<1>1. TypeOK' /\ RunningInv'
    BY RunningStays DEF IInv, TypeOK, Rename
<1>2. PlaceInv'
  <2>1. CASE Goto(p, "cleanup") /\ UNCHANGED where
      BY <2>1 DEF IInv, TypeOK, PlaceInv, Rename, IsEmpty, Unprepared, Staging
  <2>2. CASE Goto(p, "renamed") /\ \A q \in Process : where[q] = "out" => IsEmpty(q)
    <3>1. /\ \A q \in Process : where[q] = "out" => IsEmpty(q)
          /\ \A q \in Process : where'[q] = IF q = p THEN "out"
                                            ELSE IF where[q] = "out" THEN "nowhere" ELSE where[q]
          /\ \A q \in Process : pc'[q] = IF q = p THEN "renamed" ELSE pc[q]
          /\ UNCHANGED files
        BY <2>2 DEF Rename, IInv, TypeOK
    <3>2. \A q \in Process : IsEmpty(q)' <=> IsEmpty(q)
        BY <3>1 DEF IsEmpty
    <3> QED
        BY <3>1, <3>2 DEF IInv, PlaceInv, Unprepared, Staging
  <2> QED
      BY <2>1, <2>2 DEF Rename
<1>3. FilesInv' /\ SlashInv'
    BY DEF IInv, FilesInv, SlashInv, Rename
<1>4. WorkInv'
    BY DEF IInv, TypeOK, WorkInv, Rename, DoneWith, Unprepared
<1> QED
    BY <1>1, <1>2, <1>3, <1>4 DEF IInv

LEMMA CleanupKeeps ==
    ASSUME IInv, NEW p \in Process, Cleanup(p)
    PROVE  IInv'
<1> USE DEF Goto, Cleanup
<1>1. TypeOK' /\ RunningInv'
    BY RunningStays DEF IInv, TypeOK
<1>2. PlaceInv'
    BY DEF IInv, TypeOK, PlaceInv, IsEmpty, Unprepared, Staging
<1>3. FilesInv' /\ SlashInv'
    BY DEF IInv, FilesInv, SlashInv
<1>4. WorkInv'
    BY DEF IInv, TypeOK, WorkInv, DoneWith, Unprepared
<1> QED
    BY <1>1, <1>2, <1>3, <1>4 DEF IInv

\* Steps that no conjunct but the types can tell from stuttering.
LEMMA IdleKeeps ==
    ASSUME IInv, UNCHANGED vars \/ \E p \in Process : Interrupt(p)
    PROVE  IInv'
<1>1. UNCHANGED <<pc, current, visited, work, files, where, mkdirOut>>
    BY DEF vars, Interrupt
<1>2. interrupted' \in [Process -> BOOLEAN]
    BY DEF vars, Interrupt, IInv, TypeOK
<1>3. LimitKept' /\ RunningInv'
    BY <1>1, RunningStays DEF IInv, TypeOK
<1> QED
    BY <1>1, <1>2, <1>3 DEF IInv, TypeOK, PlaceInv, FilesInv, WorkInv, SlashInv, IsEmpty, DoneWith

LEMMA NextKeeps == IInv /\ [Next]_vars => IInv'
<1> SUFFICES ASSUME IInv, [Next]_vars
             PROVE  IInv'
    OBVIOUS
<1>1. ASSUME NEW p \in Process, Main(p)
      PROVE  IInv'
    BY <1>1, ControlKeeps, PrepareKeeps, StartDatasourceKeeps, LaunchKeeps, RenameKeeps,
       CleanupKeeps DEF Main
<1> QED
    BY <1>1, WorkerKeeps, ControlKeeps, IdleKeeps DEF Next

-----------------------------------------------------------------------------
(* What holds in every state.                                              *)

\* The inductive invariant holds in every state that the processes can reach.
THEOREM Invariance == Spec => []IInv
BY InitIInv, NextKeeps, PTL DEF Spec

\* Every variable keeps its type, and no Generate has more workers at work
\* than its limit of concurrency allows.
THEOREM TypeCorrect == Spec => []TypeOK
<1>1. IInv => TypeOK
    BY DEF IInv
<1> QED
    BY <1>1, Invariance, PTL

\* Generate tells the truth: a success is at the output path unless it held
\* nothing, an error has left nothing there or elsewhere, and so a tree that is
\* there was reported as a success if its process lived to report.
THEOREM OutcomesAreTold == Spec => []OutcomeTold
<1>1. IInv => OutcomeTold
    BY DEF IInv, PlaceInv, OutcomeTold
<1> QED
    BY <1>1, Invariance, PTL

LEMMA OutIsComplete ==
    ASSUME IInv, NEW p \in Process, where[p] = "out"
    PROVE  Complete(p)
<1>1. \A k \in Package : DoneWith(p, k)
    BY DEF IInv, WorkInv
<1> QED
    BY <1>1 DEF IInv, FilesInv, DoneWith, Complete

\* What is at the output path is complete, if the path was given without a
\* slash at its end.
THEOREM OutputIsWhole ==
    ASSUME TrailingSlash = FALSE
    PROVE  Spec => []NeverHalfWritten
<1>1. IInv => NeverHalfWritten
    BY OutIsComplete DEF IInv, SlashInv, NeverHalfWritten, OutExists
<1> QED
    BY <1>1, Invariance, PTL

-----------------------------------------------------------------------------
(* The refinement.                                                         *)

\* What a reader sees while the tree of p is at the output path, and while
\* none is.
LEMMA SeenTree ==
    ASSUME PlaceInv, NEW p \in Process, where[p] = "out"
    PROVE  SeenOut = [by |-> p, tree |-> files[p]]
<1>1. (CHOOSE q \in Process : where[q] = "out") = p
    BY DEF PlaceInv
<1> QED
    BY <1>1 DEF SeenOut

LEMMA SeenBare ==
    ASSUME \A p \in Process : where[p] # "out", mkdirOut = FALSE
    PROVE  SeenOut = [by |-> "nobody", tree |-> [k \in Package |-> "none"]]
BY DEF SeenOut

\* A reader sees no change where the same tree stays at the output path.
LEMMA SeenOutStays ==
    ASSUME IInv, IInv', TrailingSlash = FALSE,
           \A q \in Process : where'[q] = "out" <=> where[q] = "out",
           \A q \in Process : where[q] = "out" => files'[q] = files[q]
    PROVE  SeenOut' = SeenOut
<1>1. CASE \E p \in Process : where[p] = "out"
  <2>1. PICK p \in Process : where[p] = "out"
      BY <1>1
  <2>2. SeenOut = [by |-> p, tree |-> files[p]]
      BY <2>1, SeenTree DEF IInv
  <2>3. (SeenOut = [by |-> p, tree |-> files[p]])'
    <3>1. (CHOOSE q \in Process : where'[q] = "out") = p
        BY <2>1 DEF IInv, PlaceInv
    <3> QED
        BY <2>1, <3>1 DEF SeenOut
  <2> QED
      BY <2>1, <2>2, <2>3
<1>2. CASE \A p \in Process : where[p] # "out"
  <2>1. mkdirOut = FALSE /\ mkdirOut' = FALSE
      BY DEF IInv, SlashInv
  <2> QED
      BY <1>2, <2>1 DEF SeenOut
<1> QED
    BY <1>1, <1>2

\* A process whose control alone moves is, to the reader, as it was, or it has
\* returned, or it is dead.
LEMMA SeenStatusMoves ==
    ASSUME IInv, NEW p \in Process, NEW label, Goto(p, label), ~Ended(p), SeenOut' = SeenOut,
           label # "renamed", label = "ok" <=> pc[p] = "renamed" /\ label # "killed"
    PROVE  Atomic!Next \/ UNCHANGED Atomic!vars
<1>1. \A q \in Process : pc'[q] = IF q = p THEN label ELSE pc[q]
    BY DEF Goto, IInv, TypeOK
<1>2. SeenStatus[p] = IF pc[p] = "renamed" THEN "published" ELSE "working"
    BY DEF SeenStatus
<1>3. CASE label \in {"ok", "failed", "killed"}
  <2>1. SeenStatus' = [SeenStatus EXCEPT ![p] = label]
      BY <1>1, <1>3 DEF SeenStatus, Ended
  <2>2. Atomic!Becomes(p, label)
      BY <2>1 DEF Atomic!Becomes
  <2> QED
      BY <1>2, <1>3, <2>2 DEF Atomic!Next, Atomic!Succeed, Atomic!Fail, Atomic!Die
<1>4. CASE label \notin {"ok", "failed", "killed"}
  <2>1. SeenStatus' = SeenStatus
      BY <1>1, <1>4 DEF SeenStatus, Ended
  <2> QED
      BY <2>1 DEF Atomic!vars
<1> QED
    BY <1>3, <1>4

\* The rename of a tree to the output path is the abstract step.
LEMMA RenamePublishes ==
    ASSUME IInv, IInv', TrailingSlash = FALSE, NEW p \in Process, Rename(p), where' # where
    PROVE  Atomic!Publish(p)
<1>1. /\ pc[p] = "rename" /\ Goto(p, "renamed") /\ UNCHANGED files
      /\ \A q \in Process : where[q] = "out" => IsEmpty(q)
      /\ where'[p] = "out"
    BY DEF Rename
<1>2. SeenStatus[p] = "working"
    BY <1>1 DEF SeenStatus, Ended
<1>3. Atomic!Becomes(p, "published")
  <2>1. \A q \in Process : pc'[q] = IF q = p THEN "renamed" ELSE pc[q]
      BY <1>1 DEF Goto, IInv, TypeOK
  <2> QED
      BY <2>1 DEF SeenStatus, Ended, Atomic!Becomes
<1>4. SeenOut.tree = Atomic!Bare
  <2>1. CASE \E q \in Process : where[q] = "out"
    <3>1. PICK q \in Process : where[q] = "out"
        BY <2>1
    <3>2. SeenOut.tree = files[q] /\ IsEmpty(q)
        BY <1>1, <3>1, SeenTree DEF IInv
    <3>3. files[q] = [k \in Package |-> "none"]
        BY <3>2 DEF IsEmpty, IInv, TypeOK
    <3> QED
        BY <3>2, <3>3 DEF Atomic!Bare
  <2>2. CASE \A q \in Process : where[q] # "out"
    <3>1. mkdirOut = FALSE
        BY DEF IInv, SlashInv
    <3>2. SeenOut = [by |-> "nobody", tree |-> [k \in Package |-> "none"]]
        BY <2>2, <3>1, SeenBare
    <3> QED
        BY <3>2 DEF Atomic!Bare
  <2> QED
      BY <2>1, <2>2
<1>5. SeenOut' = Atomic!MadeBy(p, files[p])
  <2>1. (CHOOSE q \in Process : where'[q] = "out") = p
      BY <1>1 DEF IInv, PlaceInv
  <2> QED
      BY <1>1, <2>1 DEF SeenOut, Atomic!MadeBy
<1>6. files[p] \in Atomic!Tree
  <2>1. \A k \in Package : DoneWith(p, k)
      BY <1>1 DEF IInv, WorkInv
  <2>2. \A k \in Package : files[p][k] \in {"none", "whole"}
      BY <2>1 DEF IInv, FilesInv, DoneWith
  <2> QED
      BY <2>2 DEF Atomic!Tree, IInv, TypeOK
<1> QED
    BY <1>2, <1>3, <1>4, <1>5, <1>6 DEF Atomic!Publish

\* Snapshot implements AtomicSnapshot: the rename publishes a whole tree, the
\* returns and the kills are the abstract ones, and everything else a reader
\* does not notice.
LEMMA StepRefines ==
    ASSUME IInv, IInv', TrailingSlash = FALSE, [Next]_vars
    PROVE  Atomic!Next \/ UNCHANGED Atomic!vars
<1>1. ASSUME NEW p \in Process, NEW label, Goto(p, label), ~Ended(p),
             label # "renamed", label = "ok" <=> pc[p] = "renamed" /\ label # "killed",
             \A q \in Process : where'[q] = "out" <=> where[q] = "out", UNCHANGED files
      PROVE  Atomic!Next \/ UNCHANGED Atomic!vars
    BY <1>1, SeenOutStays, SeenStatusMoves
<1>2. ASSUME UNCHANGED <<pc, where>>,
             \A q \in Process : where[q] = "out" => files'[q] = files[q]
      PROVE  UNCHANGED Atomic!vars
  <2>1. SeenOut' = SeenOut
      BY <1>2, SeenOutStays
  <2>2. SeenStatus' = SeenStatus
      BY <1>2 DEF SeenStatus, Ended
  <2> QED
      BY <2>1, <2>2 DEF Atomic!vars
<1>3. ASSUME NEW p \in Process, Main(p)
      PROVE  Atomic!Next \/ UNCHANGED Atomic!vars
  <2>1. CASE Wire(p) \/ Check(p) \/ StartDatasource(p) \/ EnumerationFails(p) \/ Wait(p)
                \/ AllVisited(p) \/ RenameChecks(p) \/ Report(p)
      BY <1>1, <2>1 DEF Wire, Check, StartDatasource, EnumerationFails, Wait, AllVisited,
         RenameChecks, Report, Ended
  <2>2. CASE Prepare(p) \/ Cleanup(p)
    <3>1. where[p] # "out" /\ where'[p] # "out" /\ \A q \in Process \ {p} : where'[q] = where[q]
        BY <2>2 DEF Prepare, Cleanup, IInv, PlaceInv, TypeOK
    <3> QED
        BY <1>1, <2>2, <3>1 DEF Prepare, Cleanup, Ended
  <2>3. CASE Launch(p)
      BY <1>2, <2>3 DEF Launch
  <2>4. CASE Rename(p) /\ where' = where
      BY <1>1, <2>4 DEF Rename, Ended, IInv, PlaceInv, Staging
  <2>5. CASE Rename(p) /\ where' # where
      BY <2>5, RenamePublishes DEF Atomic!Next
  <2> QED
      BY <1>3, <2>1, <2>2, <2>3, <2>4, <2>5 DEF Main
<1>4. ASSUME NEW p \in Process, NEW k \in Package, Worker(p, k)
      PROVE  UNCHANGED Atomic!vars
  <2>1. UNCHANGED <<pc, where>> /\ \A q \in Process \ {p} : files'[q] = files[q]
      BY <1>4 DEF Worker, Enter, Skip, AskFails, BeginWrite, EndWrite, WriteFails, IInv, TypeOK
  <2>2. where[p] # "out"
    <3>1. ~DoneWith(p, k)
        BY <1>4 DEF Worker, Enter, Skip, AskFails, BeginWrite, EndWrite, WriteFails, DoneWith
    <3> QED
        BY <3>1 DEF IInv, WorkInv
  <2> QED
      BY <1>2, <2>1, <2>2
<1>5. ASSUME NEW p \in Process, Interrupt(p) \/ Kill(p)
      PROVE  Atomic!Next \/ UNCHANGED Atomic!vars
    BY <1>1, <1>2, <1>5 DEF Interrupt, Kill
<1>6. CASE UNCHANGED vars
    BY <1>2, <1>6 DEF vars
<1> QED
    BY <1>3, <1>4, <1>5, <1>6 DEF Next

\* Readers of the output path see AtomicSnapshot, for any number of
\* Generates at once, if the path was given without a slash at its end.
THEOREM ImplementsAtomic ==
    ASSUME TrailingSlash = FALSE
    PROVE  Spec => PublishedAtomically
<1>1. Init => Atomic!Init
    BY SeenBare DEF Init, Atomic!Init, Atomic!MadeBy, Atomic!Bare, SeenStatus, Ended
<1>2. IInv /\ IInv' /\ [Next]_vars => [Atomic!Next]_(Atomic!vars)
    BY StepRefines
<1> QED
    BY <1>1, <1>2, Invariance, PTL DEF Spec, PublishedAtomically, Atomic!Spec
=============================================================================
