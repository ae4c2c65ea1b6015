----------------------------- MODULE MediaStore -----------------------------
(***************************************************************************)
(* Stored images (application/media, infra/media): each is a file and then *)
(* a row that names it.  When the rows add up to more than the threshold,  *)
(* one instance at a time deletes the oldest, file and then row, until     *)
(* they do not.  All images have the size 1; Images are in the order of    *)
(* their creation times.                                                   *)
(***************************************************************************)
EXTENDS Integers, FiniteSets

CONSTANTS Instances,
          Images,               \* a set of numbers
          Threshold,            \* cleanupThresholdBytes
          PageSize,             \* rows that a list of the oldest returns, 200
          MaxFaults             \* bound: crashes, failed deletions, lost answers

VARIABLES saving,               \* image -> where SaveImage is with it
          files, table,         \* the storage and media_assets: sets of images
          node,                 \* instance -> totalBytes, cleanupSignal, its Cleanup
          lock,                 \* the instances that hold "media:cleanup", at most one
          broken, faults        \* broken (history): rows that a fault left without a file

vars == <<saving, files, table, node, lock, broken, faults>>

Idle == [at |-> "idle"]

Init ==
    /\ saving = [n \in Images |-> "new"] /\ files = {} /\ table = {}
    /\ node = [i \in Instances |-> [bytes |-> 0, signal |-> FALSE, run |-> Idle]]
    /\ lock = {} /\ broken = {} /\ faults = 0

TypeOK ==
    /\ files \subseteq Images /\ table \subseteq Images /\ broken \subseteq table \ files
    /\ lock \subseteq Instances /\ Cardinality(lock) <= 1
    /\ \A i \in Instances : node[i].bytes \in 0..2 * Cardinality(Images)

Fault == faults < MaxFaults /\ faults' = faults + 1

--------------------------------------------------------------------------------
(* SaveImage: the file, then the row; without the row, the file goes again. *)
SaveFile(n) ==
    /\ saving[n] = "new" /\ \A m \in Images : m < n => saving[m] # "new"
    /\ saving' = [saving EXCEPT ![n] = "filed"] /\ files' = files \cup {n}
    /\ UNCHANGED <<table, node, lock, broken, faults>>

CreateMediaAsset(i, n) ==
    /\ saving[n] = "filed"
    /\ saving' = [saving EXCEPT ![n] = "over"] /\ table' = table \cup {n}
    /\ LET bytes == node[i].bytes + 1
       IN  node' = [node EXCEPT ![i] = [node[i] EXCEPT !.bytes = bytes, !.signal = @ \/ bytes > Threshold]]
    /\ UNCHANGED <<files, lock, broken, faults>>

CreateFails(n, committed) ==            \* committed: only the answer was lost
    /\ saving[n] = "filed" /\ Fault
    /\ saving' = [saving EXCEPT ![n] = "over"] /\ files' = files \ {n}
    /\ table' = IF committed THEN table \cup {n} ELSE table
    /\ broken' = IF committed THEN broken \cup {n} ELSE broken
    /\ UNCHANGED <<node, lock>>

SaveCrashes(n) ==                       \* a file that no row names stays behind
    /\ saving[n] = "filed" /\ Fault /\ saving' = [saving EXCEPT ![n] = "over"]
    /\ UNCHANGED <<files, table, node, lock, broken>>

--------------------------------------------------------------------------------
(* RunCleanup and Cleanup.  A tick may come at any time.                    *)
Oldest(page) == CHOOSE n \in page : \A m \in page : n <= m
Step(i, run) == node' = [node EXCEPT ![i] = [node[i] EXCEPT !.run = run]]
Finish(i, total) == node' = [node EXCEPT ![i] = [node[i] EXCEPT !.run = Idle, !.bytes = total]] /\ lock' = lock \ {i}
GiveUp(i) == Step(i, Idle) /\ lock' = lock \ {i}

AcquireAlways(i) ==                                                    \* mutant: no lock
    /\ node[i].run = Idle
    /\ node' = [node EXCEPT ![i] = [node[i] EXCEPT !.signal = FALSE, !.run = [at |-> "total"]]]
    /\ UNCHANGED <<saving, files, table, lock, broken, faults>>

Acquire(i) ==
    /\ node[i].run = Idle /\ lock = {}
    /\ node' = [node EXCEPT ![i] = [node[i] EXCEPT !.signal = FALSE, !.run = [at |-> "total"]]] /\ lock' = {i}
    /\ UNCHANGED <<saving, files, table, broken, faults>>

NotAcquired(i) ==
    /\ node[i].run = Idle /\ node[i].signal /\ lock # {}
    /\ node' = [node EXCEPT ![i] = [node[i] EXCEPT !.signal = FALSE]]
    /\ UNCHANGED <<saving, files, table, lock, broken, faults>>

ReadTotal(i) ==
    /\ node[i].run.at = "total"
    /\ LET total == Cardinality(table)
       IN IF total <= Threshold THEN Finish(i, total)
          ELSE /\ node' = [node EXCEPT ![i] = [node[i] EXCEPT !.bytes = total, !.run = [at |-> "list", total |-> total]]]
               /\ UNCHANGED lock
    /\ UNCHANGED <<saving, files, table, broken, faults>>

ListOldestMediaAssets(i) ==
    /\ node[i].run.at = "list"
    /\ LET page == {n \in table : Cardinality({m \in table : m < n}) < PageSize}
       IN IF page = {} THEN Finish(i, node[i].run.total)
          ELSE Step(i, [at |-> "file", total |-> node[i].run.total, page |-> page]) /\ UNCHANGED lock
    /\ UNCHANGED <<saving, files, table, broken, faults>>

DeleteFiles(i) ==                       \* mutant: the files of the whole page first
    /\ node[i].run.at = "file"
    /\ files' = files \ node[i].run.page /\ Step(i, [node[i].run EXCEPT !.at = "row"])
    /\ UNCHANGED <<saving, table, lock, broken, faults>>

DeleteFile(i) ==                        \* a missing file ends the cleanup
    /\ node[i].run.at = "file"
    /\ LET n == Oldest(node[i].run.page)
       IN IF n \in files
          THEN files' = files \ {n} /\ Step(i, [node[i].run EXCEPT !.at = "row"]) /\ UNCHANGED lock
          ELSE GiveUp(i) /\ UNCHANGED files
    /\ UNCHANGED <<saving, table, broken, faults>>

DeleteMediaAsset(i) ==
    /\ node[i].run.at = "row"
    /\ LET n == Oldest(node[i].run.page)  rest == node[i].run.page \ {n}
           total == IF node[i].run.total > 0 THEN node[i].run.total - 1 ELSE 0
       IN /\ table' = table \ {n}
          /\ IF total <= Threshold THEN Finish(i, total)
             ELSE /\ UNCHANGED lock
                  /\ Step(i, IF rest = {} THEN [at |-> "list", total |-> total] ELSE [at |-> "file", total |-> total, page |-> rest])
    /\ UNCHANGED <<saving, files, broken, faults>>

DeleteFails(i) ==
    /\ node[i].run.at \in {"file", "row"} /\ Fault /\ GiveUp(i)
    /\ broken' = IF node[i].run.at = "row" THEN broken \cup ({Oldest(node[i].run.page)} \cap table) ELSE broken
    /\ UNCHANGED <<saving, files, table>>

(* A crash forgets what the instance was doing; its lock stays until it expires. *)
Crash(i) ==
    /\ Fault
    /\ node' = [node EXCEPT ![i] = [bytes |-> 0, signal |-> FALSE, run |-> Idle]]
    /\ broken' = IF node[i].run.at = "row" THEN broken \cup ({Oldest(node[i].run.page)} \cap table) ELSE broken
    /\ UNCHANGED <<saving, files, table, lock>>

LockExpires(i) ==
    /\ lock = {i} /\ node[i].run = Idle /\ lock' = {}
    /\ UNCHANGED <<saving, files, table, node, broken, faults>>

Next ==
    \/ \E n \in Images : SaveFile(n) \/ SaveCrashes(n) \/ CreateFails(n, TRUE) \/ CreateFails(n, FALSE)
    \/ \E i \in Instances : \/ \E n \in Images : CreateMediaAsset(i, n)
                            \/ Acquire(i) \/ NotAcquired(i) \/ ReadTotal(i) \/ ListOldestMediaAssets(i)
                            \/ DeleteFile(i) \/ DeleteMediaAsset(i) \/ DeleteFails(i) \/ Crash(i) \/ LockExpires(i)

Spec == Init /\ [][Next]_vars

--------------------------------------------------------------------------------
(* A row that a request can be given names a file that is there, save for  *)
(* the image a cleanup is deleting and for those that a fault between file *)
(* and row has broken (SaveImage says a failure leaves no half of an image *)
(* behind; a lost answer of the database leaves a row without its file).   *)
RowsHaveFiles ==
    \A n \in table \ files : n \in broken \/ \E i \in Instances : node[i].run.at = "row" /\ Oldest(node[i].run.page) = n

(* Whatever runs on other instances, a cleanup deletes an image only while *)
(* the images stored really are above the threshold.                       *)
TakesNoMoreStep == Cardinality(table') < Cardinality(table) => Cardinality(table) > Threshold
TakesNoMore == [][TakesNoMoreStep]_vars
=============================================================================
