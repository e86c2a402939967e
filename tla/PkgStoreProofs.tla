--------------------------- MODULE PkgStoreProofs ---------------------------
(***************************************************************************)
(* Theorems about PkgStore, for every set of names, paths, manifests and   *)
(* requests and every value of the bounds: its types, the owners of the    *)
(* tracked files, what a process that is killed leaves behind, and the     *)
(* refinement of AtomicInstall.                                            *)
(***************************************************************************)
EXTENDS PkgStore, TLAPS

\* The steps of a transaction by what they have done to the files so far.
Before  == {"stage", "plan", "journal"}
Forward == {"apply", "link", "rename"}
Tidying == {"cleanup", "delete"}
Back    == {"rollback", "undo", "restore", "forget"}
Labels  == {"closed", "recover", "open"} \cup Before \cup Forward \cup Tidying \cup Back

Run == [pc : Labels, tx : 0 .. MaxTx, req : Requests \cup {None}, ops : SUBSET JournalEntry,
        todo : SUBSET JournalEntry, op : JournalEntry \cup {None}, recovering : BOOLEAN]

FilesOK ==
    /\ disk \in [Place -> Content \cup {None}]
    /\ old \in [Place -> Content \cup {None}]
    /\ new \in [Place -> Content \cup {None}]
    /\ staging \subseteq Tx

TablesOK ==
    /\ installed \in [Name -> Manifest \cup {None}]
    /\ tracked \in [Path -> TrackedRow \cup {None}]
    /\ transactions \in [Tx -> TransactionRecord \cup {None}]
    /\ nextTx \in 1 .. MaxTx + 1

\* A step has the transaction, the request or the operation it works on, and
\* what it places is a path that the request ships.
RunOK ==
    /\ run \in Run
    /\ run.pc \in Before \cup Forward \cup Tidying \cup Back => run.tx \in Tx
    /\ run.pc \in Before \cup Forward => run.req \in Requests /\ run.recovering = FALSE
    /\ run.pc \in {"undo", "restore"} => run.op \in JournalEntry
    /\ run.pc \in {"link", "rename"} => run.op \in run.ops /\ run.op.op # "Removed"
    /\ run.pc \in Forward => run.todo \subseteq run.ops
    /\ run.pc \in {"journal"} \cup Forward =>
         \A o \in run.ops : o.op # "Removed" => \E m \in run.req.install : o.at[1] \in m.files

TypeOK == FilesOK /\ TablesOK /\ RunOK /\ touched \subseteq Path /\ faults \in 0 .. MaxFaults

-----------------------------------------------------------------------------
\* What a plan that was accepted says of the owners of its paths.
Accepted ==
    run.pc \in {"journal"} \cup Forward =>
        \A m \in run.req.install : \A p \in m.files :
            /\ \A k \in run.req.install : p \in k.files => k = m
            /\ tracked[p] # None => tracked[p].owner \in {m.name} \cup run.req.remove

-----------------------------------------------------------------------------
\* The first state is typed.
LEMMA InitTypes == Init => TypeOK
  BY PkgStoreAssumption
     DEF Init, TypeOK, FilesOK, TablesOK, RunOK, Closed, Run, Labels, Before, Forward, Tidying, Back, Tx

\* A plan is a set of journal entries, and places only what the request ships.
LEMMA PlanIsJournal ==
  ASSUME NEW q \in Requests
  PROVE  /\ Plan(q) \subseteq JournalEntry
         /\ \A o \in Plan(q) : o.op # "Removed" => \E m \in q.install : o.at[1] \in m.files
  <1> USE DEF JournalEntry, Place
  <1>1. ASSUME NEW m, NEW p \in Path
        PROVE  Lands(m, p) \in Place /\ Lands(m, p)[1] = p
    BY <1>1 DEF Lands
  <1>2. ASSUME NEW p \in Path
        PROVE  Own(p) \in Place
    BY DEF Own
  <1> QED
    BY <1>1, <1>2, PkgStoreAssumption DEF Plan

\* A claimed path has a source among the manifests of the request.
LEMMA SourceShips ==
  ASSUME NEW q \in Requests, NEW p \in Path, p \in Claimed(q)
  PROVE  Source(q, p) \in q.install /\ Source(q, p) \in Manifest /\ p \in Source(q, p).files
  BY PkgStoreAssumption DEF Claimed, Source

\* What Link puts at .omarchy-new is a manifest.
LEMMA ShippedPlace ==
  ASSUME RunOK, run.pc \in Forward, NEW o \in run.ops, o.op # "Removed"
  PROVE  o \in JournalEntry /\ o.at \in Place /\ o.at[1] \in Path /\ Source(run.req, o.at[1]) \in Manifest
  <1>1. o \in JournalEntry /\ o.at[1] \in Claimed(run.req) /\ run.req \in Requests
    BY DEF RunOK, Run, Forward, Claimed
  <1>2. o.at \in Place /\ o.at[1] \in Path
    BY <1>1 DEF JournalEntry, Place
  <1> QED
    BY <1>1, <1>2, SourceShips

\* A step changes its label, what is left to do and the operation under way,
\* and leaves the rest of the process as it was.
Goes(l, s, x) ==
    /\ run' \in Run
    /\ run'.pc = l /\ run'.todo = s /\ run'.op = x
    /\ run'.tx = run.tx /\ run'.req = run.req /\ run'.ops = run.ops /\ run'.recovering = run.recovering

\* The forms in which the actions change the process.
LEMMA Moves ==
  ASSUME RunOK, NEW l \in Labels, NEW s \in SUBSET JournalEntry, NEW x \in JournalEntry \cup {None},
         run' = [run EXCEPT !.pc = l, !.todo = s, !.op = x]
  PROVE  Goes(l, s, x)
  BY DEF RunOK, Run, Goes

LEMMA Finishes ==
  ASSUME RunOK, NEW o, run.todo \ {o} \in SUBSET JournalEntry, Done(o)
  PROVE  Goes("apply", run.todo \ {o}, None)
  <1> DEFINE s == run.todo \ {o}
  <1>1. run' = [run EXCEPT !.pc = "apply", !.todo = s, !.op = None]
    BY DEF Done
  <1>2. s \in SUBSET JournalEntry
    OBVIOUS
  <1> HIDE DEF s
  <1>3. Goes("apply", s, None)
    BY <1>1, <1>2, Moves DEF Labels, Forward
  <1> QED
    BY <1>3 DEF s

LEMMA Relabels ==
  ASSUME RunOK, NEW l \in Labels, run' = [run EXCEPT !.pc = l]
  PROVE  Goes(l, run.todo, run.op)
  BY DEF RunOK, Run, Goes

\* What a step that goes on leaves to show of RunOK.
LEMMA GoesOK ==
  ASSUME RunOK, NEW l, NEW s, NEW x, Goes(l, s, x),
         l \in Before \cup Forward \cup Tidying \cup Back => run.tx \in Tx,
         l \in Before => run.pc \in Before,
         l \in Forward => run.pc \in {"journal"} \cup Forward /\ s \subseteq run.ops,
         l \in {"undo", "restore"} => x \in JournalEntry,
         l \in {"link", "rename"} => x \in run.ops /\ x.op # "Removed",
         l = "journal" => run.pc = "journal"
  PROVE  RunOK'
  BY DEF RunOK, Goes, Before, Forward

\* Edit and stuttering leave the process as it is.
LEMMA RunUnchanged ==
  ASSUME RunOK, UNCHANGED run
  PROVE  RunOK'
  BY DEF RunOK

\* A process that does nothing, or looks for records to recover, is typed.
LEMMA Rests ==
  ASSUME NEW l \in {"closed", "open", "recover"},
         \/ run' = Closed /\ l = "closed"
         \/ run' = Idle /\ l = "open"
         \/ run' = [Closed EXCEPT !.pc = "recover"] /\ l = "recover"
  PROVE  RunOK' /\ run'.pc = l
  <1>1. run' = [pc |-> l, tx |-> 0, req |-> None, ops |-> {}, todo |-> {}, op |-> None, recovering |-> FALSE]
    BY DEF Closed, Idle
  <1>2. l \in Labels /\ 0 \in 0 .. MaxTx
    BY PkgStoreAssumption DEF Labels
  <1>3. FALSE \in BOOLEAN
    OBVIOUS
  <1>4. run' \in Run
    BY <1>1, <1>2, <1>3 DEF Run
  <1> QED
    BY <1>1, <1>4 DEF RunOK, Before, Forward, Tidying, Back

\* Where each step of a transaction goes.
LEMMA Transitions ==
  ASSUME RunOK
  PROVE  /\ Stage => Goes("plan", run.todo, run.op)
         /\ Journal => Goes("apply", run.ops, run.op)
         /\ \A o \in JournalEntry :
              /\ Park(o) => IF o.op = "Removed" THEN Goes("apply", run.todo \ {o}, None)
                                                ELSE Goes("link", run.todo, o)
              /\ Link(o) => Goes("rename", run.todo, o)
              /\ Cleanup(o) => Goes("cleanup", run.todo \ {o}, run.op)
              /\ Undo(o) => Goes("undo", run.todo, o)
         /\ Rename => Goes("apply", run.todo \ {run.op}, None)
         /\ Commit => Goes("cleanup", run.ops, run.op)
         /\ RemoveStaging => Goes(IF run.pc = "cleanup" THEN "delete" ELSE "forget", run.todo, run.op)
         /\ Discard => IF run.op.op # "Created" /\ old[run.op.at] # None
                       THEN Goes("restore", run.todo, run.op)
                       ELSE Goes("rollback", run.todo \ {run.op}, None)
         /\ Restore => Goes("rollback", run.todo \ {run.op}, None)
         /\ RunFails => Goes("rollback", run.ops, None)
  <1> USE DEF Labels, Before, Forward, Tidying, Back
  <1>1. Stage => Goes("plan", run.todo, run.op)
    BY Relabels DEF Stage, To
  <1>2. Journal => Goes("apply", run.ops, run.op)
    BY DEF Journal, RunOK, Run, Goes
  <1>3. ASSUME NEW o \in JournalEntry
        PROVE  /\ Park(o) => IF o.op = "Removed" THEN Goes("apply", run.todo \ {o}, None)
                                                 ELSE Goes("link", run.todo, o)
               /\ Link(o) => Goes("rename", run.todo, o)
               /\ Cleanup(o) => Goes("cleanup", run.todo \ {o}, run.op)
               /\ Undo(o) => Goes("undo", run.todo, o)
    <2>1. run.todo \in SUBSET JournalEntry
      BY DEF RunOK, Run
    <2>2. ASSUME Park(o), o.op = "Removed" PROVE Goes("apply", run.todo \ {o}, None)
      <3>1. Done(o)
        BY <2>2 DEF Park
      <3>2. run.todo \ {o} \in SUBSET JournalEntry
        BY <2>1
      <3> QED
        BY <3>1, <3>2, Finishes
    <2>3. ASSUME Park(o), o.op # "Removed" PROVE Goes("link", run.todo, o)
      <3>1. run' = [run EXCEPT !.pc = "link", !.op = o]
        BY <2>3 DEF Park
      <3> QED
        BY <3>1 DEF RunOK, Run, Goes
    <2>4. Link(o) => Goes("rename", run.todo, o)
      BY DEF Link, RunOK, Run, Goes
    <2>5. Cleanup(o) => Goes("cleanup", run.todo \ {o}, run.op)
      BY <2>1 DEF Cleanup, RunOK, Run, Goes
    <2>6. Undo(o) => Goes("undo", run.todo, o)
      BY DEF Undo, RunOK, Run, Goes
    <2> QED
      BY <2>2, <2>3, <2>4, <2>5, <2>6
  <1>4. run.pc \in {"rename", "undo", "restore"} => run.todo \ {run.op} \in SUBSET JournalEntry
    BY DEF RunOK, Run
  <1>5. Rename => Goes("apply", run.todo \ {run.op}, None)
    BY <1>4, Finishes DEF Rename
  <1>6. Commit => Goes("cleanup", run.ops, run.op)
    BY DEF Commit, RunOK, Run, Goes
  <1>7. RemoveStaging => Goes(IF run.pc = "cleanup" THEN "delete" ELSE "forget", run.todo, run.op)
    BY Relabels DEF RemoveStaging, To
  <1>8. ASSUME Discard, run.op.op # "Created" /\ old[run.op.at] # None
        PROVE  Goes("restore", run.todo, run.op)
    BY <1>8, Relabels DEF Discard, To
  <1>9. ASSUME Discard, ~(run.op.op # "Created" /\ old[run.op.at] # None)
        PROVE  Goes("rollback", run.todo \ {run.op}, None)
    BY <1>4, <1>9, Moves DEF Discard, Undone
  <1>10. Restore => Goes("rollback", run.todo \ {run.op}, None)
    BY <1>4, Moves DEF Restore, Undone
  <1>11. RunFails => Goes("rollback", run.ops, None)
    <2>1. run.ops \in SUBSET JournalEntry
      BY DEF RunOK, Run
    <2> QED
      BY <2>1, Moves DEF RunFails
  <1> QED
    BY <1>1, <1>2, <1>3, <1>5, <1>6, <1>7, <1>8, <1>9, <1>10, <1>11

\* Every step keeps the types, action by action.
LEMMA NextTypes == TypeOK /\ [Next]_vars => TypeOK'
  <1> SUFFICES ASSUME TypeOK, [Next]_vars PROVE TypeOK'
    OBVIOUS
  <1> USE DEF TypeOK
  <1>1. ASSUME NEW q \in Requests, Begin(q) PROVE TypeOK'
    <2>1. FilesOK'
      BY <1>1 DEF FilesOK, Begin, fs
    <2>2. TablesOK' /\ nextTx \in Tx
      BY <1>1, PkgStoreAssumption DEF TablesOK, Begin, TransactionRecord, Tx
    <2>3. run' = [pc |-> "stage", tx |-> nextTx, req |-> q, ops |-> {}, todo |-> {}, op |-> None,
                  recovering |-> FALSE]
      BY <1>1 DEF Begin, Idle, Closed
    <2>4. run' \in Run
      BY <2>2, <2>3 DEF Run, Labels, Before, Tx
    <2>5. RunOK'
      BY <2>2, <2>3, <2>4 DEF RunOK, Before, Forward, Tidying, Back
    <2> QED
      BY <2>1, <2>2, <2>5, <1>1 DEF Begin
  <1>2. CASE Stage
    <2>1. run.pc = "stage" /\ run.tx \in Tx /\ "plan" \in Labels
      BY <1>2 DEF Stage, RunOK, Before, Labels
    <2>2. FilesOK' /\ TablesOK'
      BY <1>2, <2>1 DEF Stage, FilesOK, TablesOK, db
    <2>3. Goes("plan", run.todo, run.op)
      BY <1>2, Transitions
    <2>4. RunOK'
      BY <2>1, <2>3, GoesOK DEF Before, Forward
    <2> QED
      BY <2>2, <2>4, <1>2 DEF Stage
  <1>3. CASE MakePlan
    <2>1. run.pc = "plan" /\ run.tx \in Tx /\ run.req \in Requests /\ run.recovering = FALSE
      BY <1>3 DEF MakePlan, RunOK, Before
    <2>2. FilesOK' /\ TablesOK'
      BY <1>3 DEF MakePlan, FilesOK, TablesOK, fs, db
    <2>3. CASE run' = [run EXCEPT !.pc = "rollback"]
      <3>1. Goes("rollback", run.todo, run.op)
        BY <2>3, Relabels DEF Labels, Back
      <3> QED
        BY <2>1, <2>2, <3>1, GoesOK, <1>3 DEF Before, Forward, MakePlan
    <2>4. CASE run' = [run EXCEPT !.pc = "journal", !.ops = Plan(run.req)]
      <3>1. /\ run' \in Run
            /\ run'.pc = "journal" /\ run'.ops = Plan(run.req)
            /\ run'.tx = run.tx /\ run'.req = run.req /\ run'.recovering = run.recovering
        BY <2>1, <2>4, PlanIsJournal DEF RunOK, Run, Labels, Before
      <3>2. RunOK'
        BY <2>1, <3>1, PlanIsJournal DEF RunOK, Before, Forward, Tidying, Back
      <3> QED
        BY <2>2, <3>2, <1>3 DEF MakePlan
    <2> QED
      BY <2>3, <2>4, <1>3 DEF MakePlan
  <1>4. CASE Journal
    <2>1. run.tx \in Tx /\ run.ops \in SUBSET JournalEntry /\ "apply" \in Labels
      BY <1>4 DEF Journal, RunOK, Run, Before, Labels, Forward
    <2>2. FilesOK' /\ TablesOK'
      BY <1>4, <2>1 DEF Journal, FilesOK, TablesOK, fs, TransactionRecord
    <2>3. Goes("apply", run.ops, run.op)
      BY <1>4, Transitions
    <2>4. RunOK'
      BY <1>4, <2>1, <2>3, GoesOK DEF Journal, Before, Forward
    <2> QED
      BY <2>2, <2>4, <1>4 DEF Journal
  <1>5. ASSUME NEW o \in JournalEntry, Park(o) PROVE TypeOK'
    <2>1. o.at \in Place /\ o \in run.ops /\ run.tx \in Tx /\ run.todo \in SUBSET JournalEntry
          /\ run.todo \subseteq run.ops
      BY <1>5 DEF Park, RunOK, Run, JournalEntry, Forward
    <2>2. FilesOK' /\ TablesOK'
      BY <1>5, <2>1 DEF Park, FilesOK, TablesOK, db
    <2>3. CASE o.op = "Removed"
      <3>1. Goes("apply", run.todo \ {o}, None)
        BY <1>5, <2>3, Transitions
      <3>2. RunOK'
        BY <1>5, <2>1, <3>1, GoesOK DEF Park, Before, Forward
      <3> QED
        BY <1>5, <2>2, <3>2 DEF Park
    <2>4. CASE o.op # "Removed"
      <3>1. Goes("link", run.todo, o)
        BY <1>5, <2>4, Transitions
      <3>2. RunOK'
        BY <1>5, <2>1, <2>4, <3>1, GoesOK DEF Park, Before, Forward
      <3> QED
        BY <1>5, <2>2, <3>2 DEF Park
    <2> QED
      BY <2>3, <2>4
  <1>6. ASSUME NEW o \in JournalEntry, Link(o) PROVE TypeOK'
    <2>1. run.pc \in Forward /\ o \in run.ops /\ o.op # "Removed" /\ run.tx \in Tx /\ run.todo \subseteq run.ops
      BY <1>6 DEF Link, RunOK, Forward
    <2>2. FilesOK' /\ TablesOK'
      BY <1>6, <2>1, ShippedPlace DEF Link, FilesOK, TablesOK, db, Content
    <2>3. Goes("rename", run.todo, o)
      BY <1>6, Transitions
    <2>4. RunOK'
      BY <2>1, <2>3, GoesOK DEF Before, Forward
    <2> QED
      BY <1>6, <2>2, <2>4 DEF Link
  <1>7. CASE Rename
    <2>1. run.op \in JournalEntry /\ run.op.at \in Place /\ run.todo \ {run.op} \in SUBSET JournalEntry
          /\ run.pc = "rename" /\ run.tx \in Tx /\ run.todo \subseteq run.ops
      BY <1>7 DEF Rename, RunOK, Run, JournalEntry, Forward
    <2>2. FilesOK' /\ TablesOK'
      BY <1>7, <2>1 DEF Rename, FilesOK, TablesOK, db
    <2>3. Goes("apply", run.todo \ {run.op}, None)
      BY <1>7, Transitions
    <2>4. RunOK'
      BY <2>1, <2>3, GoesOK DEF Before, Forward
    <2> QED
      BY <1>7, <2>2, <2>4 DEF Rename
  <1>8. CASE Commit
    <2>1. /\ run.pc = "apply" /\ run.tx \in Tx /\ run.ops \in SUBSET JournalEntry /\ run.req \in Requests
          /\ run.req.install \subseteq Manifest
      BY <1>8, PkgStoreAssumption DEF Commit, RunOK, Run, Forward
    <2>2. installed' \in [Name -> Manifest \cup {None}]
      BY <1>8, <2>1 DEF Commit, TablesOK
    <2>3. tracked' \in [Path -> TrackedRow \cup {None}]
      <3>1. ASSUME NEW p \in Path, p \in Claimed(run.req)
            PROVE  TrackedFile(run.req, p) \in TrackedRow
        BY <2>1, <3>1, SourceShips, PkgStoreAssumption DEF TrackedFile, TrackedRow
      <3> QED
        BY <1>8, <3>1 DEF Commit, TablesOK
    <2>4. transactions' \in [Tx -> TransactionRecord \cup {None}]
      BY <1>8, <2>1 DEF Commit, TablesOK, TransactionRecord
    <2>5. FilesOK' /\ nextTx' = nextTx /\ touched' \subseteq touched /\ faults' = faults
      BY <1>8 DEF Commit, FilesOK, fs
    <2>6. Goes("cleanup", run.ops, run.op)
      BY <1>8, Transitions
    <2>7. RunOK'
      BY <2>1, <2>6, GoesOK DEF Before, Forward
    <2> QED
      BY <2>2, <2>3, <2>4, <2>5, <2>7 DEF TablesOK
  <1>9. ASSUME NEW o \in JournalEntry, Cleanup(o) PROVE TypeOK'
    <2>1. o.at \in Place /\ run.tx \in Tx /\ run.pc = "cleanup" /\ run.todo \ {o} \in SUBSET JournalEntry
          /\ "cleanup" \in Labels
      BY <1>9 DEF Cleanup, RunOK, Run, JournalEntry, Tidying, Labels
    <2>2. FilesOK' /\ TablesOK'
      BY <1>9, <2>1 DEF Cleanup, FilesOK, TablesOK, db
    <2>3. faults' \in 0 .. MaxFaults
      BY <1>9, PkgStoreAssumption DEF Cleanup, MayFail
    <2>4. Goes("cleanup", run.todo \ {o}, run.op)
      BY <1>9, Transitions
    <2>5. RunOK'
      BY <2>1, <2>4, GoesOK DEF Before, Forward
    <2> QED
      BY <1>9, <2>2, <2>3, <2>5 DEF Cleanup
  <1>10. CASE RemoveStaging
    <2>1. run.tx \in Tx
      BY <1>10 DEF RemoveStaging, RunOK, Tidying, Back
    <2>2. FilesOK' /\ TablesOK'
      BY <1>10 DEF RemoveStaging, FilesOK, TablesOK, db
    <2>3. faults' \in 0 .. MaxFaults
      BY <1>10, PkgStoreAssumption DEF RemoveStaging, MayFail
    <2>4. PICK l \in {"delete", "forget"} : Goes(l, run.todo, run.op)
      BY <1>10, Transitions
    <2>5. RunOK'
      BY <2>1, <2>4, GoesOK DEF Before, Forward
    <2> QED
      BY <1>10, <2>2, <2>3, <2>5 DEF RemoveStaging
  <1>11. CASE DeleteRecord
    <2>1. run.tx \in Tx
      BY <1>11 DEF DeleteRecord, RunOK, Tidying, Back
    <2>2. FilesOK' /\ TablesOK'
      BY <1>11, <2>1 DEF DeleteRecord, FilesOK, TablesOK, fs
    <2>3. RunOK'
      BY <1>11, Rests DEF DeleteRecord
    <2> QED
      BY <1>11, <2>2, <2>3 DEF DeleteRecord
  <1>12. ASSUME NEW o \in JournalEntry, Undo(o) PROVE TypeOK'
    <2>1. o.at \in Place /\ run.tx \in Tx /\ run.pc = "rollback"
      BY <1>12 DEF Undo, RunOK, JournalEntry, Back
    <2>2. FilesOK' /\ TablesOK'
      BY <1>12, <2>1 DEF Undo, FilesOK, TablesOK, db
    <2>3. Goes("undo", run.todo, o)
      BY <1>12, Transitions
    <2>4. RunOK'
      BY <2>1, <2>3, GoesOK DEF Before, Forward
    <2> QED
      BY <1>12, <2>2, <2>4 DEF Undo
  <1>13. CASE Discard
    <2>1. run.tx \in Tx /\ run.op \in JournalEntry /\ run.op.at \in Place /\ run.pc = "undo"
          /\ run.todo \ {run.op} \in SUBSET JournalEntry /\ {"rollback", "restore"} \subseteq Labels
      BY <1>13 DEF Discard, RunOK, Run, JournalEntry, Back, Labels
    <2>2. FilesOK' /\ TablesOK'
      BY <1>13, <2>1 DEF Discard, FilesOK, TablesOK, db
    <2>3. RunOK'
      BY <1>13, <2>1, Transitions, GoesOK DEF Before, Forward
    <2> QED
      BY <1>13, <2>2, <2>3 DEF Discard
  <1>14. CASE Restore
    <2>1. run.tx \in Tx /\ run.op \in JournalEntry /\ run.op.at \in Place /\ run.pc = "restore"
          /\ run.todo \ {run.op} \in SUBSET JournalEntry /\ "rollback" \in Labels
      BY <1>14 DEF Restore, RunOK, Run, JournalEntry, Back, Labels
    <2>2. FilesOK' /\ TablesOK'
      BY <1>14, <2>1 DEF Restore, FilesOK, TablesOK, db
    <2>3. Goes("rollback", run.todo \ {run.op}, None)
      BY <1>14, Transitions
    <2>4. RunOK'
      BY <2>1, <2>3, GoesOK DEF Before, Forward
    <2> QED
      BY <1>14, <2>2, <2>4 DEF Restore
  <1>15. CASE Open \/ Opened \/ Close
    <2>1. FilesOK' /\ TablesOK' /\ touched' = touched /\ faults' = faults
      BY <1>15 DEF Open, Opened, Close, FilesOK, TablesOK, fs, db
    <2>2. RunOK'
      BY <1>15, Rests DEF Open, Opened, Close
    <2> QED
      BY <2>1, <2>2
  <1>16. ASSUME NEW t \in Tx, Recover(t) PROVE TypeOK'
    <2> DEFINE l == IF transactions[t].state = "Committed" THEN "cleanup" ELSE "rollback"
               ops == transactions[t].ops
    <2>1. FilesOK' /\ TablesOK' /\ touched' = touched /\ faults' = faults
      BY <1>16 DEF Recover, FilesOK, TablesOK, fs, db
    <2>2. transactions[t] \in TransactionRecord
      BY <1>16 DEF Recover, Pending, TablesOK
    <2>3. ops \in SUBSET JournalEntry /\ t \in 0 .. MaxTx /\ l \in {"cleanup", "rollback"} /\ l \in Labels
      BY <2>2, PkgStoreAssumption DEF TransactionRecord, Tx, Labels, Tidying, Back
    <2>4. run' = [pc |-> l, tx |-> t, req |-> None, ops |-> ops, todo |-> ops, op |-> None, recovering |-> TRUE]
      BY <1>16 DEF Recover, Closed
    <2>5. run' \in Run
      <3> HIDE DEF l, ops
      <3> QED
        BY <2>3, <2>4 DEF Run
    <2>6. RunOK'
      <3> HIDE DEF l, ops
      <3> QED
        BY <2>3, <2>4, <2>5 DEF RunOK, Before, Forward
    <2> QED
      BY <2>1, <2>6
  <1>17. CASE RunFails
    <2>1. /\ run.pc \in Before \cup Forward \cup Tidying /\ run.tx \in Tx /\ run.ops \in SUBSET JournalEntry
          /\ "rollback" \in Labels /\ faults < MaxFaults
      BY <1>17 DEF RunFails, Fails, MayFail, RunOK, Run, Before, Forward, Tidying, Back, Labels
    <2>2. FilesOK' /\ TablesOK'
      BY <1>17, <2>1 DEF RunFails, FilesOK, TablesOK, db
    <2>3. Goes("rollback", run.ops, None)
      BY <1>17, Transitions
    <2>4. RunOK'
      BY <2>1, <2>3, GoesOK DEF Before, Forward
    <2> QED
      BY <1>17, <2>1, <2>2, <2>4, PkgStoreAssumption DEF RunFails
  <1>18. CASE RollbackFails \/ RecoveryFails \/ Kill
    <2>1. FilesOK' /\ TablesOK' /\ touched' = touched /\ faults' \in 0 .. MaxFaults
      BY <1>18, PkgStoreAssumption DEF RollbackFails, RecoveryFails, Kill, MayFail, FilesOK, TablesOK, fs, db
    <2>2. RunOK'
      BY <1>18, Rests DEF RollbackFails, RecoveryFails, Kill
    <2> QED
      BY <2>1, <2>2
  <1>19. ASSUME NEW p \in Path, NEW c \in {User, None}, Edit(p, c) PROVE TypeOK'
    <2>1. FilesOK' /\ TablesOK'
      BY <1>19 DEF Edit, FilesOK, TablesOK, db, Own, Place, Content
    <2>2. RunOK'
      BY <1>19, RunUnchanged DEF Edit
    <2> QED
      BY <1>19, <2>1, <2>2 DEF Edit
  <1>20. CASE UNCHANGED vars
    BY <1>20, RunUnchanged DEF vars, fs, db, FilesOK, TablesOK
  <1> QED
    BY <1>1, <1>2, <1>3, <1>4, <1>5, <1>6, <1>7, <1>8, <1>9, <1>10, <1>11, <1>12, <1>13, <1>14, <1>15, <1>16,
       <1>17, <1>18, <1>19, <1>20 DEF Next, Step

\* Type correctness: for every set of packages, paths and requests, whichever
\* calls fail and wherever the process is killed, each table row, journal entry
\* and file is of its type, and a step of commit or rollback has the transaction,
\* the request and the operation it works on.
THEOREM TypeCorrect == Spec => []TypeOK
  BY InitTypes, NextTypes, PTL DEF Spec

-----------------------------------------------------------------------------
\* Who owns what.

\* A step that leaves the tables and the request alone.
LEMMA OwnersKept ==
  ASSUME Accepted, TrackedExact, UNCHANGED <<installed, tracked>>,
         run'.pc \in {"journal"} \cup Forward => run'.req = run.req /\ run.pc \in {"journal"} \cup Forward
  PROVE  Accepted' /\ TrackedExact'
  <1>1. TrackedExact'
    BY DEF TrackedExact
  <1>2. Accepted'
    BY DEF Accepted
  <1> QED
    BY <1>1, <1>2

\* commit_state keeps one owner for each path, because Collision refused the rest.
LEMMA CommitOwners ==
  ASSUME TypeOK, TrackedExact, Accepted, Commit
  PROVE  Accepted' /\ TrackedExact'
  <1> DEFINE q == run.req
             NewOf(n) == CHOOSE m \in q.install : m.name = n
  <1>1. q \in Requests /\ run.pc = "apply" /\ q.install \subseteq Manifest
    BY PkgStoreAssumption DEF Commit, TypeOK, RunOK, Forward
  <1>2. ASSUME NEW m \in q.install
        PROVE  /\ m.name \notin q.remove
               /\ \A k \in q.install : k.name = m.name => k = m
               /\ m \in Manifest /\ m # None /\ m.name \in Name /\ m.files \subseteq Path
    BY <1>1, PkgStoreAssumption DEF Content
  <1>3. ASSUME NEW m \in q.install
        PROVE  installed'[m.name] = m
    <2>1. NewOf(m.name) = m
      BY <1>2
    <2> QED
      BY <1>2, <2>1 DEF Commit
  <1>4. ASSUME NEW n \in Name, \A m \in q.install : m.name # n
        PROVE  installed'[n] = IF n \in q.remove THEN None ELSE installed[n]
    BY <1>4 DEF Commit
  <1>5. ASSUME NEW m \in q.install, NEW p \in m.files
        PROVE  /\ Source(q, p) = m /\ p \in Claimed(q) /\ p \in Path
               /\ tracked'[p] = [owner |-> m.name, content |-> m]
               /\ tracked[p] # None => tracked[p].owner \in {m.name} \cup q.remove
    <2>1. p \in Claimed(q) /\ p \in Path
      BY <1>2 DEF Claimed
    <2>2. /\ \A k \in q.install : p \in k.files => k = m
          /\ tracked[p] # None => tracked[p].owner \in {m.name} \cup q.remove
      BY <1>1 DEF Accepted, Forward
    <2>3. Source(q, p) = m
      BY <1>1, <2>1, <2>2, SourceShips
    <2> QED
      BY <2>1, <2>2, <2>3 DEF Commit, TrackedFile
  <1>6. ASSUME NEW p \in Path, p \notin Claimed(q)
        PROVE  tracked'[p] = IF Freed(q, p) THEN None ELSE tracked[p]
    BY <1>6 DEF Commit
  <1>7. ASSUME NEW p \in Path, NEW n \in Name, installed'[n] # None, p \in installed'[n].files
        PROVE  tracked'[p] = [owner |-> n, content |-> installed'[n]]
    <2>1. CASE \E m \in q.install : m.name = n
      BY <1>3, <1>5, <1>7, <2>1
    <2>2. CASE \A m \in q.install : m.name # n
      <3>1. n \notin q.remove /\ installed'[n] = installed[n] /\ installed[n] # None
        BY <1>4, <1>7, <2>2
      <3>2. tracked[p] = [owner |-> n, content |-> installed[n]] /\ tracked[p] # None
        BY <1>7, <3>1, PkgStoreAssumption DEF TrackedExact, TypeOK, TablesOK, TrackedRow
      <3>3. p \notin Claimed(q)
        <4> SUFFICES ASSUME NEW m \in q.install, p \in m.files PROVE FALSE
          BY DEF Claimed
        <4>1. tracked[p].owner = n
          BY <3>2
        <4>2. tracked[p].owner \in {m.name} \cup q.remove
          BY <1>5, <3>2
        <4> QED
          BY <2>2, <3>1, <4>1, <4>2
      <3>4. ~Freed(q, p)
        BY <2>2, <3>1, <3>2 DEF Freed, Gone
      <3> QED
        BY <1>6, <3>1, <3>2, <3>3, <3>4
    <2> QED
      BY <2>1, <2>2
  <1>8. ASSUME NEW p \in Path, tracked'[p] # None
        PROVE  installed'[tracked'[p].owner] # None /\ p \in installed'[tracked'[p].owner].files
    <2>1. CASE p \in Claimed(q)
      <3>1. PICK m \in q.install : p \in m.files
        BY <2>1 DEF Claimed
      <3>2. tracked'[p] = [owner |-> m.name, content |-> m]
        BY <1>5, <3>1
      <3>3. installed'[m.name] = m /\ m # None
        BY <1>2, <1>3
      <3> QED
        BY <3>1, <3>2, <3>3
    <2>2. CASE p \notin Claimed(q)
      <3>1. ~Freed(q, p) /\ tracked'[p] = tracked[p]
        BY <1>6, <1>8, <2>2
      <3> DEFINE n == tracked[p].owner
      <3>2. n \in Name /\ installed[n] # None /\ p \in installed[n].files
        BY <1>8, <3>1 DEF TrackedExact, TypeOK, TablesOK, TrackedRow
      <3>3. n \notin q.remove /\ \A m \in q.install : m.name # n
        BY <1>8, <3>1, <3>2 DEF Freed, Gone
      <3> QED
        BY <1>4, <3>1, <3>2, <3>3
    <2> QED
      BY <2>1, <2>2
  <1>9. TrackedExact'
    BY <1>7, <1>8 DEF TrackedExact
  <1>10. Accepted'
    BY Transitions DEF TypeOK, Goes, Accepted, Forward
  <1> QED
    BY <1>9, <1>10

\* The inductive invariant of the owners.
OwnersInv == TypeOK /\ TrackedExact /\ Accepted

\* Only MakePlan and Commit bear on the owners; the other steps leave them alone.
LEMMA NextOwners == OwnersInv /\ [Next]_vars => OwnersInv'
  <1> SUFFICES ASSUME OwnersInv, [Next]_vars PROVE OwnersInv'
    OBVIOUS
  <1>0. TypeOK /\ RunOK /\ TrackedExact /\ Accepted /\ TypeOK'
    BY NextTypes DEF OwnersInv, TypeOK
  <1> SUFFICES Accepted' /\ TrackedExact'
    BY <1>0 DEF OwnersInv
  <1>1. ASSUME NEW q \in Requests, Begin(q) PROVE Accepted' /\ TrackedExact'
    <2>1. run'.pc = "stage" /\ UNCHANGED <<installed, tracked>>
      BY <1>1 DEF Begin, Idle, Closed
    <2> QED
      BY <1>0, <2>1, OwnersKept DEF Forward
  <1>2. CASE MakePlan
    <2>1. TrackedExact' /\ tracked' = tracked
      BY <1>0, <1>2 DEF MakePlan, TrackedExact, db
    <2>2. CASE run' = [run EXCEPT !.pc = "rollback"]
      BY <1>0, <2>1, <2>2, Relabels DEF Accepted, Goes, Forward, Labels, Back
    <2>3. CASE run' # [run EXCEPT !.pc = "rollback"]
      <3>1. \A m \in run.req.install : \A p \in m.files : ~Collision(run.req, m, p)
        BY <1>2, <2>3 DEF MakePlan
      <3>2. run'.req = run.req
        BY <1>0, <1>2 DEF MakePlan, RunOK, Run
      <3> QED
        BY <2>1, <3>1, <3>2 DEF Accepted, Collision
    <2> QED
      BY <2>2, <2>3
  <1>3. CASE Commit
    BY <1>0, <1>3, CommitOwners
  <1>4. CASE \/ Stage \/ Journal \/ Rename \/ RemoveStaging \/ Discard \/ Restore \/ RunFails
             \/ \E o \in JournalEntry : Park(o) \/ Link(o) \/ Cleanup(o) \/ Undo(o)
    <2>1. UNCHANGED <<installed, tracked>>
      BY <1>4 DEF Stage, Journal, Rename, RemoveStaging, Discard, Restore, RunFails, Park, Link, Cleanup, Undo, db
    <2>2. /\ run'.req = run.req
          /\ run'.pc \in {"journal"} \cup Forward => run.pc \in {"journal"} \cup Forward
      BY <1>0, <1>4, Transitions DEF Goes, Forward, Journal, Park, Link, Rename
    <2> QED
      BY <1>0, <2>1, <2>2, OwnersKept
  <1>5. CASE \/ DeleteRecord \/ Open \/ Opened \/ Close \/ RollbackFails \/ RecoveryFails \/ Kill
             \/ \E t \in Tx : Recover(t)
    <2>1. UNCHANGED <<installed, tracked>>
      BY <1>5 DEF DeleteRecord, Open, Opened, Close, RollbackFails, RecoveryFails, Kill, Recover, db
    <2>2. run'.pc \notin {"journal"} \cup Forward
      BY <1>5, Rests
         DEF DeleteRecord, Open, Opened, Close, RollbackFails, RecoveryFails, Kill, Recover, Forward, Closed
    <2> QED
      BY <1>0, <2>1, <2>2, OwnersKept
  <1>6. CASE UNCHANGED vars \/ \E p \in Path, c \in {User, None} : Edit(p, c)
    BY <1>0, <1>6, OwnersKept DEF vars, db, Edit
  <1> QED
    BY <1>1, <1>2, <1>3, <1>4, <1>5, <1>6 DEF Next, Step

\* Nothing is installed at first.
LEMMA InitOwners == Init => OwnersInv
  BY InitTypes DEF Init, OwnersInv, TrackedExact, Accepted, Closed, Forward

\* commit_state keeps tracked_files the exact index of installed_packages: every
\* path a package ships has that package as its only owner, and no other path
\* has a row. It needs no assumption on which calls fail.
THEOREM OneOwner == Spec => []TrackedExact
  <1>1. OwnersInv => TrackedExact
    BY DEF OwnersInv
  <1> QED
    BY <1>1, InitOwners, NextOwners, PTL DEF Spec

-----------------------------------------------------------------------------
\* What a crash leaves.

\* The caller opens the store again after a rollback that failed, and a record
\* is deleted only when its cleanup succeeded.
Careful == Reopens /\ Fallible \cap {"cleanup", "delete"} = {}

Clean(at) == old[at] = None /\ new[at] = None

\* A record that is staging has no operation yet, a committed one no file half
\* placed; no two operations are at one place, and a created file has no backup.
RecordOK(r) ==
    /\ r.state = "Staging" => r.ops = {}
    /\ r.state = "Committed" => \A at \in Place : new[at] = None
    /\ \A o, n \in r.ops : o.at = n.at => o = n
    /\ \A o \in r.ops : o.op = "Created" => old[o.at] = None

\* There is one record at most, and it names whatever recovery must find.
Recorded ==
    /\ \A t, u \in Pending : t = u
    /\ staging \subseteq Pending
    /\ \A t \in Pending : RecordOK(transactions[t])
    /\ \A at \in Place : ~Clean(at) => \E t \in Pending : \E o \in transactions[t].ops : o.at = at

Untouched(o) == Clean(o.at) /\ (disk[o.at] = None <=> o.op = "Created")

Parked(o) == o.op # "Created" => old[o.at] # None

Applied(o) ==
    /\ new[o.at] = None /\ Parked(o)
    /\ disk[o.at] = IF o.op = "Removed" THEN None ELSE Source(run.req, o.at[1])

Reverted(o) == Clean(o.at) /\ (o.op = "Created" => disk[o.at] = None)

\* The process and the record of the transaction it works on.
Working ==
    LET r == transactions[run.tx]
    IN  /\ r # None
        /\ run.todo \subseteq run.ops
        /\ \A o, n \in run.ops : o.at = n.at => o = n
        /\ run.pc \in Before => r.state = "Staging"
        /\ run.pc \in {"stage", "plan"} => run.ops = {}
        /\ run.pc \in Forward => r.state = "Applying" /\ r.ops = run.ops
        /\ run.pc \in Tidying => r.state = "Committed" /\ r.ops = run.ops
        /\ run.pc \in Back => \/ r.state = "Applying" /\ r.ops = run.ops
                              \/ r.state = "Staging" /\ \A o \in run.ops : Reverted(o)
        /\ run.pc \in {"delete", "forget"} => run.todo = {} /\ run.tx \notin staging

\* What it has done to the files, operation by operation.
Progress ==
    /\ run.pc = "journal" => \A o \in run.ops : Untouched(o)
    /\ run.pc \in Forward =>
         /\ \A o \in run.todo : (run.pc = "apply" \/ o # run.op) => Untouched(o)
         /\ \A o \in run.ops \ run.todo : Applied(o)
    /\ run.pc \in {"link", "rename"} =>
         /\ run.op \in run.todo
         /\ disk[run.op.at] = None /\ Parked(run.op)
         /\ new[run.op.at] = IF run.pc = "link" THEN None ELSE Source(run.req, run.op.at[1])
    /\ run.pc = "link" => run.op.op = "Replaced"
    /\ run.pc \in Tidying => \A o \in run.ops \ run.todo : old[o.at] = None
    /\ run.pc \in Back => \A o \in run.ops \ run.todo : Reverted(o)
    /\ run.pc \in {"undo", "restore"} => run.op \in run.todo /\ new[run.op.at] = None
    /\ run.pc = "restore" => run.op.op # "Created" /\ old[run.op.at] # None

Active == run.pc \in Before \cup Forward \cup Tidying \cup Back

CrashInv == Recorded /\ (Active => Working /\ Progress)

\* A pending record is one of the table's.
LEMMA RecordTyped ==
  ASSUME TypeOK, NEW t \in Pending
  PROVE  t \in Tx /\ transactions[t] # None /\ transactions[t] \in TransactionRecord
         /\ transactions[t].ops \subseteq JournalEntry
  BY DEF TypeOK, TablesOK, Pending, TransactionRecord

\* A plan has one operation at each place, and names what is there.
LEMMA PlanUntouched ==
  ASSUME TypeOK, Recorded, NEW q \in Requests, \A t \in Pending : transactions[t].ops = {},
         \A m \in q.install : \A p \in m.files : \A k \in q.install : p \in k.files => k = m
  PROVE  /\ \A o, n \in Plan(q) : o.at = n.at => o = n
         /\ \A o \in Plan(q) : Untouched(o)
  <1> DEFINE placed == UNION {{Lands(m, p) : p \in m.files} : m \in q.install}
  <1>1. ASSUME NEW at \in placed
        PROVE  at[1] \in Claimed(q) /\ at \in Place
    BY PkgStoreAssumption DEF Lands, Claimed, Place
  <1>2. ASSUME NEW o \in Plan(q)
        PROVE  \/ /\ o.at \in placed
                  /\ o = [op |-> IF disk[o.at] # None THEN "Replaced" ELSE "Created", at |-> o.at]
               \/ /\ o.at[1] \notin Claimed(q) /\ o.at \in Place /\ disk[o.at] # None
                  /\ o = [op |-> "Removed", at |-> o.at]
    <2>1. CASE \E at \in placed : o = [op |-> IF disk[at] # None THEN "Replaced" ELSE "Created", at |-> at]
      BY <2>1
    <2>2. CASE \E p \in Path \ Claimed(q) : disk[Own(p)] # None /\ o = [op |-> "Removed", at |-> Own(p)]
      BY <2>2 DEF Own, Place
    <2> QED
      BY <2>1, <2>2 DEF Plan
  <1>3. \A at \in Place : Clean(at)
    BY DEF Recorded
  <1> HIDE DEF placed
  <1>4. ASSUME NEW o \in Plan(q), NEW n \in Plan(q), o.at = n.at
        PROVE  o = n
    BY <1>1, <1>2, <1>4
  <1>5. ASSUME NEW o \in Plan(q)
        PROVE  Untouched(o)
    <2>1. o.at \in Place
      BY <1>1, <1>2
    <2>2. o.op = "Created" <=> disk[o.at] = None
      BY <1>2
    <2> QED
      BY <1>3, <2>1, <2>2 DEF Untouched
  <1> QED
    BY <1>4, <1>5

\* Begin adds the only record, since the store was opened with none.
LEMMA BeginCrash ==
  ASSUME TypeOK, Careful, CrashInv, NEW q \in Requests, Begin(q)
  PROVE  CrashInv'
  <1>0. Pending = {} /\ nextTx \in Tx
    BY PkgStoreAssumption DEF Begin, Careful, TypeOK, TablesOK, Tx
  <1>1. PICK t \in Tx : t = nextTx
    BY <1>0
  <1>2. /\ transactions'[t] = [state |-> "Staging", ops |-> {}]
        /\ \A u \in Tx : u # t => transactions'[u] = None
    BY <1>0, <1>1 DEF Begin, Pending, TypeOK, TablesOK
  <1>3. [state |-> "Staging", ops |-> {}] # None
    BY PkgStoreAssumption DEF TransactionRecord
  <1>4. Pending' = {t}
    BY <1>2, <1>3 DEF Pending
  <1>5. \A at \in Place : Clean(at)' /\ Clean(at)
    BY <1>0 DEF Begin, CrashInv, Recorded, Clean, fs
  <1>6. RecordOK(transactions[t])'
    BY <1>2 DEF RecordOK
  <1>7. Recorded'
    BY <1>0, <1>4, <1>5, <1>6 DEF Begin, CrashInv, Recorded, fs
  <1>8. run'.pc = "stage" /\ run'.tx = t /\ run'.ops = {} /\ run'.todo = {}
    BY <1>1 DEF Begin, Idle, Closed
  <1>9. Working'
    BY <1>2, <1>3, <1>8 DEF Working, Before, Forward, Tidying, Back
  <1>10. Progress'
    BY <1>8 DEF Progress, Forward, Tidying, Back
  <1> QED
    BY <1>7, <1>9, <1>10 DEF CrashInv

\* What holds of a process that works on a transaction.
LEMMA AtWork ==
  ASSUME TypeOK, CrashInv, Active
  PROVE  /\ run.tx \in Tx /\ run.tx \in Pending
         /\ Recorded /\ Working /\ Progress /\ RecordOK(transactions[run.tx])
         /\ run.ops \subseteq JournalEntry /\ run.todo \subseteq run.ops
         /\ \A o \in run.ops : o.at \in Place
  <1>1. run.tx \in Tx /\ run.ops \subseteq JournalEntry
    BY DEF TypeOK, RunOK, Run, Active
  <1>2. Recorded /\ Working /\ Progress
    BY DEF CrashInv
  <1>3. run.tx \in Pending /\ run.todo \subseteq run.ops
    BY <1>1, <1>2 DEF Working, Pending
  <1> QED
    BY <1>1, <1>2, <1>3 DEF Recorded, JournalEntry

\* A step that leaves the record alone.
LEMMA RecordedKept ==
  ASSUME Recorded, NEW t \in Pending, UNCHANGED transactions, staging' \subseteq staging \cup {t},
         RecordOK(transactions[t])',
         \A at \in Place : ~Clean(at)' => ~Clean(at) \/ \E o \in transactions[t].ops : o.at = at
  PROVE  Recorded'
  <1>1. Pending' = Pending /\ \A u \in Pending : u = t
    BY DEF Pending, Recorded
  <1> QED
    BY <1>1 DEF Recorded

\* The steps of a transaction up to its journal.
LEMMA StageCrash ==
  ASSUME TypeOK, CrashInv, Stage
  PROVE  CrashInv'
  <1>1. Goes("plan", run.todo, run.op)
    BY Transitions DEF TypeOK
  <1>2. Active
    BY DEF Stage, Active, Before
  <1>3. PICK t \in Pending : t = run.tx
    BY <1>2, AtWork
  <1>4. \A at \in Place : Clean(at)' = Clean(at)
    BY DEF Stage, Clean
  <1>5. RecordOK(transactions[t])'
    BY <1>2, <1>3, AtWork DEF RecordOK, Stage, db
  <1>6. Recorded'
    BY <1>2, <1>3, <1>4, <1>5, AtWork, RecordedKept DEF Stage, db
  <1>7. Working' /\ Progress'
    BY <1>1, <1>2, AtWork DEF Working, Progress, Goes, Stage, db, Before, Forward, Tidying, Back
  <1> QED
    BY <1>6, <1>7 DEF CrashInv

LEMMA MakePlanCrash ==
  ASSUME TypeOK, CrashInv, MakePlan
  PROVE  CrashInv'
  <1>1. Active /\ run.req \in Requests
    BY DEF MakePlan, Active, Before, TypeOK, RunOK
  <1>2. PICK t \in Pending : t = run.tx
    BY <1>1, AtWork
  <1>3. RecordOK(transactions[t])'
    BY <1>1, <1>2, AtWork DEF RecordOK, MakePlan, fs, db
  <1>4. \A at \in Place : Clean(at)' = Clean(at)
    BY DEF MakePlan, Clean, fs
  <1>5. Recorded'
    BY <1>1, <1>2, <1>3, <1>4, AtWork, RecordedKept DEF MakePlan, fs, db
  <1>6. Working /\ Progress /\ run.ops = {} /\ run.todo = {} /\ transactions[run.tx].state = "Staging"
    BY <1>1, AtWork DEF Working, MakePlan, Before
  <1>7. CASE run' = [run EXCEPT !.pc = "rollback"]
    <2>1. Goes("rollback", run.todo, run.op)
      BY <1>7, Relabels DEF TypeOK, Labels, Back
    <2>2. Working' /\ Progress'
      BY <1>6, <2>1 DEF Working, Progress, Goes, MakePlan, fs, db, Before, Forward, Tidying, Back
    <2> QED
      BY <1>5, <2>2 DEF CrashInv
  <1>8. CASE run' # [run EXCEPT !.pc = "rollback"]
    <2>1. run'.pc = "journal" /\ run'.ops = Plan(run.req) /\ run'.todo = {} /\ run'.tx = run.tx
      BY <1>6, <1>8 DEF MakePlan, TypeOK, RunOK, Run
    <2>2. \A m \in run.req.install : \A p \in m.files : \A k \in run.req.install : p \in k.files => k = m
      BY <1>8 DEF MakePlan, Collision
    <2>3. \A u \in Pending : transactions[u].ops = {}
      BY <1>1, <1>6, AtWork DEF Recorded, RecordOK
    <2>4. /\ \A o, n \in Plan(run.req) : o.at = n.at => o = n
          /\ \A o \in Plan(run.req) : Untouched(o)
      BY <1>1, <2>2, <2>3, AtWork, PlanUntouched
    <2>5. \A o \in run'.ops : Untouched(o)'
      BY <2>1, <2>4 DEF Untouched, Clean, MakePlan, fs
    <2>6. Working' /\ Progress'
      BY <1>6, <2>1, <2>4, <2>5 DEF Working, Progress, MakePlan, fs, db, Before, Forward, Tidying, Back
    <2> QED
      BY <1>5, <2>6 DEF CrashInv
  <1> QED
    BY <1>7, <1>8

LEMMA JournalCrash ==
  ASSUME TypeOK, CrashInv, Journal
  PROVE  CrashInv'
  <1>1. Active
    BY DEF Journal, Active, Before
  <1>2. PICK t \in Pending : t = run.tx
    BY <1>1, AtWork
  <1>3. Goes("apply", run.ops, run.op)
    BY Transitions DEF TypeOK
  <1>4. /\ t \in Tx /\ run.ops \subseteq JournalEntry
        /\ \A o, n \in run.ops : o.at = n.at => o = n
        /\ \A o \in run.ops : Untouched(o) /\ o.at \in Place
    BY <1>1, <1>2, AtWork DEF Journal, Working, Progress
  <1>5. /\ transactions'[t] = [state |-> "Applying", ops |-> run.ops]
        /\ \A u \in Tx : u # t => transactions'[u] = transactions[u]
    BY <1>2, <1>4 DEF Journal, TypeOK, TablesOK
  <1>6. transactions'[t] # None
    BY <1>4, <1>5, PkgStoreAssumption DEF TransactionRecord
  <1>7. Pending' = {t} /\ staging' = staging /\ staging \subseteq {t}
    BY <1>1, <1>4, <1>5, <1>6, AtWork DEF Journal, fs, Pending, Recorded
  <1>8. \A at \in Place : Clean(at) /\ Clean(at)' /\ disk'[at] = disk[at]
    <2>1. transactions[t].ops = {}
      BY <1>1, <1>2, AtWork DEF Working, Journal, Before, RecordOK
    <2> QED
      BY <1>1, <1>2, <2>1, AtWork DEF Recorded, Clean, Journal, fs
  <1>9. RecordOK(transactions[t])'
    BY <1>4, <1>5, <1>8 DEF RecordOK, Clean
  <1>10. Recorded'
    BY <1>7, <1>8, <1>9 DEF Recorded
  <1>11. \A o \in run.ops : Untouched(o)'
    BY <1>4, <1>8 DEF Untouched
  <1>12. Working' /\ Progress'
    BY <1>2, <1>3, <1>4, <1>5, <1>6, <1>11 DEF Working, Progress, Goes, Before, Forward, Tidying, Back
  <1> QED
    BY <1>10, <1>12 DEF CrashInv

\* The steps of apply: each moves one operation from Untouched to Applied.
LEMMA ParkCrash ==
  ASSUME TypeOK, CrashInv, NEW o \in JournalEntry, Park(o)
  PROVE  CrashInv'
  <1>1. Active /\ run.pc = "apply" /\ o \in run.todo /\ o.op # "Created"
    BY DEF Park, Active, Forward
  <1>2. PICK t \in Pending : t = run.tx
    BY <1>1, AtWork
  <1>3. /\ transactions[t].state = "Applying" /\ transactions[t].ops = run.ops
        /\ o \in run.ops /\ \A n \in run.ops : n.at = o.at => n = o
        /\ \A n \in run.ops : n.at \in Place
        /\ Working /\ Progress /\ Recorded /\ RecordOK(transactions[t])
    BY <1>1, <1>2, AtWork DEF Working, Forward
  <1>4. Clean(o.at) /\ disk[o.at] # None
    BY <1>1, <1>3 DEF Progress, Untouched, Forward
  <1>5. /\ old'[o.at] = disk[o.at] /\ disk'[o.at] = None /\ new' = new
        /\ \A at \in Place : at # o.at => old'[at] = old[at] /\ disk'[at] = disk[at]
        /\ UNCHANGED <<transactions, staging>>
    BY <1>3, <1>4 DEF Park, db, TypeOK, FilesOK
  <1>6. \A n \in run.ops : n # o =>
          /\ Untouched(n) => Untouched(n)'
          /\ old'[n.at] = old[n.at] /\ disk'[n.at] = disk[n.at] /\ new'[n.at] = new[n.at]
    BY <1>3, <1>5 DEF Untouched, Clean
  <1>7. RecordOK(transactions[t])'
    BY <1>1, <1>3, <1>5, <1>6 DEF RecordOK
  <1>8. Recorded'
    BY <1>3, <1>5, <1>7, RecordedKept DEF Clean
  <1>9. CASE o.op = "Removed"
    <2>1. Goes("apply", run.todo \ {o}, None)
      BY <1>9, Transitions DEF TypeOK
    <2>2. \A n \in run'.todo : Untouched(n)'
      BY <1>1, <1>3, <1>6, <2>1 DEF Goes, Progress, Working, Forward
    <2>3. \A n \in run'.ops \ run'.todo : Applied(n)'
      BY <1>1, <1>3, <1>4, <1>5, <1>6, <1>9, <2>1 DEF Goes, Progress, Forward, Applied, Parked, Clean
    <2>4. Working'
      BY <1>1, <1>2, <1>3, <1>5, <2>1 DEF Working, Goes, Before, Forward, Tidying, Back
    <2>5. Progress'
      BY <2>1, <2>2, <2>3 DEF Progress, Goes, Forward, Tidying, Back
    <2> QED
      BY <1>8, <2>4, <2>5 DEF CrashInv
  <1>10. CASE o.op # "Removed"
    <2>1. Goes("link", run.todo, o)
      BY <1>10, Transitions DEF TypeOK
    <2>2. \A n \in run'.todo : n # run'.op => Untouched(n)'
      BY <1>1, <1>3, <1>6, <2>1 DEF Goes, Progress, Working, Forward
    <2>3. \A n \in run'.ops \ run'.todo : Applied(n)'
      BY <1>1, <1>3, <1>6, <2>1 DEF Goes, Progress, Forward, Applied, Parked
    <2>4. Working'
      BY <1>1, <1>2, <1>3, <1>5, <2>1 DEF Working, Goes, Before, Forward, Tidying, Back
    <2>5. /\ run'.op \in run'.todo /\ run'.op.op = "Replaced" /\ disk'[run'.op.at] = None
          /\ new'[run'.op.at] = None /\ old'[run'.op.at] # None
      BY <1>1, <1>4, <1>5, <1>10, <2>1 DEF Goes, Clean, JournalEntry
    <2>6. Progress'
      BY <2>1, <2>2, <2>3, <2>5 DEF Progress, Goes, Forward, Tidying, Back, Parked
    <2> QED
      BY <1>8, <2>4, <2>6 DEF CrashInv
  <1> QED
    BY <1>9, <1>10

LEMMA LinkCrash ==
  ASSUME TypeOK, CrashInv, NEW o \in JournalEntry, Link(o)
  PROVE  CrashInv'
  <1>1. Active /\ run.pc \in {"apply", "link"}
    BY DEF Link, Active, Forward
  <1>2. PICK t \in Pending : t = run.tx
    BY <1>1, AtWork
  <1>3. Goes("rename", run.todo, o)
    BY Transitions DEF TypeOK
  <1>4. /\ transactions[t].state = "Applying" /\ transactions[t].ops = run.ops /\ run.todo \subseteq run.ops
        /\ \A n, m \in run.ops : n.at = m.at => n = m
        /\ \A n \in run.ops : n.at \in Place
        /\ Working /\ Progress /\ Recorded /\ RecordOK(transactions[t])
    BY <1>1, <1>2, AtWork DEF Working, Forward
  <1>5. /\ o \in run.todo /\ o \in run.ops /\ disk[o.at] = None /\ Parked(o)
        /\ \A n \in run.todo : n # o => Untouched(n)
        /\ \A n \in run.ops \ run.todo : Applied(n)
    <2>1. CASE run.pc = "apply"
      BY <1>4, <2>1 DEF Link, Progress, Forward, Untouched, Parked
    <2>2. CASE run.pc = "link"
      BY <1>4, <2>2 DEF Link, Progress, Forward
    <2> QED
      BY <1>1, <2>1, <2>2
  <1>6. /\ new'[o.at] = Source(run.req, o.at[1])
        /\ \A at \in Place : at # o.at => new'[at] = new[at]
        /\ UNCHANGED <<old, disk, transactions, staging>>
    BY <1>4, <1>5 DEF Link, db, TypeOK, FilesOK
  <1>7. RecordOK(transactions[t])'
    BY <1>4, <1>6 DEF RecordOK
  <1>8. Recorded'
    BY <1>4, <1>5, <1>6, <1>7, RecordedKept DEF Clean
  <1>9. Working'
    BY <1>1, <1>2, <1>4, <1>6, <1>3 DEF Working, Goes, Before, Forward, Tidying, Back
  <1>10. /\ \A n \in run.todo : n # o => Untouched(n)'
         /\ \A n \in run.ops \ run.todo : Applied(n)'
    BY <1>3, <1>4, <1>5, <1>6 DEF Untouched, Applied, Parked, Clean, Goes
  <1>11. Parked(o)'
    BY <1>5, <1>6 DEF Parked
  <1>12. Progress'
    BY <1>3, <1>5, <1>6, <1>10, <1>11 DEF Progress, Goes, Forward, Tidying, Back, Parked
  <1> QED
    BY <1>8, <1>9, <1>12 DEF CrashInv

LEMMA RenameCrash ==
  ASSUME TypeOK, CrashInv, Rename
  PROVE  CrashInv'
  <1>1. Active /\ run.pc = "rename"
    BY DEF Rename, Active, Forward
  <1>2. PICK t \in Pending : t = run.tx
    BY <1>1, AtWork
  <1>3. PICK o \in run.ops : o = run.op /\ o.op # "Removed"
    BY <1>1 DEF TypeOK, RunOK
  <1>4. Goes("apply", run.todo \ {o}, None)
    BY <1>3, Transitions DEF TypeOK
  <1>5. /\ transactions[t].state = "Applying" /\ transactions[t].ops = run.ops /\ run.todo \subseteq run.ops
        /\ \A n \in run.ops : n.at = o.at => n = o
        /\ \A n \in run.ops : n.at \in Place
        /\ Working /\ Progress /\ Recorded /\ RecordOK(transactions[t])
    BY <1>1, <1>2, <1>3, AtWork DEF Working, Forward
  <1>6. /\ o \in run.todo /\ Parked(o) /\ new[o.at] = Source(run.req, o.at[1])
        /\ \A n \in run.todo : n # o => Untouched(n)
        /\ \A n \in run.ops \ run.todo : Applied(n)
    BY <1>1, <1>3, <1>5 DEF Progress, Forward
  <1>7. /\ disk'[o.at] = Source(run.req, o.at[1]) /\ new'[o.at] = None
        /\ \A at \in Place : at # o.at => new'[at] = new[at] /\ disk'[at] = disk[at]
        /\ UNCHANGED <<old, transactions, staging>>
    BY <1>3, <1>5, <1>6 DEF Rename, db, TypeOK, FilesOK
  <1>8. RecordOK(transactions[t])'
    BY <1>5, <1>7 DEF RecordOK
  <1>9. Recorded'
    BY <1>5, <1>6, <1>7, <1>8, RecordedKept DEF Clean
  <1>10. Working'
    BY <1>1, <1>2, <1>5, <1>7, <1>4 DEF Working, Goes, Before, Forward, Tidying, Back
  <1>11. \A n \in run'.todo : Untouched(n)'
    BY <1>4, <1>5, <1>6, <1>7 DEF Untouched, Clean, Goes
  <1>12. \A n \in run'.ops \ run'.todo : Applied(n)'
    BY <1>3, <1>4, <1>5, <1>6, <1>7 DEF Applied, Parked, Goes
  <1>13. Progress'
    BY <1>4, <1>11, <1>12 DEF Progress, Goes, Forward, Tidying, Back
  <1> QED
    BY <1>9, <1>10, <1>13 DEF CrashInv

\* At the commit every operation is applied, so that no file is half placed.
LEMMA CommitCrash ==
  ASSUME TypeOK, CrashInv, Commit
  PROVE  CrashInv'
  <1>1. Active /\ run.pc = "apply" /\ run.todo = {}
    BY DEF Commit, Active, Forward
  <1>2. PICK t \in Pending : t = run.tx
    BY <1>1, AtWork
  <1>3. Goes("cleanup", run.ops, run.op)
    BY Transitions DEF TypeOK
  <1>4. /\ transactions[t].ops = run.ops /\ t \in Tx /\ run.ops \subseteq JournalEntry
        /\ Working /\ Progress /\ Recorded /\ RecordOK(transactions[t])
        /\ \A n \in run.ops : Applied(n)
    BY <1>1, <1>2, AtWork DEF Working, Forward, Progress
  <1>5. /\ transactions'[t] = [state |-> "Committed", ops |-> run.ops]
        /\ \A u \in Tx : u # t => transactions'[u] = transactions[u]
    BY <1>2, <1>4 DEF Commit, TypeOK, TablesOK
  <1>6. transactions'[t] # None
    BY <1>4, <1>5, PkgStoreAssumption DEF TransactionRecord
  <1>7. Pending' = {t} /\ UNCHANGED <<old, new, disk, staging>> /\ staging \subseteq {t}
    BY <1>2, <1>4, <1>5, <1>6 DEF Commit, fs, Pending, Recorded
  <1>8. \A at \in Place : new[at] = None
    <2> SUFFICES ASSUME NEW at \in Place, new[at] # None PROVE FALSE
      OBVIOUS
    <2>1. PICK o \in run.ops : o.at = at
      BY <1>2, <1>4 DEF Recorded, Clean
    <2> QED
      BY <1>4, <2>1 DEF Applied
  <1>9. RecordOK(transactions[t])'
    BY <1>4, <1>5, <1>7, <1>8 DEF RecordOK
  <1>10. \A at \in Place : ~Clean(at)' => \E o \in run.ops : o.at = at
    BY <1>2, <1>4, <1>7 DEF Recorded, Clean
  <1>11. Recorded'
    BY <1>5, <1>7, <1>9, <1>10 DEF Recorded
  <1>12. Working' /\ Progress'
    BY <1>2, <1>3, <1>4, <1>5, <1>6 DEF Working, Progress, Goes, Before, Forward, Tidying, Back
  <1> QED
    BY <1>11, <1>12 DEF CrashInv

\* The steps after the commit: a record goes when it names nothing any more.
LEMMA CleanupCrash ==
  ASSUME TypeOK, Careful, CrashInv, NEW o \in JournalEntry, Cleanup(o)
  PROVE  CrashInv'
  <1>1. Active /\ run.pc = "cleanup" /\ o \in run.todo
    BY DEF Cleanup, Active, Tidying
  <1>2. PICK t \in Pending : t = run.tx
    BY <1>1, AtWork
  <1>3. Goes("cleanup", run.todo \ {o}, run.op)
    BY Transitions DEF TypeOK
  <1>4. /\ transactions[t].state = "Committed" /\ transactions[t].ops = run.ops /\ o \in run.ops
        /\ \A n \in run.ops : n.at \in Place
        /\ Working /\ Progress /\ Recorded /\ RecordOK(transactions[t])
    BY <1>1, <1>2, AtWork DEF Working, Tidying
  <1>5. ~MayFail("cleanup")
    BY DEF Careful, MayFail
  <1>6. /\ old' = [old EXCEPT ![o.at] = IF o.op = "Created" THEN @ ELSE None]
        /\ UNCHANGED <<new, transactions, staging>>
    BY <1>5 DEF Cleanup, db
  <1>7. old'[o.at] = None /\ \A at \in Place : at # o.at => old'[at] = old[at]
    BY <1>4, <1>6 DEF RecordOK, TypeOK, FilesOK
  <1>8. RecordOK(transactions[t])'
    BY <1>4, <1>6, <1>7 DEF RecordOK
  <1>9. Recorded'
    BY <1>4, <1>6, <1>7, <1>8, RecordedKept DEF Clean
  <1>10. Working'
    BY <1>1, <1>2, <1>3, <1>4, <1>6 DEF Working, Goes, Before, Forward, Tidying, Back
  <1>11. \A n \in run'.ops \ run'.todo : old'[n.at] = None
    BY <1>1, <1>3, <1>4, <1>7 DEF Goes, Progress, Tidying
  <1>12. Progress'
    BY <1>3, <1>11 DEF Progress, Goes, Forward, Tidying, Back
  <1> QED
    BY <1>9, <1>10, <1>12 DEF CrashInv

LEMMA RemoveStagingCrash ==
  ASSUME TypeOK, Careful, CrashInv, RemoveStaging
  PROVE  CrashInv'
  <1>1. Active /\ run.pc \in {"cleanup", "rollback"} /\ run.todo = {}
    BY DEF RemoveStaging, Active, Tidying, Back
  <1>2. PICK t \in Pending : t = run.tx
    BY <1>1, AtWork
  <1>3. Goes(IF run.pc = "cleanup" THEN "delete" ELSE "forget", run.todo, run.op)
    BY Transitions DEF TypeOK
  <1>4. Working /\ Progress /\ Recorded /\ RecordOK(transactions[t])
    BY <1>1, <1>2, AtWork
  <1>5. ~MayFail("cleanup")
    BY DEF Careful, MayFail
  <1>6. staging' = staging \ {t} /\ UNCHANGED <<old, new, disk, transactions>>
    BY <1>2, <1>5 DEF RemoveStaging, db
  <1>7. RecordOK(transactions[t])' /\ \A at \in Place : Clean(at)' = Clean(at)
    BY <1>4, <1>6 DEF RecordOK, Clean
  <1>8. Recorded'
    BY <1>4, <1>6, <1>7, RecordedKept
  <1>9. \A o : Reverted(o)' = Reverted(o)
    BY <1>6 DEF Reverted, Clean
  <1>10. Working'
    BY <1>1, <1>2, <1>3, <1>4, <1>6, <1>9 DEF Working, Goes, Before, Forward, Tidying, Back
  <1>11. Progress'
    BY <1>1, <1>3, <1>4, <1>6, <1>9 DEF Progress, Goes, Forward, Tidying, Back
  <1> QED
    BY <1>8, <1>10, <1>11 DEF CrashInv

LEMMA DeleteRecordCrash ==
  ASSUME TypeOK, CrashInv, DeleteRecord
  PROVE  CrashInv'
  <1>1. Active /\ run.pc \in {"delete", "forget"}
    BY DEF DeleteRecord, Active, Tidying, Back
  <1>2. PICK t \in Pending : t = run.tx
    BY <1>1, AtWork
  <1>3. /\ Working /\ Progress /\ Recorded /\ RecordOK(transactions[t])
        /\ run.todo = {} /\ t \notin staging /\ t \in Tx
    BY <1>1, <1>2, AtWork DEF Working
  <1>4. \A o \in transactions[t].ops : Clean(o.at)
    <2> SUFFICES ASSUME NEW o \in transactions[t].ops PROVE Clean(o.at)
      OBVIOUS
    <2>1. CASE run.pc = "delete"
      <3>1. o \in run.ops /\ transactions[t].state = "Committed"
        BY <1>2, <1>3, <2>1 DEF Working, Tidying
      <3>2. o.at \in Place
        BY <1>1, <3>1, AtWork
      <3> QED
        BY <1>3, <2>1, <3>1, <3>2 DEF Progress, RecordOK, Tidying, Clean
    <2>2. CASE run.pc = "forget"
      <3>1. o \in run.ops
        BY <1>2, <1>3, <2>2 DEF Working, Back, RecordOK
      <3> QED
        BY <1>3, <2>2, <3>1 DEF Progress, Back, Reverted
    <2> QED
      BY <1>1, <2>1, <2>2
  <1>5. /\ transactions'[t] = None /\ \A u \in Tx : u # t => transactions'[u] = transactions[u]
        /\ UNCHANGED <<old, new, disk, staging>>
    BY <1>2, <1>3 DEF DeleteRecord, TypeOK, TablesOK, fs
  <1>6. Pending' = {} /\ staging' = {} /\ \A at \in Place : Clean(at)'
    BY <1>2, <1>3, <1>4, <1>5 DEF Pending, Recorded, Clean
  <1>7. Recorded'
    BY <1>6 DEF Recorded
  <1>8. ~Active'
    BY Rests DEF DeleteRecord, Active, Before, Forward, Tidying, Back
  <1> QED
    BY <1>7, <1>8 DEF CrashInv

\* The steps of a rollback: each operation ends as Reverted.
LEMMA UndoCrash ==
  ASSUME TypeOK, CrashInv, NEW o \in JournalEntry, Undo(o)
  PROVE  CrashInv'
  <1>1. Active /\ run.pc = "rollback" /\ o \in run.todo
    BY DEF Undo, Active, Back
  <1>2. PICK t \in Pending : t = run.tx
    BY <1>1, AtWork
  <1>3. Goes("undo", run.todo, o)
    BY Transitions DEF TypeOK
  <1>4. /\ o \in run.ops /\ \A n \in run.ops : n.at \in Place
        /\ Working /\ Progress /\ Recorded /\ RecordOK(transactions[t])
    BY <1>1, <1>2, AtWork
  <1>5. /\ new'[o.at] = None /\ \A at \in Place : new'[at] \in {None, new[at]}
        /\ UNCHANGED <<old, disk, transactions, staging>>
    BY <1>4 DEF Undo, TypeOK, FilesOK, db
  <1>6. RecordOK(transactions[t])'
    BY <1>4, <1>5 DEF RecordOK
  <1>7. Recorded'
    BY <1>4, <1>5, <1>6, RecordedKept DEF Clean
  <1>8. \A n \in run.ops : Reverted(n) => Reverted(n)'
    BY <1>4, <1>5 DEF Reverted, Clean
  <1>9. Working'
    BY <1>1, <1>2, <1>3, <1>4, <1>5, <1>8 DEF Working, Goes, Before, Forward, Tidying, Back
  <1>10. Progress'
    BY <1>1, <1>3, <1>4, <1>5, <1>8 DEF Progress, Goes, Forward, Tidying, Back
  <1> QED
    BY <1>7, <1>9, <1>10 DEF CrashInv

LEMMA DiscardCrash ==
  ASSUME TypeOK, CrashInv, Discard
  PROVE  CrashInv'
  <1>1. Active /\ run.pc = "undo"
    BY DEF Discard, Active, Back
  <1>2. PICK t \in Pending : t = run.tx
    BY <1>1, AtWork
  <1>3. /\ Working /\ Progress /\ Recorded /\ RecordOK(transactions[t])
        /\ run.op \in run.todo /\ run.op \in run.ops /\ new[run.op.at] = None
        /\ \A n \in run.ops : n.at \in Place
        /\ \A n, m \in run.ops : n.at = m.at => n = m
    BY <1>1, <1>2, AtWork DEF Working, Progress
  <1>4. PICK o \in run.ops : o = run.op
    BY <1>3
  <1>5. UNCHANGED <<old, new, transactions, staging>> /\ \A at \in Place : disk'[at] \in {None, disk[at]}
    BY <1>3 DEF Discard, TypeOK, FilesOK, db
  <1>6. RecordOK(transactions[t])' /\ \A at \in Place : Clean(at)' = Clean(at)
    BY <1>3, <1>5 DEF RecordOK, Clean
  <1>7. Recorded'
    BY <1>3, <1>5, <1>6, RecordedKept
  <1>8. \A n \in run.ops : Reverted(n) => Reverted(n)'
    BY <1>3, <1>5, <1>6 DEF Reverted
  <1>9. CASE o.op # "Created" /\ old[o.at] # None
    <2>1. Goes("restore", run.todo, run.op)
      BY <1>4, <1>9, Transitions DEF TypeOK
    <2>2. Working'
      BY <1>1, <1>2, <1>3, <1>5, <1>8, <2>1 DEF Working, Goes, Before, Forward, Tidying, Back
    <2>3. Progress'
      BY <1>1, <1>3, <1>4, <1>5, <1>8, <1>9, <2>1 DEF Progress, Goes, Forward, Tidying, Back
    <2> QED
      BY <1>7, <2>2, <2>3 DEF CrashInv
  <1>10. CASE ~(o.op # "Created" /\ old[o.at] # None)
    <2>1. Goes("rollback", run.todo \ {o}, None)
      BY <1>4, <1>10, Transitions DEF TypeOK
    <2>2. old[o.at] = None
      <3>1. CASE transactions[t].ops = run.ops
        BY <1>3, <1>10, <3>1 DEF RecordOK
      <3>2. CASE \A n \in run.ops : Reverted(n)
        BY <3>2 DEF Reverted, Clean
      <3> QED
        BY <1>1, <1>2, <1>3, <3>1, <3>2 DEF Working, Back
    <2>3. o.op = "Created" => disk'[o.at] = None
      BY <1>3, <1>4 DEF Discard, TypeOK, FilesOK
    <2>4. Reverted(o)'
      BY <1>3, <1>4, <1>5, <2>2, <2>3 DEF Reverted, Clean
    <2>5. Working'
      BY <1>1, <1>2, <1>3, <1>5, <1>8, <2>1 DEF Working, Goes, Before, Forward, Tidying, Back
    <2>6. \A n \in run'.ops \ run'.todo : Reverted(n)'
      BY <1>1, <1>3, <1>8, <2>1, <2>4 DEF Goes, Progress, Back
    <2>7. Progress'
      BY <2>1, <2>6 DEF Progress, Goes, Forward, Tidying, Back
    <2> QED
      BY <1>7, <2>5, <2>7 DEF CrashInv
  <1> QED
    BY <1>9, <1>10

LEMMA RestoreCrash ==
  ASSUME TypeOK, CrashInv, Restore
  PROVE  CrashInv'
  <1>1. Active /\ run.pc = "restore"
    BY DEF Restore, Active, Back
  <1>2. PICK t \in Pending : t = run.tx
    BY <1>1, AtWork
  <1>3. /\ Working /\ Progress /\ Recorded /\ RecordOK(transactions[t])
        /\ run.op \in run.todo /\ run.op \in run.ops /\ new[run.op.at] = None
        /\ run.op.op # "Created"
        /\ \A n \in run.ops : n.at \in Place
        /\ \A n, m \in run.ops : n.at = m.at => n = m
    BY <1>1, <1>2, AtWork DEF Working, Progress
  <1>4. PICK o \in run.ops : o = run.op
    BY <1>3
  <1>5. /\ old'[o.at] = None /\ UNCHANGED <<new, transactions, staging>>
        /\ \A at \in Place : at # o.at => disk'[at] = disk[at] /\ old'[at] = old[at]
    BY <1>3, <1>4 DEF Restore, TypeOK, FilesOK, db
  <1>6. RecordOK(transactions[t])' /\ \A at \in Place : Clean(at) => Clean(at)'
    <2>1. \A at \in Place : old'[at] \in {None, old[at]}
      BY <1>5
    <2>2. \A n \in transactions[t].ops : n.at \in Place
      BY RecordTyped DEF JournalEntry
    <2> QED
      BY <1>3, <1>5, <2>1, <2>2 DEF RecordOK, Clean
  <1>7. Recorded'
    BY <1>3, <1>5, <1>6, RecordedKept
  <1>8. \A n \in run.ops : Reverted(n) => Reverted(n)'
    BY <1>3, <1>4, <1>5, <1>6 DEF Reverted
  <1>9. Reverted(o)'
    BY <1>3, <1>4, <1>5 DEF Reverted, Clean
  <1>10. Goes("rollback", run.todo \ {o}, None)
    BY <1>4, Transitions DEF TypeOK
  <1>11. Working'
    BY <1>1, <1>2, <1>3, <1>5, <1>8, <1>10 DEF Working, Goes, Before, Forward, Tidying, Back
  <1>12. \A n \in run'.ops \ run'.todo : Reverted(n)'
    BY <1>1, <1>3, <1>8, <1>9, <1>10 DEF Goes, Progress, Back
  <1>13. Progress'
    BY <1>10, <1>12 DEF Progress, Goes, Forward, Tidying, Back
  <1> QED
    BY <1>7, <1>11, <1>13 DEF CrashInv

\* Recovery takes up the record as it was left.
LEMMA RecoverCrash ==
  ASSUME TypeOK, CrashInv, NEW t \in Tx, Recover(t)
  PROVE  CrashInv'
  <1> DEFINE l == IF transactions[t].state = "Committed" THEN "cleanup" ELSE "rollback"
             ops == transactions[t].ops
  <1>1. t \in Pending /\ UNCHANGED <<old, new, disk, transactions, staging>>
    BY DEF Recover, fs, db
  <1>2. Recorded /\ RecordOK(transactions[t]) /\ transactions[t] # None
        /\ transactions[t].state \in {"Staging", "Applying", "Committed"}
    BY <1>1, RecordTyped DEF CrashInv, Recorded, TransactionRecord
  <1>3. run'.pc = l /\ run'.tx = t /\ run'.ops = ops /\ run'.todo = ops
    BY DEF Recover, Closed
  <1>4. RecordOK(transactions[t])' /\ \A at \in Place : Clean(at)' = Clean(at)
    BY <1>1, <1>2 DEF RecordOK, Clean
  <1>5. Recorded'
    BY <1>1, <1>2, <1>4, RecordedKept
  <1> HIDE DEF ops
  <1>6. Working'
    BY <1>1, <1>2, <1>3 DEF Working, RecordOK, Before, Forward, Tidying, Back, ops
  <1>7. Progress'
    BY <1>3 DEF Progress, Before, Forward, Tidying, Back
  <1> QED
    BY <1>5, <1>6, <1>7 DEF CrashInv

\* A step that fails before the commit leaves the operations as they are.
LEMMA RunFailsCrash ==
  ASSUME TypeOK, Careful, CrashInv, RunFails
  PROVE  CrashInv'
  <1>1. run.pc \in Before \cup Forward /\ Active
    BY DEF RunFails, Fails, MayFail, Careful, Active, Before, Forward
  <1>2. PICK t \in Pending : t = run.tx
    BY <1>1, AtWork
  <1>3. Goes("rollback", run.ops, None)
    BY Transitions DEF TypeOK
  <1>4. Working /\ Progress /\ Recorded /\ RecordOK(transactions[t]) /\ \A n \in run.ops : n.at \in Place
    BY <1>1, <1>2, AtWork
  <1>5. UNCHANGED <<old, new, disk, transactions>> /\ staging' \subseteq staging \cup {t}
    BY <1>2 DEF RunFails, db
  <1>6. RecordOK(transactions[t])' /\ \A at \in Place : Clean(at)' = Clean(at)
    BY <1>4, <1>5 DEF RecordOK, Clean
  <1>7. Recorded'
    BY <1>4, <1>5, <1>6, RecordedKept
  <1>8. run.pc \in Before => \A o \in run.ops : Reverted(o)'
    BY <1>4, <1>5 DEF Working, Progress, Untouched, Reverted, Clean, Before
  <1>9. Working'
    BY <1>1, <1>2, <1>3, <1>4, <1>5, <1>8 DEF Working, Goes, Before, Forward, Tidying, Back
  <1>10. Progress'
    BY <1>3 DEF Progress, Goes, Forward, Tidying, Back
  <1> QED
    BY <1>7, <1>9, <1>10 DEF CrashInv

\* The process closes, opens or is killed: the record stays as it was.
LEMMA RestCrash ==
  ASSUME CrashInv, Open \/ Opened \/ Close \/ RollbackFails \/ RecoveryFails \/ Kill
  PROVE  CrashInv'
  <1>1. UNCHANGED <<old, new, disk, transactions, staging>>
    BY DEF Open, Opened, Close, RollbackFails, RecoveryFails, Kill, fs, db
  <1>2. ~Active'
    BY Rests DEF Open, Opened, Close, RollbackFails, RecoveryFails, Kill, Active, Before, Forward, Tidying, Back
  <1>3. Recorded'
    BY <1>1 DEF CrashInv, Recorded, RecordOK, Clean, Pending
  <1> QED
    BY <1>2, <1>3 DEF CrashInv

\* The user writes at a path, never at its backup.
LEMMA EditCrash ==
  ASSUME CrashInv, NEW p \in Path, NEW c \in {User, None}, Edit(p, c)
  PROVE  CrashInv'
  <1>1. UNCHANGED <<old, new, transactions, staging, run>>
    BY DEF Edit, db
  <1>2. ~Active'
    BY <1>1 DEF Edit, Active, Before, Forward, Tidying, Back
  <1>3. Recorded'
    BY <1>1 DEF CrashInv, Recorded, RecordOK, Clean, Pending
  <1> QED
    BY <1>2, <1>3 DEF CrashInv

\* Every step keeps the crash invariant.
LEMMA NextCrash ==
  ASSUME TypeOK, Careful, CrashInv, [Next]_vars
  PROVE  CrashInv'
  <1>1. CASE UNCHANGED vars
    BY <1>1 DEF vars, fs, db, CrashInv, Recorded, RecordOK, Clean, Pending, Active, Working, Progress, Untouched,
                Applied, Parked, Reverted
  <1>2. CASE Step
    BY <1>2, StageCrash, MakePlanCrash, JournalCrash, RenameCrash, CommitCrash, RemoveStagingCrash,
       DeleteRecordCrash, DiscardCrash, RestoreCrash, RestCrash, ParkCrash, LinkCrash, CleanupCrash, UndoCrash,
       RecoverCrash DEF Step
  <1> QED
    BY <1>1, <1>2, BeginCrash, RunFailsCrash, RestCrash, EditCrash DEF Next

\* There is nothing to recover at first.
LEMMA InitCrash == Init => CrashInv
  BY DEF Init, CrashInv, Recorded, Pending, Clean, Closed, Active, Before, Forward, Tidying, Back

\* Store::open finds whatever a killed process left: a backup, a half-placed
\* file and a staging directory are always named by the one pending record.
THEOREM RecoveryFindsAll == ASSUME Careful PROVE Spec => []LeftoversAreRecorded
  <1>1. Recorded => LeftoversAreRecorded
    BY DEF Recorded, LeftoversAreRecorded, Clean
  <1>2. CrashInv => Recorded
    BY DEF CrashInv
  <1>3. TypeOK /\ CrashInv /\ [Next]_vars => CrashInv'
    BY NextCrash
  <1> QED
    BY <1>1, <1>2, <1>3, InitCrash, TypeCorrect, PTL DEF Spec

-----------------------------------------------------------------------------
(***************************************************************************)
(* PkgStore implements AtomicInstall. The argument follows Settled, what   *)
(* the files come to once recovery has run: every step of a transaction    *)
(* leaves it alone but the commit, which changes it as the plan says.      *)
(***************************************************************************)

\* The files as a crash would leave them.

\* Settled, seen from the one record there is.
SettledAs(r, at) ==
    IF r.state # "Applying" THEN disk[at]
    ELSE IF [op |-> "Created", at |-> at] \in r.ops THEN None
    ELSE IF old[at] # None THEN old[at] ELSE disk[at]

\* The lemma holds in the state before a step and, next, in the one after it.
LEMMA SettledIs ==
  ASSUME Recorded, NEW t \in Pending, NEW at \in Place
  PROVE  Settled(at) = SettledAs(transactions[t], at)
  <1>1. \A u \in Pending : u = t
    BY DEF Recorded
  <1> QED
    BY <1>1 DEF Settled, SettledAs

LEMMA SettledNext ==
  ASSUME Recorded', NEW t, t \in Pending', NEW at \in Place
  PROVE  Settled(at)' = SettledAs(transactions[t], at)'
  <1>1. \A u \in Pending' : u = t
    BY DEF Recorded
  <1> QED
    BY <1>1 DEF Settled, SettledAs

\* With no record, the files are what the disk holds.
LEMMA SettledAtRest ==
  ASSUME NEW at \in Place
  PROVE  /\ Pending = {} => Settled(at) = disk[at]
         /\ Pending' = {} => Settled(at)' = disk'[at]
  BY DEF Settled

\* A created file's operation is the only one at its place.
LEMMA CreatedAt ==
  ASSUME NEW ops \in SUBSET JournalEntry, \A o, n \in ops : o.at = n.at => o = n, NEW o \in ops
  PROVE  [op |-> "Created", at |-> o.at] \in ops <=> o.op = "Created"
  <1>1. o = [op |-> o.op, at |-> o.at]
    BY DEF JournalEntry
  <1> QED
    BY <1>1

Quiet == \A at \in Place : Settled(at)' = Settled(at)

\* Steps that touch neither the records nor what is at the places or backed up.
LEMMA QuietKept ==
  ASSUME UNCHANGED <<disk, old, transactions>>
  PROVE  Quiet
  BY DEF Quiet, Settled, Pending

\* A record that is staging hides nothing.
LEMMA BeginQuiet ==
  ASSUME TypeOK, Careful, CrashInv, NEW q \in Requests, Begin(q)
  PROVE  Quiet
  <1>0. Pending = {} /\ nextTx \in Tx
    BY PkgStoreAssumption DEF Begin, Careful, TypeOK, TablesOK, Tx
  <1>1. PICK t \in Tx : t = nextTx
    BY <1>0
  <1>2. transactions'[t] = [state |-> "Staging", ops |-> {}] /\ disk' = disk
    BY <1>0, <1>1 DEF Begin, TypeOK, TablesOK, fs
  <1>3. [state |-> "Staging", ops |-> {}] # None
    BY PkgStoreAssumption DEF TransactionRecord
  <1>4. t \in Pending' /\ Recorded'
    BY <1>2, <1>3, BeginCrash DEF Pending, CrashInv
  <1>5. ASSUME NEW at \in Place PROVE Settled(at)' = disk'[at]
    <2>1. Settled(at)' = SettledAs(transactions[t], at)'
      BY <1>4, SettledNext
    <2> QED
      BY <1>2, <2>1 DEF SettledAs
  <1> QED
    BY <1>0, <1>2, <1>5, SettledAtRest DEF Quiet

\* When the record becomes applying, nothing was created or backed up yet.
LEMMA JournalQuiet ==
  ASSUME TypeOK, CrashInv, Journal
  PROVE  Quiet
  <1>1. Active /\ run.pc = "journal"
    BY DEF Journal, Active, Before
  <1>2. PICK t \in Pending : t = run.tx
    BY <1>1, AtWork
  <1>3. /\ t \in Tx /\ run.ops \subseteq JournalEntry /\ transactions[t].state = "Staging"
        /\ Recorded /\ RecordOK(transactions[t])
        /\ \A o \in run.ops : Untouched(o) /\ o.at \in Place
    BY <1>1, <1>2, AtWork DEF Working, Progress, Before
  <1>4. transactions'[t] = [state |-> "Applying", ops |-> run.ops] /\ UNCHANGED <<disk, old>>
    BY <1>2, <1>3 DEF Journal, TypeOK, TablesOK, fs
  <1>5. t \in Pending' /\ Recorded'
    BY <1>3, <1>4, JournalCrash, PkgStoreAssumption DEF Pending, CrashInv, TransactionRecord
  <1>6. ASSUME NEW at \in Place PROVE Settled(at)' = disk[at]
    <2>1. old[at] = None
      BY <1>3, <1>2 DEF Recorded, RecordOK, Clean
    <2>2. [op |-> "Created", at |-> at] \in run.ops => disk[at] = None
      BY <1>3 DEF Untouched
    <2>3. Settled(at)' = SettledAs(transactions[t], at)'
      BY <1>5, SettledNext
    <2> QED
      BY <1>4, <2>1, <2>2, <2>3 DEF SettledAs
  <1>7. ASSUME NEW at \in Place PROVE Settled(at) = disk[at]
    BY <1>3, SettledIs DEF SettledAs
  <1> QED
    BY <1>6, <1>7 DEF Quiet

\* A step on the files with the record as it was.
LEMMA QuietAt ==
  ASSUME TypeOK, CrashInv, CrashInv', NEW t \in Pending, UNCHANGED transactions,
         \A at \in Place : SettledAs(transactions[t], at)' = SettledAs(transactions[t], at)
  PROVE  Quiet
  <1>1. Recorded /\ Recorded' /\ t \in Pending'
    BY DEF CrashInv, Pending
  <1> QED
    BY <1>1, SettledIs, SettledNext DEF Quiet

\* Each step of apply and of the rollback changes the disk and the backup so
\* that recovery comes back to the same content.
LEMMA ParkQuiet ==
  ASSUME TypeOK, CrashInv, NEW o \in JournalEntry, Park(o)
  PROVE  Quiet
  <1>1. Active /\ run.pc = "apply" /\ o \in run.todo /\ o.op # "Created"
    BY DEF Park, Active, Forward
  <1>2. PICK t \in Pending : t = run.tx
    BY <1>1, AtWork
  <1>3. /\ transactions[t].ops = run.ops /\ o \in run.ops /\ o.at \in Place
        /\ [op |-> "Created", at |-> o.at] \notin run.ops
    BY <1>1, <1>2, AtWork, CreatedAt DEF Working, Forward
  <1>4. Clean(o.at) /\ disk[o.at] # None
    BY <1>1, AtWork DEF Progress, Untouched, Forward
  <1>5. /\ old'[o.at] = disk[o.at] /\ UNCHANGED transactions
        /\ \A at \in Place : at # o.at => old'[at] = old[at] /\ disk'[at] = disk[at]
    BY <1>3, <1>4 DEF Park, db, TypeOK, FilesOK
  <1>6. transactions[t].state = "Applying"
    BY <1>1, <1>2, AtWork DEF Working, Forward
  <1>7. ASSUME NEW at \in Place PROVE SettledAs(transactions[t], at)' = SettledAs(transactions[t], at)
    BY <1>3, <1>4, <1>5, <1>6 DEF SettledAs, Clean
  <1> QED
    BY <1>5, <1>7, ParkCrash, QuietAt

LEMMA RenameQuiet ==
  ASSUME TypeOK, CrashInv, Rename
  PROVE  Quiet
  <1>1. Active /\ run.pc = "rename"
    BY DEF Rename, Active, Forward
  <1>2. PICK t \in Pending : t = run.tx
    BY <1>1, AtWork
  <1>3. PICK o \in run.ops : o = run.op
    BY <1>1 DEF TypeOK, RunOK
  <1>4. /\ transactions[t].ops = run.ops /\ o.at \in Place /\ transactions[t].state = "Applying"
        /\ [op |-> "Created", at |-> o.at] \in run.ops <=> o.op = "Created"
        /\ Parked(o)
    BY <1>1, <1>2, <1>3, AtWork, CreatedAt DEF Working, Progress, Forward
  <1>5. /\ UNCHANGED <<old, transactions>>
        /\ \A at \in Place : at # o.at => disk'[at] = disk[at]
    BY <1>3, <1>4 DEF Rename, db, TypeOK, FilesOK
  <1>6. ASSUME NEW at \in Place PROVE SettledAs(transactions[t], at)' = SettledAs(transactions[t], at)
    BY <1>4, <1>5 DEF SettledAs, Parked
  <1> QED
    BY <1>5, <1>6, RenameCrash, QuietAt

LEMMA CleanupQuiet ==
  ASSUME TypeOK, Careful, CrashInv, NEW o \in JournalEntry, Cleanup(o)
  PROVE  Quiet
  <1>1. Active /\ run.pc = "cleanup"
    BY DEF Cleanup, Active, Tidying
  <1>2. PICK t \in Pending : t = run.tx
    BY <1>1, AtWork
  <1>3. transactions[t].state = "Committed" /\ UNCHANGED <<disk, transactions>>
    BY <1>1, <1>2, AtWork DEF Working, Tidying, Cleanup, db
  <1>4. ASSUME NEW at \in Place PROVE SettledAs(transactions[t], at)' = SettledAs(transactions[t], at)
    BY <1>3 DEF SettledAs
  <1> QED
    BY <1>3, <1>4, CleanupCrash, QuietAt

LEMMA DiscardQuiet ==
  ASSUME TypeOK, CrashInv, Discard
  PROVE  Quiet
  <1>1. Active /\ run.pc = "undo"
    BY DEF Discard, Active, Back
  <1>2. PICK t \in Pending : t = run.tx
    BY <1>1, AtWork
  <1>3. PICK o \in run.ops : o = run.op
    BY <1>1, AtWork DEF Progress
  <1>4. /\ UNCHANGED <<old, transactions>>
        /\ \A at \in Place : at # o.at => disk'[at] = disk[at]
        /\ o.op # "Created" /\ old[o.at] = None => disk' = disk
    BY <1>1, <1>3, AtWork DEF Discard, db, TypeOK, FilesOK
  <1>5. CASE transactions[t].ops = run.ops /\ transactions[t].state = "Applying"
    <2>1. [op |-> "Created", at |-> o.at] \in run.ops <=> o.op = "Created"
      BY <1>1, <1>3, AtWork, CreatedAt DEF Working
    <2>2. ASSUME NEW at \in Place PROVE SettledAs(transactions[t], at)' = SettledAs(transactions[t], at)
      BY <1>4, <1>5, <2>1 DEF SettledAs
    <2> QED
      BY <1>4, <2>2, DiscardCrash, QuietAt
  <1>6. CASE transactions[t].state = "Staging" /\ \A n \in run.ops : Reverted(n)
    <2>1. \A at \in Place : disk'[at] = disk[at]
      BY <1>1, <1>3, <1>4, <1>6, AtWork DEF Discard, Reverted, Clean, TypeOK, FilesOK
    <2>2. ASSUME NEW at \in Place PROVE SettledAs(transactions[t], at)' = SettledAs(transactions[t], at)
      BY <1>4, <1>6, <2>1 DEF SettledAs
    <2> QED
      BY <1>4, <2>2, DiscardCrash, QuietAt
  <1> QED
    BY <1>1, <1>2, <1>5, <1>6, AtWork DEF Working, Back

LEMMA RestoreQuiet ==
  ASSUME TypeOK, CrashInv, Restore
  PROVE  Quiet
  <1>1. Active /\ run.pc = "restore"
    BY DEF Restore, Active, Back
  <1>2. PICK t \in Pending : t = run.tx
    BY <1>1, AtWork
  <1>3. PICK o \in run.ops : o = run.op /\ o.op # "Created" /\ old[o.at] # None /\ o.at \in Place
    BY <1>1, AtWork DEF Progress
  <1>4. /\ UNCHANGED transactions
        /\ disk'[o.at] = old[o.at] /\ old'[o.at] = None
        /\ \A at \in Place : at # o.at => disk'[at] = disk[at] /\ old'[at] = old[at]
    BY <1>3 DEF Restore, db, TypeOK, FilesOK
  <1>5. transactions[t].ops = run.ops /\ transactions[t].state = "Applying"
    BY <1>1, <1>2, <1>3, AtWork DEF Working, Back, Reverted, Clean
  <1>6. [op |-> "Created", at |-> o.at] \notin run.ops
    BY <1>1, <1>3, AtWork, CreatedAt DEF Working
  <1>7. ASSUME NEW at \in Place PROVE SettledAs(transactions[t], at)' = SettledAs(transactions[t], at)
    BY <1>3, <1>4, <1>5, <1>6 DEF SettledAs
  <1> QED
    BY <1>4, <1>7, RestoreCrash, QuietAt

\* A record goes when the disk is what it would have been restored to.
LEMMA DeleteRecordQuiet ==
  ASSUME TypeOK, CrashInv, DeleteRecord
  PROVE  Quiet
  <1>1. Active /\ run.pc \in {"delete", "forget"}
    BY DEF DeleteRecord, Active, Tidying, Back
  <1>2. PICK t \in Pending : t = run.tx
    BY <1>1, AtWork
  <1>3. Working /\ Progress /\ Recorded /\ run.todo = {} /\ t \in Tx
    BY <1>1, <1>2, AtWork DEF Working
  <1>4. Pending' = {} /\ disk' = disk
    BY <1>2, <1>3 DEF DeleteRecord, Pending, Recorded, TypeOK, TablesOK, fs
  <1>5. ASSUME NEW at \in Place, transactions[t].state = "Applying" PROVE SettledAs(transactions[t], at) = disk[at]
    <2>1. run.pc = "forget" /\ transactions[t].ops = run.ops
      BY <1>1, <1>2, <1>3, <1>5 DEF Working, Tidying, Back
    <2>2. \A o \in run.ops : Reverted(o)
      BY <1>3, <2>1 DEF Progress, Back
    <2>3. old[at] = None
      BY <1>2, <1>3, <2>1, <2>2 DEF Recorded, Reverted, Clean
    <2>4. [op |-> "Created", at |-> at] \in run.ops => disk[at] = None
      BY <2>2 DEF Reverted
    <2> QED
      BY <2>1, <2>3, <2>4 DEF SettledAs
  <1>6. ASSUME NEW at \in Place PROVE Settled(at) = disk[at]
    BY <1>3, <1>5, SettledIs DEF SettledAs
  <1> QED
    BY <1>4, <1>6, SettledAtRest DEF Quiet

-----------------------------------------------------------------------------
\* The plan and the files it is carried out on.

Files == [at \in Place |-> Settled(at)]

\* Lands and Plan, with the files as a parameter.
LandsOn(f, m, p) ==
    <<p, IF tracked[p] # None /\ p \in m.backup /\ f[Own(p)] \notin {None, tracked[p].content}
         THEN "pacnew" ELSE "own">>

PlanOn(f, q) ==
    LET placed  == UNION {{LandsOn(f, m, p) : p \in m.files} : m \in q.install}
        leaving == {p \in Path \ Claimed(q) : /\ f[Own(p)] # None
                                              /\ \E n \in Gone(q) : installed[n] # None /\ p \in installed[n].files}
    IN  {[op |-> IF f[at] # None THEN "Replaced" ELSE "Created", at |-> at] : at \in placed}
          \cup {[op |-> "Removed", at |-> Own(p)] : p \in leaving}

\* Until the commit, the plan is the one made of those files, whatever has been
\* done to the disk.
Planned ==
    /\ run.pc \in {"journal"} \cup Forward =>
         /\ run.ops = PlanOn(Files, run.req)
         /\ \A m \in run.req.install : \A p \in m.files : tracked[p] = None => Files[Own(p)] = None
    /\ run.pc \in Before \cup Forward => \A n \in run.req.remove : installed[n] # None

\* RestAgrees, at every moment.
Agrees == \A p \in Path \ touched : Settled(Own(p)) = IF tracked[p] = None THEN None ELSE tracked[p].content

PromiseInv == OwnersInv /\ CrashInv /\ Planned /\ Agrees

\* Small facts on paths, and on what an unchanged view of the files keeps.
LEMMA OwnIsPlace == \A p \in Path : Own(p) \in Place
  BY DEF Own, Place

LEMMA FilesKept ==
  ASSUME Quiet
  PROVE  Files' = Files
  BY DEF Quiet, Files

LEMMA AgreesKept ==
  ASSUME Agrees, Quiet, UNCHANGED <<tracked, touched>>
  PROVE  Agrees'
  BY OwnIsPlace DEF Agrees, Quiet

\* A step that is quiet keeps the plan.
LEMMA PlannedKept ==
  ASSUME Planned, Quiet, UNCHANGED <<installed, tracked>>,
         run'.pc \in Before \cup Forward => run'.req = run.req /\ run.pc \in Before \cup Forward,
         run'.pc \in {"journal"} \cup Forward => run'.ops = run.ops /\ run.pc \in {"journal"} \cup Forward
  PROVE  Planned'
  <1>1. Files' = Files
    BY FilesKept
  <1>2. ASSUME run'.pc \in {"journal"} \cup Forward
        PROVE  /\ run'.ops = PlanOn(Files, run.req)'
               /\ (\A m \in run.req.install : \A p \in m.files : tracked[p] = None => Files[Own(p)] = None)'
    <2>1. run'.req = run.req /\ run'.ops = PlanOn(Files, run.req)
      BY <1>2 DEF Planned, Before
    <2>2. PlanOn(Files, run.req)' = PlanOn(Files, run.req)
      BY <1>1, <2>1 DEF PlanOn, LandsOn
    <2>3. \A m \in run.req.install : \A p \in m.files : tracked[p] = None => Files[Own(p)] = None
      BY <1>2 DEF Planned
    <2> QED
      BY <1>1, <2>1, <2>2, <2>3 DEF Own
  <1>3. run'.pc \in Before \cup Forward => \A n \in run'.req.remove : installed'[n] # None
    BY DEF Planned
  <1> QED
    BY <1>2, <1>3 DEF Planned

\* The plan is made on a disk that no transaction has touched.
LEMMA MakePlanPlanned ==
  ASSUME TypeOK, CrashInv, Planned, MakePlan
  PROVE  Planned'
  <1>1. Active /\ run.pc = "plan"
    BY DEF MakePlan, Active, Before
  <1>2. PICK t \in Pending : t = run.tx
    BY <1>1, AtWork
  <1>3. ASSUME NEW at \in Place PROVE Settled(at) = disk[at]
    <2>1. Recorded /\ transactions[t].state = "Staging"
      BY <1>1, <1>2, AtWork DEF Working, Before
    <2> QED
      BY <2>1, SettledIs DEF SettledAs
  <1>4. Files = disk
    BY <1>3 DEF Files, TypeOK, FilesOK
  <1>5. Files' = Files
    BY QuietKept, FilesKept DEF MakePlan, fs, db
  <1>6. run'.req = run.req /\ UNCHANGED <<installed, tracked>>
    BY DEF MakePlan, TypeOK, RunOK, Run, db
  <1>7. CASE run'.pc = "rollback"
    BY <1>7 DEF Planned, Before, Forward
  <1>8. CASE run'.pc # "rollback"
    <2>1. /\ run'.ops = Plan(run.req)
          /\ \A m \in run.req.install : \A p \in m.files : ~Collision(run.req, m, p)
      BY <1>8 DEF MakePlan, TypeOK, RunOK, Run
    <2>2. Plan(run.req) = PlanOn(Files, run.req)
      BY <1>4 DEF Plan, PlanOn, Lands, LandsOn
    <2>3. PlanOn(Files, run.req)' = PlanOn(Files, run.req)
      BY <1>5, <1>6 DEF PlanOn, LandsOn
    <2>4. \A m \in run.req.install : \A p \in m.files : tracked[p] = None => Files[Own(p)] = None
      BY <1>4, <2>1 DEF Collision
    <2>5. \A n \in run.req.remove : installed[n] # None
      BY <1>1 DEF Planned, Before
    <2> QED
      BY <1>5, <1>6, <2>1, <2>2, <2>3, <2>4, <2>5 DEF Planned, Own
  <1> QED
    BY <1>7, <1>8

\* A path that a package which goes, or whose next version comes, was shipping.
Lost(q, p) == \E n \in Gone(q) : installed[n] # None /\ p \in installed[n].files

\* What an accepted plan does at one place.
LEMMA PlanAt ==
  ASSUME NEW q \in Requests, NEW f, NEW p \in Path, NEW place, NEW o \in PlanOn(f, q), o.at = <<p, place>>,
         \A m \in q.install : \A x \in m.files : \A k \in q.install : x \in k.files => k = m
  PROVE  IF p \in Claimed(q) THEN o.op # "Removed" /\ o.at = LandsOn(f, Source(q, p), p)
         ELSE o.op = "Removed" /\ o.at = Own(p) /\ Lost(q, p)
  <1> DEFINE placed == UNION {{LandsOn(f, m, x) : x \in m.files} : m \in q.install}
  <1>1. CASE \E at \in placed : o = [op |-> IF f[at] # None THEN "Replaced" ELSE "Created", at |-> at]
    <2>1. o.at \in placed /\ o.op # "Removed"
      BY <1>1
    <2>2. PICK m \in q.install : \E x \in m.files : o.at = LandsOn(f, m, x)
      BY <2>1
    <2>3. p \in m.files /\ o.at = LandsOn(f, m, p)
      BY <2>2 DEF LandsOn
    <2>4. p \in Claimed(q) /\ Source(q, p) = m
      BY <2>2, <2>3, SourceShips DEF Claimed
    <2> QED
      BY <2>1, <2>2, <2>3, <2>4
  <1>2. CASE \E x \in Path \ Claimed(q) : f[Own(x)] # None /\ Lost(q, x) /\ o = [op |-> "Removed", at |-> Own(x)]
    BY <1>2 DEF Own
  <1> QED
    BY <1>1, <1>2 DEF PlanOn, Lost

\* ... and every place it must do something at.
LEMMA PlanCovers ==
  ASSUME NEW q \in Requests, NEW f, NEW p \in Path,
         \A m \in q.install : \A x \in m.files : \A k \in q.install : x \in k.files => k = m
  PROVE  /\ p \in Claimed(q) => \E o \in PlanOn(f, q) : o.at = LandsOn(f, Source(q, p), p)
         /\ p \notin Claimed(q) /\ f[Own(p)] # None /\ Lost(q, p) => \E o \in PlanOn(f, q) : o.at = Own(p)
  <1>1. ASSUME p \in Claimed(q) PROVE \E o \in PlanOn(f, q) : o.at = LandsOn(f, Source(q, p), p)
    <2> DEFINE at == LandsOn(f, Source(q, p), p)
               o == [op |-> IF f[at] # None THEN "Replaced" ELSE "Created", at |-> at]
    <2>1. at \in UNION {{LandsOn(f, m, x) : x \in m.files} : m \in q.install}
      BY <1>1, SourceShips
    <2>2. o \in PlanOn(f, q)
      BY <2>1 DEF PlanOn
    <2> QED
      BY <2>2
  <1>2. ASSUME p \notin Claimed(q), f[Own(p)] # None, Lost(q, p) PROVE \E o \in PlanOn(f, q) : o.at = Own(p)
    <2>1. [op |-> "Removed", at |-> Own(p)] \in PlanOn(f, q)
      BY <1>2 DEF PlanOn, Lost
    <2> QED
      BY <2>1
  <1> QED
    BY <1>1, <1>2

\* What the commit makes of the files.
LEMMA CommitFiles ==
  ASSUME OwnersInv, CrashInv, Planned, Commit, NEW p \in Path, NEW place \in {"own", "pacnew"}
  PROVE  Settled(<<p, place>>)' =
           IF p \in Claimed(run.req)
           THEN IF LandsOn(Files, Source(run.req, p), p) = <<p, place>> THEN Source(run.req, p)
                ELSE Settled(<<p, place>>)
           ELSE IF place = "own" /\ Lost(run.req, p) THEN None ELSE Settled(<<p, place>>)
  <1> DEFINE q == run.req
             at == <<p, place>>
  <1>1. TypeOK /\ Active /\ q \in Requests /\ at \in Place /\ Files[at] = Settled(at) /\ run.pc = "apply"
    BY DEF Commit, Active, Forward, OwnersInv, TypeOK, RunOK, Place, Files
  <1>2. PICK t \in Pending : t = run.tx
    BY <1>1, AtWork
  <1>3. /\ transactions[t].ops = run.ops /\ transactions[t].state = "Applying" /\ t \in Tx
        /\ run.ops \subseteq JournalEntry
        /\ Working /\ Progress /\ Recorded /\ RecordOK(transactions[t])
        /\ \A o \in run.ops : Applied(o)
    BY <1>1, <1>2, AtWork DEF Working, Forward, Progress, Commit
  <1>4. run.ops = PlanOn(Files, q)
    BY <1>1 DEF Planned, Forward
  <1>5. \A m \in q.install : \A x \in m.files : \A k \in q.install : x \in k.files => k = m
    BY <1>1 DEF OwnersInv, Accepted, Forward
  <1>6. Settled(at)' = disk[at]
    <2>1. transactions'[t] = [state |-> "Committed", ops |-> run.ops] /\ disk' = disk
      BY <1>2, <1>3 DEF Commit, fs, OwnersInv, TypeOK, TablesOK
    <2>2. t \in Pending' /\ Recorded'
      BY <1>1, <1>3, <2>1, CommitCrash, PkgStoreAssumption DEF Pending, CrashInv, TransactionRecord
    <2>3. Settled(at)' = SettledAs(transactions[t], at)'
      BY <1>1, <2>2, SettledNext
    <2> QED
      BY <2>1, <2>3 DEF SettledAs
  <1>7. ASSUME \A o \in run.ops : o.at # at PROVE disk[at] = Settled(at)
    <2>1. Settled(at) = SettledAs(transactions[t], at)
      BY <1>1, <1>3, SettledIs
    <2>2. old[at] = None
      BY <1>1, <1>2, <1>3, <1>7 DEF Recorded, Clean
    <2> QED
      BY <1>3, <1>7, <2>1, <2>2 DEF SettledAs
  <1> HIDE DEF at
  <1>8. ASSUME NEW o \in run.ops, o.at = at
        PROVE  disk[at] = IF o.op = "Removed" THEN None ELSE Source(q, p)
    BY <1>3, <1>8 DEF Applied, at
  <1>9. CASE p \in Claimed(q)
    <2>1. CASE LandsOn(Files, Source(q, p), p) = at
      <3>1. PICK o \in run.ops : o.at = at
        BY <1>1, <1>4, <1>5, <1>9, <2>1, PlanCovers
      <3>2. o.op # "Removed"
        BY <1>1, <1>4, <1>5, <1>9, <3>1, PlanAt DEF at
      <3> QED
        BY <1>6, <1>8, <1>9, <2>1, <3>1, <3>2 DEF at
    <2>2. CASE LandsOn(Files, Source(q, p), p) # at
      <3>1. \A o \in run.ops : o.at # at
        BY <1>1, <1>4, <1>5, <1>9, <2>2, PlanAt DEF at
      <3> QED
        BY <1>6, <1>7, <1>9, <2>2, <3>1 DEF at
    <2> QED
      BY <2>1, <2>2
  <1>10. CASE p \notin Claimed(q)
    <2>1. CASE \E o \in run.ops : o.at = at
      <3>1. PICK o \in run.ops : o.at = at
        BY <2>1
      <3>2. o.op = "Removed" /\ o.at = Own(p) /\ Lost(q, p)
        BY <1>1, <1>4, <1>5, <1>10, <3>1, PlanAt DEF at
      <3> QED
        BY <1>6, <1>8, <1>10, <3>1, <3>2 DEF at, Own
    <2>2. CASE \A o \in run.ops : o.at # at
      <3>1. place = "own" /\ Lost(q, p) => Settled(at) = None
        <4> SUFFICES ASSUME place = "own", Lost(q, p), Settled(at) # None PROVE FALSE
          OBVIOUS
        <4>1. at = Own(p) /\ Files[Own(p)] # None
          BY <1>1 DEF at, Own
        <4>2. \E o \in PlanOn(Files, q) : o.at = Own(p)
          BY <1>1, <1>5, <1>10, <4>1, PlanCovers
        <4> QED
          BY <1>4, <2>2, <4>1, <4>2
      <3> QED
        BY <1>6, <1>7, <1>10, <2>2, <3>1 DEF at
    <2> QED
      BY <2>1, <2>2
  <1> QED
    BY <1>9, <1>10

\* A tracked path has one owner, the manifest that its row names.
LEMMA TrackedOwner ==
  ASSUME OwnersInv, NEW p \in Path, tracked[p] # None
  PROVE  /\ tracked[p].owner \in Name /\ installed[tracked[p].owner] # None
         /\ p \in installed[tracked[p].owner].files /\ installed[tracked[p].owner] = tracked[p].content
         /\ \A n \in Name : installed[n] # None /\ p \in installed[n].files => n = tracked[p].owner
  <1>1. tracked[p] \in TrackedRow /\ TrackedExact
    BY DEF OwnersInv, TypeOK, TablesOK
  <1>2. tracked[p].owner \in Name /\ installed[tracked[p].owner] # None /\ p \in installed[tracked[p].owner].files
    BY <1>1 DEF TrackedRow, TrackedExact
  <1>3. tracked[p] = [owner |-> tracked[p].owner, content |-> installed[tracked[p].owner]]
    BY <1>1, <1>2 DEF TrackedExact
  <1>4. ASSUME NEW n \in Name, installed[n] # None /\ p \in installed[n].files PROVE n = tracked[p].owner
    <2>1. tracked[p] = [owner |-> n, content |-> installed[n]]
      BY <1>1, <1>4 DEF TrackedExact
    <2> QED
      BY <2>1
  <1>5. installed[tracked[p].owner] = tracked[p].content
    <2> DEFINE n == tracked[p].owner
               k == installed[n]
    <2>1. tracked[p] = [owner |-> n, content |-> k]
      BY <1>3
    <2> HIDE DEF n, k
    <2>2. tracked[p].content = k
      BY <2>1
    <2> QED
      BY <2>2 DEF n, k
  <1> QED
    BY <1>2, <1>4, <1>5

\* The commit leaves, at each path the user did not touch, what it tracks there.
LEMMA CommitAgrees ==
  ASSUME PromiseInv, Commit
  PROVE  Agrees'
  <1> DEFINE q == run.req
  <1>1. /\ OwnersInv /\ CrashInv /\ Planned /\ Agrees /\ TypeOK /\ TrackedExact
        /\ q \in Requests /\ run.pc = "apply" /\ run.ops = PlanOn(Files, q)
        /\ \A m \in q.install : \A x \in m.files : \A k \in q.install : x \in k.files => k = m
    BY DEF PromiseInv, OwnersInv, TypeOK, RunOK, Forward, Commit, Planned, Accepted
  <1> SUFFICES ASSUME NEW p \in Path, p \notin touched'
               PROVE  Settled(Own(p))' = IF tracked'[p] = None THEN None ELSE tracked'[p].content
    BY DEF Agrees, Own
  <1> DEFINE at == <<p, "own">>
  <1>2. /\ tracked'[p] = IF p \in Claimed(q) THEN TrackedFile(q, p) ELSE IF Freed(q, p) THEN None ELSE tracked[p]
        /\ p \notin touched \/ \E o \in run.ops : o.at = at
    BY DEF Commit, Own
  <1>3. Own(p) = at /\ Own(p) \in Place /\ Files[at] = Settled(at)
    BY DEF Own, Place, Files
  <1>4. p \notin touched => Settled(at) = IF tracked[p] = None THEN None ELSE tracked[p].content
    BY <1>3 DEF Agrees, PromiseInv
  <1>5. Settled(at)' = IF p \in Claimed(q)
                       THEN IF LandsOn(Files, Source(q, p), p) = at THEN Source(q, p) ELSE Settled(at)
                       ELSE IF Lost(q, p) THEN None ELSE Settled(at)
    BY <1>1, CommitFiles
  <1> HIDE DEF at
  <1>6. CASE p \in Claimed(q)
    <2>1. Source(q, p) # None /\ tracked'[p] \in TrackedRow /\ tracked'[p] # None /\ tracked'[p].content = Source(q, p)
      BY <1>1, <1>2, <1>6, SourceShips, PkgStoreAssumption DEF TrackedFile, TrackedRow, Content
    <2>2. LandsOn(Files, Source(q, p), p) = at
      <3>1. CASE \E o \in run.ops : o.at = at
        <4>1. PICK o \in PlanOn(Files, q) : o.at = <<p, "own">>
          BY <1>1, <3>1 DEF at
        <4>2. \A m \in q.install : \A x \in m.files : \A k \in q.install : x \in k.files => k = m
          BY <1>1
        <4>3. o.at = LandsOn(Files, Source(q, p), p)
          <5> HIDE DEF q
          <5> QED
            BY <1>1, <1>6, <4>1, <4>2, PlanAt
        <4> QED
          BY <4>1, <4>3 DEF at
      <3>2. CASE p \notin touched
        BY <1>3, <1>4, <3>2 DEF LandsOn, at
      <3> QED
        BY <1>2, <3>1, <3>2
    <2> QED
      BY <1>3, <1>5, <1>6, <2>1, <2>2
  <1>7. CASE p \notin Claimed(q) /\ Freed(q, p)
    <2>1. Lost(q, p)
      BY <1>7 DEF Freed, Lost
    <2> QED
      BY <1>2, <1>3, <1>5, <1>7, <2>1
  <1>8. CASE p \notin Claimed(q) /\ ~Freed(q, p)
    <2>1. ~Lost(q, p)
      <3> SUFFICES ASSUME NEW n \in Gone(q), installed[n] # None, p \in installed[n].files PROVE FALSE
        BY DEF Lost
      <3>1. n \in Name
        BY <1>1, PkgStoreAssumption DEF Gone
      <3>2. tracked[p] = [owner |-> n, content |-> installed[n]]
        BY <1>1, <3>1 DEF TrackedExact
      <3>3. tracked[p] # None /\ tracked[p].owner = n
        BY <1>1, <3>1, <3>2, PkgStoreAssumption DEF TypeOK, TablesOK, TrackedRow
      <3> QED
        BY <1>8, <3>3 DEF Freed
    <2>2. \A o \in run.ops : o.at # at
      BY <1>1, <1>8, <2>1, PlanAt DEF at
    <2> QED
      BY <1>2, <1>3, <1>4, <1>5, <1>8, <2>1, <2>2
  <1> QED
    BY <1>6, <1>7, <1>8

\* The user's edits, with no record pending.
LEMMA EditFiles ==
  ASSUME TypeOK, NEW p \in Path, NEW c \in {User, None}, Edit(p, c)
  PROVE  \A at \in Place : Settled(at)' = IF at = Own(p) THEN c ELSE Settled(at)
  <1>1. Pending = {} /\ Pending' = {}
    BY DEF Edit, db, Pending
  <1> QED
    BY <1>1, SettledAtRest, OwnIsPlace DEF Edit, TypeOK, FilesOK

LEMMA EditAgrees ==
  ASSUME TypeOK, Agrees, Planned, NEW p \in Path, NEW c \in {User, None}, Edit(p, c)
  PROVE  Agrees' /\ Planned'
  <1>1. ASSUME NEW x \in Path \ touched' PROVE Settled(Own(x))' = Settled(Own(x)) /\ x \notin touched
    <2>1. x # p /\ x \notin touched
      BY <1>1 DEF Edit
    <2>2. Own(x) \in Place /\ Own(x) # Own(p)
      BY <1>1, <2>1 DEF Own, Place
    <2>3. \A at \in Place : at # Own(p) => Settled(at)' = Settled(at)
      BY EditFiles
    <2> DEFINE at == Own(x)
    <2>4. at \in Place /\ at # Own(p)
      BY <2>2
    <2> HIDE DEF at
    <2>5. Settled(at)' = Settled(at)
      BY <2>3, <2>4 DEF at, Own
    <2> QED
      BY <2>1, <2>5 DEF at, Own
  <1>2. Agrees'
    BY <1>1 DEF Agrees, Edit, db
  <1>3. Planned'
    BY DEF Edit, Planned, Before, Forward
  <1> QED
    BY <1>2, <1>3

\* Every step of a transaction but its commit leaves the files alone.
LEMMA StepsQuiet ==
  ASSUME Careful, PromiseInv,
         \/ Step /\ ~Commit
         \/ \E q \in Requests : Begin(q)
         \/ RunFails \/ RollbackFails \/ RecoveryFails \/ Kill
  PROVE  Quiet
  <1>1. TypeOK /\ CrashInv
    BY DEF PromiseInv, OwnersInv
  <1>2. ASSUME \/ Stage \/ MakePlan \/ RemoveStaging \/ Open \/ Opened \/ Close
               \/ \E o \in JournalEntry : Link(o) \/ Undo(o)
               \/ \E t \in Tx : Recover(t)
               \/ RunFails \/ RollbackFails \/ RecoveryFails \/ Kill
        PROVE  Quiet
    BY <1>2, QuietKept
       DEF Stage, MakePlan, RemoveStaging, Open, Opened, Close, Link, Undo, Recover, RunFails, RollbackFails,
           RecoveryFails, Kill, fs, db
  <1> QED
    BY <1>1, <1>2, BeginQuiet, JournalQuiet, ParkQuiet, RenameQuiet, CleanupQuiet, DiscardQuiet, RestoreQuiet,
       DeleteRecordQuiet DEF Step

\* Every step keeps the plan and the agreement.
LEMMA NextPlanned ==
  ASSUME Careful, PromiseInv, [Next]_vars
  PROVE  Planned' /\ Agrees'
  <1>1. TypeOK /\ RunOK /\ CrashInv /\ Planned /\ Agrees /\ OwnersInv
    BY DEF PromiseInv, OwnersInv, TypeOK
  <1>2. ASSUME NEW q \in Requests, Begin(q) PROVE Planned' /\ Agrees'
    <2>1. /\ run'.pc = "stage" /\ run'.req = q /\ UNCHANGED <<installed, tracked, touched>>
          /\ \A n \in q.remove : installed[n] # None
      BY <1>2 DEF Begin, Idle, Closed
    <2>2. Quiet
      BY <1>1, <1>2, BeginQuiet
    <2> QED
      BY <1>1, <2>1, <2>2, AgreesKept DEF Planned, Forward
  <1>3. CASE MakePlan
    <2>1. Quiet /\ UNCHANGED <<tracked, touched>>
      BY <1>3, QuietKept DEF MakePlan, fs, db
    <2> QED
      BY <1>1, <1>3, <2>1, MakePlanPlanned, AgreesKept
  <1>4. CASE Commit
    <2>1. run'.pc = "cleanup"
      BY <1>1, <1>4, Transitions DEF Goes
    <2> QED
      BY <1>4, <2>1, CommitAgrees DEF Planned, Before, Forward
  <1>5. CASE \/ Stage \/ Journal \/ Rename \/ RemoveStaging \/ Discard \/ Restore \/ RunFails
             \/ \E o \in JournalEntry : Park(o) \/ Link(o) \/ Cleanup(o) \/ Undo(o)
    <2>1. UNCHANGED <<installed, tracked, touched>>
      BY <1>5 DEF Stage, Journal, Rename, RemoveStaging, Discard, Restore, RunFails, Park, Link, Cleanup, Undo, db
    <2>2. /\ run'.req = run.req /\ run'.ops = run.ops
          /\ run'.pc \in {"journal"} \cup Forward => run.pc \in {"journal"} \cup Forward
          /\ run'.pc \in Before \cup Forward => run.pc \in Before \cup Forward
      BY <1>1, <1>5, Transitions DEF Goes, Before, Forward, Stage, Journal, Park, Link, Rename
    <2>3. Quiet
      <3>1. ~Commit \/ RunFails
        BY <1>1, <1>5, Transitions DEF Goes, Stage, Journal, Rename, RemoveStaging, Discard, Restore, Commit,
                                       Park, Link, Cleanup, Undo
      <3> QED
        BY <1>5, <3>1, StepsQuiet DEF Step
    <2> QED
      BY <1>1, <2>1, <2>2, <2>3, AgreesKept, PlannedKept
  <1>6. CASE \/ DeleteRecord \/ Open \/ Opened \/ Close \/ RollbackFails \/ RecoveryFails \/ Kill
             \/ \E t \in Tx : Recover(t)
    <2>1. UNCHANGED <<installed, tracked, touched>>
      BY <1>6 DEF DeleteRecord, Open, Opened, Close, RollbackFails, RecoveryFails, Kill, Recover, db
    <2>2. run'.pc \notin Before \cup Forward
      BY <1>6, Rests
         DEF DeleteRecord, Open, Opened, Close, RollbackFails, RecoveryFails, Kill, Recover, Before, Forward, Closed
    <2>3. Quiet
      <3>1. CASE DeleteRecord
        BY <1>1, <3>1, DeleteRecordQuiet
      <3>2. CASE ~DeleteRecord
        BY <1>6, <3>2, QuietKept DEF Open, Opened, Close, RollbackFails, RecoveryFails, Kill, Recover, fs, db
      <3> QED
        BY <3>1, <3>2
    <2> QED
      BY <1>1, <2>1, <2>2, <2>3, AgreesKept DEF Planned, Before
  <1>7. CASE \E p \in Path, c \in {User, None} : Edit(p, c)
    BY <1>1, <1>7, EditAgrees
  <1>8. CASE UNCHANGED vars
    <2>1. Quiet
      BY <1>8, QuietKept DEF vars, fs, db
    <2> QED
      BY <1>1, <1>8, <2>1, AgreesKept, PlannedKept DEF vars, db
  <1> QED
    BY <1>2, <1>3, <1>4, <1>5, <1>6, <1>7, <1>8 DEF Next, Step

\* The invariant of the refinement.
LEMMA InitPromise == Init => PromiseInv
  <1> SUFFICES ASSUME Init PROVE PromiseInv
    OBVIOUS
  <1>1. OwnersInv /\ CrashInv
    BY InitOwners, InitCrash
  <1>2. Planned
    BY DEF Init, Planned, Closed, Before, Forward
  <1>3. Agrees
    BY OwnIsPlace DEF Init, Agrees, Settled, Pending
  <1> QED
    BY <1>1, <1>2, <1>3 DEF PromiseInv

LEMMA NextPromise ==
  ASSUME Careful, PromiseInv, [Next]_vars
  PROVE  PromiseInv'
  BY NextOwners, NextCrash, NextPlanned DEF PromiseInv, OwnersInv

\* Whenever no record is pending, every path the user left alone holds what the
\* database says, after any mix of commits, rollbacks, kills and recoveries.
THEOREM FilesAgree == ASSUME Careful PROVE Spec => []RestAgrees
  <1>1. PromiseInv => RestAgrees
    BY SettledAtRest, OwnIsPlace DEF PromiseInv, Agrees, RestAgrees
  <1> QED
    BY <1>1, InitPromise, NextPromise, PTL DEF Spec

-----------------------------------------------------------------------------
\* The refinement.

\* The owners AtomicInstall reads off the manifests are those of tracked_files.
LEMMA OwnersAre ==
  ASSUME OwnersInv, NEW p \in Path
  PROVE  Promise!Owners(p) = IF tracked[p] = None THEN {} ELSE {tracked[p].owner}
  <1>1. CASE tracked[p] = None
    <2>1. ASSUME NEW n \in Name, installed[n] # None, p \in installed[n].files PROVE FALSE
      <3>1. tracked[p] = [owner |-> n, content |-> installed[n]] /\ tracked[p] \in TrackedRow \cup {None}
        BY <2>1 DEF OwnersInv, TrackedExact, TypeOK, TablesOK
      <3>2. installed[n] \in Manifest
        BY <2>1 DEF OwnersInv, TypeOK, TablesOK
      <3>3. tracked[p] \in TrackedRow
        BY <3>1, <3>2, <2>1 DEF TrackedRow
      <3> QED
        BY <1>1, <3>3, PkgStoreAssumption
    <2> QED
      BY <1>1, <2>1 DEF Promise!Owners
  <1>2. CASE tracked[p] # None
    BY <1>2, TrackedOwner DEF Promise!Owners
  <1> QED
    BY <1>1, <1>2

\* Both start with nothing installed.
LEMMA InitImplements == Init => Promise!Init
  BY DEF Init, Promise!Init, Settled, Pending, Place

\* The commit is the install.
LEMMA CommitInstalls ==
  ASSUME PromiseInv, Commit
  PROVE  Promise!Install(run.req)
  <1> DEFINE q == run.req
  <1>1. /\ OwnersInv /\ CrashInv /\ Planned /\ TypeOK /\ Accepted /\ TrackedExact
        /\ q \in Requests /\ run.pc = "apply"
    BY DEF PromiseInv, OwnersInv, TypeOK, RunOK, Forward, Commit
  <1>2. \A m \in q.install : \A p \in m.files :
          /\ p \in Path
          /\ \A k \in q.install : p \in k.files => k = m
          /\ tracked[p] # None => tracked[p].owner \in {m.name} \cup q.remove
          /\ tracked[p] = None => Files[Own(p)] = None
    BY <1>1, PkgStoreAssumption DEF Accepted, Planned, Forward
  <1>3. ASSUME NEW p \in Path, NEW place \in {"own", "pacnew"}
        PROVE  Files[<<p, place>>] = Settled(<<p, place>>)
    BY DEF Files, Place
  <1>4. ASSUME NEW m \in q.install, NEW p \in m.files
        PROVE  /\ p \in Path
               /\ \A k \in q.install : p \in k.files => k = m
               /\ Promise!Owners(p) \subseteq {m.name} \cup q.remove
               /\ Promise!Owners(p) = {} => Settled(<<p, "own">>) = None
    <2>1. p \in Path /\ \A k \in q.install : p \in k.files => k = m
      BY <1>2
    <2>2. CASE tracked[p] = None
      <3>1. Promise!Owners(p) = {}
        BY <1>1, <2>1, <2>2, OwnersAre
      <3>2. Settled(<<p, "own">>) = None
        BY <1>2, <1>3, <2>1, <2>2 DEF Own
      <3> QED
        BY <2>1, <3>1, <3>2
    <2>3. CASE tracked[p] # None
      <3>1. Promise!Owners(p) = {tracked[p].owner}
        BY <1>1, <2>1, <2>3, OwnersAre
      <3>2. tracked[p].owner \in {m.name} \cup q.remove
        BY <1>2, <2>3
      <3> QED
        BY <2>1, <3>1, <3>2
    <2> QED
      BY <2>2, <2>3
  <1>5. Promise!Possible(q)
    <2>1. \A n \in q.remove : installed[n] # None
      BY <1>1 DEF Planned, Forward
    <2>2. \A p \in Path : Promise!Owners(p) = {} => Files[<<p, "own">>] = Settled(<<p, "own">>)
      BY <1>3
    <2> QED
      BY <1>3, <1>4, <2>1 DEF Promise!Possible, Place
  <1>6. installed' = [n \in Name |->
             IF \E m \in q.install : m.name = n THEN CHOOSE m \in q.install : m.name = n
             ELSE IF n \in q.remove THEN None ELSE installed[n]]
    BY DEF Commit
  <1>7. ASSUME NEW p \in Path, p \in Claimed(q), NEW place \in {"own", "pacnew"}
        PROVE  LandsOn(Files, Source(q, p), p) = <<p, place>>
                 <=> (Promise!Edited(Source(q, p), p) <=> place = "pacnew")
    <2> DEFINE edited == /\ tracked[p] # None /\ p \in Source(q, p).backup
                         /\ Files[Own(p)] \notin {None, tracked[p].content}
    <2>1. Promise!Edited(Source(q, p), p) <=> edited
      <3>1. CASE tracked[p] = None
        BY <1>1, <3>1, OwnersAre DEF Promise!Edited
      <3>2. CASE tracked[p] # None
        <4>1. Promise!Owners(p) = {tracked[p].owner} /\ installed[tracked[p].owner] = tracked[p].content
          BY <1>1, <3>2, OwnersAre, TrackedOwner
        <4>2. Files[Own(p)] = [at \in Path \X {"own", "pacnew"} |-> Settled(at)][<<p, "own">>]
          BY DEF Files, Own, Place
        <4> QED
          BY <3>2, <4>1, <4>2 DEF Promise!Edited, Place
      <3> QED
        BY <3>1, <3>2
    <2>2. LandsOn(Files, Source(q, p), p) = <<p, IF edited THEN "pacnew" ELSE "own">>
      BY DEF LandsOn
    <2> HIDE DEF edited
    <2> QED
      BY <2>1, <2>2
  <1>8. ASSUME NEW p \in Path
        PROVE  Lost(q, p) <=> \E n \in Promise!Owners(p) : n \in q.remove \cup {m.name : m \in q.install}
    <2>1. Gone(q) \subseteq Name
      BY <1>1, PkgStoreAssumption DEF Gone
    <2> QED
      BY <2>1 DEF Lost, Gone, Promise!Owners
  <1>9. Claimed(q) = Promise!Shipped(q)
    BY DEF Claimed, Promise!Shipped
  <1>10. ASSUME NEW p \in Path, NEW place \in {"own", "pacnew"}
         PROVE  Settled(<<p, place>>)' =
                  IF p \in Promise!Shipped(q)
                  THEN IF Promise!Edited(Source(q, p), p) <=> place = "pacnew" THEN Source(q, p)
                       ELSE Settled(<<p, place>>)
                  ELSE IF place = "own" /\ \E n \in Promise!Owners(p) : n \in q.remove \cup {m.name : m \in q.install}
                       THEN None ELSE Settled(<<p, place>>)
    <2>1. Settled(<<p, place>>)' =
            IF p \in Claimed(q)
            THEN IF LandsOn(Files, Source(q, p), p) = <<p, place>> THEN Source(q, p) ELSE Settled(<<p, place>>)
            ELSE IF place = "own" /\ Lost(q, p) THEN None ELSE Settled(<<p, place>>)
      BY <1>1, CommitFiles
    <2> QED
      BY <1>7, <1>8, <1>9, <2>1
  <1> DEFINE After(p, place) ==
               IF p \in Promise!Shipped(q)
               THEN IF Promise!Edited(Source(q, p), p) <=> place = "pacnew" THEN Source(q, p)
                    ELSE Files[<<p, place>>]
               ELSE IF place = "own" /\ \E n \in Promise!Owners(p) : n \in q.remove \cup {m.name : m \in q.install}
                    THEN None ELSE Files[<<p, place>>]
  <1>11. ASSUME NEW at \in Place
         PROVE  Settled(at)' = After(at[1], at[2])
    <2>1. PICK p \in Path, place \in {"own", "pacnew"} : at = <<p, place>>
      BY DEF Place
    <2>2. Settled(<<p, place>>)' = After(p, place)
      BY <1>3, <1>10
    <2> QED
      BY <2>1, <2>2
  <1>12. Files' = [at \in Path \X {"own", "pacnew"} |-> After(at[1], at[2])]
    <2> HIDE DEF After
    <2> QED
      BY <1>11 DEF Files, Place
  <1>13. installed' = [n \in Name |->
             IF \E m \in q.install : m.name = n THEN CHOOSE m \in q.install : m.name = n
             ELSE IF n \in q.remove THEN None ELSE installed[n]] /\ Promise!Possible(q)
    BY <1>5, <1>6
  <1> QED
    BY <1>12, <1>13 DEF Promise!Install, Source, Files

\* The user's edit is the user's edit.
LEMMA EditImplements ==
  ASSUME TypeOK, NEW p \in Path, NEW c \in {User, None}, Edit(p, c)
  PROVE  Promise!Edit(p, c)
  <1>1. \A at \in Place : Settled(at)' = IF at = <<p, "own">> THEN c ELSE Settled(at)
    BY EditFiles DEF Own
  <1>2. Files' = [Files EXCEPT ![<<p, "own">>] = c]
    BY <1>1 DEF Files, Place
  <1>3. installed' = installed
    BY DEF Edit, db
  <1> QED
    BY <1>2, <1>3 DEF Promise!Edit, Files

\* Every step is a step of the abstract specification, or a stutter.
LEMMA NextImplements ==
  ASSUME Careful, PromiseInv, [Next]_vars
  PROVE  [Promise!Next]_<<installed, [at \in Place |-> Settled(at)]>>
  <1>1. CASE Commit
    <2>1. run.req \in Requests
      BY <1>1 DEF Commit, PromiseInv, OwnersInv, TypeOK, RunOK, Forward
    <2> QED
      BY <1>1, <2>1, CommitInstalls DEF Promise!Next
  <1>2. CASE \E p \in Path, c \in {User, None} : Edit(p, c)
    BY <1>2, EditImplements DEF Promise!Next, PromiseInv, OwnersInv
  <1>3. CASE \/ (Step /\ ~Commit) \/ (\E q \in Requests : Begin(q))
             \/ RunFails \/ RollbackFails \/ RecoveryFails \/ Kill
    <2>1. Files' = Files
      BY <1>3, StepsQuiet, FilesKept
    <2>2. installed' = installed
      BY <1>3 DEF Step, Begin, RunFails, RollbackFails, RecoveryFails, Kill, Stage, MakePlan, Journal, Rename,
                  RemoveStaging, DeleteRecord, Discard, Restore, Open, Opened, Close, Park, Link, Cleanup, Undo,
                  Recover, db
    <2> QED
      BY <2>1, <2>2 DEF Files
  <1>4. CASE UNCHANGED vars
    <2>1. Files' = Files
      BY <1>4, QuietKept, FilesKept DEF vars, fs, db
    <2> QED
      BY <1>4, <2>1 DEF vars, db, Files
  <1> QED
    BY <1>1, <1>2, <1>3, <1>4 DEF Next, Step

\* The engine implements the atomic install: seen through what recovery would
\* make of the files, a transaction is one step, at its commit, and every other
\* step of commit, rollback and recovery is invisible.
THEOREM TransactionsAreAtomic == ASSUME Careful PROVE Spec => Atomic
  <1>1. PromiseInv /\ [Next]_vars => [Promise!Next]_<<installed, [at \in Place |-> Settled(at)]>>
    BY NextImplements
  <1>2. PromiseInv /\ [Next]_vars => PromiseInv'
    BY NextPromise
  <1> QED
    BY <1>1, <1>2, InitPromise, InitImplements, PTL DEF Spec, Atomic, Promise!Spec
=============================================================================
