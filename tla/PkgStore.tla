------------------------------ MODULE PkgStore ------------------------------
(***************************************************************************)
(* The native install engine (poc/crates/pkg-store): a transaction stages  *)
(* archives, plans, journals the plan, applies it file by file, commits    *)
(* the new state and cleans up. Store::open finishes or undoes what a      *)
(* killed process left behind.                                             *)
(*                                                                         *)
(* A database write transaction and a system call are one action each; the *)
(* process may be killed between any two of them, and any of them may      *)
(* fail. redb locks its file, so there is one process. Directories are     *)
(* left out: the code shares them between packages and ignores leftovers.  *)
(***************************************************************************)
EXTENDS Integers

CONSTANTS
    Name,       \* package names
    Path,       \* paths of files that packages ship
    Manifest,   \* the packages: [name, version, files, backup]; a file's content is its manifest
    Requests,   \* the transactions asked for: manifests to install, names to remove
    Fallible,   \* which calls may fail, see MayFail
    Reopens,    \* whether a caller whose rollback failed opens the store again before it goes on
    MaxTx,      \* bound: transactions begun in a behaviour
    MaxFaults,  \* bound: kills and failed calls in a behaviour
    User,       \* content the user wrote
    None        \* nothing there

Tx      == 1 .. MaxTx
Place   == Path \X {"own", "pacnew"}   \* a path, and path.pacnew
Own(p)  == <<p, "own">>
Content == Manifest \cup {User}

JournalEntry == [op : {"Created", "Replaced", "Removed"}, at : Place]
TransactionRecord == [state : {"Staging", "Applying", "Committed"}, ops : SUBSET JournalEntry]
TrackedRow == [owner : Name, content : Manifest]

\* Transaction::install keeps one manifest of a name; a caller does not
\* remove what it installs.
ASSUME PkgStoreAssumption ==
    /\ \A m \in Manifest : m.name \in Name /\ m.files \subseteq Path /\ m.backup \subseteq m.files
    /\ Requests \subseteq [install : SUBSET Manifest, remove : SUBSET Name]
    /\ \A q \in Requests : \A m \in q.install :
         m.name \notin q.remove /\ \A k \in q.install : k.name = m.name => k = m
    /\ Fallible \subseteq {"run", "rollback", "recovery", "cleanup", "delete"}
    /\ Reopens \in BOOLEAN
    /\ MaxTx \in Nat /\ MaxFaults \in Nat
    /\ User \notin Manifest
    /\ None \notin Content \cup TransactionRecord \cup TrackedRow

VARIABLES
    disk,          \* what is at each place
    old,           \* ... at its .omarchy-old
    new,           \* ... at its .omarchy-new
    staging,       \* the transactions whose staging directory exists
    installed,     \* table installed_packages
    tracked,       \* table tracked_files
    transactions,  \* table transactions
    nextTx,        \* meta: the next transaction id
    run,           \* the process: what it does, and its in-memory record
    touched,       \* history: the paths the user changed since a commit wrote them
    faults         \* kills and failed calls so far

fs   == <<disk, old, new, staging>>
db   == <<installed, tracked, transactions, nextTx>>
vars == <<fs, db, run, touched, faults>>

Closed == [pc |-> "closed", tx |-> 0, req |-> None, ops |-> {}, todo |-> {}, op |-> None,
           recovering |-> FALSE]
Idle   == [Closed EXCEPT !.pc = "open"]

Init ==
    /\ disk = [at \in Place |-> None]
    /\ old = disk /\ new = disk
    /\ staging = {}
    /\ installed = [n \in Name |-> None]
    /\ tracked = [p \in Path |-> None]
    /\ transactions = [t \in Tx |-> None]
    /\ nextTx = 1
    /\ run = Closed
    /\ touched = {}
    /\ faults = 0

Pending == {t \in Tx : transactions[t] # None}
To(label) == run' = [run EXCEPT !.pc = label]

\* A call of kind k may fail, one of
\*   "run"       a step before the commit: on to the rollback
\*   "delete"    the deletion of the record of a committed transaction: likewise
\*   "rollback"  a step of that rollback: the record stays
\*   "recovery"  a step of recovery: Store::open returns the error
\*   "cleanup"   the deletion of a backup or of the staging directory: logged
MayFail(k) == k \in Fallible /\ faults < MaxFaults

-----------------------------------------------------------------------------
(* The plan.                                                               *)

Claimed(q)   == UNION {m.files : m \in q.install}
Source(q, p) == CHOOSE m \in q.install : p \in m.files
Gone(q)      == q.remove \cup {m.name : m \in q.install}

\* Another manifest of the transaction ships the path, a package that stays
\* owns it, or an untracked file is there.
Collision(q, m, p) ==
    \/ \E k \in q.install \ {m} : p \in k.files
    \/ tracked[p] # None /\ tracked[p].owner \notin {m.name} \cup q.remove
    \/ tracked[p] = None /\ disk[Own(p)] # None

\* Mutant: overwrites what the user changed.
LandsOwn(m, p) == Own(p)

\* path.pacnew when it is a config file the user modified.
Lands(m, p) ==
    <<p, IF tracked[p] # None /\ p \in m.backup /\ disk[Own(p)] \notin {None, tracked[p].content}
         THEN "pacnew" ELSE "own">>

Plan(q) ==
    LET placed  == UNION {{Lands(m, p) : p \in m.files} : m \in q.install}
        leaving == {p \in Path \ Claimed(q) : /\ disk[Own(p)] # None
                                              /\ \E n \in Gone(q) : installed[n] # None /\ p \in installed[n].files}
    IN  {[op |-> IF disk[at] # None THEN "Replaced" ELSE "Created", at |-> at] : at \in placed}
          \cup {[op |-> "Removed", at |-> Own(p)] : p \in leaving}

-----------------------------------------------------------------------------
(* Transaction::commit. A failed step goes on with the rollback of the     *)
(* in-memory record's operations.                                          *)

\* The id is taken and the record written in two database transactions; an id
\* taken for nothing is of no consequence.
Begin(q) ==
    /\ run.pc = "open" /\ nextTx <= MaxTx /\ (Reopens => Pending = {})
    /\ \A n \in q.remove : installed[n] # None
    /\ transactions' = [transactions EXCEPT ![nextTx] = [state |-> "Staging", ops |-> {}]]
    /\ nextTx' = nextTx + 1
    /\ run' = [Idle EXCEPT !.pc = "stage", !.tx = nextTx, !.req = q]
    /\ UNCHANGED <<fs, installed, tracked, touched, faults>>

Stage ==
    /\ run.pc = "stage"
    /\ staging' = staging \cup {run.tx}
    /\ To("plan")
    /\ UNCHANGED <<disk, old, new, db, touched, faults>>

MakePlan ==
    /\ run.pc = "plan"
    /\ run' = IF \E m \in run.req.install : \E p \in m.files : Collision(run.req, m, p)
              THEN [run EXCEPT !.pc = "rollback"]
              ELSE [run EXCEPT !.pc = "journal", !.ops = Plan(run.req)]
    /\ UNCHANGED <<fs, db, touched, faults>>

\* Mutant: journals the state without the operations.
JournalNothing ==
    /\ run.pc = "journal"
    /\ transactions' = [transactions EXCEPT ![run.tx] = [state |-> "Applying", ops |-> {}]]
    /\ run' = [run EXCEPT !.pc = "apply", !.todo = run.ops]
    /\ UNCHANGED <<fs, installed, tracked, nextTx, touched, faults>>

Journal ==
    /\ run.pc = "journal"
    /\ transactions' = [transactions EXCEPT ![run.tx] = [state |-> "Applying", ops |-> run.ops]]
    /\ run' = [run EXCEPT !.pc = "apply", !.todo = run.ops]
    /\ UNCHANGED <<fs, installed, tracked, nextTx, touched, faults>>

\* The operations are applied in the order of the file lists; each has a place
\* of its own, and the model takes them in any order.
Done(o) == run' = [run EXCEPT !.pc = "apply", !.todo = @ \ {o}, !.op = None]

\* rename_if_exists to .omarchy-old, which replaces a backup already there.
Park(o) ==
    /\ run.pc = "apply" /\ o \in run.todo /\ o.op # "Created"
    /\ old' = [old EXCEPT ![o.at] = IF disk[o.at] # None THEN disk[o.at] ELSE @]
    /\ disk' = [disk EXCEPT ![o.at] = None]
    /\ IF o.op = "Removed" THEN Done(o) ELSE run' = [run EXCEPT !.pc = "link", !.op = o]
    /\ UNCHANGED <<new, staging, db, touched, faults>>

\* place: a link at .omarchy-new, then the rename over the destination.
Link(o) ==
    /\ \/ run.pc = "apply" /\ o \in run.todo /\ o.op = "Created"
       \/ run.pc = "link" /\ o = run.op
    /\ new' = [new EXCEPT ![o.at] = Source(run.req, o.at[1])]
    /\ run' = [run EXCEPT !.pc = "rename", !.op = o]
    /\ UNCHANGED <<disk, old, staging, db, touched, faults>>

Rename ==
    /\ run.pc = "rename"
    /\ disk' = [disk EXCEPT ![run.op.at] = new[run.op.at]]
    /\ new' = [new EXCEPT ![run.op.at] = None]
    /\ Done(run.op)
    /\ UNCHANGED <<old, staging, db, touched, faults>>

\* The row of a shipped path, also when the file landed beside it.
TrackedFile(q, p) == [owner |-> Source(q, p).name, content |-> Source(q, p)]

\* Mutant: the rows of the previous version stay.
FreedByRemovals(q, p) == tracked[p] # None /\ tracked[p].owner \in q.remove

\* The rows of the previous versions and of the removed packages.
Freed(q, p) == \E n \in Gone(q) : /\ installed[n] # None /\ p \in installed[n].files
                                  /\ tracked[p] # None /\ tracked[p].owner = n

\* commit_state: old rows out, new rows in and the record's state, in one
\* database transaction.
Commit ==
    LET q == run.req
    IN  /\ run.pc = "apply" /\ run.todo = {}
        /\ installed' = [n \in Name |->
             IF \E m \in q.install : m.name = n THEN CHOOSE m \in q.install : m.name = n
             ELSE IF n \in q.remove THEN None ELSE installed[n]]
        /\ tracked' = [p \in Path |->
             IF p \in Claimed(q) THEN TrackedFile(q, p) ELSE IF Freed(q, p) THEN None ELSE tracked[p]]
        /\ transactions' = [transactions EXCEPT ![run.tx] = [state |-> "Committed", ops |-> run.ops]]
        /\ touched' = {p \in touched : \A o \in run.ops : o.at # Own(p)}
        /\ run' = [run EXCEPT !.pc = "cleanup", !.todo = run.ops]
        /\ UNCHANGED <<fs, nextTx, faults>>

\* Deletes the backups; a failure is logged, and the next one tried.
Cleanup(o) ==
    /\ run.pc = "cleanup" /\ o \in run.todo
    /\ \E failed \in BOOLEAN :
         /\ failed => MayFail("cleanup") /\ o.op # "Created"
         /\ old' = [old EXCEPT ![o.at] = IF o.op = "Created" \/ failed THEN @ ELSE None]
         /\ faults' = IF failed THEN faults + 1 ELSE faults
    /\ run' = [run EXCEPT !.todo = @ \ {o}]
    /\ UNCHANGED <<disk, new, staging, db, touched>>

\* The end of a cleanup, where a failure is logged too, and of a rollback.
RemoveStaging ==
    /\ run.pc \in {"cleanup", "rollback"} /\ run.todo = {}
    /\ \E failed \in BOOLEAN :
         /\ failed => run.pc = "cleanup" /\ MayFail("cleanup")
         /\ staging' = IF failed THEN staging ELSE staging \ {run.tx}
         /\ faults' = IF failed THEN faults + 1 ELSE faults
    /\ To(IF run.pc = "cleanup" THEN "delete" ELSE "forget")
    /\ UNCHANGED <<disk, old, new, db, touched>>

\* Mutant: recovery leaves the record.
DeleteOwnRecord ==
    /\ run.pc \in {"delete", "forget"}
    /\ transactions' = [transactions EXCEPT ![run.tx] = IF run.recovering THEN @ ELSE None]
    /\ run' = IF run.recovering THEN [Closed EXCEPT !.pc = "recover"] ELSE Idle
    /\ UNCHANGED <<fs, installed, tracked, nextTx, touched, faults>>

\* delete_record, after the cleanup and after a rollback.
DeleteRecord ==
    /\ run.pc \in {"delete", "forget"}
    /\ transactions' = [transactions EXCEPT ![run.tx] = None]
    /\ run' = IF run.recovering THEN [Closed EXCEPT !.pc = "recover"] ELSE Idle
    /\ UNCHANGED <<fs, installed, tracked, nextTx, touched, faults>>

-----------------------------------------------------------------------------
(* journal::rollback, of the in-memory record or of one found by recover.  *)

Undone == run' = [run EXCEPT !.pc = "rollback", !.todo = @ \ {run.op}, !.op = None]

Undo(o) ==
    /\ run.pc = "rollback" /\ o \in run.todo
    /\ new' = [new EXCEPT ![o.at] = None]
    /\ run' = [run EXCEPT !.pc = "undo", !.op = o]
    /\ UNCHANGED <<disk, old, staging, db, touched, faults>>

\* Mutant: discards what is there although no backup was made of it.
DiscardAll ==
    /\ run.pc = "undo"
    /\ disk' = [disk EXCEPT ![run.op.at] = None]
    /\ IF old[run.op.at] = None THEN Undone ELSE To("restore")
    /\ UNCHANGED <<old, new, staging, db, touched, faults>>

\* A created file goes; another one goes only if its backup is there.
Discard ==
    /\ run.pc = "undo"
    /\ LET o == run.op
       IN  IF o.op # "Created" /\ old[o.at] = None
           THEN Undone /\ UNCHANGED disk
           ELSE /\ disk' = [disk EXCEPT ![o.at] = None]
                /\ IF o.op = "Created" THEN Undone ELSE To("restore")
    /\ UNCHANGED <<old, new, staging, db, touched, faults>>

Restore ==
    /\ run.pc = "restore"
    /\ disk' = [disk EXCEPT ![run.op.at] = old[run.op.at]]
    /\ old' = [old EXCEPT ![run.op.at] = None]
    /\ Undone
    /\ UNCHANGED <<new, staging, db, touched, faults>>

-----------------------------------------------------------------------------
(* Store::open.                                                            *)

Open ==
    /\ run.pc = "closed"
    /\ run' = [Closed EXCEPT !.pc = "recover"]
    /\ UNCHANGED <<fs, db, touched, faults>>

\* The records in the order of their ids: a committed one is cleaned up, an
\* applying one rolled back, one that was staging had no operations yet.
Recover(t) ==
    /\ run.pc = "recover" /\ t \in Pending /\ \A u \in Pending : t <= u
    /\ run' = [Closed EXCEPT !.pc = IF transactions[t].state = "Committed" THEN "cleanup" ELSE "rollback",
                             !.tx = t, !.ops = transactions[t].ops,
                             !.todo = transactions[t].ops, !.recovering = TRUE]
    /\ UNCHANGED <<fs, db, touched, faults>>

Opened ==
    /\ run.pc = "recover" /\ Pending = {}
    /\ run' = Idle
    /\ UNCHANGED <<fs, db, touched, faults>>

\* The store is dropped, between transactions.
Close ==
    /\ run.pc = "open"
    /\ run' = Closed
    /\ UNCHANGED <<fs, db, touched, faults>>

-----------------------------------------------------------------------------
(* Faults, and the user.                                                   *)

\* The steps of Transaction::run that return an error to commit.
Fails == (IF MayFail("run") THEN {"stage", "plan", "journal", "apply", "link", "rename"} ELSE {})
           \cup (IF MayFail("delete") THEN {"delete"} ELSE {})

RunFails ==
    /\ run.pc \in Fails /\ ~run.recovering
    /\ run' = [run EXCEPT !.pc = "rollback", !.todo = run.ops, !.op = None]
    /\ staging' \in {staging, staging \cup {t \in {run.tx} : run.pc = "stage"}}
    /\ faults' = faults + 1
    /\ UNCHANGED <<disk, old, new, db, touched>>

\* RollbackFailed leaves the record, and the store open.
RollbackFails ==
    /\ run.pc \in {"rollback", "undo", "restore", "forget"} /\ ~run.recovering
    /\ MayFail("rollback")
    /\ run' = Idle /\ faults' = faults + 1
    /\ UNCHANGED <<fs, db, touched>>

RecoveryFails ==
    /\ run.pc \in {"rollback", "undo", "restore", "forget", "delete"} /\ run.recovering
    /\ MayFail("recovery")
    /\ run' = Closed /\ faults' = faults + 1
    /\ UNCHANGED <<fs, db, touched>>

\* The process is killed, at any point.
Kill ==
    /\ run.pc # "closed" /\ faults < MaxFaults
    /\ run' = Closed /\ faults' = faults + 1
    /\ UNCHANGED <<fs, db, touched>>

\* The user writes or deletes a file, with no transaction under way.
Edit(p, c) ==
    /\ run.pc \in {"closed", "open"} /\ Pending = {}
    /\ disk' = [disk EXCEPT ![Own(p)] = c]
    /\ touched' = touched \cup {p}
    /\ UNCHANGED <<old, new, staging, db, run, faults>>

Step == \/ Stage \/ MakePlan \/ Journal \/ Rename \/ Commit \/ RemoveStaging \/ DeleteRecord
        \/ Discard \/ Restore \/ Open \/ Opened \/ Close
        \/ \E o \in JournalEntry : Park(o) \/ Link(o) \/ Cleanup(o) \/ Undo(o)
        \/ \E t \in Tx : Recover(t)

Next == \/ Step
        \/ \E q \in Requests : Begin(q)
        \/ RunFails \/ RollbackFails \/ RecoveryFails \/ Kill
        \/ \E p \in Path, c \in {User, None} : Edit(p, c)

\* A process goes on while it is not killed, and opens the store again when it
\* has closed it: a step that can be taken is taken in the end.
Spec == Init /\ [][Next]_vars /\ WF_vars(Step)

-----------------------------------------------------------------------------
(* Properties.                                                             *)

\* Whenever nothing is pending, every path the user left alone holds exactly
\* what the database says: the tracked content, or nothing when no package
\* owns it.
RestAgrees ==
    Pending = {} => \A p \in Path \ touched :
        disk[Own(p)] = IF tracked[p] = None THEN None ELSE tracked[p].content

\* tracked_files is the index of installed_packages: one owner for each path a
\* package ships, and no row for any other path.
TrackedExact ==
    \A p \in Path :
        /\ \A n \in Name : installed[n] # None /\ p \in installed[n].files =>
             tracked[p] = [owner |-> n, content |-> installed[n]]
        /\ tracked[p] # None => LET m == installed[tracked[p].owner] IN m # None /\ p \in m.files

\* A backup, a half-placed file or a staging directory is there only while a
\* record names it, so that Store::open will find it.
LeftoversAreRecorded ==
    /\ \A at \in Place : old[at] # None \/ new[at] # None =>
         \E t \in Pending : \E o \in transactions[t].ops : o.at = at
    /\ staging \subseteq Pending

\* Every transaction is finished or undone in the end, however often the
\* process was killed.
Settles == \A t \in Tx : transactions[t] # None ~> transactions[t] = None

\* What the file system comes to once recovery has undone what is applying.
Settled(at) ==
    IF \E t \in Pending : transactions[t].state = "Applying" /\ [op |-> "Created", at |-> at] \in transactions[t].ops
    THEN None
    ELSE IF old[at] # None /\ \E t \in Pending : transactions[t].state = "Applying"
    THEN old[at] ELSE disk[at]

\* A transaction happens in one step, and the files are what a crash at any
\* point comes back to.
Promise == INSTANCE AtomicInstall WITH files <- [at \in Place |-> Settled(at)]
Atomic  == Promise!Spec
=============================================================================
