---------------------------- MODULE AtomicInstall ----------------------------
(***************************************************************************)
(* What a transaction of the package store promises, with no journal,      *)
(* staging, backups or crashes in sight: the installed packages and the    *)
(* files of the system change together, in one step, or not at all.        *)
(***************************************************************************)
EXTENDS Integers

CONSTANTS Name, Path, Requests, User, None

VARIABLES installed,  \* the manifest installed under each name
          files       \* what is at each path, and at its .pacnew

Shipped(q) == UNION {m.files : m \in q.install}
Owners(p)  == {n \in Name : installed[n] # None /\ p \in installed[n].files}

\* A configuration file (backup) that its owner shipped and the user changed.
Edited(m, p) == /\ p \in m.backup
                /\ \E n \in Owners(p) : files[<<p, "own">>] \notin {None, installed[n]}

\* No path is shipped twice, owned by a package that stays, or the user's own.
Possible(q) ==
    /\ \A n \in q.remove : installed[n] # None
    /\ \A m \in q.install : \A p \in m.files :
         /\ \A k \in q.install : p \in k.files => k = m
         /\ Owners(p) \subseteq {m.name} \cup q.remove
         /\ Owners(p) = {} => files[<<p, "own">>] = None

\* The user's changes to a configuration file are kept, the new version lands
\* beside it; every other shipped file replaces what was there, and what no
\* package ships any longer is gone.
Install(q) ==
    LET new(p) == CHOOSE m \in q.install : p \in m.files
        lost   == {p \in Path : \E n \in Owners(p) : n \in q.remove \cup {m.name : m \in q.install}}
        after(p, place) ==
            IF p \in Shipped(q)
            THEN IF Edited(new(p), p) <=> place = "pacnew" THEN new(p) ELSE files[<<p, place>>]
            ELSE IF place = "own" /\ p \in lost THEN None ELSE files[<<p, place>>]
    IN  /\ Possible(q)
        /\ installed' = [n \in Name |->
             IF \E m \in q.install : m.name = n THEN CHOOSE m \in q.install : m.name = n
             ELSE IF n \in q.remove THEN None ELSE installed[n]]
        /\ files' = [at \in Path \X {"own", "pacnew"} |-> after(at[1], at[2])]

\* The user writes or deletes a file.
Edit(p, c) == files' = [files EXCEPT ![<<p, "own">>] = c] /\ UNCHANGED installed

Init == installed = [n \in Name |-> None] /\ files = [at \in Path \X {"own", "pacnew"} |-> None]

Next == \/ \E q \in Requests : Install(q)
        \/ \E p \in Path, c \in {User, None} : Edit(p, c)

Spec == Init /\ [][Next]_<<installed, files>>
=============================================================================
