----------------------------- MODULE MCPkgStore -----------------------------
(***************************************************************************)
(* Small instances of PkgStore: three versions of one package, which gain  *)
(* and drop a file, and a package that ships one of their files.           *)
(***************************************************************************)
EXTENDS PkgStore

CONSTANTS a, b, x, y

A1 == [name |-> a, version |-> 1, files |-> {x},    backup |-> {x}]
A2 == [name |-> a, version |-> 2, files |-> {x, y}, backup |-> {x}]
A3 == [name |-> a, version |-> 3, files |-> {y},    backup |-> {}]
B1 == [name |-> b, version |-> 1, files |-> {y},    backup |-> {}]
Manifests == {A1, A2, A3, B1}

Ask(install, remove) == [install |-> install, remove |-> remove]

\* Installs, upgrades, a removal, a takeover of a removed package's file, and
\* a pair that collides when both ship y.
MCRequests == {Ask({A1}, {}), Ask({A2}, {}), Ask({A3}, {}), Ask({A1, B1}, {}), Ask({A2, B1}, {}),
               Ask({B1}, {a}), Ask({}, {a})}
=============================================================================
