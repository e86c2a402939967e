------------------------------- MODULE MCPool -------------------------------
(***************************************************************************)
(* Small instances of PoolObjects and Advisories: the systems they start   *)
(* from.                                                                   *)
(***************************************************************************)
EXTENDS Advisories, TLC

CONSTANTS a1, a2, b1, l1, l2, n1, v1, v2, adv, osv

\* a1 and a2: two builds of one file, of one size. b1: another project's build of
\* the file. l1 and l2: large ones. n1: of no architecture. v1 and v2: versions.
File == {"a-1", "l-1", "n-1", "v-1", "v-2"}
MCNameOf == [f \in File |-> CASE f \in {"v-1", "v-2"} -> "v" [] f = "a-1" -> "a" [] f = "l-1" -> "l" [] OTHER -> "n"]
MCSize == [b \in Build |-> CASE b = l1 -> 2 [] b = l2 -> 3 [] OTHER -> 1]

O(sha, source, arch, file) == [sha |-> sha, source |-> source, arch |-> arch, file |-> file]
R(o, dir) == [sha |-> o.sha, source |-> o.source, arch |-> o.arch, file |-> o.file, dir |-> dir, signed |-> TRUE, whole |-> TRUE]

\* The bucket a system starts with: keys -> builds, all signed.
Places(os) == {packageKey(o) : o \in os} \cup {flatKey(o) : o \in os}
Bucket(os, at) ==
    [objects |-> [k \in Places(os) |-> IF k \in DOMAIN at THEN [bytes |-> at[k], sum |-> at[k] \notin Large] ELSE Absent],
     sigs    |-> [k \in Places(os) |-> IF k \in DOMAIN at THEN at[k] ELSE None]]

System(work, serial, offers, rs, at, rngs, fds, blds) ==
    LET all == offers \cup {O(rs[i].sha, rs[i].source, rs[i].arch, rs[i].file) : i \in DOMAIN rs}
        b   == Bucket(all, at)
    IN  [work |-> work, serial |-> serial, offers |-> offers, rows |-> rs, objects |-> b.objects, sigs |-> b.sigs,
         rings |-> rngs, feeds |-> fds, builds |-> blds]

x == "x86_64"
y == "aarch64"
A1 == O(a1, "extra", x, "a-1")
A2 == O(a2, "extra", x, "a-1")
B1 == O(b1, "packages", x, "a-1")
B2 == O(a2, "packages", x, "a-1")
L1 == O(l1, "extra", x, "l-1")
L2 == O(l2, "extra", x, "l-1")
F1 == O(a1, Factory, x, "a-1")
F2 == O(a2, Factory, x, "a-1")
NX == O(n1, "extra", x, "n-1")
NY == O(n1, "extra", y, "n-1")
V1 == O(v1, "extra", x, "v-1")
V2 == O(v2, "extra", x, "v-2")

Empty == [r \in {"edge"} |-> {}]

\* Rebuilds of a file and of a large one, and a build for both architectures.
Rebuilds == System({"publish"}, TRUE, {A1, A2, L1, L2}, <<>>, <<>>, Empty, {}, <<>>)
Builds   == System({"publish"}, TRUE, {F1, F2, NX, NY}, <<>>, <<>>, Empty, {}, <<>>)

\* Two projects' builds of one file in the flat layout, of which it holds the
\* first, and a large one.
FlatAt == (<<Flat, x, "a-1">> :> a1 @@ <<Flat, x, "l-1">> :> l1)
FlatRows == <<R(A1, "flat"), R(B1, "flat"), R(L1, "flat")>>
Moving(offers) == System({"publish", "relayout"}, TRUE, offers, FlatRows, FlatAt, [r \in {"edge"} |-> {1, 2, 3}], {}, <<>>)

\* A row from before the r2_key column, and one whose object is gone.
Broken == System({"publish", "relayout"}, TRUE, {A1}, <<R(A1, "null"), R(L1, "flat")>>, (<<Flat, x, "a-1">> :> a1),
                 [r \in {"edge"} |-> {1, 2}], {}, <<>>)

\* A package whose old version two rings serve, and the upstream's new one.
VersionAt == (packageKey(V1) :> v1)
Versions(offers) == System({"publish", "security", "visit"}, TRUE, offers, <<R(V1, "own")>>, VersionAt,
                           ("edge" :> {1} @@ "stable" :> {1}), {}, <<>>)

Sealing(blds) == [System({"publish"}, TRUE, {F1, F2}, <<>>, <<>>, Empty, {}, blds) EXCEPT !.offers = {}]

\* Builds of one file: a first attempt of two for review, a second for review,
\* and, beside it, from main.
B(review, bytes) == [review |-> review, bytes |-> bytes, arch |-> x, file |-> "a-1"]
Reviewing == Sealing(<<B(TRUE, {a1, a2}), B(TRUE, {b1})>>)
OnMain(n) == Sealing(<<B(FALSE, {a1}), B(n, {b1})>>)

Passing == {Rebuilds, Builds, Moving({A2, B2, L2}), Broken, Versions({V2}), Reviewing, OnMain(TRUE)}
MCNewer == {<<v1, v2>>}
MCAbout == [a \in Adv |-> "v"]
MCAffects == [a \in Adv |-> IF a = osv THEN {v1} ELSE {v1, v2}]

\* The recipe on main, built twice.
Twice == {OnMain(FALSE)}

\* The systems are of the kind the theorems about rows and objects are about.
ASSUME Ordered == Orderly
=============================================================================
