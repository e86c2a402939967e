----------------------------- MODULE PoolProofs -----------------------------
(***************************************************************************)
(* What a seal says, what the security layer finds, and which bytes a row  *)
(* and pacman find, for every system to start from, every number of jobs,  *)
(* builds, advisories and runs, and every bound. The properties are those  *)
(* of PoolObjects, Seal and Advisories; the system is the whole of         *)
(* Advisories' Spec: publishes and syncs, relayout, factory builds and     *)
(* security runs beside each other.                                        *)
(*                                                                         *)
(* Four invariants. PoolInv: the index only grows and a row keeps its      *)
(* build, so that an id that somebody holds stays the id of the same       *)
(* bytes. SealInv: whatever carries a build for review, or has carried it, *)
(* has its approval behind it. RunInv: where a run is says which of its    *)
(* findings are written, and that nothing else has its stamp. ObjInv,      *)
(* where the system is Orderly: what a publishing job and the relayout     *)
(* have found in bucket and index is still so when they write.             *)
(***************************************************************************)
EXTENDS Advisories, WellFoundedInduction, TLAPS

-----------------------------------------------------------------------------
(* The index.                                                              *)

\* LeastOf is of the set and below the rest of it, whatever the set.
LEMMA Least ==
  ASSUME NEW S \in SUBSET Nat, S # {}
  PROVE  LeastOf(S) \in S /\ \A k \in S : LeastOf(S) <= k
<1> DEFINE R == OpToRel(<, Nat)
<1>1. IsWellFoundedOn(R, Nat)
  BY NatLessThanWellFounded
<1>2. \A k, m \in Nat : k < m => <<k, m>> \in R
  BY DEF OpToRel
<1> HIDE DEF R
<1>3. PICK m \in S : \A k \in S : ~(<<k, m>> \in R)
  BY <1>1, WFMin
<1>4. \A k \in S : m <= k
  <2> TAKE k \in S
  <2>1. k \in Nat /\ m \in Nat /\ ~(k < m)
    BY <1>2, <1>3
  <2> QED
    BY <2>1
<1> QED
  BY <1>3, <1>4 DEF LeastOf

\* Rows are added and change their flags; an id stays the id of its build.
Grown(rs, ss) ==
    /\ rs \in Seq(Row) /\ ss \in Seq(Row)
    /\ DOMAIN rs \subseteq DOMAIN ss
    /\ \A i \in DOMAIN rs : ss[i].sha = rs[i].sha

\* A job that is at work has something to store; the row it is about to pin
\* is in the index, and so is the one whose file list it writes.
Fit(x, rs) ==
    /\ x = [pc |-> x.pc, offer |-> x.offer, row |-> x.row, sha |-> x.sha]
    /\ x.pc # "idle" => x.offer \in Offered
    /\ x.pc = "pin" => x.row \in DOMAIN rs
    /\ x.pc = "rest" => \E i \in DOMAIN rs : rs[i].sha = x.offer.sha

RingsFit(rs) == \A r \in DOMAIN rings : rings[r] \subseteq DOMAIN rs

PoolInv ==
    /\ env \in Deployments
    /\ rows \in Seq(Row)
    /\ RingsFit(rows)
    /\ DOMAIN client = Client
    /\ \A c \in Client : Fit(client[c], rows)

\* What a step of a job leaves alone of it.
core == <<env, rows, rings, client>>

LEMMA Stays ==
  ASSUME NEW rs, rs \in Seq(Row)
  PROVE  Grown(rs, rs)
  BY DEF Grown

\* A row at the end.
LEMMA Appended ==
  ASSUME NEW rs \in Seq(Row), NEW r \in Row
  PROVE  Grown(rs, Append(rs, r)) /\ Append(rs, r)[Len(rs) + 1] = r /\ Len(rs) + 1 \in DOMAIN Append(rs, r)
<1>1. Append(rs, r) \in Seq(Row) /\ Len(Append(rs, r)) = Len(rs) + 1
  OBVIOUS
<1>2. DOMAIN rs = 1 .. Len(rs) /\ DOMAIN Append(rs, r) = 1 .. Len(rs) + 1 /\ Len(rs) \in Nat
  BY <1>1
<1>3. \A i \in DOMAIN rs : Append(rs, r)[i] = rs[i]
  BY <1>2
<1> QED
  BY <1>1, <1>2, <1>3 DEF Grown

\* Other flags, of some rows or of all.
LEMMA Flagged ==
  ASSUME NEW rs \in Seq(Row), NEW ss, DOMAIN ss = DOMAIN rs, ss = [i \in DOMAIN ss |-> ss[i]],
         \A i \in DOMAIN rs : ss[i] \in Row /\ ss[i].sha = rs[i].sha
  PROVE  Grown(rs, ss)
<1>1. DOMAIN rs = 1 .. Len(rs) /\ Len(rs) \in Nat
  OBVIOUS
<1>2. ss \in [1 .. Len(rs) -> Row]
  BY <1>1
<1>3. ss \in Seq(Row)
  BY <1>1, <1>2
<1> QED
  BY <1>3 DEF Grown

\* Growth takes nothing from a job or a ring.
LEMMA FitGrows ==
  ASSUME NEW x, NEW rs, NEW ss, Fit(x, rs), Grown(rs, ss)
  PROVE  Fit(x, ss)
<1>1. \A i \in DOMAIN rs : i \in DOMAIN ss /\ ss[i].sha = rs[i].sha
  BY DEF Grown
<1>2. x.pc = "rest" => \E i \in DOMAIN ss : ss[i].sha = x.offer.sha
  BY <1>1 DEF Fit
<1> QED
  BY <1>1, <1>2 DEF Fit

\* A step of one job is its own step and the growth of the index.
LEMMA OneMoves ==
  ASSUME PoolInv, NEW c \in Client, env' = env, rings' = rings, Grown(rows, rows'),
         DOMAIN client' = Client, \A d \in Client \ {c} : client'[d] = client[d], Fit(client'[c], rows')
  PROVE  PoolInv'
<1>1. rows' \in Seq(Row) /\ DOMAIN rows \subseteq DOMAIN rows'
  BY DEF Grown
<1>2. RingsFit(rows)'
  BY <1>1 DEF PoolInv, RingsFit
<1>3. \A d \in Client : Fit(client'[d], rows')
  <2> TAKE d \in Client
  <2>1. CASE d = c
    BY <2>1
  <2>2. CASE d # c
    <3>1. client'[d] = client[d] /\ Fit(client[d], rows)
      BY <2>2 DEF PoolInv
    <3> QED
      BY <3>1, FitGrows
  <2> QED
    BY <2>1, <2>2
<1>4. env' \in Deployments /\ DOMAIN client' = Client
  BY DEF PoolInv
<1> QED
  BY <1>1, <1>2, <1>3, <1>4 DEF PoolInv

\* A job that gives up has nothing.
LEMMA RestingFits ==
  ASSUME NEW rs
  PROVE  Fit(Resting, rs)
  BY DEF Resting, Fit

-----------------------------------------------------------------------------
(* The steps of a job.                                                     *)

\* Ids of rows are found among the rows.
LEMMA FoundAmongRows ==
  ASSUME PoolInv
  PROVE  /\ Id \in SUBSET Nat
         /\ \A sha : IdsOf(sha) # {} => LeastOf(IdsOf(sha)) \in IdsOf(sha)
         /\ \A o : known(o) # {} => LeastOf(known(o)) \in Id
         /\ \A o : by_filename(o) # 0 => by_filename(o) \in Id
<1>1. Id \in SUBSET Nat
  BY DEF PoolInv, Id
<1>2. ASSUME NEW sha PROVE IdsOf(sha) \in SUBSET Nat /\ IdsOf(sha) \subseteq Id
  BY <1>1 DEF IdsOf
<1>3. ASSUME NEW o PROVE known(o) \in SUBSET Nat /\ known(o) \subseteq Id
  BY <1>2 DEF known
<1>4. ASSUME NEW o PROVE AtPlace(o) \in SUBSET Nat /\ AtPlace(o) \subseteq Id
  BY <1>1 DEF AtPlace
<1>5. ASSUME NEW sha, IdsOf(sha) # {} PROVE LeastOf(IdsOf(sha)) \in IdsOf(sha)
  BY <1>2, <1>5, Least
<1>6. ASSUME NEW o, known(o) # {} PROVE LeastOf(known(o)) \in Id
  <2>1. LeastOf(known(o)) \in known(o)
    BY <1>3, <1>6, Least
  <2> QED
    BY <1>3, <2>1
<1>7. ASSUME NEW o, by_filename(o) # 0 PROVE by_filename(o) \in Id
  <2>1. AtPlace(o) # {} /\ by_filename(o) = LeastOf(AtPlace(o))
    BY <1>7 DEF by_filename
  <2>2. LeastOf(AtPlace(o)) \in AtPlace(o)
    BY <1>4, <2>1, Least
  <2> QED
    BY <1>4, <2>1, <2>2
<1> QED
  BY <1>1, <1>5, <1>6, <1>7

\* A job that asks knows what it will pin.
LEMMA Asks ==
  ASSUME PoolInv, NEW c \in Client, NEW o \in Offered, Ask(c, o)
  PROVE  PoolInv' /\ Grown(rows, rows')
<1>1. Grown(rows, rows') /\ rows' = rows /\ env' = env /\ rings' = rings
  BY Stays DEF Ask, PoolInv
<1> DEFINE Asked(pc, i) == client' = [client EXCEPT ![c] = [pc |-> pc, offer |-> o, row |-> i, sha |-> None]]
<1>2. (\E i \in Id : Asked("pin", i)) \/ Asked("head", 0)
  <2> DEFINE there == by_filename(o)
  <2>1. CASE there # 0 /\ rows[there].sha # o.sha
    <3>1. Asked("pin", there)
      BY <2>1 DEF Ask, Resting
    <3> QED
      BY <2>1, <3>1, FoundAmongRows
  <2>2. CASE ~(there # 0 /\ rows[there].sha # o.sha) /\ known(o) # {}
    <3>1. Asked("pin", LeastOf(known(o)))
      BY <2>2 DEF Ask, Resting
    <3> QED
      BY <2>2, <3>1, FoundAmongRows
  <2>3. CASE ~(there # 0 /\ rows[there].sha # o.sha) /\ known(o) = {}
    BY <2>3 DEF Ask, Resting
  <2> QED
    BY <2>1, <2>2, <2>3
<1>3. DOMAIN client = Client
  BY DEF PoolInv
<1>4. Fit(client'[c], rows')
  <2>1. CASE Asked("head", 0)
    BY <1>3, <2>1 DEF Fit
  <2>2. ASSUME NEW i \in Id, Asked("pin", i) PROVE Fit(client'[c], rows')
    BY <1>1, <1>3, <2>2 DEF Fit, Id
  <2> QED
    BY <1>2, <2>1, <2>2
<1>5. DOMAIN client' = Client /\ \A d \in Client \ {c} : client'[d] = client[d]
  BY <1>2, <1>3
<1> QED
  BY <1>1, <1>4, <1>5, OneMoves

\* A job that goes on to where nothing is asked of it.
LEMMA GoesOn ==
  ASSUME PoolInv, NEW c \in Client, NEW l \in {"put", "sign", "sig", "flag", "index"}, NEW s,
         client[c].pc # "idle", Grown(rows, rows'), env' = env, rings' = rings,
         client' = [client EXCEPT ![c].pc = l, ![c].sha = s]
  PROVE  PoolInv'
<1>1. Fit(client[c], rows) /\ DOMAIN client = Client
  BY DEF PoolInv
<1>2. client'[c] = [pc |-> l, offer |-> client[c].offer, row |-> client[c].row, sha |-> s]
  BY <1>1 DEF Fit
<1>3. Fit(client'[c], rows')
  BY <1>1, <1>2 DEF Fit
<1> QED
  BY <1>1, <1>3, OneMoves

\* The same, of a step that keeps the signature it has.
LEMMA GoesThere ==
  ASSUME PoolInv, NEW c \in Client, NEW l \in {"put", "sign", "sig", "flag", "index"},
         client[c].pc # "idle", Grown(rows, rows'), env' = env, rings' = rings, Goes(c, l)
  PROVE  PoolInv'
<1>1. Fit(client[c], rows) /\ DOMAIN client = Client
  BY DEF PoolInv
<1>2. client'[c] = [pc |-> l, offer |-> client[c].offer, row |-> client[c].row, sha |-> client[c].sha]
  BY <1>1 DEF Fit, Goes
<1>3. Fit(client'[c], rows')
  BY <1>1, <1>2 DEF Fit
<1>4. DOMAIN client' = Client /\ \A d \in Client \ {c} : client'[d] = client[d]
  BY <1>1 DEF Goes
<1> QED
  BY <1>3, <1>4, OneMoves

\* A job that ends, for whatever reason.
LEMMA Ends ==
  ASSUME PoolInv, NEW c \in Client, Grown(rows, rows'), env' = env, rings' = rings, GivesUp(c)
  PROVE  PoolInv'
<1>1. DOMAIN client' = Client /\ \A d \in Client \ {c} : client'[d] = client[d]
  BY DEF PoolInv, GivesUp
<1>2. client'[c] = Resting
  BY DEF PoolInv, GivesUp
<1> QED
  BY <1>1, <1>2, RestingFits, OneMoves

\* A job that has the row it will pin.
LEMMA WillPin ==
  ASSUME PoolInv, NEW c \in Client, NEW i \in Id, client[c].pc # "idle", Grown(rows, rows'),
         env' = env, rings' = rings, Pins(c, i)
  PROVE  PoolInv'
<1>1. Fit(client[c], rows) /\ DOMAIN client = Client
  BY DEF PoolInv
<1>2. client'[c] = [pc |-> "pin", offer |-> client[c].offer, row |-> i, sha |-> client[c].sha]
  BY <1>1 DEF Fit, Pins
<1>3. i \in DOMAIN rows'
  BY DEF Grown, Id
<1>4. Fit(client'[c], rows')
  BY <1>1, <1>2, <1>3 DEF Fit
<1>5. DOMAIN client' = Client /\ \A d \in Client \ {c} : client'[d] = client[d]
  BY <1>1 DEF Pins
<1> QED
  BY <1>4, <1>5, OneMoves

\* The steps that only move the job and the bucket.
LEMMA Uploads ==
  ASSUME PoolInv, NEW c \in Client, FindObject(c) \/ Put(c) \/ Sign(c) \/ PutSig(c)
  PROVE  PoolInv' /\ Grown(rows, rows')
<1>1. Grown(rows, rows') /\ env' = env /\ rings' = rings
  BY Stays DEF FindObject, Put, Sign, PutSig, PoolInv
<1>2. client[c].pc # "idle"
  BY DEF FindObject, Put, Sign, PutSig, At
<1>3. CASE FindObject(c)
  <2>1. PICK l \in {"put", "sign"} : Goes(c, l)
    BY <1>3 DEF FindObject
  <2> QED
    BY <1>1, <1>2, <2>1, GoesThere
<1>4. CASE Put(c)
  BY <1>1, <1>2, <1>4, GoesThere DEF Put
<1>5. CASE Sign(c)
  <2>1. CASE Signable(Offer(c))
    <3>1. PICK s : client' = [client EXCEPT ![c].pc = "sig", ![c].sha = s]
      BY <1>5, <2>1 DEF Sign
    <3> QED
      BY <1>1, <1>2, <3>1, GoesOn
  <2>2. CASE ~Signable(Offer(c))
    BY <1>1, <1>5, <2>2, Ends DEF Sign
  <2> QED
    BY <2>1, <2>2
<1>6. CASE PutSig(c)
  BY <1>1, <1>2, <1>6, GoesThere DEF PutSig
<1> QED
  BY <1>1, <1>3, <1>4, <1>5, <1>6

\* The flag of the rows of a build.
LEMMA FlagGrows ==
  ASSUME PoolInv, NEW c \in Client, Flag(c)
  PROVE  PoolInv' /\ Grown(rows, rows')
<1>1. ASSUME NEW i \in DOMAIN rows
      PROVE  rows'[i] \in Row /\ rows'[i].sha = rows[i].sha
  <2>1. rows[i] \in Row
    BY DEF PoolInv
  <2>2. PICK b \in BOOLEAN : rows'[i] = [rows[i] EXCEPT !.signed = b]
    <3> DEFINE b == rows[i].signed \/ (rows[i].sha = Offer(c).sha /\ rows[i].arch = Offer(c).arch)
    <3>1. rows'[i] = [rows[i] EXCEPT !.signed = b]
      BY DEF Flag, Id
    <3>2. b \in BOOLEAN
      BY <2>1 DEF Row
    <3> QED
      BY <3>1, <3>2
  <2> QED
    BY <2>1, <2>2 DEF Row
<1>2. DOMAIN rows' = DOMAIN rows /\ rows' = [i \in DOMAIN rows' |-> rows'[i]] /\ env' = env /\ rings' = rings
  BY DEF Flag, Id
<1>3. Grown(rows, rows')
  BY <1>1, <1>2, Flagged DEF PoolInv
<1>4. client[c].pc # "idle" /\ Goes(c, "index")
  BY DEF Flag, At
<1> QED
  BY <1>2, <1>3, <1>4, GoesThere

\* A build is refused, or it is in the index already, or it becomes a row.
LEMMA IndexGrows ==
  ASSUME PoolInv, NEW c \in Client, Index(c)
  PROVE  PoolInv' /\ Grown(rows, rows')
<1> DEFINE o == Offer(c)
           refused == ~Fits(o) \/ \E i \in IdsOf(o.sha) : rows[i].arch # o.arch
<1>1. client[c].pc = "index" /\ env' = env /\ rings' = rings /\ o = client[c].offer
  BY DEF Index, At, Offer
<1>2. o \in Offered /\ DOMAIN client = Client /\ Fit(client[c], rows) /\ rows \in Seq(Row)
  BY <1>1 DEF PoolInv, Fit
<1>3. CASE refused
  <2>1. GivesUp(c) /\ rows' = rows
    BY <1>3 DEF Index
  <2>2. Grown(rows, rows')
    BY <1>2, <2>1, Stays
  <2> QED
    BY <1>1, <2>1, <2>2, Ends
<1>4. CASE ~refused /\ IdsOf(o.sha) # {}
  <2>1. Pins(c, LeastOf(IdsOf(o.sha))) /\ rows' = rows
    BY <1>4 DEF Index
  <2>2. LeastOf(IdsOf(o.sha)) \in Id
    BY <1>4, FoundAmongRows DEF IdsOf
  <2>3. Grown(rows, rows')
    BY <1>2, <2>1, Stays
  <2> QED
    BY <1>1, <2>1, <2>2, <2>3, WillPin
<1>5. CASE ~refused /\ IdsOf(o.sha) = {}
  <2> DEFINE r == [sha |-> o.sha, source |-> o.source, arch |-> o.arch, file |-> o.file, dir |-> "own",
                   signed |-> sigs[packageKey(o)] # None, whole |-> FALSE]
  <2>1. rows' = Append(rows, r) /\ Goes(c, "rest")
    BY <1>5 DEF Index
  <2>2. (sigs[packageKey(o)] # None) \in BOOLEAN
    OBVIOUS
  <2>3. r \in Row
    BY <1>2, <2>2 DEF Row, Offered
  <2>4. r.sha = o.sha
    OBVIOUS
  <2> HIDE DEF r
  <2>5. Grown(rows, rows') /\ rows'[Len(rows) + 1] = r /\ Len(rows) + 1 \in DOMAIN rows'
    BY <1>2, <2>1, <2>3, Appended
  <2>6. client'[c] = [pc |-> "rest", offer |-> client[c].offer, row |-> client[c].row, sha |-> client[c].sha]
    BY <1>2, <2>1 DEF Fit, Goes
  <2>7. \E i \in DOMAIN rows' : rows'[i].sha = o.sha
    BY <2>4, <2>5
  <2>8. Fit(client'[c], rows')
    BY <1>1, <1>2, <2>6, <2>7 DEF Fit
  <2>9. DOMAIN client' = Client /\ \A d \in Client \ {c} : client'[d] = client[d]
    BY <1>2, <2>1 DEF Goes
  <2> QED
    BY <1>1, <2>5, <2>8, <2>9, OneMoves
<1> QED
  BY <1>3, <1>4, <1>5

\* The rest of the row, and what is pinned is that row.
LEMMA CompleteGrows ==
  ASSUME PoolInv, NEW c \in Client, Complete(c)
  PROVE  PoolInv' /\ Grown(rows, rows')
<1> DEFINE i == LeastOf(IdsOf(Offer(c).sha))
<1>1. client[c].pc = "rest" /\ env' = env /\ rings' = rings /\ rows' = [rows EXCEPT ![i].whole = TRUE] /\ Pins(c, i)
  BY DEF Complete, At
<1>2. rows \in Seq(Row)
  BY DEF PoolInv
<1>3. \E j \in Id : rows[j].sha = Offer(c).sha
  BY <1>1 DEF PoolInv, Fit, Offer, Id
<1>4. IdsOf(Offer(c).sha) # {}
  BY <1>3 DEF IdsOf
<1>5. i \in Id
  BY <1>4, FoundAmongRows DEF IdsOf
<1> HIDE DEF i
<1>6. ASSUME NEW j \in DOMAIN rows
      PROVE  rows'[j] \in Row /\ rows'[j].sha = rows[j].sha
  <2>1. rows[j] \in Row
    BY <1>2
  <2>2. rows'[j] = rows[j] \/ rows'[j] = [rows[j] EXCEPT !.whole = TRUE]
    BY <1>1
  <2> QED
    BY <2>1, <2>2 DEF Row
<1>7. DOMAIN rows' = DOMAIN rows /\ rows' = [j \in DOMAIN rows' |-> rows'[j]]
  BY <1>1, <1>2
<1>8. Grown(rows, rows')
  BY <1>2, <1>6, <1>7, Flagged
<1> QED
  BY <1>1, <1>5, <1>8, WillPin

\* The release: a row of the index joins the ring.
LEMMA PinKeeps ==
  ASSUME PoolInv, NEW c \in Client, Pin(c)
  PROVE  PoolInv' /\ Grown(rows, rows')
<1>1. rows' = rows /\ env' = env /\ client[c].pc = "pin" /\ GivesUp(c)
  BY DEF Pin, At
<1>2. Grown(rows, rows') /\ rows' \in Seq(Row)
  BY <1>1, Stays DEF PoolInv
<1>3. client[c].row \in DOMAIN rows
  BY <1>1 DEF PoolInv, Fit
<1>4. \A r \in DOMAIN rings' : rings'[r] \subseteq DOMAIN rows
  <2> TAKE r \in DOMAIN rings'
  <2>1. r \in DOMAIN rings /\ rings[r] \subseteq DOMAIN rows
    BY DEF Pin, PoolInv, RingsFit
  <2>2. CASE r = "edge"
    <3>1. rings'[r] = With(rings[r], client[c].row)
      BY <2>1, <2>2 DEF Pin
    <3> QED
      BY <1>3, <2>1, <3>1 DEF With
  <2>3. CASE r # "edge"
    <3>1. rings'[r] = rings[r]
      BY <2>1, <2>3 DEF Pin
    <3> QED
      BY <2>1, <3>1
  <2> QED
    BY <2>2, <2>3
<1>5. DOMAIN client' = Client /\ \A d \in Client : client'[d] = client[d] \/ client'[d] = Resting
  BY <1>1 DEF GivesUp, PoolInv
<1>6. \A d \in Client : Fit(client'[d], rows')
  BY <1>1, <1>5, RestingFits DEF PoolInv
<1>7. env' \in Deployments /\ RingsFit(rows)'
  BY <1>1, <1>4 DEF PoolInv, RingsFit
<1> QED
  BY <1>2, <1>5, <1>6, <1>7 DEF PoolInv

\* A job may end anywhere, and an invocation be asked again.
LEMMA ClientEndsKeeps ==
  ASSUME PoolInv, NEW c \in Client, ClientEnds(c)
  PROVE  PoolInv' /\ Grown(rows, rows')
<1>1. rows' = rows /\ env' = env /\ rings' = rings /\ client[c].pc # "idle"
  BY DEF ClientEnds, At
<1>2. Grown(rows, rows')
  BY <1>1, Stays DEF PoolInv
<1>3. CASE GivesUp(c)
  BY <1>1, <1>2, <1>3, Ends
<1>4. CASE Goes(c, "index")
  BY <1>1, <1>2, <1>4, GoesThere
<1> QED
  BY <1>2, <1>3, <1>4 DEF ClientEnds

\* What is offered is a build at a place.
LEMMA Publishing ==
  ASSUME PoolInv, NEW c \in Client, Publishes(c)
  PROVE  PoolInv' /\ Grown(rows, rows')
<1>1. env.offers \subseteq Offered
  BY PoolAssumption DEF PoolInv
<1>2. ASSUME NEW o \in env.offers, Ask(c, o) PROVE PoolInv' /\ Grown(rows, rows')
  BY <1>1, <1>2, Asks
<1> QED
  BY <1>2, Uploads, FlagGrows, IndexGrows, CompleteGrows, PinKeeps, ClientEndsKeeps DEF Publishes

-----------------------------------------------------------------------------
(* The relayout, and everything.                                           *)

\* The relayout writes where rows point, never which build they are.
LEMMA Relayout ==
  ASSUME PoolInv, Copying \/ MoveEnds
  PROVE  PoolInv' /\ Grown(rows, rows')
<1>1. rows \in Seq(Row)
  BY DEF PoolInv
<1>2. env' = env /\ rings' = rings /\ client' = client
  BY DEF Copying, MoveEnds, CopyPage, CopyObject, CopyPut, CopySides, SetKey, RenderAll, Purge
<1>3. ASSUME CopyPage PROVE Grown(rows, rows')
  <2>1. ASSUME NEW j \in DOMAIN rows
        PROVE  rows'[j] \in Row /\ rows'[j].sha = rows[j].sha
    <3>1. rows[j] \in Row
      BY <1>1
    <3>2. rows'[j] = [rows[j] EXCEPT !.dir = "flat"] \/ rows'[j] = [rows[j] EXCEPT !.dir = rows[j].dir]
      BY <1>3 DEF CopyPage, Id
    <3> QED
      BY <3>1, <3>2 DEF Row
  <2>2. DOMAIN rows' = DOMAIN rows /\ rows' = [j \in DOMAIN rows' |-> rows'[j]]
    BY <1>3 DEF CopyPage, Id
  <2> QED
    BY <1>1, <2>1, <2>2, Flagged
<1>4. ASSUME NEW i \in Id, SetKey(i) PROVE Grown(rows, rows')
  <2>1. ASSUME NEW j \in DOMAIN rows
        PROVE  rows'[j] \in Row /\ rows'[j].sha = rows[j].sha
    <3>1. rows[j] \in Row
      BY <1>1
    <3>2. rows'[j] = rows[j] \/ rows'[j] = [rows[j] EXCEPT !.dir = "own"] \/ rows'[j] = [rows[j] EXCEPT !.dir = "ghost"]
      BY <1>4 DEF SetKey
    <3> QED
      BY <3>1, <3>2 DEF Row
  <2>2. DOMAIN rows' = DOMAIN rows /\ rows' = [j \in DOMAIN rows' |-> rows'[j]]
    BY <1>1, <1>4 DEF SetKey
  <2> QED
    BY <1>1, <2>1, <2>2, Flagged
<1>5. ASSUME rows' = rows PROVE Grown(rows, rows')
  BY <1>1, <1>5, Stays
<1>6. RenderAll \/ MoveEnds \/ (\E i \in Id : CopyObject(i) \/ CopyPut(i) \/ CopySides(i)) \/ (\E a \in move.arches : Purge(a))
        => rows' = rows
  BY DEF MoveEnds, CopyObject, CopyPut, CopySides, RenderAll, Purge
<1>7. Grown(rows, rows')
  BY <1>3, <1>4, <1>5, <1>6 DEF Copying
<1>8. rows' \in Seq(Row) /\ DOMAIN rows \subseteq DOMAIN rows'
  BY <1>7 DEF Grown
<1>9. \A d \in Client : Fit(client'[d], rows')
  BY <1>2, <1>7, FitGrows DEF PoolInv
<1>10. RingsFit(rows)'
  BY <1>2, <1>8 DEF PoolInv, RingsFit
<1> QED
  BY <1>2, <1>7, <1>8, <1>9, <1>10 DEF PoolInv

-----------------------------------------------------------------------------
(* From a project build to its seal.                                       *)

\* A row of build_tasks, and a job with what it carries.
TaskOK(x) == x = [status |-> x.status, holder |-> x.holder, result |-> x.result]
JobOK(x, ts, ok) ==
    /\ x = [build |-> x.build, sha |-> x.sha, pc |-> x.pc]
    /\ x.pc # "none" => x.build \in ts /\ (env.builds[x.build].review => x.build \in ok)

\* A build for review that is done has been approved.
Published(bs, ok) == \A t \in DOMAIN bs : bs[t].status = "done" /\ env.builds[t].review => t \in ok

\* A chain is of a build that ended well, and has its approval.
Sound(chain) == chain.build \in InState("done") /\ (chain.review => chain.approval)

SealInv ==
    /\ DOMAIN builds = DOMAIN env.builds
    /\ \A t \in BuildId : TaskOK(builds[t])
    /\ Published(builds, approved)
    /\ approved \subseteq BuildId
    /\ publish \subseteq approved
    /\ DOMAIN jobs = Client
    /\ \A c \in Client : JobOK(jobs[c], BuildId, approved)
    /\ attested # None => Sound(attested.chain)

\* Tasks are numbered.
LEMMA BuildsAreNumbered ==
  ASSUME PoolInv, SealInv
  PROVE  /\ BuildId = 1 .. Len(env.builds) /\ Len(env.builds) \in Nat
         /\ \A t \in BuildId : env.builds[t] \in [review : BOOLEAN, bytes : SUBSET Build, arch : STRING, file : STRING]
<1> DEFINE R == [review : BOOLEAN, bytes : SUBSET Build, arch : STRING, file : STRING]
           bs == env.builds
<1>1. bs \in Seq(R)
  BY SealAssumption DEF PoolInv
<1>2. BuildId = DOMAIN bs
  BY DEF SealInv, BuildId
<1> HIDE DEF R, bs
<1>3. DOMAIN bs = 1 .. Len(bs) /\ Len(bs) \in Nat /\ \A t \in DOMAIN bs : bs[t] \in R
  BY <1>1
<1>4. BuildId = 1 .. Len(bs) /\ Len(bs) \in Nat /\ \A t \in BuildId : bs[t] \in R
  BY <1>2, <1>3
<1> QED
  BY <1>4 DEF R, bs

\* The last of some tasks is one of them.
LEMMA Last ==
  ASSUME PoolInv, SealInv, NEW S \in SUBSET BuildId, S # {}
  PROVE  (CHOOSE u \in S : \A v \in S : v <= u) \in S
<1> DEFINE n == Len(env.builds)
           T == {n - t : t \in S}
<1>1. BuildId = 1 .. n /\ n \in Nat
  BY BuildsAreNumbered
<1>2. T \in SUBSET Nat /\ T # {}
  <2>1. ASSUME NEW t \in S PROVE n - t \in Nat
    BY <1>1
  <2> QED
    BY <2>1
<1>3. LeastOf(T) \in T /\ \A j \in T : LeastOf(T) <= j
  BY <1>2, Least
<1>4. PICK k \in T : \A j \in T : k <= j
  BY <1>3
<1>5. PICK u \in S : k = n - u
  BY <1>4
<1>6. \A v \in S : v <= u
  <2> TAKE v \in S
  <2>1. n - v \in T
    OBVIOUS
  <2>2. k <= n - v
    BY <1>4, <2>1
  <2> QED
    BY <1>1, <1>5, <2>2
<1> QED
  BY <1>5, <1>6

\* factoryChain tells of a build that ended well and was approved, or of none.
LEMMA ChainsAreSound ==
  ASSUME PoolInv, SealInv, NEW sha, factoryChain(sha) # None
  PROVE  Sound(factoryChain(sha))
<1>1. BuildsOf(sha) # {}
  BY DEF factoryChain
<1>2. BuildsOf(sha) \in SUBSET BuildId
  BY DEF BuildsOf, InState
<1> DEFINE t == CHOOSE u \in BuildsOf(sha) : \A v \in BuildsOf(sha) : v <= u
<1>3. t \in BuildsOf(sha)
  BY <1>1, <1>2, Last
<1>4. factoryChain(sha) = [build |-> t, review |-> env.builds[t].review, approval |-> t \in approved]
  BY <1>1 DEF factoryChain
<1> HIDE DEF t
<1>5. t \in InState("done")
  BY <1>3 DEF BuildsOf
<1>6. env.builds[t].review => t \in approved
  BY <1>5 DEF SealInv, Published, InState, BuildId
<1>7. factoryChain(sha).build = t /\ factoryChain(sha).review = env.builds[t].review
        /\ factoryChain(sha).approval = (t \in approved)
  BY <1>4
<1> QED
  BY <1>5, <1>6, <1>7 DEF Sound

\* What a step leaves to show: tasks that are done stay done, approvals stay.
LEMMA SealStep ==
  ASSUME PoolInv, SealInv, env' = env,
         DOMAIN builds' = DOMAIN builds, \A t \in BuildId : TaskOK(builds'[t]),
         \A t \in InState("done") : builds'[t].status = "done",
         \A t \in BuildId : builds'[t].status = "done" /\ builds[t].status # "done" /\ env.builds[t].review => t \in approved',
         approved \subseteq approved', approved' \subseteq BuildId, publish' \subseteq approved',
         DOMAIN jobs' = Client,
         \A c \in Client : JobOK(jobs'[c], BuildId, approved'),
         attested' = attested \/ (attested' # None => Sound(attested'.chain))
  PROVE  SealInv'
<1>1. BuildId' = BuildId /\ DOMAIN builds' = DOMAIN env'.builds
  BY DEF SealInv, BuildId
<1>2. \A t \in BuildId' : TaskOK(builds[t])'
  BY <1>1 DEF TaskOK
<1>3. Published(builds, approved)'
  <2> SUFFICES ASSUME NEW t \in BuildId, builds'[t].status = "done", env.builds[t].review
               PROVE  t \in approved'
    BY <1>1 DEF Published, BuildId
  <2>1. CASE builds[t].status = "done"
    BY <2>1 DEF SealInv, Published, BuildId
  <2>2. CASE builds[t].status # "done"
    BY <2>2
  <2> QED
    BY <2>1, <2>2
<1>4. \A c \in Client : JobOK(jobs[c], BuildId, approved)'
  BY <1>1 DEF JobOK
<1>5. attested' # None => Sound(attested.chain)'
  <2>1. InState("done") \subseteq InState("done")'
    BY <1>1 DEF InState
  <2>2. attested' # None => Sound(attested'.chain)
    BY DEF SealInv
  <2> QED
    BY <2>1, <2>2 DEF Sound
<1> QED
  BY <1>1, <1>2, <1>3, <1>4, <1>5 DEF SealInv

\* Steps of the queue: none ends a build well.
LEMMA QueueSteps ==
  ASSUME PoolInv, SealInv, NEW t \in BuildId,
         Lapse(t) \/ Reject(t) \/ \E b \in env.builds[t].bytes : Lease(t, b) \/ Staged(t, b)
  PROVE  SealInv' /\ UNCHANGED core
<1>1. UNCHANGED <<core, publish, approved, jobs, attested>>
  BY DEF core, poolVars, bucket, Lapse, Reject, Lease, Staged
<1>2. DOMAIN builds' = DOMAIN builds
  BY DEF Lapse, Reject, Lease, Staged, BuildId
<1>3. ASSUME NEW u \in BuildId
      PROVE  /\ TaskOK(builds'[u])
             /\ builds[u].status = "done" => builds'[u].status = "done"
             /\ builds[u].status # "done" => builds'[u].status # "done"
  <2>1. builds[u] = [status |-> builds[u].status, holder |-> builds[u].holder, result |-> builds[u].result] /\ u \in DOMAIN builds
    BY DEF SealInv, TaskOK, BuildId
  <2>2. CASE Lapse(t)
    <3>1. builds[t].status = "leased" /\ builds' = [builds EXCEPT ![t] = NewBuild]
      BY <2>2 DEF Lapse, InState
    <3> QED
      BY <2>1, <3>1 DEF TaskOK, NewBuild
  <2>3. CASE Reject(t)
    <3>1. builds[t].status = "staged" /\ builds' = [builds EXCEPT ![t].status = "cancelled"]
      BY <2>3 DEF Reject, InState
    <3>2. builds'[u] = IF u = t THEN [builds[u] EXCEPT !.status = "cancelled"] ELSE builds[u]
      BY <2>1, <3>1
    <3> QED
      BY <2>1, <3>1, <3>2 DEF TaskOK
  <2>4. ASSUME NEW b, Lease(t, b)
        PROVE  /\ TaskOK(builds'[u])
               /\ builds[u].status = "done" => builds'[u].status = "done"
               /\ builds[u].status # "done" => builds'[u].status # "done"
    <3>1. builds[t].status = "queued" /\ builds' = [builds EXCEPT ![t].status = "leased", ![t].holder = b]
      BY <2>4 DEF Lease, InState
    <3>2. builds'[u] = IF u = t THEN [status |-> "leased", holder |-> b, result |-> builds[u].result] ELSE builds[u]
      BY <2>1, <3>1
    <3> QED
      BY <2>1, <3>1, <3>2 DEF TaskOK
  <2>5. ASSUME NEW b, Staged(t, b)
        PROVE  /\ TaskOK(builds'[u])
               /\ builds[u].status = "done" => builds'[u].status = "done"
               /\ builds[u].status # "done" => builds'[u].status # "done"
    <3> DEFINE s == IF u < t /\ builds[u].status = "staged" THEN "cancelled" ELSE builds[u].status
    <3>1. builds[t].status = "leased"
      BY <2>5 DEF Staged, Held
    <3>2. CASE u = t
      <4>1. builds'[u] = [status |-> "staged", holder |-> None, result |-> b]
        BY <2>5, <3>2 DEF Staged
      <4> QED
        BY <3>1, <3>2, <4>1 DEF TaskOK
    <3>3. CASE u # t
      <4>1. builds'[u] = [builds[u] EXCEPT !.status = s]
        BY <2>5, <3>3 DEF Staged
      <4>2. builds'[u] = [status |-> s, holder |-> builds[u].holder, result |-> builds[u].result]
        BY <2>1, <4>1
      <4> QED
        BY <4>2 DEF TaskOK
    <3> QED
      BY <3>2, <3>3
  <2> QED
    BY <2>2, <2>3, <2>4, <2>5
<1>4. \A u \in InState("done") : builds'[u].status = "done"
  BY <1>3 DEF InState
<1>5. env' = env /\ approved' = approved /\ publish' = publish /\ jobs' = jobs /\ attested' = attested
  BY <1>1 DEF core
<1> QED
  BY <1>1, <1>2, <1>3, <1>4, <1>5, SealStep DEF SealInv

\* Staging is nobody's approval, and an approval is one.
LEMMA ReviewSteps ==
  ASSUME PoolInv, SealInv, NEW t \in BuildId,
         Approve(t) \/ \E b \in env.builds[t].bytes : StagingPut(t, b) \/ StagingStored(t, b)
  PROVE  SealInv' /\ UNCHANGED core
<1>1. UNCHANGED <<core, builds, jobs, attested>>
  BY DEF core, poolVars, bucket, Approve, StagingPut, StagingStored
<1>2. approved \subseteq approved' /\ approved' \subseteq BuildId /\ publish' \subseteq approved'
  BY DEF Approve, StagingPut, StagingStored, SealInv
<1>3. \A c \in Client : JobOK(jobs'[c], BuildId, approved')
  BY <1>1, <1>2 DEF SealInv, JobOK
<1>4. env' = env /\ builds' = builds /\ jobs' = jobs /\ attested' = attested
  BY <1>1 DEF core
<1> QED
  BY <1>1, <1>2, <1>3, <1>4, SealStep DEF SealInv, InState

\* A job that changes, and nothing of the builds.
LEMMA OneJob ==
  ASSUME PoolInv, SealInv, NEW c \in Client, NEW x, JobOK(x, BuildId, approved), jobs' = [jobs EXCEPT ![c] = x],
         env' = env, builds' = builds, approved' = approved, publish' \subseteq publish,
         attested' = attested \/ (attested' # None => Sound(attested'.chain))
  PROVE  SealInv'
<1>1. DOMAIN jobs' = Client /\ \A d \in Client : jobs'[d] = jobs[d] \/ jobs'[d] = x
  BY DEF SealInv
<1>2. \A d \in Client : JobOK(jobs'[d], BuildId, approved')
  BY <1>1 DEF SealInv
<1>3. publish' \subseteq approved' /\ approved' \subseteq BuildId
  BY DEF SealInv
<1> QED
  BY <1>1, <1>2, <1>3, SealStep DEF SealInv, InState

\* No job carries nothing.
LEMMA NoJobOK == JobOK(NoJob, BuildId, approved)
  BY DEF JobOK, NoJob

\* A job for review carries what is approved.
LEMMA CarryKeeps ==
  ASSUME PoolInv, SealInv, NEW c \in Client, NEW t \in BuildId, NEW b \in env.builds[t].bytes, Carry(c, t, b)
  PROVE  SealInv' /\ PoolInv' /\ Grown(rows, rows')
<1>1. BuildId = 1 .. Len(env.builds) /\ Len(env.builds) \in Nat
  BY BuildsAreNumbered
<1>2. 1 \in BuildId
  BY <1>1
<1>3. env.builds[1].arch \in STRING /\ env.builds[1].file \in STRING /\ b \in Build
  BY <1>2, BuildsAreNumbered
<1>4. Built(b) \in Offered
  <2>1. Built(b) = [sha |-> b, source |-> Factory, arch |-> env.builds[1].arch, file |-> env.builds[1].file]
    BY DEF Built
  <2> QED
    BY <1>3, <2>1 DEF Offered
<1>5. Ask(c, Built(b))
  BY DEF Carry
<1>6. PoolInv' /\ Grown(rows, rows')
  BY <1>4, <1>5, Asks
<1>7. env' = env
  BY <1>5 DEF Ask
<1> DEFINE x == [build |-> t, sha |-> b, pc |-> "carry"]
<1>8. JobOK(x, BuildId, approved)
  <2>1. env.builds[t].review => t \in approved
    BY DEF Carry, SealInv
  <2> QED
    BY <2>1 DEF JobOK
<1>9. jobs' = [jobs EXCEPT ![c] = x] /\ builds' = builds /\ approved' = approved /\ publish' = publish /\ attested' = attested
  BY DEF Carry
<1> HIDE DEF x
<1>10. SealInv'
  BY <1>7, <1>8, <1>9, OneJob
<1> QED
  BY <1>6, <1>10

\* A step of a publish moves its job on, or ends it.
LEMMA AdvanceKeeps ==
  ASSUME PoolInv, SealInv, NEW c \in Client, Advance(c)
  PROVE  SealInv' /\ PoolInv' /\ Grown(rows, rows')
<1>1. PoolInv' /\ Grown(rows, rows')
  BY Publishing DEF Advance
<1>2. env' = env
  BY DEF Advance, Publishes, Ask, FindObject, Put, Sign, PutSig, Flag, Index, Complete, Pin, ClientEnds
<1>3. JobOK(jobs[c], BuildId, approved)
  BY DEF SealInv
<1>4. PICK x \in {jobs[c], [jobs[c] EXCEPT !.pc = "report"], NoJob} :
        jobs' = [jobs EXCEPT ![c] = x] /\ (x = [jobs[c] EXCEPT !.pc = "report"] => jobs[c].pc = "carry" \/ x = jobs[c])
  <2>1. CASE jobs[c].pc # "carry" \/ client'[c] # Resting
    <3>1. jobs' = [jobs EXCEPT ![c] = jobs[c]]
      BY <2>1 DEF Advance
    <3> QED
      BY <3>1
  <2>2. CASE jobs[c].pc = "carry" /\ client'[c] = Resting
    <3>1. jobs' = [jobs EXCEPT ![c] = [jobs[c] EXCEPT !.pc = "report"]] \/ jobs' = [jobs EXCEPT ![c] = NoJob]
      BY <2>2 DEF Advance
    <3> QED
      BY <2>2, <3>1
  <2> QED
    BY <2>1, <2>2
<1>5. JobOK(x, BuildId, approved)
  <2>1. CASE x = NoJob
    BY <2>1, NoJobOK
  <2>2. CASE x = jobs[c]
    BY <1>3, <2>2
  <2>3. CASE x = [jobs[c] EXCEPT !.pc = "report"] /\ jobs[c].pc = "carry"
    <3>1. x = [build |-> jobs[c].build, sha |-> jobs[c].sha, pc |-> "report"]
      BY <1>3, <2>3 DEF JobOK
    <3>2. jobs[c].build \in BuildId /\ (env.builds[jobs[c].build].review => jobs[c].build \in approved)
      BY <1>3, <2>3 DEF JobOK
    <3> QED
      BY <3>1, <3>2 DEF JobOK
  <2> QED
    BY <1>4, <2>1, <2>2, <2>3
<1>6. builds' = builds /\ approved' = approved /\ publish' = publish /\ attested' = attested
  BY DEF Advance
<1>7. SealInv'
  BY <1>2, <1>4, <1>5, <1>6, OneJob
<1> QED
  BY <1>1, <1>7

\* How a job goes on to the attestation.
LEMMA Attesting ==
  ASSUME NEW j, NEW s, NEW y, NEW ts, NEW ok, JobOK(j, ts, ok), j.pc # "none",
         y = [j EXCEPT !.pc = "attest", !.sha = s]
  PROVE  JobOK(y, ts, ok)
<1>1. j = [build |-> j.build, sha |-> j.sha, pc |-> j.pc]
  BY DEF JobOK
<1>2. y = [build |-> j.build, sha |-> s, pc |-> "attest"]
  BY <1>1
<1> QED
  BY <1>2 DEF JobOK

\* A report ends a build that is approved, or one that needs no approval.
LEMMA ReportKeeps ==
  ASSUME PoolInv, SealInv, NEW c \in Client, Report(c)
  PROVE  SealInv' /\ UNCHANGED core
<1> DEFINE t == jobs[c].build
           sha == IF env.builds[t].review \/ jobs[c].sha \in Indexed(jobs[c].sha) THEN jobs[c].sha
                  ELSE CHOOSE s \in Indexed(jobs[c].sha) : TRUE
           ends == IF env.builds[t].review THEN builds[t].status = "staged" ELSE Held(t, jobs[c].sha)
           done == [status |-> "done", holder |-> None, result |-> sha]
<1>1. /\ jobs[c].pc = "report"
      /\ builds' = IF ends THEN [builds EXCEPT ![t] = done] ELSE builds
      /\ jobs' = [jobs EXCEPT ![c] = IF ends \/ env.builds[t].review THEN [jobs[c] EXCEPT !.pc = "attest", !.sha = sha] ELSE NoJob]
      /\ publish' = publish \ {t}
      /\ UNCHANGED <<poolVars, approved, attested>>
  BY DEF Report
<1>2. UNCHANGED core /\ env' = env /\ approved' = approved /\ attested' = attested
  BY <1>1 DEF core, poolVars
<1>3. JobOK(jobs[c], BuildId, approved)
  BY DEF SealInv
<1>4. t \in BuildId /\ (env.builds[t].review => t \in approved)
  BY <1>1, <1>3 DEF JobOK
<1>5. TaskOK(done) /\ done.status = "done"
  BY DEF TaskOK
<1> HIDE DEF ends, done, sha, t
<1>6. PICK y : y = [jobs[c] EXCEPT !.pc = "attest", !.sha = sha]
  OBVIOUS
<1>7. jobs' = [jobs EXCEPT ![c] = y] \/ jobs' = [jobs EXCEPT ![c] = NoJob]
  BY <1>1, <1>6
<1>8. JobOK(y, BuildId, approved)
  <2>1. jobs[c].pc # "none"
    BY <1>1
  <2> QED
    BY <1>3, <1>6, <2>1, Attesting
<1>9. DOMAIN jobs' = Client /\ \A d \in Client : JobOK(jobs'[d], BuildId, approved)
  <2>1. DOMAIN jobs = Client /\ \A d \in Client : JobOK(jobs[d], BuildId, approved)
    BY DEF SealInv
  <2> QED
    BY <1>7, <1>8, <2>1, NoJobOK
<1>10. \A u \in BuildId : builds'[u] = builds[u] \/ (builds'[u] = done /\ u = t)
  BY <1>1 DEF BuildId
<1>11. DOMAIN builds' = DOMAIN builds
  BY <1>1
<1>12. \A u \in BuildId : TaskOK(builds'[u]) /\ (builds[u].status = "done" => builds'[u].status = "done")
  BY <1>5, <1>10 DEF SealInv
<1>13. \A u \in BuildId : builds'[u].status = "done" /\ builds[u].status # "done" /\ env.builds[u].review => u \in approved'
  BY <1>2, <1>4, <1>10
<1>14. \A u \in InState("done") : builds'[u].status = "done"
  BY <1>12 DEF InState
<1>15. approved \subseteq approved' /\ approved' \subseteq BuildId /\ publish' \subseteq approved'
  BY <1>1, <1>2 DEF SealInv
<1>16. SealInv'
  BY <1>2, <1>9, <1>11, <1>12, <1>13, <1>14, <1>15, SealStep
<1> QED
  BY <1>2, <1>16

\* An attestation is of a sound chain, and stays one.
LEMMA AttestKeeps ==
  ASSUME PoolInv, SealInv, NEW c \in Client, Attest(c) \/ AttestLost(c)
  PROVE  SealInv' /\ UNCHANGED core
<1>1. UNCHANGED core /\ env' = env /\ jobs' = [jobs EXCEPT ![c] = NoJob]
        /\ builds' = builds /\ approved' = approved /\ publish' = publish
  BY DEF core, poolVars, bucket, Attest, AttestLost
<1>2. attested' = attested \/ \E sha : attested' = [sha |-> sha, chain |-> factoryChain(sha)] /\ factoryChain(sha) # None
  BY DEF Attest, AttestLost
<1>3. attested' = attested \/ Sound(attested'.chain)
  <2>1. ASSUME NEW sha, attested' = [sha |-> sha, chain |-> factoryChain(sha)], factoryChain(sha) # None
        PROVE  Sound(attested'.chain)
    <3>1. attested'.chain = factoryChain(sha)
      BY <2>1
    <3> QED
      BY <2>1, <3>1, ChainsAreSound
  <2> QED
    BY <1>2, <2>1
<1> QED
  BY <1>1, <1>3, OneJob, NoJobOK

\* Steps that leave a module's state alone.
LEMMA PoolStays ==
  ASSUME PoolInv, UNCHANGED core
  PROVE  PoolInv' /\ Grown(rows, rows')
<1>1. env' = env /\ rows' = rows /\ rings' = rings /\ client' = client
  BY DEF core
<1>2. Grown(rows, rows')
  BY <1>1, Stays DEF PoolInv
<1>3. RingsFit(rows)'
  BY <1>1 DEF PoolInv, RingsFit
<1> QED
  BY <1>1, <1>2, <1>3 DEF PoolInv

LEMMA SealStays ==
  ASSUME SealInv, env' = env, UNCHANGED sealVars
  PROVE  SealInv'
<1>1. builds' = builds /\ approved' = approved /\ publish' = publish /\ jobs' = jobs /\ attested' = attested
  BY DEF sealVars
<1>2. BuildId' = BuildId /\ InState("done")' = InState("done") /\ Published(builds, approved)'
  BY <1>1 DEF SealInv, BuildId, InState, Published
<1>3. \A c \in Client : JobOK(jobs[c], BuildId, approved)'
  BY <1>1, <1>2 DEF SealInv, JobOK
<1>4. attested' # None => Sound(attested.chain)'
  BY <1>1, <1>2 DEF SealInv, Sound
<1>5. \A t \in BuildId' : TaskOK(builds[t])'
  BY <1>1, <1>2 DEF SealInv, TaskOK
<1>6. DOMAIN builds' = DOMAIN env'.builds /\ approved' \subseteq BuildId' /\ publish' \subseteq approved' /\ DOMAIN jobs' = Client
  BY <1>1, <1>2 DEF SealInv
<1> QED
  BY <1>2, <1>3, <1>4, <1>5, <1>6 DEF SealInv

\* Everything that happens below the security layer.
LEMMA BelowSecurity ==
  ASSUME PoolInv, SealInv, SealNext
  PROVE  SealInv' /\ PoolInv' /\ Grown(rows, rows')
<1>1. ASSUME NEW t \in BuildId, Lapse(t) \/ Approve(t) \/ Reject(t)
      PROVE  SealInv' /\ UNCHANGED core
  BY <1>1, QueueSteps, ReviewSteps
<1>2. ASSUME NEW t \in BuildId, NEW b \in env.builds[t].bytes, Lease(t, b) \/ StagingPut(t, b) \/ StagingStored(t, b) \/ Staged(t, b)
      PROVE  SealInv' /\ UNCHANGED core
  BY <1>2, QueueSteps, ReviewSteps
<1>3. ASSUME NEW c \in Client, Report(c) \/ Attest(c) \/ AttestLost(c)
      PROVE  SealInv' /\ UNCHANGED core
  BY <1>3, ReportKeeps, AttestKeeps
<1>4. ASSUME SealInv' /\ UNCHANGED core
      PROVE  SealInv' /\ PoolInv' /\ Grown(rows, rows')
  BY <1>4, PoolStays
<1>5. ASSUME NEW c \in Client, Advance(c) \/ \E t \in BuildId : \E b \in env.builds[t].bytes : Carry(c, t, b)
      PROVE  SealInv' /\ PoolInv' /\ Grown(rows, rows')
  BY <1>5, AdvanceKeeps, CarryKeeps
<1>6. ASSUME Copying \/ MoveEnds, UNCHANGED sealVars
      PROVE  SealInv' /\ PoolInv' /\ Grown(rows, rows')
  <2>1. PoolInv' /\ Grown(rows, rows')
    BY <1>6, Relayout
  <2>2. env' = env
    BY <1>6 DEF Copying, MoveEnds, CopyPage, CopyObject, CopyPut, CopySides, SetKey, RenderAll, Purge
  <2> QED
    BY <1>6, <2>1, <2>2, SealStays
<1> QED
  BY <1>1, <1>2, <1>3, <1>4, <1>5, <1>6 DEF SealNext

-----------------------------------------------------------------------------
(* A run of the security job.                                              *)

\* What the index says of a finding.
StatusIn(rs, m) == IF rs[m[1]].sha \in Affects[m[2]] THEN "vulnerable" ELSE "fixed"

\* The findings of S are in the index, as the run x made them.
Made(x, S, ms, rs) == \A m \in S : m \in DOMAIN ms /\ ms[m] = [at |-> x.at, status |-> StatusIn(rs, m)]

\* What has the stamp of x is a finding of x.
OwnStamps(x, ms) == \A m \in DOMAIN ms : ms[m].at = x.at => m \in x.found

\* Every finding of x has its advisory, with the stamp of x.
Backed(x, av) == \A m \in x.found : av[m[2]] = x.at

\* How far the run x is, with matches ms, advisories av and rows rs after n
\* runs.
Doing(x, ms, av, rs, n) ==
    /\ x = [pc |-> x.pc, at |-> x.at, feed |-> x.feed, objects |-> x.objects, found |-> x.found, left |-> x.left, picks |-> x.picks]
    /\ x.pc # "idle" => x.at = n
    /\ x.pc = "match" => x.feed \subseteq Adv /\ x.objects \subseteq DOMAIN rs
    /\ x.found \subseteq (DOMAIN rs) \X Adv
    /\ x.pc \in {"match", "advisories"} => \A m \in DOMAIN ms : ms[m].at # x.at
    /\ x.pc = "advisories" => \A m \in x.found : m[2] \in x.left \/ av[m[2]] = x.at
    /\ x.pc \in {"matches", "prune", "pruneAdvisories", "view", "pin"} => Backed(x, av)
    /\ x.pc = "matches" => OwnStamps(x, ms) /\ x.left \subseteq x.found /\ Made(x, x.found \ x.left, ms, rs)
    /\ x.pc = "prune" => OwnStamps(x, ms) /\ Made(x, x.found, ms, rs)
    /\ x.pc \in {"pruneAdvisories", "view", "pin"} => DOMAIN ms = x.found /\ Made(x, x.found, ms, rs)

\* Stamps are of runs there have been.
Stamped(ms, av, n) ==
    /\ n \in Nat
    /\ DOMAIN av = Adv /\ \A a \in Adv : av[a] \in 0 .. n
    /\ \A m \in DOMAIN ms : ms[m].at \in 0 .. n

RunInv ==
    /\ feeds \subseteq Adv
    /\ Stamped(matches, advisories, runs)
    /\ Doing(run, matches, advisories, rows, runs)

\* A finding keeps its status while the index grows.
LEMMA DoingGrows ==
  ASSUME NEW x, NEW ms, NEW av, NEW n, NEW rs, NEW ss, Doing(x, ms, av, rs, n), Grown(rs, ss)
  PROVE  Doing(x, ms, av, ss, n)
<1>1. DOMAIN rs \subseteq DOMAIN ss /\ \A i \in DOMAIN rs : ss[i].sha = rs[i].sha
  BY DEF Grown
<1>2. \A m \in x.found : m[1] \in DOMAIN rs
  BY DEF Doing
<1>3. \A m \in x.found : StatusIn(ss, m) = StatusIn(rs, m)
  BY <1>1, <1>2 DEF StatusIn
<1>4. ASSUME NEW S, S \subseteq x.found, Made(x, S, ms, rs) PROVE Made(x, S, ms, ss)
  BY <1>3, <1>4 DEF Made
<1>5. x.found \ x.left \subseteq x.found
  OBVIOUS
<1> QED
  BY <1>1, <1>4, <1>5 DEF Doing

\* What the rings serve is in the index.
LEMMA ServedIsIndexed ==
  ASSUME PoolInv
  PROVE  Served \subseteq Id /\ \A r : InRing(r) \subseteq Id
  BY DEF PoolInv, RingsFit, Served, InRing, Id

\* A run that is over or has ended claims nothing.
LEMMA NoRunDoes ==
  ASSUME NEW ms, NEW av, NEW rs, NEW n
  PROVE  Doing(NoRun, ms, av, rs, n)
  BY DEF Doing, NoRun

\* The steps of a run that write nothing, and those of others.
LEMMA BeginDoes ==
  ASSUME PoolInv, RunInv, Begin
  PROVE  RunInv'
<1>1. feeds' = feeds /\ matches' = matches /\ advisories' = advisories /\ rows' = rows /\ runs' = runs + 1
  BY DEF Begin, tables, poolVars
<1>2. run' = [pc |-> "match", at |-> runs + 1, feed |-> feeds, objects |-> Served, found |-> {}, left |-> {}, picks |-> {}]
  BY DEF Begin, NoRun
<1>3. Stamped(matches, advisories, runs)
  BY DEF RunInv
<1>4. Stamped(matches, advisories, runs + 1)
  BY <1>3 DEF Stamped
<1>5. \A m \in DOMAIN matches : matches[m].at # runs + 1
  BY <1>3 DEF Stamped
<1>6. feeds \subseteq Adv /\ Served \subseteq DOMAIN rows
  BY ServedIsIndexed DEF RunInv, Id
<1>7. Doing(run', matches, advisories, rows, runs + 1)
  BY <1>2, <1>5, <1>6 DEF Doing
<1> QED
  BY <1>1, <1>4, <1>6, <1>7 DEF RunInv

LEMMA MatchDoes ==
  ASSUME PoolInv, RunInv, Match
  PROVE  RunInv'
<1> DEFINE found == Tracker(run.objects) \cup Embedding(run.objects, Get("components"))
           about == {m[2] : m \in found}
           l == IF found = {} THEN "prune" ELSE "advisories"
<1>1. feeds' = feeds /\ matches' = matches /\ advisories' = advisories /\ rows' = rows /\ runs' = runs /\ run.pc = "match"
  BY DEF Match, tables, poolVars
<1>2. run' = [run EXCEPT !.pc = l, !.found = found, !.left = about]
  BY DEF Match
<1>3. Doing(run, matches, advisories, rows, runs) /\ feeds \subseteq Adv
  BY DEF RunInv
<1>4. run.feed \subseteq Adv /\ run.objects \subseteq DOMAIN rows /\ run.at = runs /\ \A m \in DOMAIN matches : matches[m].at # run.at
  BY <1>1, <1>3 DEF Doing
<1>5. found \subseteq (DOMAIN rows) \X Adv
  <2>1. Tracker(run.objects) \subseteq (DOMAIN rows) \X Adv
    BY <1>4 DEF Tracker
  <2>2. Embedding(run.objects, Get("components")) \subseteq (DOMAIN rows) \X Adv
    BY <1>3, <1>4 DEF Embedding
  <2> QED
    BY <2>1, <2>2
<1>6. \A m \in found : m[2] \in about
  OBVIOUS
<1>7. l \in {"prune", "advisories"} /\ (l = "prune" => found = {})
  OBVIOUS
<1> HIDE DEF found, about, l
<1>8. run' = [pc |-> l, at |-> run.at, feed |-> run.feed, objects |-> run.objects, found |-> found, left |-> about,
              picks |-> run.picks]
  BY <1>2, <1>3 DEF Doing
<1>9. Doing(run', matches, advisories, rows, runs)
  BY <1>4, <1>5, <1>6, <1>7, <1>8 DEF Doing, Backed, OwnStamps, Made
<1> QED
  BY <1>1, <1>9 DEF RunInv

\* A step that only moves the run between what is written and what is asked.
LEMMA ViewDoes ==
  ASSUME PoolInv, RunInv, View
  PROVE  RunInv'
<1>1. feeds' = feeds /\ matches' = matches /\ advisories' = advisories /\ rows' = rows /\ runs' = runs /\ run.pc = "view"
  BY DEF View, tables, poolVars
<1>2. Doing(run, matches, advisories, rows, runs)
  BY DEF RunInv
<1>3. PICK picks : run' = NoRun \/ run' = [run EXCEPT !.pc = "pin", !.picks = picks]
  BY DEF View
<1>4. ASSUME run' = [run EXCEPT !.pc = "pin", !.picks = picks]
      PROVE  Doing(run', matches, advisories, rows, runs)
  <2>1. run' = [pc |-> "pin", at |-> run.at, feed |-> run.feed, objects |-> run.objects, found |-> run.found,
                left |-> run.left, picks |-> picks]
    BY <1>2, <1>4 DEF Doing
  <2>2. Backed(run, advisories) /\ DOMAIN matches = run.found /\ Made(run, run.found, matches, rows) /\ run.at = runs
          /\ run.found \subseteq (DOMAIN rows) \X Adv
    BY <1>1, <1>2 DEF Doing
  <2> QED
    BY <2>1, <2>2 DEF Doing, Backed, Made
<1>5. Doing(run', matches, advisories, rows, runs)
  BY <1>3, <1>4, NoRunDoes
<1> QED
  BY <1>1, <1>5 DEF RunInv

\* An advisory has this run's stamp; after the last, all of them have.
LEMMA PutAdvisoryDoes ==
  ASSUME PoolInv, RunInv, NEW a \in Adv, PutAdvisory(a)
  PROVE  RunInv'
<1>1. feeds' = feeds /\ matches' = matches /\ rows' = rows /\ runs' = runs /\ run.pc = "advisories" /\ a \in run.left
        /\ advisories' = [advisories EXCEPT ![a] = run.at]
  BY DEF PutAdvisory, poolVars
<1>2. Doing(run, matches, advisories, rows, runs) /\ Stamped(matches, advisories, runs) /\ feeds \subseteq Adv
  BY DEF RunInv
<1>3. /\ run.at = runs /\ run.found \subseteq (DOMAIN rows) \X Adv
      /\ \A m \in DOMAIN matches : matches[m].at # run.at
      /\ \A m \in run.found : m[2] \in run.left \/ advisories[m[2]] = run.at
  BY <1>1, <1>2 DEF Doing
<1>4. DOMAIN advisories' = Adv /\ advisories'[a] = run.at /\ \A b \in Adv \ {a} : advisories'[b] = advisories[b]
  BY <1>1, <1>2 DEF Stamped
<1>5. Stamped(matches, advisories', runs)
  <2>1. runs \in Nat /\ runs \in 0 .. runs
    BY <1>2 DEF Stamped
  <2>2. \A b \in Adv : advisories'[b] \in 0 .. runs
    BY <1>2, <1>3, <1>4, <2>1 DEF Stamped
  <2> QED
    BY <1>2, <1>4, <2>2 DEF Stamped
<1>6. \A m \in run.found : m[2] \in Adv
  BY <1>3
<1>7. \A m \in run.found : m[2] \in run.left \ {a} \/ advisories'[m[2]] = run.at
  BY <1>3, <1>4, <1>6
<1>8. ASSUME run.left = {a}
      PROVE  Doing(run', matches, advisories', rows, runs)
  <2>1. run' = [run EXCEPT !.pc = "matches", !.left = run.found]
    BY <1>8 DEF PutAdvisory
  <2>2. run' = [pc |-> "matches", at |-> run.at, feed |-> run.feed, objects |-> run.objects, found |-> run.found,
                left |-> run.found, picks |-> run.picks]
    BY <1>2, <2>1 DEF Doing
  <2>3. \A m \in run.found : advisories'[m[2]] = run.at
    BY <1>7, <1>8
  <2>4. run.found \ run.found = {}
    OBVIOUS
  <2> QED
    BY <1>3, <2>2, <2>3, <2>4 DEF Doing, Backed, OwnStamps, Made
<1>9. ASSUME run.left # {a}
      PROVE  Doing(run', matches, advisories', rows, runs)
  <2>1. run' = [run EXCEPT !.left = run.left \ {a}]
    BY <1>9 DEF PutAdvisory
  <2>2. run' = [pc |-> "advisories", at |-> run.at, feed |-> run.feed, objects |-> run.objects, found |-> run.found,
                left |-> run.left \ {a}, picks |-> run.picks]
    BY <1>1, <1>2, <2>1 DEF Doing
  <2> QED
    BY <1>3, <1>7, <2>2 DEF Doing
<1>10. Doing(run', matches, advisories', rows, runs)
  BY <1>8, <1>9
<1> QED
  BY <1>1, <1>2, <1>5, <1>10 DEF RunInv

\* A match has this run's stamp and status; after the last, all of them have.
LEMMA PutMatchDoes ==
  ASSUME PoolInv, RunInv, NEW m \in run.left, PutMatch(m)
  PROVE  RunInv'
<1>1. feeds' = feeds /\ advisories' = advisories /\ rows' = rows /\ runs' = runs /\ run.pc = "matches"
        /\ matches' = [n \in (DOMAIN matches) \cup {m} |-> IF n = m THEN Upsert(m) ELSE matches[n]]
  BY DEF PutMatch, poolVars
<1>2. Doing(run, matches, advisories, rows, runs) /\ Stamped(matches, advisories, runs) /\ feeds \subseteq Adv
  BY DEF RunInv
<1>3. /\ run.at = runs /\ run.found \subseteq (DOMAIN rows) \X Adv
      /\ Backed(run, advisories) /\ OwnStamps(run, matches)
      /\ run.left \subseteq run.found /\ Made(run, run.found \ run.left, matches, rows)
  BY <1>1, <1>2 DEF Doing
<1>4. /\ DOMAIN matches' = DOMAIN matches \cup {m}
      /\ matches'[m] = [at |-> run.at, status |-> StatusIn(rows, m)]
      /\ \A n \in DOMAIN matches : n # m => matches'[n] = matches[n]
  BY <1>1 DEF Upsert, Status, StatusIn
<1>5. matches'[m].at = run.at
  BY <1>4
<1>6. Stamped(matches', advisories, runs)
  <2>1. runs \in 0 .. runs
    BY <1>2 DEF Stamped
  <2>2. \A n \in DOMAIN matches' : matches'[n].at \in 0 .. runs
    BY <1>2, <1>3, <1>4, <1>5, <2>1 DEF Stamped
  <2> QED
    BY <1>2, <2>2 DEF Stamped
<1>7. \A n \in DOMAIN matches' : matches'[n].at = run.at => n \in run.found
  BY <1>3, <1>4 DEF OwnStamps
<1>8. \A n \in (run.found \ run.left) \cup {m} :
        n \in DOMAIN matches' /\ matches'[n] = [at |-> run.at, status |-> StatusIn(rows, n)]
  BY <1>3, <1>4 DEF Made
<1>9. ASSUME run.left = {m}
      PROVE  Doing(run', matches', advisories, rows, runs)
  <2>1. run' = [run EXCEPT !.pc = "prune", !.left = {}]
    BY <1>9 DEF PutMatch
  <2>2. run' = [pc |-> "prune", at |-> run.at, feed |-> run.feed, objects |-> run.objects, found |-> run.found,
                left |-> {}, picks |-> run.picks]
    BY <1>2, <2>1 DEF Doing
  <2>3. run.found \subseteq (run.found \ run.left) \cup {m}
    BY <1>9
  <2>4. Made(run', run.found, matches', rows) /\ OwnStamps(run', matches') /\ Backed(run', advisories)
    BY <1>3, <1>7, <1>8, <2>2, <2>3 DEF Made, OwnStamps, Backed
  <2> QED
    BY <1>3, <2>2, <2>4 DEF Doing
<1>10. ASSUME run.left # {m}
       PROVE  Doing(run', matches', advisories, rows, runs)
  <2>1. run' = [run EXCEPT !.left = run.left \ {m}]
    BY <1>10 DEF PutMatch
  <2>2. run' = [pc |-> "matches", at |-> run.at, feed |-> run.feed, objects |-> run.objects, found |-> run.found,
                left |-> run.left \ {m}, picks |-> run.picks]
    BY <1>1, <1>2, <2>1 DEF Doing
  <2>3. run.found \ (run.left \ {m}) \subseteq (run.found \ run.left) \cup {m}
    OBVIOUS
  <2>4. Made(run', run.found \ (run.left \ {m}), matches', rows) /\ OwnStamps(run', matches') /\ Backed(run', advisories)
    BY <1>3, <1>7, <1>8, <2>2, <2>3 DEF Made, OwnStamps, Backed
  <2> QED
    BY <1>3, <2>2, <2>4 DEF Doing
<1>11. Doing(run', matches', advisories, rows, runs)
  BY <1>9, <1>10
<1> QED
  BY <1>1, <1>2, <1>6, <1>11 DEF RunInv

\* Prune takes the findings of the runs before, and none of this one.
LEMMA PruneDoes ==
  ASSUME PoolInv, RunInv, Prune
  PROVE  RunInv' /\ (\A m \in DOMAIN matches : m \in run.found => m \in DOMAIN matches')
<1> DEFINE gone == {m \in DOMAIN matches : Stale(IF run.pc = "prune" THEN matches[m].at ELSE advisories[m[2]])}
<1>1. feeds' = feeds /\ rows' = rows /\ runs' = runs /\ run.pc \in {"prune", "pruneAdvisories"}
        /\ matches' = [m \in (DOMAIN matches) \ gone |-> matches[m]]
        /\ run' = [run EXCEPT !.pc = IF @ = "prune" THEN "pruneAdvisories" ELSE "view"]
  BY DEF Prune, poolVars
<1>2. Doing(run, matches, advisories, rows, runs) /\ Stamped(matches, advisories, runs) /\ feeds \subseteq Adv
  BY DEF RunInv
<1>3. /\ run.at = runs /\ run.found \subseteq (DOMAIN rows) \X Adv /\ Backed(run, advisories)
      /\ Made(run, run.found, matches, rows)
  BY <1>1, <1>2 DEF Doing
<1>4. runs \in Nat /\ DOMAIN advisories = Adv /\ (\A m \in DOMAIN matches : matches[m].at \in 0 .. runs)
        /\ \A a \in Adv : advisories[a] \in 0 .. runs
  BY <1>2 DEF Stamped
<1>5. \A m \in run.found : m \in DOMAIN matches /\ matches[m].at = run.at /\ advisories[m[2]] = run.at /\ m[2] \in Adv
  <2>1. \A m \in run.found : m[2] \in Adv
    BY <1>3
  <2>2. \A m \in run.found : m \in DOMAIN matches /\ matches[m].at = run.at
    <3> TAKE m \in run.found
    <3>1. m \in DOMAIN matches /\ matches[m] = [at |-> run.at, status |-> StatusIn(rows, m)]
      BY <1>3 DEF Made
    <3> QED
      BY <3>1
  <2>3. \A m \in run.found : advisories[m[2]] = run.at
    BY <1>3 DEF Backed
  <2> QED
    BY <2>1, <2>2, <2>3
<1>6. ~Stale(run.at)
  BY <1>3, <1>4 DEF Stale
<1>7. \A m \in run.found : m \notin gone
  BY <1>5, <1>6
<1>8. DOMAIN matches' = (DOMAIN matches) \ gone /\ \A m \in DOMAIN matches' : matches'[m] = matches[m]
  BY <1>1
<1>9. Made(run, run.found, matches', rows)
  BY <1>3, <1>7, <1>8 DEF Made
<1>10. CASE run.pc = "prune"
  <2>1. advisories' = advisories
    BY <1>10 DEF Prune
  <2>2. run' = [pc |-> "pruneAdvisories", at |-> run.at, feed |-> run.feed, objects |-> run.objects, found |-> run.found,
                left |-> run.left, picks |-> run.picks]
    BY <1>1, <1>2, <1>10 DEF Doing
  <2>3. OwnStamps(run, matches)
    BY <1>2, <1>10 DEF Doing
  <2>4. \A m \in DOMAIN matches' : m \in run.found
    <3> TAKE m \in DOMAIN matches'
    <3>1. m \in DOMAIN matches /\ ~Stale(matches[m].at)
      BY <1>8, <1>10
    <3>2. matches[m].at = run.at
      BY <1>3, <1>4, <3>1 DEF Stale
    <3> QED
      BY <2>3, <3>1, <3>2 DEF OwnStamps
  <2>5. DOMAIN matches' = run.found
    BY <1>5, <1>7, <1>8, <2>4
  <2>6. Stamped(matches', advisories', runs)
    BY <1>4, <1>8, <2>1 DEF Stamped
  <2>7. Doing(run', matches', advisories', rows, runs)
    BY <1>3, <1>9, <2>1, <2>2, <2>5 DEF Doing, Backed, Made
  <2> QED
    BY <1>1, <1>2, <2>5, <2>6, <2>7 DEF RunInv
<1>11. CASE run.pc = "pruneAdvisories"
  <2>1. advisories' = [a \in Adv |-> IF Stale(advisories[a]) THEN 0 ELSE advisories[a]]
    BY <1>11 DEF Prune
  <2>2. run' = [pc |-> "view", at |-> run.at, feed |-> run.feed, objects |-> run.objects, found |-> run.found,
                left |-> run.left, picks |-> run.picks]
    BY <1>1, <1>2, <1>11 DEF Doing
  <2>3. DOMAIN matches = run.found
    BY <1>2, <1>11 DEF Doing
  <2>4. DOMAIN matches' = run.found
    BY <1>7, <1>8, <2>3
  <2>5. \A m \in run.found : advisories'[m[2]] = run.at
    BY <1>5, <1>6, <2>1
  <2>6. \A a \in Adv : advisories'[a] \in 0 .. runs
    BY <1>4, <2>1
  <2>7. DOMAIN advisories' = Adv
    BY <2>1
  <2> HIDE DEF gone
  <2>8. Stamped(matches', advisories', runs)
    BY <1>4, <1>8, <2>6, <2>7 DEF Stamped
  <2>9. Doing(run', matches', advisories', rows, runs)
    BY <1>3, <1>9, <2>2, <2>4, <2>5 DEF Doing, Backed, Made
  <2> QED
    BY <1>1, <1>2, <2>4, <2>8, <2>9 DEF RunInv
<1> QED
  BY <1>1, <1>10, <1>11

\* A run that ends, and what leaves the tables alone.
LEMMA RunStays ==
  ASSUME RunInv, Grown(rows, rows'), feeds' \subseteq Adv, UNCHANGED <<tables, runs>>, run' = run \/ run' = NoRun
  PROVE  RunInv'
<1>1. matches' = matches /\ advisories' = advisories /\ runs' = runs
  BY DEF tables
<1>2. Doing(run, matches, advisories, rows', runs)
  BY DoingGrows DEF RunInv
<1>3. Doing(run', matches, advisories, rows', runs)
  BY <1>2, NoRunDoes
<1> QED
  BY <1>1, <1>3 DEF RunInv

-----------------------------------------------------------------------------
(* The whole.                                                              *)

IInv == PoolInv /\ SealInv /\ RunInv

LEMMA InitHolds == Init => IInv
<1> SUFFICES ASSUME Init PROVE IInv
  OBVIOUS
<1>1. env \in Deployments /\ rows = env.rows /\ rings = env.rings /\ client = [c \in Client |-> Resting]
  BY DEF Init, PoolInit
<1>2. PoolInv
  <2>1. rows \in Seq(Row) /\ RingsFit(rows)
    BY <1>1, PoolAssumption DEF RingsFit
  <2>2. \A c \in Client : Fit(client[c], rows)
    BY <1>1, RestingFits
  <2> QED
    BY <1>1, <2>1, <2>2 DEF PoolInv
<1>3. /\ builds = [t \in DOMAIN env.builds |-> NewBuild] /\ publish = {} /\ approved = {}
      /\ jobs = [c \in Client |-> NoJob] /\ attested = None
  BY DEF Init, SealInit
<1>4. SealInv
  <2>1. DOMAIN builds = DOMAIN env.builds /\ \A t \in BuildId : builds[t] = NewBuild
    BY <1>3 DEF BuildId
  <2>2. NewBuild = [status |-> "queued", holder |-> None, result |-> None]
    BY DEF NewBuild
  <2>3. \A t \in BuildId : TaskOK(builds[t]) /\ builds[t].status # "done"
    BY <2>1, <2>2 DEF TaskOK
  <2>4. \A c \in Client : JobOK(jobs[c], BuildId, approved)
    BY <1>3, NoJobOK
  <2> QED
    BY <1>3, <2>1, <2>3, <2>4 DEF SealInv, Published, BuildId
<1>5. feeds = env.feeds /\ advisories = [a \in Adv |-> 0] /\ matches = <<>> /\ run = NoRun /\ runs = 0
  BY DEF Init
<1>6. feeds \subseteq Adv
  BY <1>1, <1>5, AdvisoriesAssumption
<1>7. DOMAIN matches = {}
  BY <1>5
<1>8. Stamped(matches, advisories, runs)
  BY <1>5, <1>7 DEF Stamped
<1> QED
  BY <1>2, <1>4, <1>5, <1>6, <1>8, NoRunDoes DEF IInv, RunInv

\* The fast-track's release is of rows of the index.
LEMMA FastTrackKeeps ==
  ASSUME PoolInv, FastTrack
  PROVE  PoolInv' /\ Grown(rows, rows')
<1>1. rows' = rows /\ env' = env /\ client' = client
  BY DEF FastTrack
<1>2. Grown(rows, rows')
  BY <1>1, Stays DEF PoolInv
<1> DEFINE picks == run.picks \cap InRing(Source)
           pinned == {j \in rings[Target] : \A i \in picks : Slot(j) # Slot(i)} \cup picks
<1>3. rings' = [rings EXCEPT ![Target] = pinned]
  BY DEF FastTrack
<1>4. picks \subseteq DOMAIN rows
  BY ServedIsIndexed DEF Id
<1>5. \A r \in DOMAIN rings : rings[r] \subseteq DOMAIN rows
  BY DEF PoolInv, RingsFit
<1>6. Target \in DOMAIN rings => pinned \subseteq DOMAIN rows
  BY <1>4, <1>5
<1> HIDE DEF picks, pinned
<1>7. \A r \in DOMAIN rings' : rings'[r] \subseteq DOMAIN rows
  BY <1>3, <1>5, <1>6
<1>8. RingsFit(rows)'
  BY <1>1, <1>7 DEF RingsFit
<1> QED
  BY <1>1, <1>2, <1>8 DEF PoolInv

LEMMA NextKeeps == IInv /\ [Next]_vars => IInv'
<1> SUFFICES ASSUME PoolInv, SealInv, RunInv, [Next]_vars PROVE PoolInv' /\ SealInv' /\ RunInv'
  BY DEF IInv
<1>1. feeds \subseteq Adv
  BY DEF RunInv
<1>2. ASSUME SealNext, UNCHANGED secVars PROVE PoolInv' /\ SealInv' /\ RunInv'
  <2>1. SealInv' /\ PoolInv' /\ Grown(rows, rows')
    BY <1>2, BelowSecurity
  <2>2. feeds' = feeds /\ run' = run /\ UNCHANGED <<tables, runs>>
    BY <1>2 DEF secVars
  <2> QED
    BY <1>1, <2>1, <2>2, RunStays
<1>3. ASSUME UNCHANGED poolVars, UNCHANGED sealVars PROVE PoolInv' /\ SealInv' /\ Grown(rows, rows')
  <2>1. UNCHANGED core /\ env' = env
    BY <1>3 DEF core, poolVars
  <2> QED
    BY <1>3, <2>1, PoolStays, SealStays
<1>4. ASSUME Begin \/ Match \/ Prune \/ View \/ \E a \in Adv : PutAdvisory(a) PROVE PoolInv' /\ SealInv' /\ RunInv'
  <2>1. UNCHANGED poolVars /\ UNCHANGED sealVars
    BY <1>4 DEF Begin, Match, Prune, View, PutAdvisory
  <2>2. RunInv'
    BY <1>4, BeginDoes, MatchDoes, PruneDoes, ViewDoes, PutAdvisoryDoes
  <2> QED
    BY <1>3, <2>1, <2>2
<1>5. ASSUME NEW m \in run.left, PutMatch(m) PROVE PoolInv' /\ SealInv' /\ RunInv'
  <2>1. UNCHANGED poolVars /\ UNCHANGED sealVars
    BY <1>5 DEF PutMatch
  <2> QED
    BY <1>3, <1>5, <2>1, PutMatchDoes
<1>6. ASSUME \/ \E a \in Adv : Publish(a)
             \/ \E path \in {"components", "security"} : Visit(path) \/ Expire(path)
      PROVE  PoolInv' /\ SealInv' /\ RunInv'
  <2>1. UNCHANGED poolVars /\ UNCHANGED sealVars /\ run' = run /\ UNCHANGED <<tables, runs>>
    BY <1>6 DEF Publish, Visit, Expire
  <2>2. feeds' \subseteq Adv
    BY <1>1, <1>6 DEF Publish, Visit, Expire
  <2> QED
    BY <1>3, <2>1, <2>2, RunStays
<1>7. ASSUME FastTrack PROVE PoolInv' /\ SealInv' /\ RunInv'
  <2>1. UNCHANGED sealVars /\ env' = env /\ feeds' = feeds /\ run' = NoRun /\ UNCHANGED <<tables, runs>>
    BY <1>7 DEF FastTrack
  <2> QED
    BY <1>1, <1>7, <2>1, FastTrackKeeps, SealStays, RunStays
<1>8. ASSUME RunEnds PROVE PoolInv' /\ SealInv' /\ RunInv'
  <2>1. UNCHANGED core /\ UNCHANGED sealVars /\ env' = env /\ feeds' = feeds /\ run' = NoRun /\ UNCHANGED <<tables, runs>>
    BY <1>8 DEF RunEnds, core
  <2> QED
    BY <1>1, <2>1, PoolStays, SealStays, RunStays
<1>9. ASSUME UNCHANGED vars PROVE PoolInv' /\ SealInv' /\ RunInv'
  <2>1. UNCHANGED poolVars /\ UNCHANGED sealVars /\ feeds' = feeds /\ run' = run /\ UNCHANGED <<tables, runs>>
    BY <1>9 DEF vars, secVars
  <2> QED
    BY <1>1, <1>3, <2>1, RunStays
<1> QED
  BY <1>2, <1>4, <1>5, <1>6, <1>7, <1>8, <1>9 DEF Next, Secures

\* Whatever interleaves: a seal, the one of an object's row or the one that
\* was written beside it, names a build that ended well, and the approval of
\* that build if its recipe is not on main (Seal's property).
THEOREM SealsHaveApprovals == Spec => []SealsAreOfApproved
<1>1. IInv => SealsAreOfApproved
  <2> SUFFICES ASSUME IInv, NEW chain \in Sealed, chain # None
               PROVE  Sound(chain)
    BY DEF SealsAreOfApproved, Sound
  <2>1. PoolInv /\ SealInv
    BY DEF IInv
  <2>2. CASE \E i \in Id : chain = factoryChain(rows[i].sha)
    BY <2>1, <2>2, ChainsAreSound
  <2>3. CASE attested # None /\ chain = attested.chain
    BY <2>1, <2>3 DEF SealInv
  <2>4. (\E i \in Id : chain = factoryChain(rows[i].sha)) \/ (attested # None /\ chain = attested.chain)
    BY DEF Sealed
  <2> QED
    BY <2>2, <2>3, <2>4
<1> QED
  BY <1>1, InitHolds, NextKeeps, PTL DEF Spec

\* A run that has pruned leaves its own findings and no other, with the
\* advisory of each, however the runs before it ended (Advisories' property).
THEOREM FindingsAreTheRuns == Spec => []RunsReplaceFindings
<1>1. IInv => RunsReplaceFindings
  <2> SUFFICES ASSUME IInv, run.pc \in {"view", "pin"} PROVE RunsReplaceFindings
    BY DEF RunsReplaceFindings
  <2>1. DOMAIN matches = run.found /\ Made(run, run.found, matches, rows) /\ Backed(run, advisories)
    BY DEF IInv, RunInv, Doing
  <2> QED
    BY <2>1 DEF RunsReplaceFindings, Made, Backed, Status, StatusIn
<1> QED
  BY <1>1, InitHolds, NextKeeps, PTL DEF Spec

\* No step takes from the index a finding that the run at work has made again
\* (Advisories' property).
THEOREM FindingsAreNotLost == Spec => FindingsStand
<1> DEFINE Stand == \A m \in DOMAIN matches : m \in run.found => m \in DOMAIN matches'
<1>1. IInv /\ [Next]_vars => [Stand]_vars
  <2> SUFFICES ASSUME PoolInv, RunInv, Next PROVE Stand
    BY DEF IInv
  <2>1. CASE Prune
    BY <2>1, PruneDoes
  <2>2. ASSUME NEW m \in run.left, PutMatch(m) PROVE Stand
    <3>1. matches' = [n \in (DOMAIN matches) \cup {m} |-> IF n = m THEN Upsert(m) ELSE matches[n]]
      BY <2>2 DEF PutMatch
    <3> QED
      BY <3>1
  <2>3. ASSUME Begin \/ Match \/ View \/ FastTrack \/ RunEnds
        PROVE  matches' = matches
    BY <2>3 DEF Begin, Match, View, FastTrack, RunEnds, tables
  <2>4. ASSUME NEW a \in Adv, Publish(a) \/ PutAdvisory(a)
        PROVE  matches' = matches
    BY <2>4 DEF Publish, PutAdvisory, tables
  <2>5. ASSUME NEW path, Visit(path) \/ Expire(path)
        PROVE  matches' = matches
    BY <2>5 DEF Visit, Expire, tables
  <2>6. UNCHANGED secVars => matches' = matches
    BY DEF secVars, tables
  <2>7. matches' = matches => Stand
    OBVIOUS
  <2> QED
    BY <2>1, <2>2, <2>3, <2>4, <2>5, <2>6, <2>7 DEF Next, Secures
<1> QED
  BY <1>1, InitHolds, NextKeeps, PTL DEF Spec, FindingsStand

-----------------------------------------------------------------------------
(* The bucket and the index.                                               *)

Objects == [bytes : Build, sum : BOOLEAN]

\* The bucket has the keys it started with, and an object without a sum is
\* taken for no other build.
BucketOK(d, obs, sgs) ==
    /\ DOMAIN obs = DOMAIN d.objects /\ DOMAIN sgs = DOMAIN d.objects
    /\ \A k \in DOMAIN obs : obs[k] \in {Absent} \cup Objects
    /\ \A o \in Publishable(d) : OnlyItself(obs[packageKey(o)], o)

RowsOK(d, rs) ==
    /\ \A i \in DOMAIN rs : packageKey(rs[i]) \in DOMAIN d.objects /\ flatKey(rs[i]) \in DOMAIN d.objects
    /\ \A i, j \in DOMAIN rs : rs[i].sha = rs[j].sha => i = j
    /\ \A i \in DOMAIN rs, o \in Publishable(d) : rs[i].dir = "null" /\ SamePlace(o, rs[i]) => o.sha = rs[i].sha

\* What a job has found out about what it stores, and relies on: only ghosts of
\* other builds are in its place; the rows of the build are signed; the object
\* can be signed; its signature is beside it.
Free(o, rs)      == \A i \in DOMAIN rs : SamePlace(o, rs[i]) => rs[i].dir = "ghost" /\ rs[i].sha # o.sha
AllSigned(o, rs) == \A i \in DOMAIN rs : rs[i].sha = o.sha /\ rs[i].arch = o.arch => rs[i].signed
Known(sha, rs)   == \E i \in DOMAIN rs : rs[i].sha = sha
SigOf(o, obs)    == IF o.source = Factory THEN obs[packageKey(o)].bytes ELSE o.sha
CanSign(o, obs)  == obs[packageKey(o)] # Absent /\ (obs[packageKey(o)].sum => obs[packageKey(o)].bytes = o.sha)
Beside(o, obs, sgs) == CanSign(o, obs) /\ sgs[packageKey(o)] = SigOf(o, obs)

Storing(d, j, rs, obs, sgs) ==
    /\ j.pc # "idle" => j.offer \in Publishable(d)
    /\ j.pc \in {"head", "put", "sign", "sig", "flag"} => Free(j.offer, rs) /\ AllSigned(j.offer, rs)
    /\ j.pc = "sig" => CanSign(j.offer, obs) /\ j.sha = SigOf(j.offer, obs)
    /\ j.pc = "flag" => Beside(j.offer, obs, sgs)
    /\ j.pc = "index" => Known(j.offer.sha, rs) \/ (Free(j.offer, rs) /\ Beside(j.offer, obs, sgs))

\* No two jobs store in one place.
Rival(j, k) == j.pc # "idle" /\ k.pc # "idle" /\ j.offer.source = k.offer.source /\ j.offer.arch = k.offer.arch
Turns(cl)   == \A c, e \in Client : c # e => ~Rival(cl[c], cl[e])

\* How far the relayout is with a row.
Copied(s, r, obs, sgs) ==
    /\ s = "copy" => obs[packageKey(r)] = Absent \/ obs[packageKey(r)].bytes = obs[flatKey(r)].bytes
    /\ s \in {"sides", "key"} => obs[packageKey(r)].bytes = r.sha
    /\ s = "key" /\ r.signed => sgs[packageKey(r)] = r.sha
    /\ s = "ghost" => /\ obs[packageKey(r)].bytes # r.sha
                      /\ obs[packageKey(r)] = Absent => obs[flatKey(r)].bytes # r.sha
PageOK(m, rs, obs, sgs) ==
    /\ m = [pc |-> m.pc, page |-> m.page, moved |-> m.moved, arches |-> m.arches]
    /\ m.page = [i \in DOMAIN m.page |-> m.page[i]]
    /\ m.pc # "copy" => DOMAIN m.page = {}
    /\ \A i \in DOMAIN m.page : i \in DOMAIN rs /\ rs[i].dir = "flat" /\ Copied(m.page[i], rs[i], obs, sgs)

AllAgree(rs, obs, sgs) == \A i \in DOMAIN rs : Agrees(rs[i], obs, sgs)

ObjInv ==
    /\ BucketOK(env, objects, sigs)
    /\ RowsOK(env, rows)
    /\ AllAgree(rows, objects, sigs)
    /\ \A c \in Client : Storing(env, client[c], rows, objects, sigs)
    /\ Turns(client)
    /\ PageOK(move, rows, objects, sigs)

\* Whoever writes, the invariant of the next state is of these.
LEMMA Assembled ==
  ASSUME env' = env, BucketOK(env, objects', sigs'), RowsOK(env, rows'), AllAgree(rows', objects', sigs'),
         \A c \in Client : Storing(env, client'[c], rows', objects', sigs'), Turns(client'),
         PageOK(move', rows', objects', sigs')
  PROVE  ObjInv'
  BY DEF ObjInv

\* Places, and the keys of their objects.
LEMMA Keys ==
  ASSUME NEW r, r.source \in Upstream \cup {Factory}, NEW s
  PROVE  /\ packageKey(r) # flatKey(s)
         /\ packageKey(r) = packageKey(s) => flatKey(r) = flatKey(s)
         /\ SamePlace(r, s) <=> packageKey(r) = packageKey(s)
         /\ SamePlace(r, s) => r.arch = s.arch /\ r.source = s.source
<1>1. r.source # Flat
  BY PoolAssumption DEF Flat, Factory
<1>2. packageKey(r) = <<r.source, r.arch, r.file>> /\ packageKey(s) = <<s.source, s.arch, s.file>>
      /\ flatKey(r) = <<Flat, r.arch, r.file>> /\ flatKey(s) = <<Flat, s.arch, s.file>>
  BY DEF packageKey, flatKey
<1>3. SamePlace(r, s) <=> packageKey(r) = packageKey(s)
  BY DEF SamePlace
<1> QED
  BY <1>1, <1>2, <1>3

\* What is offered is a build at a place with a key.
LEMMA OfferIs ==
  ASSUME Orderly, env \in Deployments, NEW o \in Publishable(env)
  PROVE  /\ o.sha \in Build /\ o.source \in Upstream \cup {Factory}
         /\ packageKey(o) \in DOMAIN env.objects /\ flatKey(o) \in DOMAIN env.objects
<1>1. packageKey(o) \in DOMAIN env.objects /\ flatKey(o) \in DOMAIN env.objects
  BY DEF Orderly, StartsSound
<1>2. CASE o \in env.offers
  <2>1. o \in Offered
    BY <1>2, PoolAssumption
  <2> QED
    BY <1>1, <2>1 DEF Offered
<1>3. CASE o \notin env.offers
  <2>1. PICK b \in UNION {env.builds[t].bytes : t \in DOMAIN env.builds} :
          o = [sha |-> b, source |-> Factory, arch |-> env.builds[1].arch, file |-> env.builds[1].file]
    BY <1>3 DEF Publishable
  <2>2. PICK t \in DOMAIN env.builds : b \in env.builds[t].bytes
    BY <2>1
  <2> DEFINE R == [review : BOOLEAN, bytes : SUBSET Build, arch : STRING, file : STRING]
             bs == env.builds
  <2>6. bs \in Seq(R) /\ t \in DOMAIN bs
    BY <2>2, SealAssumption
  <2> HIDE DEF R, bs
  <2>7. bs[t] \in R
    BY <2>6
  <2>3. env.builds[t] \in [review : BOOLEAN, bytes : SUBSET Build, arch : STRING, file : STRING]
    BY <2>7 DEF R, bs
  <2>4. env.builds[t].bytes \in SUBSET Build
    BY <2>3
  <2>5. b \in Build
    BY <2>2, <2>4
  <2> QED
    BY <1>1, <2>1, <2>5
<1> QED
  BY <1>2, <1>3

\* What is left to a job whose place nobody writes to.
LEMMA StoresOn ==
  ASSUME NEW d, NEW j, NEW rs, NEW obs, NEW sgs, NEW obt, NEW sgt, Storing(d, j, rs, obs, sgs),
         j.pc \in {"sig", "flag"} \/ (j.pc = "index" /\ Free(j.offer, rs)) =>
           obt[packageKey(j.offer)] = obs[packageKey(j.offer)] /\ sgt[packageKey(j.offer)] = sgs[packageKey(j.offer)]
  PROVE  Storing(d, j, rs, obt, sgt)
<1> DEFINE o == j.offer
<1>1. obt[packageKey(o)] = obs[packageKey(o)] => /\ CanSign(o, obs) <=> CanSign(o, obt)
                                                /\ SigOf(o, obs) = SigOf(o, obt)
  BY DEF CanSign, SigOf
<1>2. obt[packageKey(o)] = obs[packageKey(o)] /\ sgt[packageKey(o)] = sgs[packageKey(o)] /\ Beside(o, obs, sgs) => Beside(o, obt, sgt)
  BY <1>1 DEF Beside
<1> QED
  BY <1>1, <1>2 DEF Storing

\* What a row is.
LEMMA RowIs ==
  ASSUME PoolInv, NEW i \in DOMAIN rows
  PROVE  /\ rows[i] \in Row /\ rows[i].sha \in Build /\ rows[i].sha # None
         /\ rows[i].source \in Upstream \cup {Factory}
         /\ rows[i].dir \in {"own", "flat", "ghost", "null"}
<1>1. rows[i] \in Row
  BY DEF PoolInv
<1>2. rows[i].sha \in Build /\ rows[i].source \in Upstream \cup {Factory} /\ rows[i].dir \in {"own", "flat", "ghost", "null"}
  BY <1>1 DEF Row
<1> QED
  BY <1>1, <1>2, PoolAssumption

\* A row, and how far it is copied, sees two keys of the bucket.
LEMMA SeesItsKeys ==
  ASSUME NEW r, NEW s, NEW obs, NEW sgs, NEW obt, NEW sgt,
         obt[packageKey(r)] = obs[packageKey(r)], sgt[packageKey(r)] = sgs[packageKey(r)],
         obt[flatKey(r)] = obs[flatKey(r)], sgt[flatKey(r)] = sgs[flatKey(r)]
  PROVE  /\ Agrees(r, obs, sgs) => Agrees(r, obt, sgt)
         /\ Copied(s, r, obs, sgs) => Copied(s, r, obt, sgt)
  BY DEF Agrees, Copied

\* An idle job, or one with what it had, is nobody's new rival.
LEMMA TurnsOn ==
  ASSUME NEW cl, NEW dl, NEW c \in Client, Turns(cl), \A e \in Client \ {c} : dl[e] = cl[e],
         dl[c].pc = "idle" \/ (cl[c].pc # "idle" /\ dl[c].offer = cl[c].offer)
  PROVE  Turns(dl)
<1> SUFFICES ASSUME NEW e \in Client, NEW f \in Client, e # f PROVE ~Rival(dl[e], dl[f])
  BY DEF Turns
<1>1. ~Rival(cl[e], cl[f])
  BY DEF Turns
<1>2. CASE e = c
  BY <1>1, <1>2 DEF Rival
<1>3. CASE f = c
  BY <1>1, <1>3 DEF Rival
<1>4. CASE e # c /\ f # c
  BY <1>1, <1>4
<1> QED
  BY <1>2, <1>3, <1>4

\* The place of a job that works is nobody else's.
LEMMA OwnPlace ==
  ASSUME Orderly, PoolInv, ObjInv, NEW c \in Client, NEW e \in Client, e # c, client[c].pc # "idle", client[e].pc # "idle"
  PROVE  packageKey(client[e].offer) # packageKey(client[c].offer)
<1>1. client[c].offer \in Publishable(env) /\ client[e].offer \in Publishable(env)
  BY DEF ObjInv, Storing
<1>2. client[e].offer.source \in Upstream \cup {Factory}
  BY <1>1, OfferIs DEF PoolInv
<1>3. ~Rival(client[e], client[c])
  BY DEF ObjInv, Turns
<1> QED
  BY <1>2, <1>3, Keys DEF Rival

\* What is left to a job when the index grows beside it.
LEMMA StoresBeside ==
  ASSUME NEW d, NEW j, NEW rs, NEW ss, NEW obs, NEW sgs, Storing(d, j, rs, obs, sgs),
         \A i \in DOMAIN rs : i \in DOMAIN ss /\ ss[i].sha = rs[i].sha,
         j.pc # "idle" /\ Free(j.offer, rs) => Free(j.offer, ss),
         j.pc # "idle" /\ AllSigned(j.offer, rs) => AllSigned(j.offer, ss)
  PROVE  Storing(d, j, ss, obs, sgs)
<1>1. Known(j.offer.sha, rs) => Known(j.offer.sha, ss)
  BY DEF Known
<1> QED
  BY <1>1 DEF Storing

-----------------------------------------------------------------------------
(* ... and the steps of a job.                                             *)

\* A step that moves one job and nothing of what it stores.
LEMMA JobOnly ==
  ASSUME PoolInv, ObjInv, NEW c \in Client, env' = env, objects' = objects, sigs' = sigs, rows' = rows, move' = move,
         \A e \in Client \ {c} : client'[e] = client[e], Storing(env, client'[c], rows, objects, sigs),
         client'[c].pc = "idle" \/ (client[c].pc # "idle" /\ client'[c].offer = client[c].offer)
  PROVE  ObjInv'
<1>1. Turns(client')
  BY TurnsOn DEF ObjInv
<1>2. \A e \in Client : Storing(env, client'[e], rows, objects, sigs)
  BY DEF ObjInv
<1> QED
  BY <1>1, <1>2 DEF ObjInv

\* A job that gives up stores nothing.
LEMMA RestingStores ==
  ASSUME NEW d, NEW rs, NEW obs, NEW sgs
  PROVE  Storing(d, Resting, rs, obs, sgs)
  BY DEF Resting, Storing

LEMMA GivesUpOnly ==
  ASSUME PoolInv, ObjInv, NEW c \in Client, env' = env, objects' = objects, sigs' = sigs, rows' = rows, move' = move, GivesUp(c)
  PROVE  ObjInv'
<1>1. client'[c] = Resting /\ \A e \in Client \ {c} : client'[e] = client[e]
  BY DEF GivesUp, PoolInv
<1>2. client'[c].pc = "idle"
  BY <1>1 DEF Resting
<1> QED
  BY <1>1, <1>2, RestingStores, JobOnly

\* What is not known, and not in the index at its place, is free to store.
LEMMA NothingThere ==
  ASSUME Orderly, PoolInv, ObjInv, NEW o \in Publishable(env), known(o) = {},
         by_filename(o) # 0 => rows[by_filename(o)].sha = o.sha
  PROVE  Free(o, rows) /\ AllSigned(o, rows)
<1>1. Id = 1 .. Len(rows) /\ Len(rows) \in Nat
  BY DEF PoolInv, Id
<1>2. \A i \in Id : ~(rows[i].sha = o.sha /\ rows[i].arch = o.arch)
  BY DEF known, IdsOf
<1>3. AtPlace(o) = {}
  <2> SUFFICES ASSUME AtPlace(o) # {} PROVE FALSE
    OBVIOUS
  <2>1. AtPlace(o) \in SUBSET Nat
    BY <1>1 DEF AtPlace
  <2>2. by_filename(o) \in AtPlace(o)
    BY <2>1, Least DEF by_filename
  <2>3. by_filename(o) \in Id /\ SamePlace(o, rows[by_filename(o)])
    BY <2>2 DEF AtPlace
  <2>4. by_filename(o) # 0
    BY <1>1, <2>3
  <2>5. o.source \in Upstream \cup {Factory}
    BY OfferIs DEF PoolInv
  <2> QED
    BY <1>2, <2>3, <2>4, <2>5, Keys
<1>4. ASSUME NEW i \in DOMAIN rows, SamePlace(o, rows[i]) PROVE rows[i].dir = "ghost" /\ rows[i].sha # o.sha
  <2>1. o.source \in Upstream \cup {Factory}
    BY OfferIs DEF PoolInv
  <2>2. rows[i].sha # o.sha
    BY <1>2, <1>4, <2>1, Keys DEF Id
  <2>3. rows[i].dir \in {"ghost", "null"}
    BY <1>3, <1>4 DEF AtPlace, Id
  <2>4. rows[i].dir # "null"
    BY <1>4, <2>2 DEF ObjInv, RowsOK
  <2> QED
    BY <2>2, <2>3, <2>4
<1> QED
  BY <1>2, <1>4 DEF Free, AllSigned, Id

LEMMA AskStores ==
  ASSUME Orderly, PoolInv, ObjInv, NEW c \in Client, NEW o \in Publishable(env), Ask(c, o)
  PROVE  ObjInv'
<1>1. /\ env' = env /\ objects' = objects /\ sigs' = sigs /\ rows' = rows /\ move' = move
      /\ Rivals(c, o) = {}
  BY DEF Ask, bucket, PoolInv, Orderly
<1> DEFINE Asked(pc, i) == client' = [client EXCEPT ![c] = [pc |-> pc, offer |-> o, row |-> i, sha |-> None]]
<1>2. (\E i : Asked("pin", i)) \/ (Asked("head", 0) /\ Free(o, rows) /\ AllSigned(o, rows))
  <2> DEFINE there == by_filename(o)
  <2>1. CASE there # 0 /\ rows[there].sha # o.sha
    <3>1. Asked("pin", there)
      BY <2>1 DEF Ask, Resting
    <3> QED
      BY <3>1
  <2>2. CASE ~(there # 0 /\ rows[there].sha # o.sha) /\ known(o) # {}
    <3>1. Asked("pin", LeastOf(known(o)))
      BY <2>2 DEF Ask, Resting
    <3> QED
      BY <3>1
  <2>3. CASE ~(there # 0 /\ rows[there].sha # o.sha) /\ known(o) = {}
    <3>1. Asked("head", 0)
      BY <2>3 DEF Ask, Resting
    <3>2. Free(o, rows) /\ AllSigned(o, rows)
      BY <2>3, NothingThere
    <3> QED
      BY <3>1, <3>2
  <2> QED
    BY <2>1, <2>2, <2>3
<1>3. DOMAIN client = Client
  BY DEF PoolInv
<1>4. Storing(env, client'[c], rows, objects, sigs) /\ client'[c].offer = o
  <2>1. CASE Asked("head", 0) /\ Free(o, rows) /\ AllSigned(o, rows)
    BY <1>3, <2>1 DEF Storing
  <2>2. ASSUME NEW i, Asked("pin", i) PROVE Storing(env, client'[c], rows, objects, sigs) /\ client'[c].offer = o
    BY <1>3, <2>2 DEF Storing
  <2> QED
    BY <1>2, <2>1, <2>2
<1>5. \A e \in Client \ {c} : client'[e] = client[e]
  BY <1>2, <1>3
<1>6. Turns(client')
  <2> SUFFICES ASSUME NEW e \in Client, NEW f \in Client, e # f PROVE ~Rival(client'[e], client'[f])
    BY DEF Turns
  <2>1. \A g \in Client \ {c} : client[g].pc = "idle" \/ ~(client[g].offer.source = o.source /\ client[g].offer.arch = o.arch)
    BY <1>1 DEF Rivals, Offer
  <2>2. CASE e = c
    BY <1>4, <1>5, <2>1, <2>2 DEF Rival
  <2>3. CASE f = c
    BY <1>4, <1>5, <2>1, <2>3 DEF Rival
  <2>4. CASE e # c /\ f # c
    BY <1>5, <2>4 DEF ObjInv, Turns
  <2> QED
    BY <2>2, <2>3, <2>4
<1>7. \A e \in Client : Storing(env, client'[e], rows, objects, sigs)
  BY <1>4, <1>5 DEF ObjInv
<1> QED
  BY <1>1, <1>6, <1>7 DEF ObjInv

\* A write in a free place is seen by no row and no other job.
LEMMA WritesApart ==
  ASSUME Orderly, PoolInv, ObjInv, NEW c \in Client, client[c].pc # "idle", NEW o, o = client[c].offer, Free(o, rows),
         NEW obs, NEW sgs, \A k : k # packageKey(o) => obs[k] = objects[k] /\ sgs[k] = sigs[k],
         obs[packageKey(o)] = objects[packageKey(o)] \/ (obs[packageKey(o)] # Absent /\ obs[packageKey(o)].bytes = o.sha)
  PROVE  /\ AllAgree(rows, obs, sgs) /\ PageOK(move, rows, obs, sgs)
         /\ \A e \in Client \ {c} : Storing(env, client[e], rows, obs, sgs)
<1>1. o \in Publishable(env) /\ o.source \in Upstream \cup {Factory}
  BY OfferIs DEF ObjInv, Storing, PoolInv
<1>2. ASSUME NEW i \in DOMAIN rows
      PROVE  flatKey(rows[i]) # packageKey(o) /\ (packageKey(rows[i]) = packageKey(o) => rows[i].dir = "ghost" /\ rows[i].sha # o.sha)
  BY <1>1, Keys DEF Free
<1>3. ASSUME NEW i \in DOMAIN rows
      PROVE  Agrees(rows[i], obs, sgs)
  <2>1. Agrees(rows[i], objects, sigs)
    BY DEF ObjInv, AllAgree
  <2>2. CASE packageKey(rows[i]) # packageKey(o)
    BY <1>2, <2>1, <2>2, SeesItsKeys
  <2>3. CASE packageKey(rows[i]) = packageKey(o)
    <3>1. rows[i].dir = "ghost" /\ rows[i].sha # o.sha /\ obs[flatKey(rows[i])] = objects[flatKey(rows[i])]
      BY <1>2, <2>3
    <3> QED
      BY <2>1, <2>3, <3>1 DEF Agrees
  <2> QED
    BY <2>2, <2>3
<1>4. PageOK(move, rows, obs, sgs)
  <2>1. ASSUME NEW i \in DOMAIN move.page
        PROVE  i \in DOMAIN rows /\ rows[i].dir = "flat" /\ Copied(move.page[i], rows[i], obs, sgs)
    <3>1. i \in DOMAIN rows /\ rows[i].dir = "flat" /\ Copied(move.page[i], rows[i], objects, sigs)
      BY DEF ObjInv, PageOK
    <3>2. packageKey(rows[i]) # packageKey(o) /\ flatKey(rows[i]) # packageKey(o)
      BY <1>2, <3>1
    <3> QED
      BY <3>1, <3>2, SeesItsKeys
  <2> QED
    BY <2>1 DEF ObjInv, PageOK
<1>5. ASSUME NEW e \in Client \ {c} PROVE Storing(env, client[e], rows, obs, sgs)
  <2>1. Storing(env, client[e], rows, objects, sigs)
    BY DEF ObjInv
  <2>2. client[e].pc # "idle" => packageKey(client[e].offer) # packageKey(o)
    BY OwnPlace
  <2> QED
    BY <2>1, <2>2, StoresOn
<1> QED
  BY <1>3, <1>4, <1>5 DEF AllAgree

\* How a job goes on.
LEMMA Gone ==
  ASSUME PoolInv, NEW c \in Client, NEW l, Goes(c, l)
  PROVE  /\ client'[c] = [pc |-> l, offer |-> client[c].offer, row |-> client[c].row, sha |-> client[c].sha]
         /\ \A e \in Client \ {c} : client'[e] = client[e]
  BY DEF PoolInv, Fit, Goes

LEMMA Pinned ==
  ASSUME PoolInv, NEW c \in Client, NEW i, Pins(c, i)
  PROVE  /\ client'[c] = [pc |-> "pin", offer |-> client[c].offer, row |-> i, sha |-> client[c].sha]
         /\ \A e \in Client \ {c} : client'[e] = client[e]
<1>1. Fit(client[c], rows) /\ DOMAIN client = Client
  BY DEF PoolInv
<1> QED
  BY <1>1 DEF Fit, Pins

LEMMA FindObjectStores ==
  ASSUME PoolInv, ObjInv, NEW c \in Client, FindObject(c)
  PROVE  ObjInv'
<1>1. /\ client[c].pc = "head" /\ env' = env /\ objects' = objects /\ sigs' = sigs /\ rows' = rows /\ move' = move
  BY DEF FindObject, At, bucket
<1>2. PICK l \in {"put", "sign"} : Goes(c, l)
  BY DEF FindObject
<1>3. /\ client'[c] = [pc |-> l, offer |-> client[c].offer, row |-> client[c].row, sha |-> client[c].sha]
      /\ \A e \in Client \ {c} : client'[e] = client[e]
  BY <1>2, Gone
<1>4. Storing(env, client[c], rows, objects, sigs)
  BY DEF ObjInv
<1>5. Storing(env, client'[c], rows, objects, sigs)
  BY <1>1, <1>3, <1>4 DEF Storing
<1> QED
  BY <1>1, <1>3, <1>5, JobOnly

\* What arrives is the build, under a sum if it came in one part.
LEMMA PutStores ==
  ASSUME Orderly, PoolInv, ObjInv, NEW c \in Client, Put(c)
  PROVE  ObjInv'
<1> DEFINE o == client[c].offer
           it == [bytes |-> o.sha, sum |-> o.sha \notin Large]
<1>1. /\ client[c].pc = "put" /\ env' = env /\ sigs' = sigs /\ rows' = rows /\ move' = move /\ Goes(c, "sign")
      /\ objects' = [objects EXCEPT ![packageKey(o)] = it]
  BY DEF Put, At, Offer
<1>2. o \in Publishable(env) /\ Free(o, rows) /\ AllSigned(o, rows) /\ env \in Deployments
  BY <1>1 DEF ObjInv, Storing, PoolInv
<1>3. o.sha \in Build /\ o.source \in Upstream \cup {Factory} /\ packageKey(o) \in DOMAIN env.objects
  BY <1>2, OfferIs
<1>4. BucketOK(env, objects, sigs) /\ DOMAIN objects = DOMAIN env.objects
  BY DEF ObjInv, BucketOK
<1>5. it \in Objects /\ it # Absent /\ it.bytes = o.sha
  BY <1>3, PoolAssumption DEF Objects, Absent
<1>6. BucketOK(env, objects', sigs')
  <2>1. ASSUME NEW q \in Publishable(env) PROVE OnlyItself(objects'[packageKey(q)], q)
    <3>1. CASE packageKey(q) = packageKey(o)
      <4>1. objects'[packageKey(q)] = it /\ SamePlace(o, q)
        BY <1>1, <1>3, <1>4, <3>1, Keys
      <4>2. o.sha \in Large /\ Size[o.sha] = Size[q.sha] => o.sha = q.sha
        BY <1>2, <4>1 DEF Orderly, ToldApart
      <4>3. it.sum <=> o.sha \notin Large
        BY Zenon
      <4> HIDE DEF it
      <4>4. OnlyItself(it, q)
        BY <1>5, <4>2, <4>3 DEF OnlyItself
      <4> QED
        BY <4>1, <4>4
    <3>2. CASE packageKey(q) # packageKey(o)
      BY <1>1, <1>4, <3>2 DEF BucketOK
    <3> QED
      BY <3>1, <3>2
  <2>2. DOMAIN objects' = DOMAIN env.objects /\ \A k \in DOMAIN objects' : objects'[k] \in {Absent} \cup Objects
    <3> HIDE DEF it
    <3> QED
      BY <1>1, <1>4, <1>5 DEF BucketOK
  <2> QED
    BY <1>1, <1>4, <2>1, <2>2 DEF BucketOK
<1> HIDE DEF it
<1>7. /\ \A k : k # packageKey(o) => objects'[k] = objects[k] /\ sigs'[k] = sigs[k]
      /\ objects'[packageKey(o)] # Absent /\ objects'[packageKey(o)].bytes = o.sha
  BY <1>1, <1>3, <1>4, <1>5
<1>13. client[c].pc # "idle" /\ o = client[c].offer
  BY <1>1
<1> HIDE DEF o
<1>8. /\ AllAgree(rows, objects', sigs') /\ PageOK(move, rows, objects', sigs')
      /\ \A e \in Client \ {c} : Storing(env, client[e], rows, objects', sigs')
  BY <1>2, <1>7, <1>13, WritesApart
<1>9. /\ client'[c] = [pc |-> "sign", offer |-> o, row |-> client[c].row, sha |-> client[c].sha]
      /\ \A e \in Client \ {c} : client'[e] = client[e]
  BY <1>1, Gone DEF o
<1>10. Storing(env, client'[c], rows, objects', sigs')
  BY <1>2, <1>9 DEF Storing
<1>11. Turns(client')
  BY <1>9, <1>13, TurnsOn DEF ObjInv
<1>12. \A e \in Client : Storing(env, client'[e], rows, objects', sigs')
  BY <1>8, <1>9, <1>10
<1> QED
  BY <1>1, <1>6, <1>8, <1>11, <1>12 DEF ObjInv

\* What is signed is what is there, or what the upstream says is.
LEMMA SignStores ==
  ASSUME PoolInv, ObjInv, NEW c \in Client, Sign(c)
  PROVE  ObjInv'
<1>1. /\ client[c].pc = "sign" /\ env' = env /\ objects' = objects /\ sigs' = sigs /\ rows' = rows /\ move' = move
  BY DEF Sign, At, bucket
<1>2. CASE ~Signable(Offer(c))
  BY <1>1, <1>2, GivesUpOnly DEF Sign
<1>3. CASE Signable(Offer(c))
  <2> DEFINE o == client[c].offer
  <2>1. /\ client'[c] = [pc |-> "sig", offer |-> o, row |-> client[c].row, sha |-> SigOf(o, objects)]
        /\ \A e \in Client \ {c} : client'[e] = client[e]
    BY <1>3 DEF Sign, PoolInv, Fit, Offer, SigOf
  <2>2. CanSign(o, objects)
    BY <1>3 DEF Signable, CanSign, Offer
  <2>3. Storing(env, client[c], rows, objects, sigs)
    BY DEF ObjInv
  <2>4. Storing(env, client'[c], rows, objects, sigs)
    BY <1>1, <2>1, <2>2, <2>3 DEF Storing
  <2> QED
    BY <1>1, <2>1, <2>4, JobOnly
<1> QED
  BY <1>2, <1>3

LEMMA PutSigStores ==
  ASSUME Orderly, PoolInv, ObjInv, NEW c \in Client, PutSig(c)
  PROVE  ObjInv'
<1> DEFINE o == client[c].offer
<1>1. /\ client[c].pc = "sig" /\ env' = env /\ objects' = objects /\ rows' = rows /\ move' = move /\ Goes(c, "flag")
      /\ sigs' = [sigs EXCEPT ![packageKey(o)] = client[c].sha]
  BY DEF PutSig, At, Offer
<1>2. /\ o \in Publishable(env) /\ Free(o, rows) /\ AllSigned(o, rows) /\ env \in Deployments
      /\ CanSign(o, objects) /\ client[c].sha = SigOf(o, objects)
  BY <1>1 DEF ObjInv, Storing, PoolInv
<1>3. packageKey(o) \in DOMAIN sigs /\ BucketOK(env, objects, sigs)
  BY <1>2, OfferIs DEF ObjInv, BucketOK
<1>4. BucketOK(env, objects', sigs')
  BY <1>1, <1>3 DEF BucketOK
<1>5. /\ client'[c] = [pc |-> "flag", offer |-> o, row |-> client[c].row, sha |-> client[c].sha]
      /\ \A e \in Client \ {c} : client'[e] = client[e]
  BY <1>1, Gone
<1>6. /\ \A k : k # packageKey(o) => objects'[k] = objects[k] /\ sigs'[k] = sigs[k]
      /\ objects'[packageKey(o)] = objects[packageKey(o)] /\ sigs'[packageKey(o)] = SigOf(o, objects)
  BY <1>1, <1>2, <1>3
<1>7. client[c].pc # "idle" /\ o = client[c].offer
  BY <1>1
<1> HIDE DEF o
<1>8. /\ AllAgree(rows, objects', sigs') /\ PageOK(move, rows, objects', sigs')
      /\ \A e \in Client \ {c} : Storing(env, client[e], rows, objects', sigs')
  BY <1>2, <1>6, <1>7, WritesApart
<1>9. Beside(o, objects', sigs')
  BY <1>1, <1>2, <1>6 DEF Beside, CanSign, SigOf
<1>10. Storing(env, client'[c], rows, objects', sigs')
  BY <1>2, <1>5, <1>9 DEF Storing
<1>11. Turns(client')
  BY <1>5, <1>7, TurnsOn DEF ObjInv
<1>12. \A e \in Client : Storing(env, client'[e], rows, objects', sigs')
  BY <1>5, <1>8, <1>10
<1> QED
  BY <1>1, <1>4, <1>8, <1>11, <1>12 DEF ObjInv

\* The rows of the build, if it has any, are signed already.
LEMMA FlagStores ==
  ASSUME PoolInv, ObjInv, NEW c \in Client, Flag(c)
  PROVE  ObjInv'
<1> DEFINE o == client[c].offer
<1>1. /\ client[c].pc = "flag" /\ env' = env /\ objects' = objects /\ sigs' = sigs /\ move' = move /\ Goes(c, "index")
      /\ rows' = [i \in Id |-> [rows[i] EXCEPT !.signed = @ \/ (rows[i].sha = o.sha /\ rows[i].arch = o.arch)]]
  BY DEF Flag, At, Offer, bucket
<1>2. /\ o \in Publishable(env) /\ Free(o, rows) /\ AllSigned(o, rows) /\ Beside(o, objects, sigs)
  BY <1>1 DEF ObjInv, Storing
<1>3. ASSUME NEW i \in Id PROVE [rows[i] EXCEPT !.signed = @ \/ (rows[i].sha = o.sha /\ rows[i].arch = o.arch)] = rows[i]
  <2>1. rows[i] \in Row
    BY DEF PoolInv, Id
  <2>2. rows[i].sha = o.sha /\ rows[i].arch = o.arch => rows[i].signed
    BY <1>2 DEF AllSigned, Id
  <2>3. rows[i].signed \in BOOLEAN
    BY <2>1 DEF Row
  <2>4. (rows[i].signed \/ (rows[i].sha = o.sha /\ rows[i].arch = o.arch)) = rows[i].signed
    BY <2>2, <2>3
  <2>5. [rows[i] EXCEPT !.signed = rows[i].signed] = rows[i]
    BY <2>1 DEF Row
  <2> QED
    BY <2>4, <2>5
<1>4. rows = [i \in Id |-> rows[i]]
  BY DEF PoolInv, Id
<1>5. rows' = rows
  BY <1>1, <1>3, <1>4
<1>6. /\ client'[c] = [pc |-> "index", offer |-> o, row |-> client[c].row, sha |-> client[c].sha]
      /\ \A e \in Client \ {c} : client'[e] = client[e]
  BY <1>1, Gone
<1>7. Storing(env, client'[c], rows, objects, sigs)
  BY <1>2, <1>6 DEF Storing
<1> QED
  BY <1>1, <1>5, <1>6, <1>7, JobOnly

\* Rows that are as they were but for their file lists.
Like(r, q) == /\ r.sha = q.sha /\ r.source = q.source /\ r.arch = q.arch /\ r.file = q.file
              /\ r.dir = q.dir /\ (r.signed <=> q.signed)

LEMMA LikeIsSeen ==
  ASSUME NEW r, NEW q, Like(r, q), NEW s, NEW obs, NEW sgs
  PROVE  /\ packageKey(r) = packageKey(q) /\ flatKey(r) = flatKey(q)
         /\ Agrees(q, obs, sgs) => Agrees(r, obs, sgs)
         /\ Copied(s, q, obs, sgs) => Copied(s, r, obs, sgs)
<1>1. packageKey(r) = packageKey(q) /\ flatKey(r) = flatKey(q)
  BY DEF Like, packageKey, flatKey
<1> QED
  BY <1>1 DEF Like, Agrees, Copied

\* The index grows by rows that agree with the bucket, in the place of one job.
LEMMA GrowsApart ==
  ASSUME Orderly, PoolInv, ObjInv, NEW c \in Client, client[c].pc # "idle", NEW ss, NEW o, o = client[c].offer,
         \A i \in DOMAIN rows : i \in DOMAIN ss /\ Like(ss[i], rows[i]),
         \A i \in DOMAIN ss : i \notin DOMAIN rows => packageKey(ss[i]) = packageKey(o) /\ ss[i].signed /\ Agrees(ss[i], objects, sigs)
  PROVE  /\ AllAgree(ss, objects, sigs) /\ PageOK(move, ss, objects, sigs)
         /\ \A e \in Client \ {c} : Storing(env, client[e], ss, objects, sigs)
<1>1. ASSUME NEW i \in DOMAIN ss PROVE Agrees(ss[i], objects, sigs)
  <2>1. CASE i \in DOMAIN rows
    BY <2>1, LikeIsSeen DEF ObjInv, AllAgree
  <2> QED
    BY <2>1
<1>2. PageOK(move, ss, objects, sigs)
  <2>1. ASSUME NEW i \in DOMAIN move.page
        PROVE  i \in DOMAIN ss /\ ss[i].dir = "flat" /\ Copied(move.page[i], ss[i], objects, sigs)
    <3>1. i \in DOMAIN rows /\ rows[i].dir = "flat" /\ Copied(move.page[i], rows[i], objects, sigs)
      BY DEF ObjInv, PageOK
    <3>2. i \in DOMAIN ss /\ Like(ss[i], rows[i])
      BY <3>1
    <3> QED
      BY <3>1, <3>2, LikeIsSeen DEF Like
  <2> QED
    BY <2>1 DEF ObjInv, PageOK
<1>3. ASSUME NEW e \in Client \ {c} PROVE Storing(env, client[e], ss, objects, sigs)
  <2> DEFINE q == client[e].offer
  <2>1. Storing(env, client[e], rows, objects, sigs)
    BY DEF ObjInv
  <2>2. \A i \in DOMAIN rows : i \in DOMAIN ss /\ ss[i].sha = rows[i].sha /\ ss[i].arch = rows[i].arch /\ ss[i].dir = rows[i].dir
                               /\ (ss[i].signed <=> rows[i].signed) /\ packageKey(ss[i]) = packageKey(rows[i])
    BY LikeIsSeen DEF Like
  <2>3. ASSUME client[e].pc # "idle", Free(q, rows) PROVE Free(q, ss)
    <3>1. packageKey(q) # packageKey(o)
      BY <2>3, OwnPlace
    <3>2. ASSUME NEW i \in DOMAIN ss, SamePlace(q, ss[i]) PROVE ss[i].dir = "ghost" /\ ss[i].sha # q.sha
      <4>1. i \in DOMAIN rows
        BY <3>1, <3>2 DEF SamePlace
      <4> QED
        BY <2>2, <2>3, <3>2, <4>1 DEF Free, SamePlace
    <3> QED
      BY <3>2 DEF Free
  <2>4. AllSigned(q, rows) => AllSigned(q, ss)
    <3> SUFFICES ASSUME AllSigned(q, rows), NEW i \in DOMAIN ss, ss[i].sha = q.sha, ss[i].arch = q.arch PROVE ss[i].signed
      BY DEF AllSigned
    <3>1. CASE i \in DOMAIN rows
      BY <2>2, <3>1 DEF AllSigned
    <3> QED
      BY <3>1
  <2> QED
    BY <2>1, <2>2, <2>3, <2>4, StoresBeside
<1> QED
  BY <1>1, <1>2, <1>3 DEF AllAgree

\* The row of a build whose object has its size: the object is the build, and
\* the signature beside it is of the build.
LEMMA IndexStores ==
  ASSUME Orderly, PoolInv, ObjInv, NEW c \in Client, Index(c)
  PROVE  ObjInv'
<1> DEFINE o == client[c].offer
           K == packageKey(o)
           refused == ~Fits(o) \/ \E i \in IdsOf(o.sha) : rows[i].arch # o.arch
<1>1. /\ client[c].pc = "index" /\ env' = env /\ objects' = objects /\ sigs' = sigs /\ move' = move
  BY DEF Index, At, bucket
<1>2. o \in Publishable(env) /\ env \in Deployments /\ rows \in Seq(Row)
      /\ (Known(o.sha, rows) \/ (Free(o, rows) /\ Beside(o, objects, sigs)))
  BY <1>1 DEF ObjInv, Storing, PoolInv
<1>3. CASE refused
  <2>1. GivesUp(c) /\ rows' = rows
    BY <1>3 DEF Index, Offer
  <2> QED
    BY <1>1, <2>1, GivesUpOnly
<1>4. CASE ~refused /\ IdsOf(o.sha) # {}
  <2>1. Pins(c, LeastOf(IdsOf(o.sha))) /\ rows' = rows
    BY <1>4 DEF Index, Offer
  <2>2. /\ client'[c] = [pc |-> "pin", offer |-> o, row |-> LeastOf(IdsOf(o.sha)), sha |-> client[c].sha]
        /\ \A e \in Client \ {c} : client'[e] = client[e]
    BY <2>1, Pinned
  <2>3. Storing(env, client'[c], rows, objects, sigs)
    BY <1>2, <2>2 DEF Storing
  <2> QED
    BY <1>1, <2>1, <2>2, <2>3, JobOnly
<1>5. CASE ~refused /\ IdsOf(o.sha) = {}
  <2> DEFINE r == [sha |-> o.sha, source |-> o.source, arch |-> o.arch, file |-> o.file, dir |-> "own",
                   signed |-> sigs[K] # None, whole |-> FALSE]
  <2>1. rows' = Append(rows, r) /\ Goes(c, "rest")
    BY <1>5 DEF Index, Offer
  <2>2. ~Known(o.sha, rows)
    BY <1>5 DEF Known, IdsOf, Id
  <2>3. Beside(o, objects, sigs) /\ OnlyItself(objects[K], o) /\ Fits(o)
    BY <1>2, <1>5, <2>2 DEF ObjInv, BucketOK
  <2>4. objects[K].bytes = o.sha
    BY <2>3 DEF Beside, CanSign, OnlyItself, Fits
  <2>5. o.sha # None /\ o.source \in Upstream \cup {Factory} /\ o.sha \in Build
        /\ K \in DOMAIN env.objects /\ flatKey(o) \in DOMAIN env.objects
    BY <1>2, OfferIs, PoolAssumption
  <2>6. sigs[K] = o.sha
    BY <2>3, <2>4 DEF Beside, SigOf
  <2>7. packageKey(r) = K /\ flatKey(r) = flatKey(o)
    BY DEF packageKey, flatKey
  <2>8. r.signed
    BY <2>5, <2>6
  <2>9. r \in Row
    <3>1. o \in Offered
      <4>1. o.arch \in STRING /\ o.file \in STRING
        BY <1>1 DEF PoolInv, Fit, Offered
      <4> QED
        BY <1>1 DEF PoolInv, Fit
    <3>2. (sigs[K] # None) \in BOOLEAN
      OBVIOUS
    <3> QED
      BY <3>1, <3>2 DEF Row, Offered
  <2>10. r.sha = o.sha /\ r.dir = "own"
    OBVIOUS
  <2> HIDE DEF r, K
  <2>11. Agrees(r, objects, sigs)
    BY <2>4, <2>6, <2>7, <2>10 DEF Agrees
  <2> DEFINE ss == rows'
  <2>12. /\ DOMAIN rows = 1 .. Len(rows) /\ DOMAIN ss = 1 .. Len(rows) + 1 /\ Len(rows) \in Nat
         /\ ss[Len(rows) + 1] = r /\ \A i \in DOMAIN rows : ss[i] = rows[i]
    BY <1>2, <2>1, <2>9
  <2>13. \A i \in DOMAIN ss : i \in DOMAIN rows \/ ss[i] = r
    BY <2>12
  <2>14. \A i \in DOMAIN rows : i \in DOMAIN ss /\ ss[i] = rows[i]
    BY <2>12
  <2>15. \A i, j \in DOMAIN ss : i \notin DOMAIN rows /\ j \notin DOMAIN rows => i = j
    BY <2>12
  <2> HIDE DEF ss
  <2>16. RowsOK(env, ss)
    <3>1. ASSUME NEW i \in DOMAIN ss
          PROVE  packageKey(ss[i]) \in DOMAIN env.objects /\ flatKey(ss[i]) \in DOMAIN env.objects
      <4>1. CASE i \in DOMAIN rows
        BY <2>14, <4>1 DEF ObjInv, RowsOK
      <4>2. CASE ss[i] = r
        BY <2>5, <2>7, <4>2
      <4> QED
        BY <2>13, <4>1, <4>2
    <3>2. ASSUME NEW i \in DOMAIN ss, NEW j \in DOMAIN ss, ss[i].sha = ss[j].sha PROVE i = j
      <4>1. \A k \in DOMAIN rows : rows[k].sha # o.sha
        BY <2>2 DEF Known
      <4>2. CASE i \in DOMAIN rows /\ j \in DOMAIN rows
        BY <2>14, <3>2, <4>2 DEF ObjInv, RowsOK
      <4>3. CASE i \in DOMAIN rows /\ j \notin DOMAIN rows
        BY <2>10, <2>13, <2>14, <3>2, <4>1, <4>3
      <4>4. CASE i \notin DOMAIN rows /\ j \in DOMAIN rows
        BY <2>10, <2>13, <2>14, <3>2, <4>1, <4>4
      <4> QED
        BY <2>15, <4>2, <4>3, <4>4
    <3>3. ASSUME NEW i \in DOMAIN ss, NEW q \in Publishable(env), ss[i].dir = "null", SamePlace(q, ss[i]) PROVE q.sha = ss[i].sha
      <4>1. i \in DOMAIN rows
        BY <2>10, <2>13, <3>3
      <4> QED
        BY <2>14, <3>3, <4>1 DEF ObjInv, RowsOK
    <3> QED
      BY <3>1, <3>2, <3>3 DEF RowsOK
  <2>17. \A i \in DOMAIN rows : i \in DOMAIN ss /\ Like(ss[i], rows[i])
    BY <2>14 DEF Like
  <2>18. \A i \in DOMAIN ss : i \notin DOMAIN rows => packageKey(ss[i]) = packageKey(o) /\ ss[i].signed /\ Agrees(ss[i], objects, sigs)
    BY <2>7, <2>8, <2>11, <2>13 DEF K
  <2>19. client[c].pc # "idle"
    BY <1>1
  <2>20. /\ AllAgree(ss, objects, sigs) /\ PageOK(move, ss, objects, sigs)
         /\ \A e \in Client \ {c} : Storing(env, client[e], ss, objects, sigs)
    BY <2>17, <2>18, <2>19, GrowsApart
  <2>21. /\ client'[c] = [pc |-> "rest", offer |-> o, row |-> client[c].row, sha |-> client[c].sha]
         /\ \A e \in Client \ {c} : client'[e] = client[e]
    BY <2>1, Gone
  <2>22. Storing(env, client'[c], ss, objects, sigs)
    BY <1>2, <2>21 DEF Storing
  <2>23. Turns(client')
    BY <2>19, <2>21, TurnsOn DEF ObjInv
  <2>24. \A e \in Client : Storing(env, client'[e], ss, objects, sigs)
    BY <2>20, <2>21, <2>22
  <2> QED
    BY <1>1, <2>16, <2>20, <2>23, <2>24 DEF ObjInv, ss
<1> QED
  BY <1>3, <1>4, <1>5

LEMMA CompleteStores ==
  ASSUME Orderly, PoolInv, ObjInv, NEW c \in Client, Complete(c)
  PROVE  ObjInv'
<1> DEFINE o == client[c].offer
           n == LeastOf(IdsOf(Offer(c).sha))
           ss == rows'
<1>1. /\ client[c].pc = "rest" /\ env' = env /\ objects' = objects /\ sigs' = sigs /\ move' = move
      /\ rows' = [rows EXCEPT ![n].whole = TRUE] /\ Pins(c, n)
  BY DEF Complete, At, bucket
<1>2. /\ client'[c] = [pc |-> "pin", offer |-> o, row |-> n, sha |-> client[c].sha]
      /\ \A e \in Client \ {c} : client'[e] = client[e]
  BY <1>1, Pinned
<1> HIDE DEF n
<1>3. DOMAIN ss = DOMAIN rows
  BY <1>1
<1>4. ASSUME NEW i \in DOMAIN rows PROVE Like(ss[i], rows[i])
  <2>1. rows[i] \in Row
    BY RowIs
  <2>2. ss[i] = rows[i] \/ ss[i] = [rows[i] EXCEPT !.whole = TRUE]
    BY <1>1
  <2>3. rows[i] = [sha |-> rows[i].sha, source |-> rows[i].source, arch |-> rows[i].arch, file |-> rows[i].file,
                   dir |-> rows[i].dir, signed |-> rows[i].signed, whole |-> rows[i].whole]
    BY <2>1 DEF Row
  <2> QED
    BY <2>2, <2>3 DEF Like
<1> HIDE DEF ss
<1>5. RowsOK(env, ss)
  <2>1. \A i \in DOMAIN rows : ss[i].sha = rows[i].sha /\ ss[i].dir = rows[i].dir
                            /\ packageKey(ss[i]) = packageKey(rows[i]) /\ flatKey(ss[i]) = flatKey(rows[i])
    BY <1>4, LikeIsSeen DEF Like
  <2> QED
    BY <1>3, <2>1 DEF ObjInv, RowsOK, SamePlace
<1>6. client[c].pc # "idle"
  BY <1>1
<1>7. /\ AllAgree(ss, objects, sigs) /\ PageOK(move, ss, objects, sigs)
      /\ \A e \in Client \ {c} : Storing(env, client[e], ss, objects, sigs)
  BY <1>3, <1>4, <1>6, GrowsApart
<1>8. Storing(env, client'[c], ss, objects, sigs)
  BY <1>1, <1>2 DEF ObjInv, Storing
<1>9. Turns(client')
  BY <1>2, <1>6, TurnsOn DEF ObjInv
<1>10. \A e \in Client : Storing(env, client'[e], ss, objects, sigs)
  BY <1>2, <1>7, <1>8
<1> QED
  BY <1>1, <1>5, <1>7, <1>9, <1>10 DEF ObjInv, ss

LEMMA PinStores ==
  ASSUME PoolInv, ObjInv, NEW c \in Client, Pin(c)
  PROVE  ObjInv'
<1>1. env' = env /\ objects' = objects /\ sigs' = sigs /\ rows' = rows /\ move' = move /\ GivesUp(c)
  BY DEF Pin, bucket
<1> QED
  BY <1>1, GivesUpOnly

\* A job whose invocation is asked again has its row by then.
LEMMA ClientEndsStores ==
  ASSUME PoolInv, ObjInv, NEW c \in Client, ClientEnds(c)
  PROVE  ObjInv'
<1>1. env' = env /\ objects' = objects /\ sigs' = sigs /\ rows' = rows /\ move' = move
  BY DEF ClientEnds, bucket
<1>2. CASE GivesUp(c)
  BY <1>1, <1>2, GivesUpOnly
<1>3. CASE At(c, "rest") /\ Goes(c, "index")
  <2>1. Storing(env, client[c], rows, objects, sigs) /\ client[c].pc = "rest"
    BY <1>3 DEF ObjInv, At
  <2>2. Known(client[c].offer.sha, rows)
    BY <2>1 DEF PoolInv, Fit, Known
  <2>3. /\ client'[c] = [pc |-> "index", offer |-> client[c].offer, row |-> client[c].row, sha |-> client[c].sha]
        /\ \A e \in Client \ {c} : client'[e] = client[e]
    BY <1>3, Gone
  <2>4. Storing(env, client'[c], rows, objects, sigs)
    BY <2>1, <2>2, <2>3 DEF Storing
  <2> QED
    BY <1>1, <2>1, <2>3, <2>4, JobOnly
<1> QED
  BY <1>2, <1>3 DEF ClientEnds

LEMMA PublishesStores ==
  ASSUME Orderly, PoolInv, ObjInv, NEW c \in Client, Publishes(c)
  PROVE  ObjInv'
<1>1. ASSUME NEW o \in env.offers, Ask(c, o) PROVE ObjInv'
  <2>1. o \in Publishable(env)
    BY DEF Publishable
  <2> QED
    BY <1>1, <2>1, AskStores
<1> QED
  BY <1>1, FindObjectStores, PutStores, SignStores, PutSigStores, FlagStores, IndexStores, CompleteStores, PinStores,
     ClientEndsStores DEF Publishes

-----------------------------------------------------------------------------
(* ... and the relayout.                                                   *)

\* A step of the relayout that leaves tables and bucket.
LEMMA MoveOnly ==
  ASSUME ObjInv, env' = env, objects' = objects, sigs' = sigs, rows' = rows, client' = client,
         PageOK(move', rows, objects, sigs)
  PROVE  ObjInv'
  BY DEF ObjInv

LEMMA ParkedOK ==
  ASSUME NEW rs, NEW obs, NEW sgs, NEW m, m.pc # "copy", m.page = <<>>,
         m = [pc |-> m.pc, page |-> m.page, moved |-> m.moved, arches |-> m.arches]
  PROVE  PageOK(m, rs, obs, sgs)
<1>1. DOMAIN m.page = {} /\ m.page = [i \in DOMAIN m.page |-> m.page[i]]
  OBVIOUS
<1> QED
  BY <1>1 DEF PageOK

\* What the relayout writes in the place of a row that has not moved is in no
\* job's place.
LEMMA StoresAway ==
  ASSUME ObjInv, NEW i \in DOMAIN rows, rows[i].dir = "flat", NEW obs, NEW sgs,
         \A k : k # packageKey(rows[i]) => obs[k] = objects[k] /\ sgs[k] = sigs[k]
  PROVE  \A e \in Client : Storing(env, client[e], rows, obs, sgs)
<1> TAKE e \in Client
<1>1. Storing(env, client[e], rows, objects, sigs)
  BY DEF ObjInv
<1>2. Free(client[e].offer, rows) => packageKey(client[e].offer) # packageKey(rows[i])
  BY DEF Free, SamePlace
<1>3. client[e].pc \in {"sig", "flag"} => Free(client[e].offer, rows)
  BY <1>1 DEF Storing
<1> QED
  BY <1>1, <1>2, <1>3, StoresOn

\* A row that changes its directory and was no ghost is in nobody's place.
LEMMA StoresOnRows ==
  ASSUME ObjInv, NEW ss, DOMAIN ss = DOMAIN rows,
         \A i \in DOMAIN rows : /\ ss[i].sha = rows[i].sha /\ ss[i].arch = rows[i].arch /\ (ss[i].signed <=> rows[i].signed)
                                /\ packageKey(ss[i]) = packageKey(rows[i])
                                /\ rows[i].dir = "ghost" => ss[i].dir = "ghost"
  PROVE  \A e \in Client : Storing(env, client[e], ss, objects, sigs)
<1> TAKE e \in Client
<1> DEFINE q == client[e].offer
<1>1. Storing(env, client[e], rows, objects, sigs)
  BY DEF ObjInv
<1>2. Free(q, rows) => Free(q, ss)
  BY DEF Free, SamePlace
<1>3. AllSigned(q, rows) => AllSigned(q, ss)
  BY DEF AllSigned
<1> QED
  BY <1>1, <1>2, <1>3, StoresBeside

\* A row that is on the page, and what is known of it.
LEMMA OnPage ==
  ASSUME PoolInv, ObjInv, NEW i, NEW s, Moves(i, s)
  PROVE  /\ i \in DOMAIN rows /\ rows[i].dir = "flat" /\ i \in DOMAIN move.page /\ move.page[i] = s
         /\ Copied(s, rows[i], objects, sigs) /\ Agrees(rows[i], objects, sigs)
         /\ r2_key(rows[i]) = flatKey(rows[i]) /\ rows[i].sha # None
         /\ packageKey(rows[i]) # flatKey(rows[i]) /\ packageKey(rows[i]) \in DOMAIN env.objects
         /\ \A j \in DOMAIN rows : flatKey(rows[j]) # packageKey(rows[i])
<1>1. i \in DOMAIN move.page /\ move.page[i] = s
  BY DEF Moves
<1>2. i \in DOMAIN rows /\ rows[i].dir = "flat" /\ Copied(s, rows[i], objects, sigs)
  BY <1>1 DEF ObjInv, PageOK
<1>3. Agrees(rows[i], objects, sigs) /\ packageKey(rows[i]) \in DOMAIN env.objects
  BY <1>2 DEF ObjInv, AllAgree, RowsOK
<1>4. rows[i].sha # None /\ rows[i].source \in Upstream \cup {Factory}
  BY <1>2, RowIs
<1>5. \A s2 : packageKey(rows[i]) # flatKey(s2)
  BY <1>4, Keys
<1>6. r2_key(rows[i]) = flatKey(rows[i])
  BY <1>2 DEF r2_key
<1> QED
  BY <1>1, <1>2, <1>3, <1>4, <1>5, <1>6

\* The row i is one step further, or done with, and the rest of the page is
\* where it was.
Further(i, pg, qg) == \A j \in DOMAIN qg : j \in DOMAIN pg /\ (j # i => qg[j] = pg[j])

LEMMA Stepped ==
  ASSUME NEW rs, NEW obs, NEW sgs, PageOK(move, rs, obs, sgs), move.pc = "copy", NEW i \in DOMAIN move.page, NEW s, Step(i, s)
  PROVE  /\ move' = [pc |-> "copy", page |-> move'.page, moved |-> move'.moved, arches |-> move'.arches]
         /\ move'.page = [j \in DOMAIN move'.page |-> move'.page[j]]
         /\ Further(i, move.page, move'.page) /\ move'.page[i] = s
<1>1. /\ move = [pc |-> move.pc, page |-> move.page, moved |-> move.moved, arches |-> move.arches]
      /\ move.page = [j \in DOMAIN move.page |-> move.page[j]]
  BY DEF PageOK
<1> DEFINE pg == move.page
           qg == [pg EXCEPT ![i] = s]
<1>2. move' = [pc |-> "copy", page |-> qg, moved |-> move.moved, arches |-> move.arches]
  BY <1>1 DEF Step
<1>3. DOMAIN qg = DOMAIN pg /\ qg = [j \in DOMAIN qg |-> qg[j]] /\ qg[i] = s /\ \A j \in DOMAIN pg : j # i => qg[j] = pg[j]
  OBVIOUS
<1> HIDE DEF qg
<1> QED
  BY <1>2, <1>3 DEF Further

LEMMA Left ==
  ASSUME NEW rs, NEW obs, NEW sgs, PageOK(move, rs, obs, sgs), move.pc = "copy", NEW i \in DOMAIN move.page, NEW done, Leave(i, done)
  PROVE  /\ move' = [pc |-> "copy", page |-> move'.page, moved |-> move'.moved, arches |-> move'.arches]
         /\ move'.page = [j \in DOMAIN move'.page |-> move'.page[j]]
         /\ Further(i, move.page, move'.page) /\ i \notin DOMAIN move'.page
<1>1. move = [pc |-> move.pc, page |-> move.page, moved |-> move.moved, arches |-> move.arches]
  BY DEF PageOK
<1> DEFINE pg == move.page
           qg == [j \in (DOMAIN pg) \ {i} |-> pg[j]]
           b  == move.moved \/ done
<1>2. move' = [pc |-> "copy", page |-> qg, moved |-> b, arches |-> move.arches]
  BY <1>1 DEF Leave
<1>3. DOMAIN qg = (DOMAIN pg) \ {i} /\ qg = [j \in DOMAIN qg |-> qg[j]] /\ \A j \in DOMAIN qg : qg[j] = pg[j]
  OBVIOUS
<1> HIDE DEF qg, b
<1> QED
  BY <1>2, <1>3 DEF Further

\* The page is in order when the row i is, and the others are as before.
LEMMA PageMoves ==
  ASSUME NEW m, NEW i, NEW rs, NEW obs, NEW sgs,
         m = [pc |-> "copy", page |-> m.page, moved |-> m.moved, arches |-> m.arches],
         m.page = [j \in DOMAIN m.page |-> m.page[j]], Further(i, move.page, m.page),
         i \in DOMAIN m.page => i \in DOMAIN rs /\ rs[i].dir = "flat" /\ Copied(m.page[i], rs[i], obs, sgs),
         \A j \in DOMAIN move.page : j # i => j \in DOMAIN rs /\ rs[j].dir = "flat" /\ Copied(move.page[j], rs[j], obs, sgs)
  PROVE  PageOK(m, rs, obs, sgs)
<1>1. m.pc = "copy"
  OBVIOUS
<1>2. \A j \in DOMAIN m.page : j \in DOMAIN rs /\ rs[j].dir = "flat" /\ Copied(m.page[j], rs[j], obs, sgs)
  BY DEF Further
<1> QED
  BY <1>1, <1>2 DEF PageOK

\* A new page is of rows that have not moved.
LEMMA CopyPageMoves ==
  ASSUME PoolInv, ObjInv, CopyPage
  PROVE  ObjInv'
<1>1. /\ env' = env /\ objects' = objects /\ sigs' = sigs /\ client' = client
      /\ rows' = [i \in Id |-> [rows[i] EXCEPT !.dir = IF @ = "null" THEN "flat" ELSE @]]
  BY DEF CopyPage, bucket
<1> DEFINE ss == rows'
<1>2. DOMAIN ss = DOMAIN rows
  BY <1>1 DEF Id
<1>3. ASSUME NEW i \in DOMAIN rows
      PROVE  /\ ss[i].sha = rows[i].sha /\ ss[i].arch = rows[i].arch /\ ss[i].source = rows[i].source /\ ss[i].file = rows[i].file
             /\ ss[i].signed = rows[i].signed /\ ss[i].dir = IF rows[i].dir = "null" THEN "flat" ELSE rows[i].dir
  <2>1. rows[i] \in Row
    BY RowIs
  <2>2. rows[i] = [sha |-> rows[i].sha, source |-> rows[i].source, arch |-> rows[i].arch, file |-> rows[i].file,
                   dir |-> rows[i].dir, signed |-> rows[i].signed, whole |-> rows[i].whole]
    BY <2>1 DEF Row
  <2>3. ss[i] = [rows[i] EXCEPT !.dir = IF rows[i].dir = "null" THEN "flat" ELSE rows[i].dir]
    BY <1>1 DEF Id
  <2> QED
    BY <2>2, <2>3
<1> HIDE DEF ss
<1>4. ASSUME NEW i \in DOMAIN rows PROVE packageKey(ss[i]) = packageKey(rows[i]) /\ flatKey(ss[i]) = flatKey(rows[i])
  BY <1>3 DEF packageKey, flatKey
<1>5. ASSUME NEW i \in DOMAIN ss PROVE Agrees(ss[i], objects, sigs)
  <2>1. i \in DOMAIN rows /\ Agrees(rows[i], objects, sigs)
    BY <1>2 DEF ObjInv, AllAgree
  <2> QED
    BY <1>3, <1>4, <2>1 DEF Agrees
<1>6. RowsOK(env, ss)
  <2>1. \A i \in DOMAIN ss : ss[i].dir # "null"
    BY <1>2, <1>3
  <2> QED
    BY <1>2, <1>3, <1>4, <2>1 DEF ObjInv, RowsOK
<1>7. \A e \in Client : Storing(env, client[e], ss, objects, sigs)
  <2>1. \A i \in DOMAIN rows : /\ ss[i].sha = rows[i].sha /\ ss[i].arch = rows[i].arch /\ (ss[i].signed <=> rows[i].signed)
                               /\ packageKey(ss[i]) = packageKey(rows[i])
                               /\ rows[i].dir = "ghost" => ss[i].dir = "ghost"
    BY <1>3, <1>4
  <2> QED
    BY <1>2, <2>1, StoresOnRows
<1>8. PageOK(move', ss, objects, sigs)
  <2>1. CASE UNMOVED = {}
    <3>1. move' = [pc |-> "render", page |-> <<>>, moved |-> FALSE, arches |-> {}]
      BY <2>1 DEF CopyPage, Parked
    <3> QED
      BY <3>1, ParkedOK
  <2>2. CASE UNMOVED # {} /\ move.pc = "copy" /\ ~move.moved
    <3>1. move' = [pc |-> "idle", page |-> <<>>, moved |-> FALSE, arches |-> {}]
      BY <2>2 DEF CopyPage, Parked
    <3> QED
      BY <3>1, ParkedOK
  <2>3. CASE UNMOVED # {} /\ ~(move.pc = "copy" /\ ~move.moved)
    <3> DEFINE page == {i \in UNMOVED : Cardinality({j \in UNMOVED : j < i}) < PageSize}
               pg   == [i \in page |-> "object"]
    <3>1. move' = [pc |-> "copy", page |-> pg, moved |-> FALSE, arches |-> {}]
      BY <2>3 DEF CopyPage, Parked
    <3>2. page \subseteq UNMOVED
      OBVIOUS
    <3>3. DOMAIN pg = page /\ pg = [i \in DOMAIN pg |-> pg[i]] /\ \A i \in page : pg[i] = "object"
      OBVIOUS
    <3> HIDE DEF page, pg
    <3>4. ASSUME NEW i \in DOMAIN pg PROVE i \in DOMAIN ss /\ ss[i].dir = "flat" /\ Copied(pg[i], ss[i], objects, sigs)
      <4>1. i \in DOMAIN rows /\ rows[i].dir \in {"flat", "null"} /\ pg[i] = "object"
        BY <3>2, <3>3 DEF UNMOVED, Id
      <4>2. ss[i].dir = "flat"
        BY <1>3, <4>1
      <4> QED
        BY <1>2, <4>1, <4>2 DEF Copied
    <3> QED
      BY <3>1, <3>3, <3>4 DEF PageOK
  <2> QED
    BY <2>1, <2>2, <2>3
<1> QED
  BY <1>1, <1>5, <1>6, <1>7, <1>8 DEF ObjInv, AllAgree, ss

\* What a row's two objects say of the way to go.
LEMMA CopyObjectMoves ==
  ASSUME PoolInv, ObjInv, NEW i, CopyObject(i)
  PROVE  ObjInv'
<1>1. env' = env /\ objects' = objects /\ sigs' = sigs /\ rows' = rows /\ client' = client /\ Moves(i, "object") /\ move.pc = "copy"
  BY DEF CopyObject, bucket, Moves
<1>2. /\ i \in DOMAIN rows /\ rows[i].dir = "flat" /\ i \in DOMAIN move.page
      /\ Agrees(rows[i], objects, sigs) /\ r2_key(rows[i]) = flatKey(rows[i]) /\ rows[i].sha # None
  BY <1>1, OnPage
<1> DEFINE there == objects[packageKey(rows[i])]
           from  == objects[flatKey(rows[i])]
<1>3. PageOK(move, rows, objects, sigs)
  BY DEF ObjInv
<1>4. Absent.bytes = None
  BY DEF Absent
<1>5. ASSUME NEW s, Step(i, s), Copied(s, rows[i], objects, sigs) PROVE PageOK(move', rows, objects, sigs)
  <2>1. /\ move' = [pc |-> "copy", page |-> move'.page, moved |-> move'.moved, arches |-> move'.arches]
        /\ move'.page = [j \in DOMAIN move'.page |-> move'.page[j]]
        /\ Further(i, move.page, move'.page) /\ move'.page[i] = s
    BY <1>1, <1>2, <1>3, <1>5, Stepped
  <2>2. \A j \in DOMAIN move.page : j \in DOMAIN rows /\ rows[j].dir = "flat" /\ Copied(move.page[j], rows[j], objects, sigs)
    BY <1>3 DEF PageOK
  <2> QED
    BY <1>2, <1>5, <2>1, <2>2, PageMoves
<1>6. CASE there # Absent /\ Present(there, rows[i].sha)
  <2>1. Step(i, "sides")
    BY <1>6 DEF CopyObject
  <2>2. there.bytes = rows[i].sha
    BY <1>2, <1>6 DEF Agrees, Present
  <2> QED
    BY <1>1, <1>5, <2>1, <2>2, MoveOnly DEF Copied
<1>7. CASE there # Absent /\ ~Present(there, rows[i].sha)
  <2>1. Step(i, "ghost")
    BY <1>7 DEF CopyObject
  <2> QED
    BY <1>1, <1>5, <1>7, <2>1, MoveOnly DEF Copied, Present
<1>8. CASE there = Absent /\ from = Absent
  <2>1. Leave(i, FALSE)
    BY <1>2, <1>8 DEF CopyObject
  <2>2. /\ move' = [pc |-> "copy", page |-> move'.page, moved |-> move'.moved, arches |-> move'.arches]
        /\ move'.page = [j \in DOMAIN move'.page |-> move'.page[j]]
        /\ Further(i, move.page, move'.page) /\ i \notin DOMAIN move'.page
    BY <1>1, <1>2, <1>3, <2>1, Left
  <2>3. \A j \in DOMAIN move.page : j \in DOMAIN rows /\ rows[j].dir = "flat" /\ Copied(move.page[j], rows[j], objects, sigs)
    BY <1>3 DEF PageOK
  <2>4. PageOK(move', rows, objects, sigs)
    BY <2>2, <2>3, PageMoves
  <2> QED
    BY <1>1, <2>4, MoveOnly
<1>9. CASE there = Absent /\ from # Absent /\ from.sum /\ from.bytes # rows[i].sha
  <2>1. Step(i, "ghost")
    BY <1>2, <1>9 DEF CopyObject
  <2>2. Copied("ghost", rows[i], objects, sigs)
    BY <1>2, <1>4, <1>9 DEF Copied
  <2> QED
    BY <1>1, <1>5, <2>1, <2>2, MoveOnly
<1>10. CASE there = Absent /\ from # Absent /\ ~(from.sum /\ from.bytes # rows[i].sha)
  <2>1. Step(i, "copy")
    BY <1>2, <1>10 DEF CopyObject
  <2>2. Copied("copy", rows[i], objects, sigs)
    BY <1>10 DEF Copied
  <2> QED
    BY <1>1, <1>5, <2>1, <2>2, MoveOnly
<1> QED
  BY <1>6, <1>7, <1>8, <1>9, <1>10

\* The copy has the row's bytes, and its sum: no other row of the place has.
LEMMA CopyPutMoves ==
  ASSUME PoolInv, ObjInv, NEW i, CopyPut(i)
  PROVE  ObjInv'
<1> DEFINE K  == packageKey(rows[i])
           it == [bytes |-> objects[flatKey(rows[i])].bytes, sum |-> TRUE]
<1>1. env' = env /\ sigs' = sigs /\ rows' = rows /\ client' = client /\ Moves(i, "copy") /\ move.pc = "copy"
  BY DEF CopyPut, Moves
<1>2. /\ i \in DOMAIN rows /\ rows[i].dir = "flat" /\ i \in DOMAIN move.page /\ Copied("copy", rows[i], objects, sigs)
      /\ Agrees(rows[i], objects, sigs) /\ r2_key(rows[i]) = flatKey(rows[i]) /\ rows[i].sha # None
      /\ K \in DOMAIN env.objects /\ \A j \in DOMAIN rows : flatKey(rows[j]) # K
  BY <1>1, OnPage
<1>3. BucketOK(env, objects, sigs) /\ PageOK(move, rows, objects, sigs) /\ RowsOK(env, rows)
  BY DEF ObjInv
<1>4. \A j \in DOMAIN move.page : j \in DOMAIN rows /\ rows[j].dir = "flat" /\ Copied(move.page[j], rows[j], objects, sigs)
  BY <1>3 DEF PageOK
<1>5. Absent.bytes = None
  BY DEF Absent
<1>6. CASE ~Copies(i)
  <2>1. objects' = objects /\ Step(i, "ghost") /\ objects[flatKey(rows[i])].bytes # rows[i].sha
    BY <1>2, <1>6 DEF CopyPut, Copies
  <2>2. Copied("ghost", rows[i], objects, sigs)
    BY <1>2, <1>5, <2>1 DEF Copied
  <2>3. /\ move' = [pc |-> "copy", page |-> move'.page, moved |-> move'.moved, arches |-> move'.arches]
        /\ move'.page = [j \in DOMAIN move'.page |-> move'.page[j]]
        /\ Further(i, move.page, move'.page) /\ move'.page[i] = "ghost"
    BY <1>1, <1>2, <1>3, <2>1, Stepped
  <2>4. PageOK(move', rows, objects, sigs)
    BY <1>2, <1>4, <2>2, <2>3, PageMoves
  <2> QED
    BY <1>1, <2>1, <2>4, MoveOnly
<1>7. CASE Copies(i)
  <2>1. objects[flatKey(rows[i])].bytes = rows[i].sha /\ Step(i, "sides") /\ objects' = [objects EXCEPT ![K] = it]
    BY <1>2, <1>7 DEF CopyPut, Copies
  <2>2. it.bytes = rows[i].sha /\ it.sum /\ it # Absent /\ it \in Objects
    <3>1. rows[i].sha \in Build
      BY <1>2, RowIs
    <3> QED
      BY <1>2, <2>1, <3>1 DEF Absent, Objects
  <2>3. objects[K] = Absent \/ objects[K].bytes = rows[i].sha
    BY <1>2, <2>1 DEF Copied
  <2> DEFINE obs == objects'
  <2>4. DOMAIN obs = DOMAIN objects /\ obs[K] = it /\ \A k : k # K => obs[k] = objects[k]
    BY <1>2, <1>3, <2>1 DEF BucketOK
  <2> HIDE DEF it, obs, K
  <2>5. BucketOK(env, obs, sigs)
    <3>1. \A k \in DOMAIN obs : obs[k] \in {Absent} \cup Objects
      BY <1>3, <2>2, <2>4 DEF BucketOK
    <3>2. ASSUME NEW o \in Publishable(env) PROVE OnlyItself(obs[packageKey(o)], o)
      <4>1. CASE packageKey(o) = K
        BY <2>2, <2>4, <4>1 DEF OnlyItself
      <4>2. CASE packageKey(o) # K
        BY <1>3, <2>4, <4>2 DEF BucketOK
      <4> QED
        BY <4>1, <4>2
    <3> QED
      BY <1>3, <2>4, <3>1, <3>2 DEF BucketOK
  <2>6. ASSUME NEW j \in DOMAIN rows, packageKey(rows[j]) # K
        PROVE  Agrees(rows[j], obs, sigs) /\ \A s : Copied(s, rows[j], objects, sigs) => Copied(s, rows[j], obs, sigs)
    <3>1. obs[packageKey(rows[j])] = objects[packageKey(rows[j])] /\ obs[flatKey(rows[j])] = objects[flatKey(rows[j])]
      BY <1>2, <2>4, <2>6
    <3> QED
      BY <3>1, SeesItsKeys DEF ObjInv, AllAgree
  <2>7. ASSUME NEW j \in DOMAIN rows, j # i, packageKey(rows[j]) = K
        PROVE  Agrees(rows[j], obs, sigs) /\ \A s : Copied(s, rows[j], objects, sigs) => Copied(s, rows[j], obs, sigs)
    <3>1. rows[j].sha # rows[i].sha /\ rows[j].sha # None
      BY <1>2, <1>3, <2>7, RowIs DEF RowsOK
    <3>2. flatKey(rows[j]) = flatKey(rows[i]) /\ flatKey(rows[i]) # K
      BY <1>2, <2>7, Keys, RowIs DEF K
    <3>3. obs[packageKey(rows[j])] = it /\ obs[flatKey(rows[j])] = objects[flatKey(rows[i])]
      BY <2>4, <2>7, <3>2
    <3>4. Agrees(rows[j], objects, sigs)
      BY DEF ObjInv, AllAgree
    <3>5. Agrees(rows[j], obs, sigs)
      BY <1>5, <2>2, <2>3, <2>7, <3>1, <3>3, <3>4 DEF Agrees
    <3>6. ASSUME NEW s, Copied(s, rows[j], objects, sigs) PROVE Copied(s, rows[j], obs, sigs)
      <4>1. s \notin {"sides", "key"}
        BY <1>5, <2>3, <2>7, <3>1, <3>6 DEF Copied
      <4> QED
        BY <2>1, <2>2, <3>1, <3>3, <4>1 DEF Copied
    <3> QED
      BY <3>5, <3>6
  <2>8. Agrees(rows[i], obs, sigs)
    <3>1. obs[packageKey(rows[i])] = it /\ obs[flatKey(rows[i])] = objects[flatKey(rows[i])]
      BY <1>2, <2>4 DEF K
    <3> QED
      BY <1>2, <2>1, <2>2, <2>3, <3>1 DEF Agrees, K
  <2>9. AllAgree(rows, obs, sigs)
    BY <2>6, <2>7, <2>8 DEF AllAgree
  <2>10. \A e \in Client : Storing(env, client[e], rows, obs, sigs)
    <3>1. \A k : k # packageKey(rows[i]) => obs[k] = objects[k] /\ sigs[k] = sigs[k]
      BY <2>4 DEF K
    <3> QED
      BY <1>2, <3>1, StoresAway
  <2>11. /\ move' = [pc |-> "copy", page |-> move'.page, moved |-> move'.moved, arches |-> move'.arches]
         /\ move'.page = [j \in DOMAIN move'.page |-> move'.page[j]]
         /\ Further(i, move.page, move'.page) /\ move'.page[i] = "sides"
    BY <1>1, <1>2, <1>3, <2>1, Stepped
  <2>12. Copied("sides", rows[i], obs, sigs)
    BY <2>2, <2>4 DEF Copied, K
  <2>13. \A j \in DOMAIN move.page : j # i => j \in DOMAIN rows /\ rows[j].dir = "flat" /\ Copied(move.page[j], rows[j], obs, sigs)
    BY <1>4, <2>6, <2>7
  <2>14. PageOK(move', rows, obs, sigs)
    BY <1>2, <2>11, <2>12, <2>13, PageMoves
  <2> QED
    BY <1>1, <1>3, <2>5, <2>9, <2>10, <2>14 DEF ObjInv, obs
<1> QED
  BY <1>6, <1>7

\* The signature goes beside the copy, unless one is there.
LEMMA CopySidesMoves ==
  ASSUME PoolInv, ObjInv, NEW i, CopySides(i)
  PROVE  ObjInv'
<1> DEFINE K   == packageKey(rows[i])
           sig == IF sigs[K] # None THEN sigs[K] ELSE sigs[flatKey(rows[i])]
<1>1. env' = env /\ objects' = objects /\ rows' = rows /\ client' = client /\ Moves(i, "sides") /\ move.pc = "copy" /\ Step(i, "key")
  BY DEF CopySides, Moves
<1>2. /\ i \in DOMAIN rows /\ rows[i].dir = "flat" /\ i \in DOMAIN move.page /\ Copied("sides", rows[i], objects, sigs)
      /\ Agrees(rows[i], objects, sigs) /\ r2_key(rows[i]) = flatKey(rows[i]) /\ rows[i].sha # None
      /\ K \in DOMAIN env.objects /\ \A j \in DOMAIN rows : flatKey(rows[j]) # K
  BY <1>1, OnPage
<1>3. BucketOK(env, objects, sigs) /\ PageOK(move, rows, objects, sigs) /\ RowsOK(env, rows)
  BY DEF ObjInv
<1>4. \A j \in DOMAIN move.page : j \in DOMAIN rows /\ rows[j].dir = "flat" /\ Copied(move.page[j], rows[j], objects, sigs)
  BY <1>3 DEF PageOK
<1>5. objects[K].bytes = rows[i].sha /\ Absent.bytes = None
  BY <1>2 DEF Copied, Absent
<1>6. rows[i].signed => sig = rows[i].sha
  BY <1>2, <1>5 DEF Agrees
<1>7. sigs' = [sigs EXCEPT ![K] = sig]
  BY <1>2 DEF CopySides
<1> DEFINE sgs == sigs'
<1>8. DOMAIN sgs = DOMAIN sigs /\ sgs[K] = sig /\ \A k : k # K => sgs[k] = sigs[k]
  BY <1>2, <1>3, <1>7 DEF BucketOK
<1>9. flatKey(rows[i]) # K
  BY <1>2
<1> HIDE DEF sig, sgs, K
<1>10. ASSUME NEW j \in DOMAIN rows, packageKey(rows[j]) # K
       PROVE  Agrees(rows[j], objects, sgs) /\ \A s : Copied(s, rows[j], objects, sigs) => Copied(s, rows[j], objects, sgs)
  <2>1. sgs[packageKey(rows[j])] = sigs[packageKey(rows[j])] /\ sgs[flatKey(rows[j])] = sigs[flatKey(rows[j])]
    BY <1>2, <1>8, <1>10
  <2> QED
    BY <2>1, SeesItsKeys DEF ObjInv, AllAgree
<1>11. ASSUME NEW j \in DOMAIN rows, j # i, packageKey(rows[j]) = K
       PROVE  Agrees(rows[j], objects, sgs) /\ \A s : Copied(s, rows[j], objects, sigs) => Copied(s, rows[j], objects, sgs)
  <2>1. rows[j].sha # rows[i].sha
    BY <1>2, <1>3, <1>11 DEF RowsOK
  <2>2. Agrees(rows[j], objects, sigs)
    BY DEF ObjInv, AllAgree
  <2>3. objects[K].bytes # rows[j].sha /\ objects[K] # Absent
    BY <1>2, <1>5, <2>1
  <2>4. Agrees(rows[j], objects, sgs)
    BY <1>11, <2>2, <2>3 DEF Agrees
  <2>5. ASSUME NEW s, Copied(s, rows[j], objects, sigs) PROVE Copied(s, rows[j], objects, sgs)
    BY <1>11, <2>3, <2>5 DEF Copied
  <2> QED
    BY <2>4, <2>5
<1>12. Agrees(rows[i], objects, sgs) /\ Copied("key", rows[i], objects, sgs)
  BY <1>2, <1>5, <1>6, <1>8 DEF Agrees, Copied, K
<1>13. AllAgree(rows, objects, sgs)
  BY <1>10, <1>11, <1>12 DEF AllAgree
<1>14. \A e \in Client : Storing(env, client[e], rows, objects, sgs)
  <2>1. \A k : k # packageKey(rows[i]) => objects[k] = objects[k] /\ sgs[k] = sigs[k]
    BY <1>8 DEF K
  <2> QED
    BY <1>2, <2>1, StoresAway
<1>15. /\ move' = [pc |-> "copy", page |-> move'.page, moved |-> move'.moved, arches |-> move'.arches]
       /\ move'.page = [j \in DOMAIN move'.page |-> move'.page[j]]
       /\ Further(i, move.page, move'.page) /\ move'.page[i] = "key"
  BY <1>1, <1>2, <1>3, Stepped
<1>16. \A j \in DOMAIN move.page : j # i => j \in DOMAIN rows /\ rows[j].dir = "flat" /\ Copied(move.page[j], rows[j], objects, sgs)
  BY <1>4, <1>10, <1>11
<1>17. PageOK(move', rows, objects, sgs)
  BY <1>2, <1>12, <1>15, <1>16, PageMoves
<1>18. BucketOK(env, objects, sgs)
  BY <1>3, <1>8 DEF BucketOK
<1> QED
  BY <1>1, <1>3, <1>13, <1>14, <1>17, <1>18 DEF ObjInv, sgs

\* The row's key is written, to its own directory or as a ghost's.
LEMMA SetKeyMoves ==
  ASSUME PoolInv, ObjInv, NEW i, SetKey(i)
  PROVE  ObjInv'
<1>1. /\ env' = env /\ objects' = objects /\ sigs' = sigs /\ client' = client /\ Leave(i, TRUE) /\ move.pc = "copy"
  BY DEF SetKey, bucket, Moves
<1>2. PICK t \in {"own", "ghost"} : /\ rows' = [rows EXCEPT ![i].dir = t]
                                    /\ t = "own" => Moves(i, "key")
                                    /\ t = "ghost" => Moves(i, "ghost")
  BY DEF SetKey
<1>3. /\ i \in DOMAIN rows /\ rows[i].dir = "flat" /\ i \in DOMAIN move.page
      /\ t = "own" => Copied("key", rows[i], objects, sigs)
      /\ t = "ghost" => Copied("ghost", rows[i], objects, sigs)
  BY <1>2, OnPage
<1>4. PageOK(move, rows, objects, sigs) /\ RowsOK(env, rows)
  BY DEF ObjInv
<1> DEFINE ss == rows'
<1>5. DOMAIN ss = DOMAIN rows /\ \A j \in DOMAIN rows : j # i => ss[j] = rows[j]
  BY <1>2
<1>6. /\ ss[i].sha = rows[i].sha /\ ss[i].arch = rows[i].arch /\ ss[i].source = rows[i].source /\ ss[i].file = rows[i].file
      /\ ss[i].signed = rows[i].signed /\ ss[i].dir = t
  <2>1. rows[i] \in Row
    BY <1>3, RowIs
  <2>2. rows[i] = [sha |-> rows[i].sha, source |-> rows[i].source, arch |-> rows[i].arch, file |-> rows[i].file,
                   dir |-> rows[i].dir, signed |-> rows[i].signed, whole |-> rows[i].whole]
    BY <2>1 DEF Row
  <2>3. ss[i] = [rows[i] EXCEPT !.dir = t]
    BY <1>2, <1>3
  <2> QED
    BY <2>2, <2>3
<1> HIDE DEF ss
<1>7. ASSUME NEW j \in DOMAIN rows
      PROVE  /\ ss[j].sha = rows[j].sha /\ ss[j].arch = rows[j].arch /\ (ss[j].signed <=> rows[j].signed)
             /\ packageKey(ss[j]) = packageKey(rows[j]) /\ flatKey(ss[j]) = flatKey(rows[j])
             /\ ss[j].dir = IF j = i THEN t ELSE rows[j].dir
  <2>1. packageKey(ss[i]) = packageKey(rows[i]) /\ flatKey(ss[i]) = flatKey(rows[i])
    BY <1>6 DEF packageKey, flatKey
  <2> QED
    BY <1>5, <1>6, <2>1
<1>8. AllAgree(ss, objects, sigs)
  <2>1. ASSUME NEW j \in DOMAIN ss, j # i PROVE Agrees(ss[j], objects, sigs)
    BY <1>5, <2>1 DEF ObjInv, AllAgree
  <2>2. Agrees(ss[i], objects, sigs)
    BY <1>2, <1>3, <1>7 DEF Agrees, Copied
  <2> QED
    BY <2>1, <2>2 DEF AllAgree
<1>9. RowsOK(env, ss)
  <2>1. \A j \in DOMAIN rows : ss[j].dir = "null" => rows[j].dir = "null"
    BY <1>2, <1>7
  <2> QED
    BY <1>4, <1>5, <1>7, <2>1 DEF RowsOK, SamePlace
<1>10. \A e \in Client : Storing(env, client[e], ss, objects, sigs)
  <2>1. \A j \in DOMAIN rows : /\ ss[j].sha = rows[j].sha /\ ss[j].arch = rows[j].arch /\ (ss[j].signed <=> rows[j].signed)
                               /\ packageKey(ss[j]) = packageKey(rows[j])
                               /\ rows[j].dir = "ghost" => ss[j].dir = "ghost"
    BY <1>3, <1>7
  <2> QED
    BY <1>5, <2>1, StoresOnRows
<1>11. /\ move' = [pc |-> "copy", page |-> move'.page, moved |-> move'.moved, arches |-> move'.arches]
       /\ move'.page = [j \in DOMAIN move'.page |-> move'.page[j]]
       /\ Further(i, move.page, move'.page) /\ i \notin DOMAIN move'.page
  BY <1>1, <1>3, <1>4, Left
<1>12. \A j \in DOMAIN move.page : j # i => j \in DOMAIN ss /\ ss[j].dir = "flat" /\ Copied(move.page[j], ss[j], objects, sigs)
  BY <1>4, <1>5 DEF PageOK
<1>13. PageOK(move', ss, objects, sigs)
  BY <1>11, <1>12, PageMoves
<1> QED
  BY <1>1, <1>8, <1>9, <1>10, <1>13 DEF ObjInv, ss

\* A page is empty when the relayout is not copying.
LEMMA EmptyPage ==
  ASSUME NEW rs, NEW obs, NEW sgs, NEW obt, NEW sgt, NEW m, PageOK(move, rs, obs, sgs), move.pc # "copy", m.pc # "copy",
         m = [pc |-> m.pc, page |-> m.page, moved |-> m.moved, arches |-> m.arches], m.page = move.page
  PROVE  PageOK(m, rs, obt, sgt)
  BY DEF PageOK

LEMMA RenderAllMoves ==
  ASSUME ObjInv, RenderAll
  PROVE  ObjInv'
<1>1. env' = env /\ objects' = objects /\ sigs' = sigs /\ rows' = rows /\ client' = client /\ move.pc = "render"
  BY DEF RenderAll, bucket
<1>2. PageOK(move, rows, objects, sigs)
  BY DEF ObjInv
<1>3. move' = [pc |-> "purge", page |-> move.page, moved |-> move.moved, arches |-> {key[2] : key \in DOMAIN objects}]
  BY <1>2 DEF RenderAll, PageOK
<1>4. PageOK(move', rows, objects, sigs)
  BY <1>1, <1>2, <1>3, EmptyPage
<1> QED
  BY <1>1, <1>4, MoveOnly

\* What goes is of flat directories, when no row needs them.
LEMMA PurgeMoves ==
  ASSUME Orderly, PoolInv, ObjInv, NEW a, Purge(a)
  PROVE  ObjInv'
<1> DEFINE gone == {key \in DOMAIN objects : MayPurge /\ key[1] = Flat /\ key[2] = a}
           obs  == objects'
           sgs  == sigs'
<1>1. /\ env' = env /\ rows' = rows /\ client' = client /\ move.pc = "purge"
      /\ objects' = [key \in DOMAIN objects |-> IF key \in gone THEN Absent ELSE objects[key]]
      /\ sigs' = [key \in DOMAIN sigs |-> IF key \in gone THEN None ELSE sigs[key]]
      /\ move' = IF move.arches = {a} \/ ~MayPurge THEN Parked ELSE [move EXCEPT !.arches = @ \ {a}]
  BY DEF Purge
<1>2. BucketOK(env, objects, sigs) /\ PageOK(move, rows, objects, sigs)
  BY DEF ObjInv
<1>3. gone # {} => UNMOVED = {}
  BY DEF MayPurge
<1>4. \A r : r.source \in Upstream \cup {Factory} => packageKey(r) \notin gone
  BY PoolAssumption DEF packageKey, Flat, Factory
<1> HIDE DEF gone, obs, sgs
<1>5. DOMAIN obs = DOMAIN objects /\ DOMAIN sgs = DOMAIN sigs /\ DOMAIN objects = DOMAIN env.objects /\ DOMAIN sigs = DOMAIN env.objects
      /\ \A k \in DOMAIN objects : obs[k] = (IF k \in gone THEN Absent ELSE objects[k])
      /\ \A q \in DOMAIN objects : sgs[q] = (IF q \in gone THEN None ELSE sigs[q])
  BY <1>1, <1>2 DEF obs, sgs, BucketOK
<1>6. ASSUME NEW r, r.source \in Upstream \cup {Factory}, packageKey(r) \in DOMAIN env.objects
      PROVE  obs[packageKey(r)] = objects[packageKey(r)] /\ sgs[packageKey(r)] = sigs[packageKey(r)]
  BY <1>4, <1>5, <1>6
<1>7. BucketOK(env, obs, sgs)
  <2>1. ASSUME NEW o \in Publishable(env) PROVE OnlyItself(obs[packageKey(o)], o)
    <3>1. o.source \in Upstream \cup {Factory} /\ packageKey(o) \in DOMAIN env.objects
      BY OfferIs DEF PoolInv
    <3> QED
      BY <1>2, <1>6, <3>1 DEF BucketOK
  <2>2. \A k \in DOMAIN obs : obs[k] \in {Absent} \cup Objects
    BY <1>2, <1>5 DEF BucketOK
  <2> QED
    BY <1>5, <2>1, <2>2 DEF BucketOK
<1>8. ASSUME NEW i \in DOMAIN rows PROVE Agrees(rows[i], obs, sgs)
  <2>1. /\ rows[i].source \in Upstream \cup {Factory} /\ rows[i].sha # None /\ Agrees(rows[i], objects, sigs)
        /\ packageKey(rows[i]) \in DOMAIN env.objects /\ flatKey(rows[i]) \in DOMAIN env.objects
    BY RowIs DEF ObjInv, RowsOK, AllAgree
  <2>2. obs[packageKey(rows[i])] = objects[packageKey(rows[i])] /\ sgs[packageKey(rows[i])] = sigs[packageKey(rows[i])]
    BY <1>6, <2>1
  <2>3. CASE gone = {}
    <3>1. obs[flatKey(rows[i])] = objects[flatKey(rows[i])] /\ sgs[flatKey(rows[i])] = sigs[flatKey(rows[i])]
      BY <1>5, <2>1, <2>3
    <3> QED
      BY <2>1, <2>2, <3>1, SeesItsKeys
  <2>4. CASE gone # {}
    <3>1. rows[i].dir \notin {"flat", "null"}
      BY <1>3, <2>4 DEF UNMOVED, Id
    <3>2. obs[flatKey(rows[i])] = objects[flatKey(rows[i])] \/ obs[flatKey(rows[i])].bytes = None
      BY <1>5, <2>1 DEF Absent
    <3> QED
      BY <2>1, <2>2, <3>1, <3>2 DEF Agrees
  <2> QED
    BY <2>3, <2>4
<1>9. ASSUME NEW e \in Client PROVE Storing(env, client[e], rows, obs, sgs)
  <2>1. Storing(env, client[e], rows, objects, sigs)
    BY DEF ObjInv
  <2>2. CASE client[e].pc = "idle"
    BY <2>2 DEF Storing
  <2>3. CASE client[e].pc # "idle"
    <3>1. client[e].offer \in Publishable(env)
      BY <2>1, <2>3 DEF Storing
    <3>2. client[e].offer.source \in Upstream \cup {Factory} /\ packageKey(client[e].offer) \in DOMAIN env.objects
      BY <3>1, OfferIs DEF PoolInv
    <3> QED
      BY <1>6, <2>1, <3>2, StoresOn
  <2> QED
    BY <2>2, <2>3
<1>10. PageOK(move', rows, obs, sgs)
  <2>1. CASE move' = Parked
    <3>1. move' = [pc |-> "idle", page |-> <<>>, moved |-> FALSE, arches |-> {}]
      BY <2>1 DEF Parked
    <3> QED
      BY <3>1, ParkedOK
  <2>2. CASE move' = [move EXCEPT !.arches = @ \ {a}]
    <3>1. move' = [pc |-> "purge", page |-> move.page, moved |-> move.moved, arches |-> move.arches \ {a}]
      BY <1>1, <1>2, <2>2 DEF PageOK
    <3> QED
      BY <1>1, <1>2, <3>1, EmptyPage
  <2> QED
    BY <1>1, <2>1, <2>2
<1>11. RowsOK(env, rows) /\ Turns(client)
  BY DEF ObjInv
<1> QED
  BY <1>1, <1>7, <1>8, <1>9, <1>10, <1>11 DEF ObjInv, AllAgree, obs, sgs

LEMMA MoveEndsMoves ==
  ASSUME ObjInv, MoveEnds
  PROVE  ObjInv'
<1>1. env' = env /\ objects' = objects /\ sigs' = sigs /\ rows' = rows /\ client' = client
  BY DEF MoveEnds, bucket
<1>2. move' = [pc |-> "idle", page |-> <<>>, moved |-> FALSE, arches |-> {}]
  BY DEF MoveEnds, Parked
<1>3. PageOK(move', rows, objects, sigs)
  BY <1>2, ParkedOK
<1> QED
  BY <1>1, <1>3, MoveOnly

LEMMA CopyingMoves ==
  ASSUME Orderly, PoolInv, ObjInv, Copying \/ MoveEnds
  PROVE  ObjInv'
  BY CopyPageMoves, CopyObjectMoves, CopyPutMoves, CopySidesMoves, SetKeyMoves, RenderAllMoves, PurgeMoves, MoveEndsMoves
     DEF Copying

-----------------------------------------------------------------------------
(* What pacman finds.                                                      *)

\* What bucket and index rest on, and what a step that is not theirs leaves.
quiet == <<env, objects, sigs, rows, client, move>>

\* Every step is of a publish, of the relayout, or leaves bucket and index.
LEMMA StepIs ==
  ASSUME PoolInv, SealInv, [Next]_vars
  PROVE  \/ \E c \in Client : Publishes(c) \/ \E o \in Publishable(env) : Ask(c, o)
         \/ Copying \/ MoveEnds
         \/ UNCHANGED quiet
<1>1. ASSUME NEW t \in BuildId, Lapse(t) \/ Approve(t) \/ Reject(t) PROVE UNCHANGED quiet
  BY <1>1 DEF Lapse, Approve, Reject, poolVars, bucket, quiet
<1>2. ASSUME NEW t \in BuildId, NEW b \in env.builds[t].bytes, Lease(t, b) \/ StagingPut(t, b) \/ StagingStored(t, b) \/ Staged(t, b)
      PROVE  UNCHANGED quiet
  BY <1>2 DEF Lease, StagingPut, StagingStored, Staged, poolVars, bucket, quiet
<1>3. ASSUME NEW c \in Client, Report(c) \/ Attest(c) \/ AttestLost(c) PROVE UNCHANGED quiet
  BY <1>3 DEF Report, Attest, AttestLost, poolVars, bucket, quiet
<1>4. ASSUME NEW c \in Client, NEW t \in BuildId, NEW b \in env.builds[t].bytes, Carry(c, t, b)
      PROVE  \E o \in Publishable(env) : Ask(c, o)
  <2>1. t \in DOMAIN env.builds
    BY DEF SealInv, BuildId
  <2>2. Built(b) \in Publishable(env)
    BY <2>1 DEF Built, Publishable
  <2> QED
    BY <1>4, <2>2 DEF Carry
<1>5. ASSUME NEW c \in Client, Advance(c) PROVE Publishes(c)
  BY <1>5 DEF Advance
<1>6. CASE Secures
  BY <1>6 DEF Secures, Begin, Match, Prune, View, FastTrack, RunEnds, Publish, PutAdvisory, PutMatch, Visit, Expire, poolVars, bucket, quiet
<1>7. CASE UNCHANGED vars
  BY <1>7 DEF vars, poolVars, bucket, quiet
<1>8. CASE SealNext
  BY <1>1, <1>2, <1>3, <1>4, <1>5, <1>8 DEF SealNext
<1> QED
  BY <1>6, <1>7, <1>8 DEF Next

LEMMA ObjectsStart == Orderly /\ Init => ObjInv
<1> SUFFICES ASSUME Orderly, Init PROVE ObjInv
  OBVIOUS
<1>1. /\ env \in Deployments /\ objects = env.objects /\ sigs = env.sigs /\ rows = env.rows
      /\ client = [c \in Client |-> Resting] /\ move = Parked
  BY DEF Init, PoolInit
<1>2. ToldApart(env) /\ NullsAlone(env) /\ StartsSound(env)
  BY <1>1 DEF Orderly
<1>3. BucketOK(env, objects, sigs)
  BY <1>1, <1>2 DEF BucketOK, StartsSound, ToldApart, Objects
<1>4. RowsOK(env, rows) /\ AllAgree(rows, objects, sigs)
  BY <1>1, <1>2 DEF RowsOK, StartsSound, NullsAlone, AllAgree
<1>5. \A c \in Client : Storing(env, client[c], rows, objects, sigs)
  BY <1>1, RestingStores
<1>6. Turns(client)
  BY <1>1 DEF Turns, Rival, Resting
<1>7. PageOK(move, rows, objects, sigs)
  <2>1. move = [pc |-> "idle", page |-> <<>>, moved |-> FALSE, arches |-> {}]
    BY <1>1 DEF Parked
  <2> QED
    BY <2>1, ParkedOK
<1> QED
  BY <1>3, <1>4, <1>5, <1>6, <1>7 DEF ObjInv

LEMMA ObjectsKeep ==
  ASSUME Orderly, PoolInv, SealInv, ObjInv, [Next]_vars
  PROVE  ObjInv'
<1>1. CASE UNCHANGED quiet
  BY <1>1 DEF quiet, ObjInv
<1> QED
  BY <1>1, StepIs, PublishesStores, AskStores, CopyingMoves

\* A row stays where it is, and the row of its build.
Stay(rs, ss) == \A i \in DOMAIN rs : /\ i \in DOMAIN ss /\ ss[i].sha = rs[i].sha
                                     /\ packageKey(ss[i]) = packageKey(rs[i]) /\ flatKey(ss[i]) = flatKey(rs[i])

\* A row with another flag or directory, or none.
Other(q, r) ==
    \/ q = r
    \/ \E b \in BOOLEAN : q = [r EXCEPT !.signed = b]
    \/ \E dir : q = [r EXCEPT !.dir = dir]
    \/ q = [r EXCEPT !.whole = TRUE]

LEMMA RowsStay ==
  ASSUME PoolInv, SealInv, [Next]_vars
  PROVE  Stay(rows, rows')
<1>1. rows \in Seq(Row) /\ DOMAIN rows = 1 .. Len(rows) /\ Len(rows) \in Nat
  BY DEF PoolInv
<1>2. ASSUME NEW ss, \A i \in DOMAIN rows : i \in DOMAIN ss /\ Other(ss[i], rows[i])
      PROVE  Stay(rows, ss)
  <2>1. ASSUME NEW i \in DOMAIN rows
        PROVE  ss[i].sha = rows[i].sha /\ ss[i].source = rows[i].source /\ ss[i].arch = rows[i].arch /\ ss[i].file = rows[i].file
    <3>1. rows[i] \in Row
      BY <1>1
    <3>2. rows[i] = [sha |-> rows[i].sha, source |-> rows[i].source, arch |-> rows[i].arch, file |-> rows[i].file,
                     dir |-> rows[i].dir, signed |-> rows[i].signed, whole |-> rows[i].whole]
      BY <3>1 DEF Row
    <3> QED
      BY <1>2, <3>2 DEF Other
  <2>2. \A i \in DOMAIN rows : i \in DOMAIN ss
    BY <1>2
  <2>3. \A i \in DOMAIN rows : packageKey(ss[i]) = packageKey(rows[i]) /\ flatKey(ss[i]) = flatKey(rows[i])
    BY <2>1 DEF packageKey, flatKey
  <2> QED
    BY <2>1, <2>2, <2>3 DEF Stay
<1>3. ASSUME rows' = rows PROVE Stay(rows, rows')
  BY <1>3 DEF Stay
<1>4. ASSUME NEW c \in Client, Flag(c) PROVE Stay(rows, rows')
  <2>1. ASSUME NEW i \in DOMAIN rows PROVE i \in DOMAIN rows' /\ Other(rows'[i], rows[i])
    <3> DEFINE s == rows[i].signed \/ (rows[i].sha = Offer(c).sha /\ rows[i].arch = Offer(c).arch)
    <3>1. rows'[i] = [rows[i] EXCEPT !.signed = s]
      BY <1>4 DEF Flag, Id
    <3>2. s \in BOOLEAN
      BY RowIs DEF Row
    <3>3. i \in DOMAIN rows'
      BY <1>4 DEF Flag, Id
    <3> HIDE DEF s
    <3> QED
      BY <3>1, <3>2, <3>3 DEF Other
  <2> QED
    BY <1>2, <2>1
<1>5. ASSUME NEW c \in Client, Index(c) PROVE Stay(rows, rows')
  <2>1. CASE rows' = rows
    BY <1>3, <2>1
  <2>2. ASSUME NEW r, rows' = Append(rows, r) PROVE Stay(rows, rows')
    <3>1. \A i \in DOMAIN rows : i \in DOMAIN rows' /\ Other(rows'[i], rows[i])
      BY <1>1, <2>2 DEF Other
    <3> QED
      BY <1>2, <3>1
  <2>3. rows' = rows \/ \E r : rows' = Append(rows, r)
    BY <1>5 DEF Index
  <2> QED
    BY <2>1, <2>2, <2>3
<1>6. ASSUME NEW c \in Client, Complete(c) PROVE Stay(rows, rows')
  <2> DEFINE n == LeastOf(IdsOf(Offer(c).sha))
  <2>1. rows' = [rows EXCEPT ![n].whole = TRUE]
    BY <1>6 DEF Complete
  <2> HIDE DEF n
  <2>2. \A i \in DOMAIN rows : i \in DOMAIN rows' /\ Other(rows'[i], rows[i])
    BY <2>1 DEF Other
  <2> QED
    BY <1>2, <2>2
<1>7. ASSUME CopyPage PROVE Stay(rows, rows')
  <2>1. \A i \in DOMAIN rows : i \in DOMAIN rows' /\ Other(rows'[i], rows[i])
    BY <1>7 DEF CopyPage, Id, Other
  <2> QED
    BY <1>2, <2>1
<1>8. ASSUME NEW i, SetKey(i) PROVE Stay(rows, rows')
  <2>1. PICK s : rows' = [rows EXCEPT ![i].dir = s]
    BY <1>8 DEF SetKey
  <2>2. \A j \in DOMAIN rows : j \in DOMAIN rows' /\ Other(rows'[j], rows[j])
    BY <2>1 DEF Other
  <2> QED
    BY <1>2, <2>2
<1>9. ASSUME NEW c \in Client, Publishes(c) \/ \E o \in Publishable(env) : Ask(c, o) PROVE Stay(rows, rows')
  <2>1. Flag(c) \/ Index(c) \/ Complete(c) \/ rows' = rows
    BY <1>9 DEF Publishes, Ask, FindObject, Put, Sign, PutSig, Pin, ClientEnds
  <2> QED
    BY <1>3, <1>4, <1>5, <1>6, <2>1
<1>10. ASSUME Copying \/ MoveEnds PROVE Stay(rows, rows')
  <2>1. CopyPage \/ (\E i \in Id : SetKey(i)) \/ rows' = rows
    BY <1>10 DEF Copying, MoveEnds, CopyObject, CopyPut, CopySides, RenderAll, Purge
  <2> QED
    BY <1>3, <1>7, <1>8, <2>1
<1>11. UNCHANGED quiet => rows' = rows
  BY DEF quiet
<1> QED
  BY <1>3, <1>9, <1>10, <1>11, StepIs

\* What a step does to the objects of a row whose bytes there are: its own keeps
\* them or gets them, and the flat one is kept while a row has not moved.
LEMMA BytesStay ==
  ASSUME Orderly, PoolInv, SealInv, ObjInv, [Next]_vars, NEW i \in DOMAIN rows, rows[i].dir # "ghost",
         NEW K, K = packageKey(rows[i]), NEW F, F = flatKey(rows[i]),
         objects[K].bytes = rows[i].sha \/ (objects[K] = Absent /\ objects[F].bytes = rows[i].sha /\ UNMOVED # {})
  PROVE  \/ objects'[K].bytes = rows[i].sha
         \/ objects'[K] = Absent /\ objects'[F].bytes = rows[i].sha
<1>1. /\ rows[i].sha # None /\ rows[i].source \in Upstream \cup {Factory}
      /\ K \in DOMAIN objects /\ F \in DOMAIN objects /\ BucketOK(env, objects, sigs)
  BY RowIs DEF ObjInv, RowsOK, BucketOK
<1>2. CASE objects' = objects
  BY <1>2
<1>3. ASSUME NEW c \in Client, Put(c)
      PROVE  objects'[K] = objects[K] /\ objects'[F] = objects[F]
  <2> DEFINE o == client[c].offer
  <2>1. o \in Publishable(env) /\ Free(o, rows)
    BY <1>3 DEF Put, At, ObjInv, Storing
  <2>2. packageKey(o) # K
    BY <2>1 DEF Free, SamePlace
  <2>3. packageKey(o) # F
    <3>1. o.source \in Upstream \cup {Factory}
      BY <2>1, OfferIs DEF PoolInv
    <3> QED
      BY <3>1, Keys
  <2>4. objects' = [objects EXCEPT ![packageKey(o)] = [bytes |-> o.sha, sum |-> o.sha \notin Large]]
    BY <1>3 DEF Put, Offer
  <2> QED
    BY <2>2, <2>3, <2>4
<1>4. ASSUME NEW j, CopyPut(j), Copies(j)
      PROVE  \/ objects'[K] = objects[K] /\ objects'[F] = objects[F]
             \/ objects'[K].bytes = rows[i].sha
  <2> DEFINE L  == packageKey(rows[j])
             it == [bytes |-> objects[flatKey(rows[j])].bytes, sum |-> TRUE]
  <2>1. Moves(j, "copy")
    BY <1>4 DEF CopyPut
  <2>2. /\ j \in DOMAIN rows /\ Copied("copy", rows[j], objects, sigs) /\ r2_key(rows[j]) = flatKey(rows[j]) /\ F # L
    BY <2>1, OnPage
  <2>3. objects' = [objects EXCEPT ![L] = it]
    BY <1>4, <2>2 DEF CopyPut
  <2>4. CASE L # K
    BY <2>2, <2>3, <2>4
  <2>5. CASE L = K
    <3>1. flatKey(rows[j]) = F
      BY <1>1, <2>5, Keys
    <3>2. objects[F].bytes = rows[i].sha
      BY <1>1, <2>2, <2>5, <3>1 DEF Copied, Absent
    <3>3. objects'[K] = it /\ it.bytes = objects[F].bytes
      BY <1>1, <2>3, <2>5, <3>1
    <3> QED
      BY <3>2, <3>3
  <2> QED
    BY <2>4, <2>5
<1>5. ASSUME NEW a, Purge(a)
      PROVE  objects'[K] = objects[K] /\ (UNMOVED # {} => objects'[F] = objects[F])
  <2> DEFINE gone == {key \in DOMAIN objects : MayPurge /\ key[1] = Flat /\ key[2] = a}
  <2>1. objects' = [key \in DOMAIN objects |-> IF key \in gone THEN Absent ELSE objects[key]]
    BY <1>5 DEF Purge
  <2>2. K \notin gone
    BY <1>1, PoolAssumption DEF packageKey, Flat, Factory
  <2>3. UNMOVED # {} => gone = {}
    BY DEF MayPurge
  <2> HIDE DEF gone
  <2> QED
    BY <1>1, <2>1, <2>2, <2>3
<1>6. ASSUME NEW c \in Client, Publishes(c) \/ \E o \in Publishable(env) : Ask(c, o)
      PROVE  Put(c) \/ objects' = objects
  BY <1>6 DEF Publishes, Ask, FindObject, Sign, PutSig, Flag, Index, Complete, Pin, ClientEnds, bucket
<1>7. ASSUME Copying \/ MoveEnds
      PROVE  (\E j : CopyPut(j) /\ Copies(j)) \/ (\E a : Purge(a)) \/ objects' = objects
  BY <1>7 DEF Copying, MoveEnds, CopyPage, CopyObject, CopyPut, CopySides, SetKey, RenderAll, bucket
<1>8. UNCHANGED quiet => objects' = objects
  BY DEF quiet
<1>9. \/ objects'[K] = objects[K] /\ (objects'[F] = objects[F] \/ UNMOVED = {})
      \/ objects'[K].bytes = rows[i].sha
  BY <1>3, <1>4, <1>5, <1>6, <1>7, <1>8, StepIs
<1> QED
  BY <1>1, <1>9 DEF Absent

\* A row that can be fetched has its bytes, in one directory or the other.
LEMMA FetchedIs ==
  ASSUME PoolInv, ObjInv, NEW i \in Id, Fetched(i) = rows[i].sha
  PROVE  /\ rows[i].dir # "ghost"
         /\ \/ objects[packageKey(rows[i])].bytes = rows[i].sha
            \/ /\ objects[packageKey(rows[i])] = Absent /\ objects[flatKey(rows[i])].bytes = rows[i].sha
               /\ UNMOVED # {}
<1>1. rows[i].sha # None /\ Agrees(rows[i], objects, sigs)
  BY RowIs DEF ObjInv, AllAgree, Id
<1> QED
  BY <1>1 DEF Fetched, Agrees

\* Whatever upstream rebuilds, jobs die and are tried again: a row that points
\* into its source's directory names an object with its own bytes, and if it is
\* said to be signed a signature of them is beside it, of every deployment whose
\* publishers take turns and whose objects are told apart (PoolObjects' property).
THEOREM RowsHaveTheirBytes == ASSUME Orderly PROVE Spec => []RowsNameTheirBytes
<1>1. Init => IInv /\ ObjInv
  BY InitHolds, ObjectsStart
<1>2. IInv /\ ObjInv /\ [Next]_vars => (IInv /\ ObjInv)'
  BY NextKeeps, ObjectsKeep DEF IInv
<1>3. ObjInv => RowsNameTheirBytes
  BY DEF ObjInv, AllAgree, Agrees, RowsNameTheirBytes, Id
<1> QED
  BY <1>1, <1>2, <1>3, PTL DEF Spec

\* What pacman can fetch it can fetch after every step of the relayout, the
\* syncs and the publishes, of the same deployments (PoolObjects' property).
THEOREM FetchedStaysFetchable == ASSUME Orderly PROVE Spec => FetchableStays
<1> DEFINE Keeps == \A i \in Id : Fetched(i) = rows[i].sha => Fetched(i)' = rows[i].sha
<1>1. Init => IInv /\ ObjInv
  BY InitHolds, ObjectsStart
<1>2. IInv /\ ObjInv /\ [Next]_vars => (IInv /\ ObjInv)'
  BY NextKeeps, ObjectsKeep DEF IInv
<1>3. IInv /\ ObjInv /\ IInv' /\ ObjInv' /\ [Next]_vars => [Keeps]_poolVars
  <2> SUFFICES ASSUME PoolInv, SealInv, ObjInv, PoolInv', ObjInv', [Next]_vars, NEW i \in Id, Fetched(i) = rows[i].sha
               PROVE  Fetched(i)' = rows[i].sha
    BY DEF IInv
  <2> DEFINE K == packageKey(rows[i])
             F == flatKey(rows[i])
  <2>1. /\ i \in DOMAIN rows /\ i \in DOMAIN rows' /\ rows'[i].sha = rows[i].sha
        /\ packageKey(rows'[i]) = K /\ flatKey(rows'[i]) = F /\ rows[i].sha # None
    BY RowsStay, RowIs DEF Stay, Id
  <2>2. objects'[K].bytes = rows[i].sha \/ (objects'[K] = Absent /\ objects'[F].bytes = rows[i].sha)
    <3>1. /\ rows[i].dir # "ghost"
          /\ objects[K].bytes = rows[i].sha \/ (objects[K] = Absent /\ objects[F].bytes = rows[i].sha /\ UNMOVED # {})
      BY FetchedIs
    <3> QED
      BY <2>1, <3>1, BytesStay
  <2>3. Agrees(rows'[i], objects', sigs')
    BY <2>1 DEF ObjInv, AllAgree
  <2>4. rows'[i].dir \in {"own", "flat", "ghost", "null"}
    <3>1. rows'[i] \in Row
      BY <2>1 DEF PoolInv
    <3> QED
      BY <3>1 DEF Row
  <2>5. Fetched(i)' = IF objects'[K] # Absent THEN objects'[K].bytes ELSE IF UNMOVED' # {} THEN objects'[F].bytes ELSE None
    BY <2>1 DEF Fetched
  <2>6. CASE objects'[K].bytes = rows[i].sha
    BY <2>1, <2>5, <2>6 DEF Absent
  <2>7. CASE objects'[K] = Absent /\ objects'[F].bytes = rows[i].sha
    <3>1. rows'[i].dir \in {"flat", "null"}
      BY <2>1, <2>3, <2>4, <2>7 DEF Agrees, Absent
    <3>2. i \in UNMOVED'
      BY <2>1, <3>1 DEF UNMOVED, Id
    <3> QED
      BY <2>5, <2>7, <3>2
  <2> QED
    BY <2>2, <2>6, <2>7
<1> QED
  BY <1>1, <1>2, <1>3, PTL DEF Spec, FetchableStays
=============================================================================
